---------------------------- MODULE VoiceService ----------------------------
(***************************************************************************)
(* Who may use the microphone, the loudspeaker, the NPU and the camera:    *)
(* the resident listening service (audio_product.inc), the foreground turn *)
(* of `aipet ask' (product_runtime.cxx), the camera jobs                   *)
(* (a733_camera_live.c) and the audio commands of the consoles.            *)
(*                                                                         *)
(* A device whose worker could not be joined (-EOWNERDEAD) must never be   *)
(* used again until reboot: its owner stops for ever where it is.  A step  *)
(* is one critical section or one call of a device or of the network whose *)
(* own retries and deadlines are inside.  What runs under                  *)
(* product_start_lock is one step: all it can meet is an atomic of         *)
(* another task, set as well a moment later or earlier.  product_turn_lock *)
(* is left out: the lease and the service exclude each other (Exclusive).  *)
(***************************************************************************)
EXTENDS Naturals

CONSTANTS
  Consoles,   \* the NSH and SSH sessions
  Ops,        \* commands they give, a subset of AllOps
  Modes,      \* settings of `aipet mode', a subset of AllModes
  MaxToken,   \* request_serial wraps after this one: 2^32 - 1
  Hazards     \* what goes wrong outside, a subset of AllHazards

AllOps == {"run", "stop", "mode", "ask", "camera", "live-stop", "speak"}
AllModes == {"local", "cloud", "auto"}
AllHazards == {"retain", "stuck", "cleanup", "cloud", "error", "spawn"}
svc == "svc"
none == "none"

ASSUME TasksAssumption == svc \notin Consoles /\ none \notin Consoles
ASSUME ChoicesAssumption == Ops \subseteq AllOps /\ Modes \subseteq AllModes /\ Hazards \subseteq AllHazards
ASSUME TokenAssumption == MaxToken \in Nat \ {0}

Tasks == Consoles \cup {svc}

VARIABLES
  operation_lock,                                          \* its owner
  service_active, service_stop, service_pid,               \* the service
  session, consent, route,     \* its recogniser, its desktop consent, product_current_route
  product_manual_owner,                                    \* the foreground turn's lease
  audio_fault,                                             \* I2S is in quarantine
  worker, cleanup, stop_requested, identify_job, request_token,   \* the camera job
  mode, turn_mode,                              \* the saved setting, and the turn's copy
  \* each task: its place, the code it carries there, and its request's token
  pc, rc, token

serviceVars == <<service_active, service_stop, service_pid, session, consent, route>>
jobVars     == <<worker, cleanup, stop_requested, identify_job, request_token>>
modeVars    == <<mode, turn_mode>>
taskVars    == <<pc, rc, token>>
vars == <<operation_lock, serviceVars, product_manual_owner, audio_fault, jobVars, modeVars, taskVars>>

-----------------------------------------------------------------------------
\* a733_camera_live_blocked()
VisionBusy == worker # "idle" \/ cleanup

\* a733_product_voice_reserved(), as task t sees it
Reserved(t) ==
  \/ audio_fault
  \/ service_active /\ service_pid # t
  \/ product_manual_owner \notin {none, t}

\* local_cancel and manual_cancel: a SIGINT may be pending at a console any time.
Cancelled(t) == IF t = svc THEN {service_stop} ELSE BOOLEAN

Goto(t, l) == pc' = [pc EXCEPT ![t] = l]
GotoWith(t, l, r) == Goto(t, l) /\ rc' = [rc EXCEPT ![t] = r]

Init ==
  /\ operation_lock = none
  /\ service_active = FALSE /\ service_stop = FALSE /\ service_pid = none
  /\ session = FALSE /\ consent = FALSE /\ route = "none"
  /\ product_manual_owner = none /\ audio_fault = FALSE
  /\ worker = "idle" /\ cleanup = FALSE /\ stop_requested = FALSE
  /\ identify_job = FALSE /\ request_token = 0
  /\ mode \in Modes /\ turn_mode = mode
  /\ pc = [t \in Tasks |-> IF t = svc THEN "none" ELSE "idle"]
  /\ rc = [t \in Tasks |-> "ok"] /\ token = [t \in Tasks |-> 0]

-----------------------------------------------------------------------------
(* aipet run and aipet stop                                                 *)

\* Mutant: the lease of a foreground turn is not looked at.
MayStartOver == ~service_active /\ ~audio_fault /\ ~VisionBusy

\* What service start looks at under the locks.
MayStart == ~service_active /\ ~audio_fault /\ product_manual_owner = none /\ ~VisionBusy

\* A start resets the globals and spawns the worker; a spawn that fails undoes
\* only service_active.
Run(c) ==
  /\ pc[c] = "idle" /\ "run" \in Ops /\ MayStart
  /\ service_stop' = FALSE /\ service_pid' = none
  /\ \/ service_active' = TRUE /\ Goto(svc, "born")
     \/ "spawn" \in Hazards /\ UNCHANGED <<service_active, pc>>
  /\ UNCHANGED <<operation_lock, session, consent, route, product_manual_owner, audio_fault,
                 jobVars, modeVars, rc, token>>

Stop(c) ==
  /\ pc[c] = "idle" /\ "stop" \in Ops
  /\ service_stop' = TRUE
  /\ UNCHANGED <<operation_lock, service_active, service_pid, session, consent, route,
                 product_manual_owner, audio_fault, jobVars, modeVars, taskVars>>

\* aipet mode looks for a service or a camera job, and saves later.
Mode(c) ==
  /\ pc[c] = "idle" /\ "mode" \in Ops
  /\ ~service_active /\ ~VisionBusy
  /\ Goto(c, "save")
  /\ UNCHANGED <<operation_lock, serviceVars, product_manual_owner, audio_fault, jobVars,
                 modeVars, rc, token>>

ModeSaved(c) ==
  /\ pc[c] = "save" /\ Goto(c, "idle")
  /\ mode' \in Modes
  /\ UNCHANGED <<operation_lock, serviceVars, product_manual_owner, audio_fault, jobVars,
                 turn_mode, rc, token>>

-----------------------------------------------------------------------------
(* The worker of the service: product_voice_main                            *)

svcFrame == <<service_stop, product_manual_owner, jobVars, modeVars, token>>

\* quarantine(): withdraw the consent, keep everything, stop for ever.
Quarantine ==
  /\ GotoWith(svc, "quarantine", "ok") /\ audio_fault' = TRUE /\ consent' = FALSE

Stays == UNCHANGED <<rc, audio_fault, consent>>

\* The worker claims the service and gives the desktop consent, unless it cannot
\* read its settings.
Claim ==
  /\ pc[svc] = "born" /\ service_active /\ service_pid = none
  /\ service_pid' = svc
  /\ \/ consent' = TRUE /\ Goto(svc, "loop")
     \/ "error" \in Hazards /\ Goto(svc, "exit") /\ UNCHANGED consent
  /\ UNCHANGED <<operation_lock, service_active, session, route, audio_fault, rc, svcFrame>>

\* product_choose, with the mode frozen for the turn: `cloud' without a cloud waits;
\* `auto' without one, or in the cooldown after a failure, falls back.
Loop ==
  /\ pc[svc] = "loop"
  /\ \/ service_stop /\ Goto(svc, "exit") /\ UNCHANGED <<route, turn_mode>>
     \/ /\ ~service_stop /\ turn_mode' = mode
        /\ \/ mode # "local" /\ route' = "cloud" /\ Goto(svc, "open")
           \/ mode # "cloud" /\ route' = "local" /\ Goto(svc, "open")
           \/ mode = "cloud" /\ "cloud" \in Hazards /\ route' = "cloud" /\ Goto(svc, "pause")
  /\ Stays
  /\ UNCHANGED <<operation_lock, service_active, service_stop, service_pid, session,
                 product_manual_owner, jobVars, mode, token>>

\* product_recovery_pause
Pause ==
  /\ pc[svc] = "pause"
  /\ Goto(svc, IF service_stop THEN "exit" ELSE "loop")
  /\ Stays
  /\ UNCHANGED <<operation_lock, service_active, service_pid, session, route, svcFrame>>

\* open_local or close_session
Open ==
  /\ pc[svc] = "open"
  /\ \/ session' = (route = "local") /\ Goto(svc, "listen") /\ Stays
     \/ "retain" \in Hazards /\ (route = "local" \/ session) /\ Quarantine /\ UNCHANGED session
     \/ /\ route = "local" /\ "error" \in Hazards
        /\ Goto(svc, IF turn_mode = "local" THEN "exit" ELSE "pause") /\ Stays /\ UNCHANGED session
     \/ route = "local" /\ service_stop /\ Goto(svc, "exit") /\ Stays /\ UNCHANGED session
  /\ UNCHANGED <<operation_lock, service_active, service_pid, route, svcFrame>>

Listen ==
  /\ pc[svc] = "listen"
  /\ \/ operation_lock = none /\ operation_lock' = svc /\ Goto(svc, "capture")
     \/ operation_lock # none /\ Goto(svc, "exit") /\ UNCHANGED operation_lock
  /\ Stays
  /\ UNCHANGED <<service_active, service_pid, session, route, svcFrame>>

\* One utterance: heard; too long or empty; a stop; a device error; or a consumer
\* that could not be joined.
Capture ==
  /\ pc[svc] = "capture" /\ operation_lock' = none
  /\ \/ ~service_stop /\ pc' \in {[pc EXCEPT ![svc] = "recognise"], [pc EXCEPT ![svc] = "loop"]} /\ Stays
     \/ (service_stop \/ "error" \in Hazards) /\ Goto(svc, "exit") /\ Stays
     \/ "retain" \in Hazards /\ Quarantine
  /\ UNCHANGED <<service_active, service_pid, session, route, svcFrame>>

\* Mutant: a cloud that fails falls back in every mode.
FallsBackAlways == TRUE

\* Re-recognising the sound locally requires explicit AUTO, never CLOUD.
FallsBack == turn_mode = "auto" /\ ~service_stop

\* The text of the utterance.  A cloud that fails hands the same sound to the
\* local recogniser, or the utterance is dropped.
Recognise ==
  /\ pc[svc] = "recognise"
  /\ \/ Goto(svc, "dispatch") /\ Stays /\ UNCHANGED route
     \/ service_stop /\ Goto(svc, "exit") /\ Stays /\ UNCHANGED route
     \/ /\ route = "cloud" /\ "cloud" \in Hazards
        /\ \/ /\ FallsBack /\ route' = "local"
              /\ \/ pc' \in {[pc EXCEPT ![svc] = "dispatch"], [pc EXCEPT ![svc] = "pause"]} /\ Stays
                 \/ "retain" \in Hazards /\ Quarantine
           \/ ~FallsBack /\ Goto(svc, "pause") /\ Stays /\ UNCHANGED route
  /\ UNCHANGED <<operation_lock, service_active, service_pid, session, svcFrame>>

\* close_session() before a question about the camera's view
CloseSession == session' = FALSE

\* The last look at the stop, and the kind of the question: no ASR/vocoder lease
\* during camera NPU work.
Dispatch ==
  /\ pc[svc] = "dispatch"
  /\ \/ service_stop /\ Goto(svc, "exit") /\ Stays /\ UNCHANGED session
     \/ ~service_stop /\ Goto(svc, "intent") /\ Stays /\ UNCHANGED session
     \/ ~service_stop /\ CloseSession /\ Goto(svc, "identify") /\ Stays
     \/ ~service_stop /\ session /\ "retain" \in Hazards /\ CloseSession /\ Quarantine
  /\ UNCHANGED <<operation_lock, service_active, service_pid, route, svcFrame>>

\* What the loop makes of the turn's code.
SvcTurnEnds ==
  /\ pc[svc] = "ended"
  /\ \/ rc[svc] = "ownerdead" /\ Quarantine
     \/ rc[svc] = "cancelled" /\ GotoWith(svc, "exit", "ok") /\ UNCHANGED <<audio_fault, consent>>
     \/ rc[svc] \in {"ok", "error"} /\ GotoWith(svc, "loop", "ok") /\ UNCHANGED <<audio_fault, consent>>
  /\ UNCHANGED <<operation_lock, service_active, service_pid, session, route, svcFrame>>

\* close_session, disarm, product_screen_close; only then is the service over.
Exit ==
  /\ pc[svc] = "exit"
  /\ \/ /\ Goto(svc, "none") /\ UNCHANGED <<rc, audio_fault>>
        /\ session' = FALSE /\ consent' = FALSE /\ route' = "none" /\ service_active' = FALSE
     \/ "retain" \in Hazards /\ session' = FALSE /\ Quarantine /\ UNCHANGED <<service_active, route>>
  /\ UNCHANGED <<operation_lock, service_pid, svcFrame>>

-----------------------------------------------------------------------------
(* aipet ask: one turn in the foreground under a lease                      *)

\* audio_product_manual_begin; a route that cannot be had gives it straight back.
Ask(c) ==
  /\ pc[c] = "idle" /\ "ask" \in Ops
  /\ ~audio_fault /\ ~service_active /\ product_manual_owner = none /\ ~VisionBusy
  /\ product_manual_owner' = c
  /\ pc' \in {[pc EXCEPT ![c] = "intent"], [pc EXCEPT ![c] = "identify"]}
  /\ UNCHANGED <<operation_lock, serviceVars, audio_fault, jobVars, modeVars, rc, token>>

\* Mutant: the lease is given back whatever the turn left behind.
AskEndsAlways(c) ==
  /\ pc[c] = "ended" /\ GotoWith(c, "idle", "ok") /\ product_manual_owner' = none
  /\ UNCHANGED <<operation_lock, serviceVars, audio_fault, jobVars, modeVars, token>>

\* Mutant: a turn that failed forgets to give the lease back.
AskEndsForgets(c) ==
  /\ pc[c] = "ended"
  /\ \/ rc[c] = "ownerdead" /\ GotoWith(c, "quarantine", "ok") /\ UNCHANGED product_manual_owner
     \/ rc[c] \in {"error", "cancelled"} /\ GotoWith(c, "idle", "ok") /\ UNCHANGED product_manual_owner
     \/ rc[c] = "ok" /\ GotoWith(c, "idle", "ok") /\ product_manual_owner' = none
  /\ UNCHANGED <<operation_lock, serviceVars, audio_fault, jobVars, modeVars, token>>

\* The lease is given back, or kept for ever by a task that keeps its devices.
AskEnds(c) ==
  /\ pc[c] = "ended"
  /\ \/ rc[c] = "ownerdead" /\ GotoWith(c, "quarantine", "ok") /\ UNCHANGED product_manual_owner
     \/ rc[c] # "ownerdead" /\ GotoWith(c, "idle", "ok") /\ product_manual_owner' = none
  /\ UNCHANGED <<operation_lock, serviceVars, audio_fault, jobVars, modeVars, token>>

-----------------------------------------------------------------------------
(* The turn itself: product_turn under the service or a console             *)

turnFrame == <<serviceVars, product_manual_owner, modeVars>>

\* A motor command, a setting, a rule or the model's words to be spoken; or a
\* model that fails or is cancelled.
Intent(t) ==
  /\ pc[t] = "intent"
  /\ \/ FALSE \in Cancelled(t) /\ Goto(t, "say") /\ UNCHANGED rc
     \/ TRUE \in Cancelled(t) /\ GotoWith(t, "ended", "cancelled")
     \/ "error" \in Hazards /\ GotoWith(t, "ended", "error")
  /\ UNCHANGED <<operation_lock, audio_fault, jobVars, token, turnFrame>>

\* Mutant: the number after the last one is 0.
NextTokenZero == IF request_token = MaxToken THEN 0 ELSE request_token + 1

\* if(!++request_serial)++request_serial: no token is 0
NextToken == IF request_token = MaxToken THEN 1 ELSE request_token + 1

\* The device's part of live_command: a new job under a new token; task_create
\* may fail.
JobStart(identify) ==
  /\ cleanup' = FALSE /\ stop_requested' = FALSE /\ identify_job' = identify
  /\ request_token' = NextToken
  /\ worker' \in {"run"} \cup (IF "spawn" \in Hazards THEN {"idle"} ELSE {})

\* Mutant: a new job starts over what an earlier one could not clean up.
JobMayStartDirty(t) == ~Reserved(t) /\ worker = "idle"

\* a733_product_camera_begin and the check under status_lock
JobMayStart(t) == ~Reserved(t) /\ worker = "idle" /\ ~cleanup

\* product_capture_objects up to the token.  A job that does not start is told to
\* the user, as is a screen that cannot be paused.
Identify(t) ==
  /\ pc[t] = "identify"
  /\ \/ TRUE \in Cancelled(t) /\ GotoWith(t, "ended", "cancelled") /\ UNCHANGED <<token, jobVars>>
     \/ /\ FALSE \in Cancelled(t) /\ JobMayStart(t) /\ JobStart(TRUE) /\ UNCHANGED rc
        /\ IF worker' = "run" THEN Goto(t, "poll") /\ token' = [token EXCEPT ![t] = request_token']
                              ELSE Goto(t, "say") /\ UNCHANGED token
     \/ /\ FALSE \in Cancelled(t) /\ (~JobMayStart(t) \/ "error" \in Hazards)
        /\ Goto(t, "say") /\ UNCHANGED <<rc, token, jobVars>>
  /\ UNCHANGED <<operation_lock, audio_fault, turnFrame>>

\* Mutant: the quarantine of the job is not looked at.
PollCodeClean(t) ==
  IF token[t] = 0 \/ token[t] # request_token \/ ~identify_job THEN "error"
  ELSE IF worker # "idle" THEN "again" ELSE "ok"

\* a733_camera_identify_poll; a job's own error and a missing result are told to
\* the user like a result.
PollCode(t) ==
  IF token[t] = 0 \/ token[t] # request_token \/ ~identify_job THEN "error"
  ELSE IF worker # "idle" THEN "again"
  ELSE IF cleanup THEN "ownerdead" ELSE "ok"

\* The wait ends: product_capture_outcome is the cause of the stop unless an owner
\* is in doubt.
PollEnds(t, r) ==
  /\ token' = [token EXCEPT ![t] = 0]
  /\ IF r \in {"ownerdead", "cancelled"} THEN GotoWith(t, "ended", r) ELSE GotoWith(t, "say", "ok")

\* Mutant: a job that was told to stop is waited for without end.
GivenUpNever(t) == FALSE

\* The job has had its time, and its 12 seconds since it was told to stop.
GivenUp(t) == PollCode(t) = "again" /\ rc[t] # "ok"

\* One round of the wait: 45 seconds or a cancel stop the job, once, and are kept
\* as its cause; 12 seconds later the job is given up.
Poll(t) ==
  /\ pc[t] = "poll"
  /\ \/ /\ PollCode(t) = "again" /\ rc[t] = "ok" /\ stop_requested' = TRUE
        /\ \/ TRUE \in Cancelled(t) /\ rc' = [rc EXCEPT ![t] = "cancelled"]
           \/ FALSE \in Cancelled(t) /\ rc' = [rc EXCEPT ![t] = "error"]
        /\ UNCHANGED <<pc, token>>
     \/ GivenUp(t) /\ PollEnds(t, "ownerdead") /\ UNCHANGED stop_requested
     \/ /\ PollCode(t) # "again" /\ UNCHANGED stop_requested
        /\ PollEnds(t, IF PollCode(t) # "ownerdead" /\ rc[t] # "ok" THEN rc[t] ELSE PollCode(t))
  /\ UNCHANGED <<operation_lock, audio_fault, worker, cleanup, identify_job, request_token, turnFrame>>

-----------------------------------------------------------------------------
(* Speech, of a turn or of a console's speak: local_play, audio_i2s_cloud_speak *)

\* audio_control's look at who is busy.
Speak(c) ==
  /\ pc[c] = "idle" /\ "speak" \in Ops
  /\ ~VisionBusy /\ ~Reserved(c) /\ ~service_active
  /\ Goto(c, "say")
  /\ UNCHANGED <<operation_lock, audio_fault, jobVars, rc, token, turnFrame>>

\* A console's speak ends where it began; a turn hands its code on.
SaysEnd(t, r) ==
  IF t = svc \/ product_manual_owner = t THEN GotoWith(t, "ended", r)
                                          ELSE Goto(t, "idle") /\ UNCHANGED rc

\* The guards before the lock: a stop, another owner, a device in quarantine; a
\* muted pet has nothing to play.
SayGuard(t) ==
  /\ pc[t] = "say"
  /\ \/ TRUE \in Cancelled(t) /\ SaysEnd(t, "cancelled")
     \/ SaysEnd(t, "ok")
     \/ audio_fault /\ ~(service_active /\ service_pid # t) /\ SaysEnd(t, "ownerdead")
     \/ service_active /\ service_pid # t /\ SaysEnd(t, "error")
     \/ ~(service_active /\ service_pid # t) /\ ~audio_fault /\ Goto(t, "say-lock") /\ UNCHANGED rc
  /\ UNCHANGED <<operation_lock, audio_fault, jobVars, token, turnFrame>>

\* pthread_mutex_trylock(&operation_lock)
SayLock(t) ==
  /\ pc[t] = "say-lock"
  /\ \/ operation_lock = none /\ operation_lock' = t /\ Goto(t, "saying") /\ UNCHANGED rc
     \/ operation_lock # none /\ SaysEnd(t, "error") /\ UNCHANGED operation_lock
  /\ UNCHANGED <<audio_fault, jobVars, token, turnFrame>>

\* The end of the playback; a retained I2S worker puts the device in quarantine
\* before the lock is free.
Saying(t) ==
  /\ pc[t] = "saying" /\ operation_lock' = none
  /\ \/ SaysEnd(t, "ok") /\ UNCHANGED audio_fault
     \/ "error" \in Hazards /\ SaysEnd(t, "error") /\ UNCHANGED audio_fault
     \/ TRUE \in Cancelled(t) /\ SaysEnd(t, "cancelled") /\ UNCHANGED audio_fault
     \/ "retain" \in Hazards /\ SaysEnd(t, "ownerdead") /\ audio_fault' = TRUE
  /\ UNCHANGED <<jobVars, token, turnFrame>>

-----------------------------------------------------------------------------
(* The camera job                                                           *)

Camera(c) ==
  /\ pc[c] = "idle" /\ "camera" \in Ops
  /\ JobMayStart(c) /\ JobStart(FALSE)
  /\ UNCHANGED <<operation_lock, serviceVars, product_manual_owner, audio_fault, modeVars, taskVars>>

LiveStop(c) ==
  /\ pc[c] = "idle" /\ "live-stop" \in Ops
  /\ stop_requested' = TRUE
  /\ UNCHANGED <<operation_lock, serviceVars, product_manual_owner, audio_fault, worker, cleanup,
                 identify_job, request_token, modeVars, taskVars>>

\* A frame with its result, a stop, the job's seconds or an error end the frames;
\* a thread that cannot be joined keeps the task, and all it owns, for ever.
JobRuns ==
  /\ worker = "run"
  /\ \/ worker' = "cleanup" /\ UNCHANGED cleanup
     \/ "stuck" \in Hazards /\ worker' = "stuck" /\ cleanup' = TRUE
  /\ UNCHANGED <<operation_lock, serviceVars, product_manual_owner, audio_fault, stop_requested,
                 identify_job, request_token, modeVars, taskVars>>

JobEnds ==
  /\ worker = "cleanup" /\ worker' = "idle"
  /\ cleanup' \in (IF "cleanup" \in Hazards THEN BOOLEAN ELSE {FALSE})
  /\ UNCHANGED <<operation_lock, serviceVars, product_manual_owner, audio_fault, stop_requested,
                 identify_job, request_token, modeVars, taskVars>>

-----------------------------------------------------------------------------
SvcNext ==
  \/ Claim \/ Loop \/ Pause \/ Open \/ Listen \/ Capture \/ Recognise \/ Dispatch
  \/ SvcTurnEnds \/ Exit

TurnNext(t) ==
  \/ Intent(t) \/ Identify(t) \/ Poll(t) \/ SayGuard(t) \/ SayLock(t) \/ Saying(t)

Command(c) == Run(c) \/ Stop(c) \/ Mode(c) \/ Ask(c) \/ Speak(c) \/ Camera(c) \/ LiveStop(c)

Next ==
  \/ SvcNext \/ JobRuns \/ JobEnds
  \/ \E t \in Tasks : TurnNext(t)
  \/ \E c \in Consoles : AskEnds(c) \/ ModeSaved(c) \/ Command(c)

Spec == Init /\ [][Next]_vars

\* Every task is scheduled and every job ends; nobody has to give a command or to
\* speak: a capture need only end once it is told to.
FairSpec ==
  /\ Spec
  /\ WF_vars(SvcNext /\ (pc[svc] = "capture" => service_stop))
  /\ WF_vars(JobRuns \/ JobEnds)
  /\ \A t \in Tasks : WF_vars(TurnNext(t))
  /\ \A c \in Consoles : WF_vars(AskEnds(c))

-----------------------------------------------------------------------------
(* Properties                                                               *)

TurnPlaces == {"intent", "identify", "poll", "say", "say-lock", "saying", "ended"}
SvcPlaces == {"none", "born", "loop", "pause", "open", "listen", "capture", "recognise",
              "dispatch", "exit", "quarantine"} \cup TurnPlaces
ConsolePlaces == {"idle", "save", "quarantine"} \cup TurnPlaces

TypeOK ==
  /\ operation_lock \in Tasks \cup {none}
  /\ service_active \in BOOLEAN /\ service_stop \in BOOLEAN /\ service_pid \in {none, svc}
  /\ session \in BOOLEAN /\ consent \in BOOLEAN /\ route \in {"none", "local", "cloud"}
  /\ product_manual_owner \in Consoles \cup {none} /\ audio_fault \in BOOLEAN
  /\ worker \in {"idle", "run", "cleanup", "stuck"} /\ cleanup \in BOOLEAN
  /\ stop_requested \in BOOLEAN /\ identify_job \in BOOLEAN /\ request_token \in 0..MaxToken
  /\ mode \in Modes /\ turn_mode \in Modes
  /\ pc \in [Tasks -> SvcPlaces \cup ConsolePlaces]
  /\ pc[svc] \in SvcPlaces /\ \A c \in Consoles : pc[c] \in ConsolePlaces
  /\ rc \in [Tasks -> {"ok", "error", "cancelled", "ownerdead"}]
  /\ token \in [Tasks -> 0..MaxToken]

\* The service and a foreground turn exclude each other, and each is where it says:
\* the service is active exactly while its worker has a place, and a console in its
\* turn, or in quarantine after it, holds the lease.  The desktop consent and the
\* recogniser are the service's, and the consent does not survive into quarantine.
OwnersOK ==
  /\ service_active => product_manual_owner = none
  /\ service_active <=> pc[svc] # "none"
  /\ service_active /\ service_pid = none <=> pc[svc] = "born"
  /\ consent => pc[svc] \notin {"none", "born", "quarantine"}
  /\ session => pc[svc] \notin {"none", "born", "identify", "poll"}
  /\ \A c \in Consoles :
       /\ pc[c] \in {"intent", "identify", "poll", "ended", "quarantine"} => product_manual_owner = c
       /\ product_manual_owner = c => pc[c] \notin {"idle", "save"}

\* Exactly the task that plays or captures holds the operation lock.
LockOK == \A t \in Tasks : operation_lock = t <=> pc[t] \in {"saying", "capture"}

\* A job that runs has left nothing behind yet; one that is stuck has.
JobOK == /\ worker \in {"run", "cleanup"} => ~cleanup
         /\ worker = "stuck" => cleanup

\* `Continuous camera and voice are exclusive': a job that only shows the camera's
\* view runs beside no service and no foreground turn; one that identifies belongs
\* to a service or a turn which waits for it or stands in quarantine because of it.
Exclusive ==
  worker # "idle" =>
    IF identify_job
      THEN \E t \in Tasks : /\ (t = svc /\ service_active) \/ t = product_manual_owner
                            /\ \/ pc[t] \in {"poll", "quarantine"}
                               \/ pc[t] = "ended" /\ rc[t] = "ownerdead"
      ELSE ~service_active /\ product_manual_owner = none

\* No ASR/vocoder lease during camera NPU work: whenever a camera job runs, the
\* service's recogniser is closed.
NpuExclusive == worker # "idle" => ~session

\* A turn that waits for the camera waits for its own request: nobody has started
\* another job since, and what the job leaves behind is not yet forgotten.
OwnFrame ==
  \A t \in Tasks : pc[t] = "poll" => token[t] # 0 /\ token[t] = request_token /\ identify_job

\* Explicit cloud never becomes local: a turn of the service that began in that mode, whatever is
\* saved meanwhile and whatever fails, neither has the local recogniser open nor is
\* given to the local models.
CloudOnly ==
  turn_mode = "cloud" =>
    /\ pc[svc] \in {"open", "listen", "capture", "recognise", "dispatch"} \cup TurnPlaces => route = "cloud"
    /\ pc[svc] \in {"listen", "capture", "recognise", "dispatch"} \cup TurnPlaces => ~session

\* The inductive invariant behind the safety properties.
IInv == TypeOK /\ OwnersOK /\ LockOK /\ JobOK /\ Exclusive /\ NpuExclusive /\ OwnFrame /\ CloudOnly

\* A camera job that could not clean up stays quarantined, and nobody resumes as if
\* it had: no later job, no service and no foreground turn begins.
CleanupKept ==
  [][cleanup => /\ cleanup' /\ request_token' = request_token
                /\ service_active' => service_active
                /\ product_manual_owner' # none => product_manual_owner' = product_manual_owner]_vars

\* The turn that meets a camera job in doubt ends in quarantine: it never goes on
\* to speak.
DoubtEndsTurn ==
  [][\A t \in Tasks : pc[t] = "poll" /\ cleanup /\ pc'[t] # "poll" =>
       pc'[t] = "ended" /\ rc'[t] = "ownerdead"]_vars

\* The audio device in quarantine is never used again: once the worker of a playback
\* could not be joined, the microphone, on the same I2S port, is not opened.
NeverReuse == [][audio_fault /\ pc'[svc] = "capture" => pc[svc] = "capture"]_vars

\* Service, turns, camera jobs and commands keep the promises of Leases, although
\* each of them looks at the others' globals under a lock of its own, or none.
Holder == IF service_active THEN svc ELSE product_manual_owner
Npu ==
  IF worker # "idle" THEN IF identify_job THEN "identify" ELSE "view"
  ELSE IF session THEN "recogniser" ELSE "free"
Doubt == (IF audio_fault THEN {"audio"} ELSE {}) \cup (IF cleanup THEN {"camera"} ELSE {})
Kept == \E t \in Tasks : pc[t] = "quarantine"

Pet == INSTANCE Leases
  WITH service <- svc, holder <- Holder, npu <- Npu, sound <- operation_lock, doubt <- Doubt,
       kept <- Kept
DevicesAreLeased == Pet!Spec

\* A stop ends the service, whatever it is doing or waiting for, unless it has to
\* stand in quarantine.
StopEnds == service_stop /\ service_active ~> ~service_active \/ pc[svc] = "quarantine"

\* A foreground turn gives its lease back or stands in quarantine.
LeaseEnds ==
  \A c \in Consoles : product_manual_owner = c ~> product_manual_owner # c \/ pc[c] = "quarantine"
=============================================================================
