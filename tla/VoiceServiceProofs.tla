-------------------------- MODULE VoiceServiceProofs --------------------------
(***************************************************************************)
(* VoiceService: the owners of the devices, for every set of consoles,     *)
(* every mode, every fault and every wrap of the token.  IInv is inductive *)
(* (InitOK, StepOK): Exclusive alone is not, for a job that may start      *)
(* depends on who holds the lease, and who may take it on the job.         *)
(***************************************************************************)
EXTENDS VoiceService, TLAPS

\* The places and the codes of the tasks have their types.
PlacesOK == /\ pc \in [Tasks -> SvcPlaces \cup ConsolePlaces]
            /\ pc[svc] \in SvcPlaces /\ \A c \in Consoles : pc[c] \in ConsolePlaces

Codes == {"ok", "error", "cancelled", "ownerdead"}

\* A task stays typed when it goes on in its turn.
LEMMA GotoOK ==
  ASSUME TypeOK, NEW t \in Tasks, NEW l \in TurnPlaces \cup {"idle"}, l = "idle" => t # svc, Goto(t, l)
  PROVE  PlacesOK'
  BY TasksAssumption DEF TypeOK, PlacesOK, Goto, Tasks, svc, SvcPlaces, ConsolePlaces, TurnPlaces

\* A task that changes the code it carries leaves the others theirs.
LEMMA CodeOK ==
  ASSUME TypeOK, NEW t \in Tasks, NEW r \in Codes, rc' = [rc EXCEPT ![t] = r]
  PROVE  rc' \in [Tasks -> Codes]
  BY DEF TypeOK, Codes

\* At most one task is in a turn that the camera or a quarantine could belong to.
LEMMA OneTurn ==
  ASSUME IInv, NEW t \in Tasks, NEW u \in Tasks,
         pc[t] \in {"intent", "identify", "poll", "ended", "quarantine"},
         pc[u] \in {"intent", "identify", "poll", "ended", "quarantine"}
  PROVE  t = u
  BY TasksAssumption DEF IInv, TypeOK, OwnersOK, Tasks, none, svc

\* A turn, or a console's speak, goes on towards the loudspeaker.
LEMMA TurnSays ==
  ASSUME IInv, NEW t \in Tasks, NEW l \in {"say", "say-lock"}, pc[t] \in {"intent", "identify", "say"},
         Goto(t, l), UNCHANGED <<operation_lock, audio_fault, jobVars, rc, token, turnFrame>>
  PROVE  IInv'
<1>1. TypeOK'
  <2>1. PlacesOK' BY TasksAssumption, TokenAssumption, GotoOK DEF svc, none, Tasks, serviceVars,
      jobVars, modeVars, Goto, turnFrame, TurnPlaces, SvcPlaces, ConsolePlaces, TypeOK, IInv
  <2>2. rc' \in [Tasks -> Codes] BY DEF IInv, TypeOK, Codes
  <2>3. QED BY <2>1, <2>2, TasksAssumption, TokenAssumption DEF svc, none, Tasks, serviceVars,
      jobVars, modeVars, Goto, turnFrame, TurnPlaces, SvcPlaces, ConsolePlaces, TypeOK, IInv,
      PlacesOK, Codes
<1>2. OwnersOK'
  BY TasksAssumption
  DEF svc, none, Tasks, serviceVars, Goto, turnFrame, TypeOK, OwnersOK, Exclusive, IInv
<1>3. LockOK'
  BY TasksAssumption
  DEF svc, none, Tasks, Goto, TypeOK, LockOK, IInv
<1>4. JobOK'
  BY DEF jobVars, JobOK, IInv
<1>5. Exclusive'
  BY TasksAssumption
  DEF svc, none, Tasks, serviceVars, jobVars, Goto, turnFrame, TypeOK, OwnersOK, JobOK, Exclusive,
      OwnFrame, IInv
<1>6. NpuExclusive'
  BY DEF serviceVars, jobVars, turnFrame, TypeOK, OwnersOK, Exclusive, NpuExclusive, IInv
<1>7. OwnFrame'
  BY TasksAssumption, TokenAssumption
  DEF svc, none, Tasks, jobVars, Goto, TypeOK, OwnersOK, Exclusive, OwnFrame, IInv
<1>8. CloudOnly'
  BY DEF Tasks, serviceVars, modeVars, Goto, turnFrame, TurnPlaces, TypeOK, CloudOnly, IInv
<1>9. QED BY <1>1, <1>2, <1>3, <1>4, <1>5, <1>6, <1>7, <1>8 DEF IInv

\* A turn ends before it could speak.
LEMMA TurnEnds ==
  ASSUME IInv, NEW t \in Tasks, NEW r \in Codes, pc[t] \in {"intent", "identify"},
         GotoWith(t, "ended", r), UNCHANGED <<operation_lock, audio_fault, jobVars, token, turnFrame>>
  PROVE  IInv'
<1>1. TypeOK'
  <2>1. PlacesOK' BY TasksAssumption, TokenAssumption, GotoOK DEF svc, none, Tasks, serviceVars,
      jobVars, modeVars, Goto, GotoWith, turnFrame, TurnPlaces, SvcPlaces, ConsolePlaces, TypeOK,
      IInv
  <2>2. rc' \in [Tasks -> Codes] BY CodeOK DEF Codes, TypeOK, serviceVars, jobVars, modeVars,
      Goto, GotoWith, turnFrame, IInv
  <2>3. QED BY <2>1, <2>2, TasksAssumption, TokenAssumption DEF svc, none, Tasks, serviceVars,
      jobVars, modeVars, Goto, GotoWith, turnFrame, TurnPlaces, SvcPlaces, ConsolePlaces, TypeOK,
      IInv, PlacesOK, Codes
<1>2. OwnersOK'
  BY TasksAssumption, OneTurn
  DEF svc, none, Tasks, serviceVars, Goto, GotoWith, turnFrame, TypeOK, OwnersOK, Exclusive, IInv
<1>3. LockOK'
  BY TasksAssumption
  DEF svc, none, Tasks, Goto, GotoWith, TypeOK, LockOK, IInv
<1>4. JobOK'
  BY DEF jobVars, JobOK, IInv
<1>5. Exclusive'
  BY TasksAssumption, OneTurn
  DEF svc, none, Tasks, serviceVars, jobVars, Goto, GotoWith, turnFrame, TypeOK, OwnersOK, JobOK,
      Exclusive, OwnFrame, IInv
<1>6. NpuExclusive'
  BY DEF serviceVars, jobVars, turnFrame, TypeOK, OwnersOK, Exclusive, NpuExclusive, IInv
<1>7. OwnFrame'
  BY TasksAssumption, TokenAssumption, OneTurn
  DEF svc, none, Tasks, jobVars, Goto, GotoWith, TypeOK, OwnersOK, Exclusive, OwnFrame, IInv
<1>8. CloudOnly'
  BY DEF Tasks, serviceVars, modeVars, Goto, GotoWith, turnFrame, TurnPlaces, TypeOK, CloudOnly, IInv
<1>9. QED BY <1>1, <1>2, <1>3, <1>4, <1>5, <1>6, <1>7, <1>8 DEF IInv

\* Speech ends, whoever spoke, and the lock is free if it was the speaker's.
LEMMA SpeechEnds ==
  ASSUME IInv, NEW t \in Tasks, NEW r \in Codes, pc[t] \in {"say", "say-lock", "saying"}, SaysEnd(t, r),
         operation_lock' = (IF operation_lock = t THEN none ELSE operation_lock), audio_fault' \in BOOLEAN,
         UNCHANGED <<jobVars, token, turnFrame>>
  PROVE  IInv'
<1>1. TypeOK'
  <2>1. PlacesOK' BY TasksAssumption, TokenAssumption, GotoOK DEF svc, none, Tasks, serviceVars,
      jobVars, modeVars, GotoWith, turnFrame, SaysEnd, TurnPlaces, SvcPlaces, ConsolePlaces,
      TypeOK, IInv
  <2>2. rc' \in [Tasks -> Codes] BY CodeOK DEF Codes, TypeOK, svc, serviceVars, jobVars, modeVars,
      GotoWith, turnFrame, SaysEnd, IInv
  <2>3. QED BY <2>1, <2>2, TasksAssumption, TokenAssumption DEF svc, none, Tasks, serviceVars,
      jobVars, modeVars, GotoWith, turnFrame, SaysEnd, TurnPlaces, SvcPlaces, ConsolePlaces,
      TypeOK, IInv, PlacesOK, Codes
<1>2. OwnersOK'
  BY TasksAssumption
  DEF svc, none, Tasks, serviceVars, Goto, GotoWith, turnFrame, SaysEnd, TypeOK, OwnersOK,
      Exclusive, IInv
<1>3. LockOK'
  BY TasksAssumption
  DEF svc, none, Tasks, Goto, GotoWith, SaysEnd, TypeOK, LockOK, IInv
<1>4. JobOK'
  BY DEF jobVars, SaysEnd, JobOK, IInv
<1>5. Exclusive'
  BY TasksAssumption
  DEF svc, none, Tasks, serviceVars, jobVars, Goto, GotoWith, turnFrame, SaysEnd, TypeOK,
      OwnersOK, JobOK, Exclusive, OwnFrame, IInv
<1>6. NpuExclusive'
  BY DEF serviceVars, jobVars, turnFrame, SaysEnd, TypeOK, OwnersOK, Exclusive, NpuExclusive, IInv
<1>7. OwnFrame'
  BY TasksAssumption, TokenAssumption
  DEF svc, none, Tasks, jobVars, Goto, GotoWith, SaysEnd, TypeOK, OwnersOK, Exclusive, OwnFrame,
      IInv
<1>8. CloudOnly'
  BY DEF Tasks, serviceVars, modeVars, Goto, GotoWith, turnFrame, SaysEnd, TurnPlaces, TypeOK,
      CloudOnly, IInv
<1>9. QED BY <1>1, <1>2, <1>3, <1>4, <1>5, <1>6, <1>7, <1>8 DEF IInv

\* A turn tells its job to stop and keeps the cause.
LEMMA PollStops ==
  ASSUME IInv, NEW t \in Tasks, NEW r \in Codes, pc[t] = "poll", rc' = [rc EXCEPT ![t] = r], stop_requested' = TRUE,
         UNCHANGED <<operation_lock, audio_fault, worker, cleanup, identify_job, request_token, pc, token, turnFrame>>
  PROVE  IInv'
<1>1. TypeOK'
  BY CodeOK DEF IInv, TypeOK, Codes, turnFrame, serviceVars, modeVars
<1>2. OwnersOK'
  BY TasksAssumption
  DEF svc, none, Tasks, serviceVars, turnFrame, TypeOK, OwnersOK, Exclusive, IInv
<1>3. LockOK'
  BY TasksAssumption
  DEF svc, none, Tasks, TypeOK, LockOK, IInv
<1>4. JobOK'
  BY DEF JobOK, IInv
<1>5. Exclusive'
  BY TasksAssumption
  DEF svc, none, Tasks, serviceVars, turnFrame, TypeOK, OwnersOK, JobOK, Exclusive, OwnFrame, IInv
<1>6. NpuExclusive'
  BY DEF serviceVars, turnFrame, TypeOK, OwnersOK, Exclusive, NpuExclusive, IInv
<1>7. OwnFrame'
  BY TasksAssumption, TokenAssumption
  DEF svc, none, Tasks, TypeOK, OwnersOK, Exclusive, OwnFrame, IInv
<1>8. CloudOnly'
  BY DEF Tasks, serviceVars, modeVars, turnFrame, TurnPlaces, TypeOK, CloudOnly, IInv
<1>9. QED BY <1>1, <1>2, <1>3, <1>4, <1>5, <1>6, <1>7, <1>8 DEF IInv

\* A turn stops waiting for its job; one that runs on leaves the turn in doubt.
LEMMA PollOver ==
  ASSUME IInv, NEW t \in Tasks, NEW r \in Codes, pc[t] = "poll", PollEnds(t, r), worker # "idle" => r = "ownerdead",
         UNCHANGED <<operation_lock, audio_fault, jobVars, turnFrame>>
  PROVE  IInv'
<1>1. TypeOK'
  <2>1. PlacesOK' BY TasksAssumption, TokenAssumption, GotoOK DEF svc, none, Tasks, serviceVars,
      jobVars, modeVars, GotoWith, turnFrame, PollEnds, TurnPlaces, SvcPlaces, ConsolePlaces,
      TypeOK, IInv
  <2>2. rc' \in [Tasks -> Codes] BY CodeOK DEF Codes, TypeOK, serviceVars, jobVars, modeVars,
      GotoWith, turnFrame, PollEnds, IInv
  <2>3. QED BY <2>1, <2>2, TasksAssumption, TokenAssumption DEF svc, none, Tasks, serviceVars,
      jobVars, modeVars, GotoWith, turnFrame, PollEnds, TurnPlaces, SvcPlaces, ConsolePlaces,
      TypeOK, IInv, PlacesOK, Codes
<1>2. OwnersOK'
  BY TasksAssumption
  DEF svc, none, Tasks, serviceVars, Goto, GotoWith, turnFrame, PollEnds, TypeOK, OwnersOK,
      Exclusive, IInv
<1>3. LockOK'
  BY TasksAssumption
  DEF svc, none, Tasks, Goto, GotoWith, PollEnds, TypeOK, LockOK, IInv
<1>4. JobOK'
  BY DEF jobVars, PollEnds, JobOK, IInv
<1>5. Exclusive'
  BY TasksAssumption
  DEF svc, none, Tasks, serviceVars, jobVars, Goto, GotoWith, turnFrame, PollEnds, TypeOK,
      OwnersOK, JobOK, Exclusive, OwnFrame, IInv
<1>6. NpuExclusive'
  BY DEF serviceVars, jobVars, turnFrame, PollEnds, TypeOK, OwnersOK, Exclusive, NpuExclusive, IInv
<1>7. OwnFrame'
  BY TasksAssumption, TokenAssumption
  DEF svc, none, Tasks, jobVars, Goto, GotoWith, PollEnds, TypeOK, OwnersOK, Exclusive, OwnFrame,
      IInv
<1>8. CloudOnly'
  BY DEF Tasks, serviceVars, modeVars, Goto, GotoWith, turnFrame, PollEnds, TurnPlaces, TypeOK,
      CloudOnly, IInv
<1>9. QED BY <1>1, <1>2, <1>3, <1>4, <1>5, <1>6, <1>7, <1>8 DEF IInv

\* A new number is a number, and no token.
LEMMA NextTokenOK ==
  ASSUME TypeOK
  PROVE  NextToken \in 1..MaxToken
  BY TokenAssumption DEF TypeOK, NextToken

\* A turn starts its job: nobody else was waiting for one.
LEMMA IdentifyStarts ==
  ASSUME IInv, NEW t \in Tasks, pc[t] = "identify", worker = "idle", ~cleanup, ~Reserved(t), Goto(t, "poll"),
         worker' = "run", cleanup' = FALSE, stop_requested' = FALSE, identify_job' = TRUE,
         request_token' = NextToken, token' = [token EXCEPT ![t] = request_token'],
         UNCHANGED <<operation_lock, audio_fault, rc, turnFrame>>
  PROVE  IInv'
<1>1. TypeOK'
  <2>1. PlacesOK' BY TasksAssumption, TokenAssumption, GotoOK DEF IInv, TurnPlaces
  <2>2. token' \in [Tasks -> 0..MaxToken] BY NextTokenOK, TokenAssumption DEF IInv, TypeOK
  <2>3. QED BY <2>1, <2>2, NextTokenOK, TokenAssumption DEF IInv, TypeOK, PlacesOK, turnFrame,
      serviceVars, modeVars
<1>2. OwnersOK'
  BY TasksAssumption, OneTurn
  DEF svc, none, Tasks, serviceVars, Reserved, Goto, turnFrame, TypeOK, OwnersOK, Exclusive, IInv
<1>3. LockOK'
  BY TasksAssumption
  DEF svc, none, Tasks, Reserved, Goto, TypeOK, LockOK, IInv
<1>4. JobOK'
  BY DEF Reserved, JobOK, IInv
<1>5. Exclusive'
  BY TasksAssumption, OneTurn
  DEF svc, none, Tasks, serviceVars, Reserved, Goto, turnFrame, TypeOK, OwnersOK, JobOK,
      Exclusive, OwnFrame, IInv
<1>6. NpuExclusive'
  BY DEF serviceVars, Reserved, turnFrame, TypeOK, OwnersOK, Exclusive, NpuExclusive, IInv
<1>7. OwnFrame'
  BY TasksAssumption, TokenAssumption, OneTurn, NextTokenOK
  DEF svc, none, Tasks, Reserved, Goto, TypeOK, OwnersOK, Exclusive, OwnFrame, IInv
<1>8. CloudOnly'
  BY DEF Tasks, serviceVars, modeVars, Reserved, Goto, turnFrame, TurnPlaces, TypeOK, CloudOnly, IInv
<1>9. QED BY <1>1, <1>2, <1>3, <1>4, <1>5, <1>6, <1>7, <1>8 DEF IInv

\* A turn whose job has no task goes on to say so.
LEMMA IdentifyFails ==
  ASSUME IInv, NEW t \in Tasks, pc[t] = "identify", worker = "idle", Goto(t, "say"), worker' = "idle",
         cleanup' = FALSE, stop_requested' \in BOOLEAN, identify_job' \in BOOLEAN, request_token' = NextToken,
         UNCHANGED <<operation_lock, audio_fault, rc, token, turnFrame>>
  PROVE  IInv'
<1>1. TypeOK'
  <2>1. PlacesOK' BY TasksAssumption, TokenAssumption, GotoOK DEF IInv, TurnPlaces
  <2>2. request_token' \in 0..MaxToken BY NextTokenOK, TokenAssumption DEF IInv
  <2>3. /\ operation_lock' \in Tasks \cup {none} /\ rc' \in [Tasks -> Codes] /\ token' \in [Tasks -> 0..MaxToken]
    BY DEF IInv, TypeOK, Codes
  <2>4. QED BY <2>1, <2>2, <2>3 DEF IInv, TypeOK, PlacesOK, Codes, turnFrame, serviceVars, modeVars
<1>2. OwnersOK'
  BY TasksAssumption, OneTurn
  DEF svc, none, Tasks, serviceVars, Goto, turnFrame, TypeOK, OwnersOK, Exclusive, IInv
<1>3. LockOK'
  BY TasksAssumption
  DEF svc, none, Tasks, Goto, TypeOK, LockOK, IInv
<1>4. JobOK'
  BY DEF JobOK, IInv
<1>5. Exclusive'
  BY TasksAssumption, OneTurn
  DEF svc, none, Tasks, serviceVars, Goto, turnFrame, TypeOK, OwnersOK, JobOK, Exclusive,
      OwnFrame, IInv
<1>6. NpuExclusive'
  BY DEF serviceVars, turnFrame, TypeOK, OwnersOK, Exclusive, NpuExclusive, IInv
<1>7. OwnFrame'
  BY TasksAssumption, TokenAssumption, OneTurn, NextTokenOK
  DEF svc, none, Tasks, Goto, TypeOK, OwnersOK, Exclusive, OwnFrame, IInv
<1>8. CloudOnly'
  BY DEF Tasks, serviceVars, modeVars, Goto, turnFrame, TurnPlaces, TypeOK, CloudOnly, IInv
<1>9. QED BY <1>1, <1>2, <1>3, <1>4, <1>5, <1>6, <1>7, <1>8 DEF IInv

-----------------------------------------------------------------------------
\* Each step of a turn keeps the invariant.
LEMMA IntentStep ==
  ASSUME IInv, NEW t \in Tasks, Intent(t)
  PROVE  IInv'
BY TurnSays, TurnEnds DEF Intent, GotoWith, Codes

\* Identify keeps the invariant.
LEMMA IdentifyStep ==
  ASSUME IInv, NEW t \in Tasks, Identify(t)
  PROVE  IInv'
<1>1. CASE GotoWith(t, "ended", "cancelled") /\ UNCHANGED <<token, jobVars>>
  BY <1>1, TurnEnds DEF Identify, Codes
<1>2. CASE /\ JobMayStart(t) /\ JobStart(TRUE) /\ UNCHANGED rc /\ worker' = "run"
           /\ Goto(t, "poll") /\ token' = [token EXCEPT ![t] = request_token']
  <2>1. worker = "idle" /\ ~cleanup /\ ~Reserved(t) BY <1>2 DEF JobMayStart
  <2>2. /\ cleanup' = FALSE /\ stop_requested' = FALSE /\ identify_job' = TRUE
        /\ request_token' = NextToken
    BY <1>2 DEF JobStart
  <2>3. /\ pc[t] = "identify" /\ Goto(t, "poll") /\ token' = [token EXCEPT ![t] = request_token']
        /\ UNCHANGED <<operation_lock, audio_fault, rc, turnFrame>>
    BY <1>2 DEF Identify, Goto, GotoWith
  <2>4. QED BY <1>2, <2>1, <2>2, <2>3, IdentifyStarts
<1>3. CASE /\ JobMayStart(t) /\ JobStart(TRUE) /\ UNCHANGED rc /\ worker' # "run"
           /\ Goto(t, "say") /\ UNCHANGED token
  <2>1. worker = "idle" /\ ~cleanup BY <1>3 DEF JobMayStart
  <2>2. /\ cleanup' = FALSE /\ stop_requested' = FALSE /\ identify_job' = TRUE
        /\ request_token' = NextToken /\ worker' = "idle"
    BY <1>3 DEF JobStart
  <2>3. /\ pc[t] = "identify" /\ Goto(t, "say")
        /\ UNCHANGED <<operation_lock, audio_fault, rc, token, turnFrame>>
    BY <1>3 DEF Identify, Goto, GotoWith
  <2>4. QED BY <2>1, <2>2, <2>3, IdentifyFails
<1>4. CASE Goto(t, "say") /\ UNCHANGED <<rc, token, jobVars>>
  BY <1>4, TurnSays DEF Identify
<1>5. QED BY <1>1, <1>2, <1>3, <1>4 DEF Identify

\* Poll keeps the invariant.
LEMMA PollStep ==
  ASSUME IInv, NEW t \in Tasks, Poll(t)
  PROVE  IInv'
<1>1. CASE /\ stop_requested' = TRUE /\ UNCHANGED <<pc, token>>
           /\ rc' \in {[rc EXCEPT ![t] = "cancelled"], [rc EXCEPT ![t] = "error"]}
  <2>1. \E r \in Codes : rc' = [rc EXCEPT ![t] = r] BY <1>1 DEF Poll, Codes, PollEnds, PollCode,
      GivenUp
  <2>2. QED BY <1>1, <2>1, PollStops DEF Poll
<1>2. CASE GivenUp(t) /\ PollEnds(t, "ownerdead") /\ UNCHANGED stop_requested
  BY <1>2, PollOver DEF Poll, Codes, jobVars
<1>3. CASE /\ PollCode(t) # "again" /\ UNCHANGED stop_requested
           /\ PollEnds(t, IF PollCode(t) # "ownerdead" /\ rc[t] # "ok" THEN rc[t] ELSE PollCode(t))
  <2>1. worker = "idle" BY <1>3 DEF Poll, PollCode, IInv, OwnFrame
  <2>2. PollCode(t) \in Codes BY <1>3 DEF PollCode, Codes
  <2>3. rc[t] \in Codes BY DEF IInv, TypeOK, Codes
  <2>4. QED BY <1>3, <2>1, <2>2, <2>3, PollOver DEF Poll, jobVars
<1>4. QED BY <1>1, <1>2, <1>3 DEF Poll

\* SayGuard keeps the invariant.
LEMMA SayGuardStep ==
  ASSUME IInv, NEW t \in Tasks, SayGuard(t)
  PROVE  IInv'
<1>1. operation_lock # t BY DEF SayGuard, IInv, LockOK
<1>2. audio_fault \in BOOLEAN BY DEF IInv, TypeOK
<1>3. CASE Goto(t, "say-lock") /\ UNCHANGED rc BY <1>3, TurnSays DEF SayGuard
<1>4. CASE \E r \in Codes : SaysEnd(t, r) BY <1>1, <1>2, <1>4, SpeechEnds DEF SayGuard
<1>5. QED BY <1>3, <1>4 DEF SayGuard, Codes

\* Saying keeps the invariant.
LEMMA SayingStep ==
  ASSUME IInv, NEW t \in Tasks, Saying(t)
  PROVE  IInv'
<1>1. operation_lock = t BY DEF Saying, IInv, LockOK
<1>2. audio_fault' \in BOOLEAN BY DEF Saying, IInv, TypeOK
<1>3. \E r \in Codes : SaysEnd(t, r) BY DEF Saying, Codes
<1>4. QED BY <1>1, <1>2, <1>3, SpeechEnds DEF Saying

-----------------------------------------------------------------------------
\* The commands, the service and the job.
LEMMA RunStep ==
  ASSUME IInv, NEW c \in Consoles, Run(c)
  PROVE  IInv'
<1>1. TypeOK'
  <2>1. PlacesOK
    BY DEF PlacesOK, IInv, TypeOK
  <2>2. pc' = pc \/ pc' = [pc EXCEPT ![svc] = "born"]
    BY DEF Run, Goto
  <2>3. PlacesOK'
    BY <2>1, <2>2, TasksAssumption DEF PlacesOK, Tasks, svc, SvcPlaces
  <2>4. service_active' \in BOOLEAN /\ service_stop' \in BOOLEAN /\ service_pid' \in {none, svc}
    BY DEF Run, IInv, TypeOK
  <2>5. QED
    BY <2>3, <2>4 DEF Run, jobVars, modeVars, PlacesOK, IInv, TypeOK
<1>2. OwnersOK'
  BY TasksAssumption
  DEF svc, none, Tasks, VisionBusy, Goto, MayStart, Run, TypeOK, OwnersOK, Exclusive, IInv
<1>3. LockOK'
  <2>1. operation_lock # svc /\ pc[svc] = "none" BY DEF Run, MayStart, IInv, OwnersOK, LockOK, Tasks
  <2>2. QED
    BY <2>1, TasksAssumption, TokenAssumption
    DEF svc, none, Tasks, jobVars, modeVars, VisionBusy, Goto, MayStart, Run, TurnPlaces,
        SvcPlaces, ConsolePlaces, TypeOK, LockOK, IInv
<1>4. JobOK'
  BY DEF jobVars, VisionBusy, MayStart, Run, JobOK, IInv
<1>5. Exclusive'
  BY TasksAssumption
  DEF svc, none, Tasks, jobVars, VisionBusy, Goto, MayStart, Run, TypeOK, OwnersOK, JobOK,
      Exclusive, OwnFrame, IInv
<1>6. NpuExclusive'
  BY DEF jobVars, VisionBusy, MayStart, Run, TypeOK, OwnersOK, Exclusive, NpuExclusive, IInv
<1>7. OwnFrame'
  BY TasksAssumption, TokenAssumption
  DEF svc, none, Tasks, jobVars, VisionBusy, Goto, MayStart, Run, TypeOK, OwnersOK, Exclusive,
      OwnFrame, IInv
<1>8. CloudOnly'
  BY DEF Tasks, modeVars, VisionBusy, Goto, MayStart, Run, TurnPlaces, TypeOK, CloudOnly, IInv
<1>9. QED BY <1>1, <1>2, <1>3, <1>4, <1>5, <1>6, <1>7, <1>8 DEF IInv

\* Stop keeps the invariant.
LEMMA StopStep ==
  ASSUME IInv, NEW c \in Consoles, Stop(c)
  PROVE  IInv'
<1>1. TypeOK'
  BY TasksAssumption, ChoicesAssumption, TokenAssumption
  DEF svc, none, Tasks, jobVars, modeVars, taskVars, Stop, TurnPlaces, SvcPlaces, ConsolePlaces,
      TypeOK, IInv
<1>2. OwnersOK'
  BY TasksAssumption
  DEF svc, none, Tasks, taskVars, Stop, TypeOK, OwnersOK, Exclusive, IInv
<1>3. LockOK'
  BY TasksAssumption
  DEF svc, none, Tasks, taskVars, Stop, TypeOK, LockOK, IInv
<1>4. JobOK'
  BY DEF jobVars, Stop, JobOK, IInv
<1>5. Exclusive'
  BY TasksAssumption
  DEF svc, none, Tasks, jobVars, taskVars, Stop, TypeOK, OwnersOK, JobOK, Exclusive, OwnFrame, IInv
<1>6. NpuExclusive'
  BY DEF jobVars, Stop, TypeOK, OwnersOK, Exclusive, NpuExclusive, IInv
<1>7. OwnFrame'
  BY TasksAssumption, TokenAssumption
  DEF svc, none, Tasks, jobVars, taskVars, Stop, TypeOK, OwnersOK, Exclusive, OwnFrame, IInv
<1>8. CloudOnly'
  BY DEF Tasks, modeVars, taskVars, Stop, TurnPlaces, TypeOK, CloudOnly, IInv
<1>9. QED BY <1>1, <1>2, <1>3, <1>4, <1>5, <1>6, <1>7, <1>8 DEF IInv

\* Mode keeps the invariant.
LEMMA ModeStep ==
  ASSUME IInv, NEW c \in Consoles, Mode(c)
  PROVE  IInv'
<1>1. TypeOK'
  BY TasksAssumption, ChoicesAssumption, TokenAssumption
  DEF svc, none, Tasks, serviceVars, jobVars, modeVars, VisionBusy, Goto, Mode, TurnPlaces,
      SvcPlaces, ConsolePlaces, TypeOK, IInv
<1>2. OwnersOK'
  BY TasksAssumption
  DEF svc, none, Tasks, serviceVars, VisionBusy, Goto, Mode, TypeOK, OwnersOK, Exclusive, IInv
<1>3. LockOK'
  BY TasksAssumption
  DEF svc, none, Tasks, VisionBusy, Goto, Mode, TypeOK, LockOK, IInv
<1>4. JobOK'
  BY DEF jobVars, VisionBusy, Mode, JobOK, IInv
<1>5. Exclusive'
  BY TasksAssumption
  DEF svc, none, Tasks, serviceVars, jobVars, VisionBusy, Goto, Mode, TypeOK, OwnersOK, JobOK,
      Exclusive, OwnFrame, IInv
<1>6. NpuExclusive'
  BY DEF serviceVars, jobVars, VisionBusy, Mode, TypeOK, OwnersOK, Exclusive, NpuExclusive, IInv
<1>7. OwnFrame'
  BY TasksAssumption, TokenAssumption
  DEF svc, none, Tasks, jobVars, VisionBusy, Goto, Mode, TypeOK, OwnersOK, Exclusive, OwnFrame, IInv
<1>8. CloudOnly'
  BY DEF Tasks, serviceVars, modeVars, VisionBusy, Goto, Mode, TurnPlaces, TypeOK, CloudOnly, IInv
<1>9. QED BY <1>1, <1>2, <1>3, <1>4, <1>5, <1>6, <1>7, <1>8 DEF IInv

\* ModeSaved keeps the invariant.
LEMMA ModeSavedStep ==
  ASSUME IInv, NEW c \in Consoles, ModeSaved(c)
  PROVE  IInv'
<1>1. TypeOK'
  BY TasksAssumption, ChoicesAssumption, TokenAssumption
  DEF svc, none, Tasks, serviceVars, jobVars, Goto, ModeSaved, TurnPlaces, SvcPlaces,
      ConsolePlaces, TypeOK, IInv
<1>2. OwnersOK'
  BY TasksAssumption
  DEF svc, none, Tasks, serviceVars, Goto, ModeSaved, TypeOK, OwnersOK, Exclusive, IInv
<1>3. LockOK'
  BY TasksAssumption
  DEF svc, none, Tasks, Goto, ModeSaved, TypeOK, LockOK, IInv
<1>4. JobOK'
  BY DEF jobVars, ModeSaved, JobOK, IInv
<1>5. Exclusive'
  BY TasksAssumption
  DEF svc, none, Tasks, serviceVars, jobVars, Goto, ModeSaved, TypeOK, OwnersOK, JobOK, Exclusive,
      OwnFrame, IInv
<1>6. NpuExclusive'
  BY DEF serviceVars, jobVars, ModeSaved, TypeOK, OwnersOK, Exclusive, NpuExclusive, IInv
<1>7. OwnFrame'
  BY TasksAssumption, TokenAssumption
  DEF svc, none, Tasks, jobVars, Goto, ModeSaved, TypeOK, OwnersOK, Exclusive, OwnFrame, IInv
<1>8. CloudOnly'
  BY DEF Tasks, serviceVars, Goto, ModeSaved, TurnPlaces, TypeOK, CloudOnly, IInv
<1>9. QED BY <1>1, <1>2, <1>3, <1>4, <1>5, <1>6, <1>7, <1>8 DEF IInv

\* Ask keeps the invariant.
LEMMA AskStep ==
  ASSUME IInv, NEW c \in Consoles, Ask(c)
  PROVE  IInv'
<1>1. TypeOK'
  BY TasksAssumption, ChoicesAssumption, TokenAssumption
  DEF svc, none, Tasks, serviceVars, jobVars, modeVars, VisionBusy, Ask, TurnPlaces, SvcPlaces,
      ConsolePlaces, TypeOK, IInv
<1>2. OwnersOK'
  BY TasksAssumption
  DEF svc, none, Tasks, serviceVars, VisionBusy, Ask, TypeOK, OwnersOK, Exclusive, IInv
<1>3. LockOK'
  BY TasksAssumption
  DEF svc, none, Tasks, VisionBusy, Ask, TypeOK, LockOK, IInv
<1>4. JobOK'
  BY DEF jobVars, VisionBusy, Ask, JobOK, IInv
<1>5. Exclusive'
  BY TasksAssumption
  DEF svc, none, Tasks, serviceVars, jobVars, VisionBusy, Ask, TypeOK, OwnersOK, JobOK, Exclusive,
      OwnFrame, IInv
<1>6. NpuExclusive'
  BY DEF serviceVars, jobVars, VisionBusy, Ask, TypeOK, OwnersOK, Exclusive, NpuExclusive, IInv
<1>7. OwnFrame'
  BY TasksAssumption, TokenAssumption
  DEF svc, none, Tasks, jobVars, VisionBusy, Ask, TypeOK, OwnersOK, Exclusive, OwnFrame, IInv
<1>8. CloudOnly'
  BY TasksAssumption, TokenAssumption
  DEF svc, none, Tasks, serviceVars, jobVars, modeVars, VisionBusy, Ask, TurnPlaces, SvcPlaces,
      ConsolePlaces, TypeOK, CloudOnly, IInv
<1>9. QED BY <1>1, <1>2, <1>3, <1>4, <1>5, <1>6, <1>7, <1>8 DEF IInv

\* AskEnds keeps the invariant.
LEMMA AskEndsStep ==
  ASSUME IInv, NEW c \in Consoles, AskEnds(c)
  PROVE  IInv'
<1>1. TypeOK'
  BY TasksAssumption, ChoicesAssumption, TokenAssumption
  DEF svc, none, Tasks, serviceVars, jobVars, modeVars, Goto, GotoWith, AskEnds, TurnPlaces,
      SvcPlaces, ConsolePlaces, TypeOK, IInv
<1>2. OwnersOK'
  BY TasksAssumption
  DEF svc, none, Tasks, serviceVars, Goto, GotoWith, AskEnds, TypeOK, OwnersOK, Exclusive, IInv
<1>3. LockOK'
  BY TasksAssumption
  DEF svc, none, Tasks, Goto, GotoWith, AskEnds, TypeOK, LockOK, IInv
<1>4. JobOK'
  BY DEF jobVars, AskEnds, JobOK, IInv
<1>5. Exclusive'
  BY TasksAssumption
  DEF svc, none, Tasks, serviceVars, jobVars, Goto, GotoWith, AskEnds, TypeOK, OwnersOK, JobOK,
      Exclusive, OwnFrame, IInv
<1>6. NpuExclusive'
  BY DEF serviceVars, jobVars, AskEnds, TypeOK, OwnersOK, Exclusive, NpuExclusive, IInv
<1>7. OwnFrame'
  BY TasksAssumption, TokenAssumption
  DEF svc, none, Tasks, jobVars, Goto, GotoWith, AskEnds, TypeOK, OwnersOK, Exclusive, OwnFrame,
      IInv
<1>8. CloudOnly'
  BY DEF Tasks, serviceVars, modeVars, Goto, GotoWith, AskEnds, TurnPlaces, TypeOK, CloudOnly, IInv
<1>9. QED BY <1>1, <1>2, <1>3, <1>4, <1>5, <1>6, <1>7, <1>8 DEF IInv

\* Speak keeps the invariant.
LEMMA SpeakStep ==
  ASSUME IInv, NEW c \in Consoles, Speak(c)
  PROVE  IInv'
<1>1. TypeOK'
  BY TasksAssumption, ChoicesAssumption, TokenAssumption
  DEF svc, none, Tasks, serviceVars, jobVars, modeVars, VisionBusy, Reserved, Goto, turnFrame,
      Speak, TurnPlaces, SvcPlaces, ConsolePlaces, TypeOK, IInv
<1>2. OwnersOK'
  BY TasksAssumption
  DEF svc, none, Tasks, serviceVars, VisionBusy, Reserved, Goto, turnFrame, Speak, TypeOK,
      OwnersOK, Exclusive, IInv
<1>3. LockOK'
  BY TasksAssumption
  DEF svc, none, Tasks, VisionBusy, Reserved, Goto, Speak, TypeOK, LockOK, IInv
<1>4. JobOK'
  BY DEF jobVars, VisionBusy, Reserved, Speak, JobOK, IInv
<1>5. Exclusive'
  BY TasksAssumption
  DEF svc, none, Tasks, serviceVars, jobVars, VisionBusy, Reserved, Goto, turnFrame, Speak,
      TypeOK, OwnersOK, JobOK, Exclusive, OwnFrame, IInv
<1>6. NpuExclusive'
  BY DEF serviceVars, jobVars, VisionBusy, Reserved, turnFrame, Speak, TypeOK, OwnersOK, Exclusive,
      NpuExclusive, IInv
<1>7. OwnFrame'
  BY TasksAssumption, TokenAssumption
  DEF svc, none, Tasks, jobVars, VisionBusy, Reserved, Goto, Speak, TypeOK, OwnersOK, Exclusive,
      OwnFrame, IInv
<1>8. CloudOnly'
  BY TasksAssumption, TokenAssumption
  DEF svc, none, Tasks, serviceVars, jobVars, modeVars, VisionBusy, Reserved, Goto, turnFrame,
      Speak, TurnPlaces, SvcPlaces, ConsolePlaces, TypeOK, CloudOnly, IInv
<1>9. QED BY <1>1, <1>2, <1>3, <1>4, <1>5, <1>6, <1>7, <1>8 DEF IInv

\* Camera keeps the invariant.
LEMMA CameraStep ==
  ASSUME IInv, NEW c \in Consoles, Camera(c)
  PROVE  IInv'
<1>1. TypeOK'
  <2>1. /\ operation_lock' \in Tasks \cup {none}
             /\ service_active' \in BOOLEAN /\ service_stop' \in BOOLEAN /\ service_pid' \in {none, svc}
             /\ session' \in BOOLEAN /\ consent' \in BOOLEAN /\ route' \in {"none", "local", "cloud"}
             /\ product_manual_owner' \in Consoles \cup {none} /\ audio_fault' \in BOOLEAN
    BY TasksAssumption, ChoicesAssumption, TokenAssumption
    DEF svc, none, Tasks, serviceVars, modeVars, taskVars, Reserved, NextToken, JobStart,
        JobMayStart, Camera, TurnPlaces, SvcPlaces, ConsolePlaces, TypeOK, IInv
  <2>2. worker' \in {"idle", "run", "cleanup", "stuck"}
    BY TasksAssumption, ChoicesAssumption, TokenAssumption
    DEF svc, none, Tasks, serviceVars, modeVars, taskVars, Reserved, NextToken, JobStart,
        JobMayStart, Camera, TurnPlaces, SvcPlaces, ConsolePlaces, TypeOK, IInv
  <2>3. cleanup' \in BOOLEAN
    BY TasksAssumption, ChoicesAssumption, TokenAssumption
    DEF svc, none, Tasks, serviceVars, modeVars, taskVars, Reserved, NextToken, JobStart,
        JobMayStart, Camera, TurnPlaces, SvcPlaces, ConsolePlaces, TypeOK, IInv
  <2>4. stop_requested' \in BOOLEAN /\ identify_job' \in BOOLEAN
    BY TasksAssumption, ChoicesAssumption, TokenAssumption
    DEF svc, none, Tasks, serviceVars, modeVars, taskVars, Reserved, NextToken, JobStart,
        JobMayStart, Camera, TurnPlaces, SvcPlaces, ConsolePlaces, TypeOK, IInv
  <2>5. request_token' \in 0..MaxToken /\ mode' \in Modes /\ turn_mode' \in Modes
    BY TasksAssumption, ChoicesAssumption, TokenAssumption
    DEF svc, none, Tasks, serviceVars, modeVars, taskVars, Reserved, NextToken, JobStart,
        JobMayStart, Camera, TurnPlaces, SvcPlaces, ConsolePlaces, TypeOK, IInv
  <2>6. PlacesOK'
    BY TasksAssumption, ChoicesAssumption, TokenAssumption
    DEF svc, none, Tasks, serviceVars, modeVars, taskVars, Reserved, NextToken, JobStart,
        JobMayStart, Camera, TurnPlaces, SvcPlaces, ConsolePlaces, TypeOK, IInv, PlacesOK
  <2>7. rc' \in [Tasks -> Codes] /\ token' \in [Tasks -> 0..MaxToken]
    BY TasksAssumption, ChoicesAssumption, TokenAssumption
    DEF svc, none, Tasks, serviceVars, modeVars, taskVars, Reserved, NextToken, JobStart,
        JobMayStart, Camera, TurnPlaces, SvcPlaces, ConsolePlaces, TypeOK, IInv, Codes
  <2>8. QED BY <2>1, <2>2, <2>3, <2>4, <2>5, <2>6, <2>7 DEF TypeOK, PlacesOK, Codes
<1>2. OwnersOK'
  BY TasksAssumption
  DEF svc, none, Tasks, serviceVars, taskVars, Reserved, JobStart, JobMayStart, Camera, TypeOK,
      OwnersOK, Exclusive, IInv
<1>3. LockOK'
  BY TasksAssumption
  DEF svc, none, Tasks, taskVars, Reserved, JobStart, JobMayStart, Camera, TypeOK, LockOK, IInv
<1>4. JobOK'
  BY DEF Reserved, JobStart, JobMayStart, Camera, JobOK, IInv
<1>5. Exclusive'
  BY TasksAssumption
  DEF svc, none, Tasks, serviceVars, taskVars, Reserved, JobStart, JobMayStart, Camera, TypeOK,
      OwnersOK, JobOK, Exclusive, OwnFrame, IInv
<1>6. NpuExclusive'
  BY TasksAssumption, TokenAssumption
  DEF svc, none, Tasks, serviceVars, modeVars, taskVars, Reserved, NextToken, JobStart,
      JobMayStart, Camera, TurnPlaces, SvcPlaces, ConsolePlaces, TypeOK, OwnersOK, Exclusive,
      NpuExclusive, IInv
<1>7. OwnFrame'
  BY TasksAssumption, TokenAssumption
  DEF svc, none, Tasks, taskVars, Reserved, NextToken, JobStart, JobMayStart, Camera, TypeOK,
      OwnersOK, Exclusive, OwnFrame, IInv
<1>8. CloudOnly'
  BY DEF Tasks, serviceVars, modeVars, taskVars, Reserved, JobStart, JobMayStart, Camera, TurnPlaces,
      TypeOK, CloudOnly, IInv
<1>9. QED BY <1>1, <1>2, <1>3, <1>4, <1>5, <1>6, <1>7, <1>8 DEF IInv

\* LiveStop keeps the invariant.
LEMMA LiveStopStep ==
  ASSUME IInv, NEW c \in Consoles, LiveStop(c)
  PROVE  IInv'
<1>1. TypeOK'
  BY TasksAssumption, ChoicesAssumption, TokenAssumption
  DEF svc, none, Tasks, serviceVars, modeVars, taskVars, LiveStop, TurnPlaces, SvcPlaces,
      ConsolePlaces, TypeOK, IInv
<1>2. OwnersOK'
  BY TasksAssumption
  DEF svc, none, Tasks, serviceVars, taskVars, LiveStop, TypeOK, OwnersOK, Exclusive, IInv
<1>3. LockOK'
  BY TasksAssumption
  DEF svc, none, Tasks, taskVars, LiveStop, TypeOK, LockOK, IInv
<1>4. JobOK'
  BY DEF LiveStop, JobOK, IInv
<1>5. Exclusive'
  BY TasksAssumption
  DEF svc, none, Tasks, serviceVars, taskVars, LiveStop, TypeOK, OwnersOK, JobOK, Exclusive,
      OwnFrame, IInv
<1>6. NpuExclusive'
  BY DEF serviceVars, LiveStop, TypeOK, OwnersOK, Exclusive, NpuExclusive, IInv
<1>7. OwnFrame'
  BY TasksAssumption, TokenAssumption
  DEF svc, none, Tasks, taskVars, LiveStop, TypeOK, OwnersOK, Exclusive, OwnFrame, IInv
<1>8. CloudOnly'
  BY DEF Tasks, serviceVars, modeVars, taskVars, LiveStop, TurnPlaces, TypeOK, CloudOnly, IInv
<1>9. QED BY <1>1, <1>2, <1>3, <1>4, <1>5, <1>6, <1>7, <1>8 DEF IInv

\* SayLock keeps the invariant.
LEMMA SayLockStep ==
  ASSUME IInv, NEW t \in Tasks, SayLock(t)
  PROVE  IInv'
<1>1. TypeOK'
  BY TasksAssumption, ChoicesAssumption, TokenAssumption
  DEF svc, none, Tasks, serviceVars, jobVars, modeVars, Goto, GotoWith, turnFrame, SaysEnd,
      SayLock, TurnPlaces, SvcPlaces, ConsolePlaces, TypeOK, IInv
<1>2. OwnersOK'
  BY TasksAssumption
  DEF svc, none, Tasks, serviceVars, Goto, GotoWith, turnFrame, SaysEnd, SayLock, TypeOK,
      OwnersOK, Exclusive, IInv
<1>3. LockOK'
  BY TasksAssumption
  DEF svc, none, Tasks, Goto, GotoWith, SaysEnd, SayLock, TypeOK, LockOK, IInv
<1>4. JobOK'
  BY DEF jobVars, SaysEnd, SayLock, JobOK, IInv
<1>5. Exclusive'
  BY TasksAssumption
  DEF svc, none, Tasks, serviceVars, jobVars, Goto, GotoWith, turnFrame, SaysEnd, SayLock, TypeOK,
      OwnersOK, JobOK, Exclusive, OwnFrame, IInv
<1>6. NpuExclusive'
  BY DEF serviceVars, jobVars, turnFrame, SaysEnd, SayLock, TypeOK, OwnersOK, Exclusive,
      NpuExclusive, IInv
<1>7. OwnFrame'
  BY TasksAssumption, TokenAssumption
  DEF svc, none, Tasks, jobVars, Goto, GotoWith, SaysEnd, SayLock, TypeOK, OwnersOK, Exclusive,
      OwnFrame, IInv
<1>8. CloudOnly'
  BY DEF Tasks, serviceVars, modeVars, Goto, GotoWith, turnFrame, SaysEnd, SayLock, TurnPlaces,
      TypeOK, CloudOnly, IInv
<1>9. QED BY <1>1, <1>2, <1>3, <1>4, <1>5, <1>6, <1>7, <1>8 DEF IInv

\* Claim keeps the invariant.
LEMMA ClaimStep ==
  ASSUME IInv, Claim
  PROVE  IInv'
<1>1. TypeOK'
  <2>1. /\ operation_lock' \in Tasks \cup {none} /\ service_pid' \in {none, svc}
             /\ service_active' \in BOOLEAN /\ service_stop' \in BOOLEAN
             /\ route' \in {"none", "local", "cloud"} /\ product_manual_owner' \in Consoles \cup {none}
    BY TasksAssumption, ChoicesAssumption, TokenAssumption
    DEF svc, none, Tasks, jobVars, modeVars, Goto, svcFrame, Claim, TurnPlaces, SvcPlaces,
        ConsolePlaces, TypeOK, IInv
  <2>2. session' \in BOOLEAN
    BY TasksAssumption, ChoicesAssumption, TokenAssumption
    DEF svc, none, Tasks, jobVars, modeVars, Goto, svcFrame, Claim, TurnPlaces, SvcPlaces,
        ConsolePlaces, TypeOK, IInv
  <2>3. consent' \in BOOLEAN
    BY TasksAssumption, ChoicesAssumption, TokenAssumption
    DEF svc, none, Tasks, jobVars, modeVars, Goto, svcFrame, Claim, TurnPlaces, SvcPlaces,
        ConsolePlaces, TypeOK, IInv
  <2>4. audio_fault' \in BOOLEAN
    BY TasksAssumption, ChoicesAssumption, TokenAssumption
    DEF svc, none, Tasks, jobVars, modeVars, Goto, svcFrame, Claim, TurnPlaces, SvcPlaces,
        ConsolePlaces, TypeOK, IInv
  <2>5. /\ worker' \in {"idle", "run", "cleanup", "stuck"} /\ cleanup' \in BOOLEAN
             /\ stop_requested' \in BOOLEAN /\ identify_job' \in BOOLEAN /\ request_token' \in 0..MaxToken
             /\ mode' \in Modes /\ turn_mode' \in Modes
    BY TasksAssumption, ChoicesAssumption, TokenAssumption
    DEF svc, none, Tasks, jobVars, modeVars, Goto, svcFrame, Claim, TurnPlaces, SvcPlaces,
        ConsolePlaces, TypeOK, IInv
  <2>6. PlacesOK'
    BY TasksAssumption, ChoicesAssumption, TokenAssumption
    DEF svc, none, Tasks, jobVars, modeVars, Goto, svcFrame, Claim, TurnPlaces, SvcPlaces,
        ConsolePlaces, TypeOK, IInv, PlacesOK
  <2>7. rc' \in [Tasks -> Codes] /\ token' \in [Tasks -> 0..MaxToken]
    BY TasksAssumption, ChoicesAssumption, TokenAssumption
    DEF svc, none, Tasks, jobVars, modeVars, Goto, svcFrame, Claim, TurnPlaces, SvcPlaces,
        ConsolePlaces, TypeOK, IInv, Codes
  <2>8. QED BY <2>1, <2>2, <2>3, <2>4, <2>5, <2>6, <2>7 DEF TypeOK, PlacesOK, Codes
<1>2. OwnersOK'
  BY TasksAssumption
  DEF svc, none, Tasks, Goto, svcFrame, Claim, TypeOK, OwnersOK, Exclusive, IInv
<1>3. LockOK'
  BY TasksAssumption
  DEF svc, none, Tasks, Goto, Claim, TypeOK, LockOK, IInv
<1>4. JobOK'
  BY DEF jobVars, svcFrame, Claim, JobOK, IInv
<1>5. Exclusive'
  BY TasksAssumption
  DEF svc, none, Tasks, jobVars, Goto, svcFrame, Claim, TypeOK, OwnersOK, JobOK, Exclusive,
      OwnFrame, IInv
<1>6. NpuExclusive'
  BY DEF jobVars, svcFrame, Claim, TypeOK, OwnersOK, Exclusive, NpuExclusive, IInv
<1>7. OwnFrame'
  BY TasksAssumption, TokenAssumption
  DEF svc, none, Tasks, jobVars, Goto, svcFrame, Claim, TypeOK, OwnersOK, Exclusive, OwnFrame, IInv
<1>8. CloudOnly'
  BY DEF Tasks, modeVars, Goto, svcFrame, Claim, TurnPlaces, TypeOK, CloudOnly, IInv
<1>9. QED BY <1>1, <1>2, <1>3, <1>4, <1>5, <1>6, <1>7, <1>8 DEF IInv

\* Loop keeps the invariant.
LEMMA LoopStep ==
  ASSUME IInv, Loop
  PROVE  IInv'
<1>1. TypeOK'
  BY TasksAssumption, ChoicesAssumption, TokenAssumption
  DEF svc, none, Tasks, jobVars, Goto, Stays, Loop, TurnPlaces, SvcPlaces, ConsolePlaces, TypeOK,
      IInv
<1>2. OwnersOK'
  BY TasksAssumption
  DEF svc, none, Tasks, Goto, Stays, Loop, TypeOK, OwnersOK, Exclusive, IInv
<1>3. LockOK'
  BY TasksAssumption
  DEF svc, none, Tasks, Goto, Loop, TypeOK, LockOK, IInv
<1>4. JobOK'
  BY DEF jobVars, Loop, JobOK, IInv
<1>5. Exclusive'
  BY TasksAssumption
  DEF svc, none, Tasks, jobVars, Goto, Stays, Loop, TypeOK, OwnersOK, JobOK, Exclusive, OwnFrame,
      IInv
<1>6. NpuExclusive'
  BY DEF jobVars, Loop, TypeOK, OwnersOK, Exclusive, NpuExclusive, IInv
<1>7. OwnFrame'
  BY TasksAssumption, TokenAssumption
  DEF svc, none, Tasks, jobVars, Goto, Loop, TypeOK, OwnersOK, Exclusive, OwnFrame, IInv
<1>8. CloudOnly'
  BY DEF Tasks, Goto, Loop, TurnPlaces, TypeOK, CloudOnly, IInv
<1>9. QED BY <1>1, <1>2, <1>3, <1>4, <1>5, <1>6, <1>7, <1>8 DEF IInv

\* Pause keeps the invariant.
LEMMA PauseStep ==
  ASSUME IInv, Pause
  PROVE  IInv'
<1>1. TypeOK'
  BY TasksAssumption, ChoicesAssumption, TokenAssumption
  DEF svc, none, Tasks, jobVars, modeVars, Goto, svcFrame, Stays, Pause, TurnPlaces, SvcPlaces,
      ConsolePlaces, TypeOK, IInv
<1>2. OwnersOK'
  BY TasksAssumption
  DEF svc, none, Tasks, Goto, svcFrame, Stays, Pause, TypeOK, OwnersOK, Exclusive, IInv
<1>3. LockOK'
  BY TasksAssumption
  DEF svc, none, Tasks, Goto, Pause, TypeOK, LockOK, IInv
<1>4. JobOK'
  BY DEF jobVars, svcFrame, Pause, JobOK, IInv
<1>5. Exclusive'
  BY TasksAssumption
  DEF svc, none, Tasks, jobVars, Goto, svcFrame, Stays, Pause, TypeOK, OwnersOK, JobOK, Exclusive,
      OwnFrame, IInv
<1>6. NpuExclusive'
  BY DEF jobVars, svcFrame, Pause, TypeOK, OwnersOK, Exclusive, NpuExclusive, IInv
<1>7. OwnFrame'
  BY TasksAssumption, TokenAssumption
  DEF svc, none, Tasks, jobVars, Goto, svcFrame, Pause, TypeOK, OwnersOK, Exclusive, OwnFrame, IInv
<1>8. CloudOnly'
  BY DEF Tasks, modeVars, Goto, svcFrame, Pause, TurnPlaces, TypeOK, CloudOnly, IInv
<1>9. QED BY <1>1, <1>2, <1>3, <1>4, <1>5, <1>6, <1>7, <1>8 DEF IInv

\* Open keeps the invariant.
LEMMA OpenStep ==
  ASSUME IInv, Open
  PROVE  IInv'
<1>1. TypeOK'
  <2>1. /\ operation_lock' \in Tasks \cup {none} /\ service_pid' \in {none, svc}
             /\ service_active' \in BOOLEAN /\ service_stop' \in BOOLEAN
             /\ route' \in {"none", "local", "cloud"} /\ product_manual_owner' \in Consoles \cup {none}
    BY TasksAssumption, ChoicesAssumption, TokenAssumption
    DEF svc, none, Tasks, jobVars, modeVars, Goto, GotoWith, svcFrame, Quarantine, Stays, Open,
        TurnPlaces, SvcPlaces, ConsolePlaces, TypeOK, IInv
  <2>2. session' \in BOOLEAN
    BY TasksAssumption, ChoicesAssumption, TokenAssumption
    DEF svc, none, Tasks, jobVars, modeVars, Goto, GotoWith, svcFrame, Quarantine, Stays, Open,
        TurnPlaces, SvcPlaces, ConsolePlaces, TypeOK, IInv
  <2>3. consent' \in BOOLEAN
    BY TasksAssumption, ChoicesAssumption, TokenAssumption
    DEF svc, none, Tasks, jobVars, modeVars, Goto, GotoWith, svcFrame, Quarantine, Stays, Open,
        TurnPlaces, SvcPlaces, ConsolePlaces, TypeOK, IInv
  <2>4. audio_fault' \in BOOLEAN
    BY TasksAssumption, ChoicesAssumption, TokenAssumption
    DEF svc, none, Tasks, jobVars, modeVars, Goto, GotoWith, svcFrame, Quarantine, Stays, Open,
        TurnPlaces, SvcPlaces, ConsolePlaces, TypeOK, IInv
  <2>5. /\ worker' \in {"idle", "run", "cleanup", "stuck"} /\ cleanup' \in BOOLEAN
             /\ stop_requested' \in BOOLEAN /\ identify_job' \in BOOLEAN /\ request_token' \in 0..MaxToken
             /\ mode' \in Modes /\ turn_mode' \in Modes
    BY TasksAssumption, ChoicesAssumption, TokenAssumption
    DEF svc, none, Tasks, jobVars, modeVars, Goto, GotoWith, svcFrame, Quarantine, Stays, Open,
        TurnPlaces, SvcPlaces, ConsolePlaces, TypeOK, IInv
  <2>6. PlacesOK'
    BY TasksAssumption, ChoicesAssumption, TokenAssumption
    DEF svc, none, Tasks, jobVars, modeVars, Goto, GotoWith, svcFrame, Quarantine, Stays, Open,
        TurnPlaces, SvcPlaces, ConsolePlaces, TypeOK, IInv, PlacesOK
  <2>7. rc' \in [Tasks -> Codes] /\ token' \in [Tasks -> 0..MaxToken]
    BY TasksAssumption, ChoicesAssumption, TokenAssumption
    DEF svc, none, Tasks, jobVars, modeVars, Goto, GotoWith, svcFrame, Quarantine, Stays, Open,
        TurnPlaces, SvcPlaces, ConsolePlaces, TypeOK, IInv, Codes
  <2>8. QED BY <2>1, <2>2, <2>3, <2>4, <2>5, <2>6, <2>7 DEF TypeOK, PlacesOK, Codes
<1>2. OwnersOK'
  BY TasksAssumption
  DEF svc, none, Tasks, Goto, GotoWith, svcFrame, Quarantine, Stays, Open, TypeOK, OwnersOK,
      Exclusive, IInv
<1>3. LockOK'
  BY TasksAssumption
  DEF svc, none, Tasks, Goto, GotoWith, Quarantine, Open, TypeOK, LockOK, IInv
<1>4. JobOK'
  BY DEF jobVars, svcFrame, Quarantine, Open, JobOK, IInv
<1>5. Exclusive'
  BY TasksAssumption
  DEF svc, none, Tasks, jobVars, Goto, GotoWith, svcFrame, Quarantine, Stays, Open, TypeOK,
      OwnersOK, JobOK, Exclusive, OwnFrame, IInv
<1>6. NpuExclusive'
  BY TasksAssumption, TokenAssumption
  DEF svc, none, Tasks, jobVars, modeVars, Goto, GotoWith, svcFrame, Quarantine, Stays, Open,
      TurnPlaces, SvcPlaces, ConsolePlaces, TypeOK, OwnersOK, Exclusive, NpuExclusive, IInv
<1>7. OwnFrame'
  BY TasksAssumption, TokenAssumption
  DEF svc, none, Tasks, jobVars, Goto, GotoWith, svcFrame, Quarantine, Open, TypeOK, OwnersOK,
      Exclusive, OwnFrame, IInv
<1>8. CloudOnly'
  BY DEF Tasks, modeVars, Goto, GotoWith, svcFrame, Quarantine, Open, TurnPlaces, TypeOK, CloudOnly,
      IInv
<1>9. QED BY <1>1, <1>2, <1>3, <1>4, <1>5, <1>6, <1>7, <1>8 DEF IInv

\* Listen keeps the invariant.
LEMMA ListenStep ==
  ASSUME IInv, Listen
  PROVE  IInv'
<1>1. TypeOK'
  BY TasksAssumption, ChoicesAssumption, TokenAssumption
  DEF svc, none, Tasks, jobVars, modeVars, Goto, svcFrame, Stays, Listen, TurnPlaces, SvcPlaces,
      ConsolePlaces, TypeOK, IInv
<1>2. OwnersOK'
  BY TasksAssumption
  DEF svc, none, Tasks, Goto, svcFrame, Stays, Listen, TypeOK, OwnersOK, Exclusive, IInv
<1>3. LockOK'
  BY TasksAssumption
  DEF svc, none, Tasks, Goto, Listen, TypeOK, LockOK, IInv
<1>4. JobOK'
  BY DEF jobVars, svcFrame, Listen, JobOK, IInv
<1>5. Exclusive'
  BY TasksAssumption
  DEF svc, none, Tasks, jobVars, Goto, svcFrame, Stays, Listen, TypeOK, OwnersOK, JobOK,
      Exclusive, OwnFrame, IInv
<1>6. NpuExclusive'
  BY DEF jobVars, svcFrame, Listen, TypeOK, OwnersOK, Exclusive, NpuExclusive, IInv
<1>7. OwnFrame'
  BY TasksAssumption, TokenAssumption
  DEF svc, none, Tasks, jobVars, Goto, svcFrame, Listen, TypeOK, OwnersOK, Exclusive, OwnFrame, IInv
<1>8. CloudOnly'
  BY DEF Tasks, modeVars, Goto, svcFrame, Listen, TurnPlaces, TypeOK, CloudOnly, IInv
<1>9. QED BY <1>1, <1>2, <1>3, <1>4, <1>5, <1>6, <1>7, <1>8 DEF IInv

\* Capture keeps the invariant.
LEMMA CaptureStep ==
  ASSUME IInv, Capture
  PROVE  IInv'
<1>1. TypeOK'
  <2>1. /\ operation_lock' \in Tasks \cup {none} /\ service_pid' \in {none, svc}
             /\ service_active' \in BOOLEAN /\ service_stop' \in BOOLEAN
             /\ route' \in {"none", "local", "cloud"} /\ product_manual_owner' \in Consoles \cup {none}
    BY TasksAssumption, ChoicesAssumption, TokenAssumption
    DEF svc, none, Tasks, jobVars, modeVars, Goto, GotoWith, svcFrame, Quarantine, Stays, Capture,
        TurnPlaces, SvcPlaces, ConsolePlaces, TypeOK, IInv
  <2>2. session' \in BOOLEAN
    BY TasksAssumption, ChoicesAssumption, TokenAssumption
    DEF svc, none, Tasks, jobVars, modeVars, Goto, GotoWith, svcFrame, Quarantine, Stays, Capture,
        TurnPlaces, SvcPlaces, ConsolePlaces, TypeOK, IInv
  <2>3. consent' \in BOOLEAN
    BY TasksAssumption, ChoicesAssumption, TokenAssumption
    DEF svc, none, Tasks, jobVars, modeVars, Goto, GotoWith, svcFrame, Quarantine, Stays, Capture,
        TurnPlaces, SvcPlaces, ConsolePlaces, TypeOK, IInv
  <2>4. audio_fault' \in BOOLEAN
    BY TasksAssumption, ChoicesAssumption, TokenAssumption
    DEF svc, none, Tasks, jobVars, modeVars, Goto, GotoWith, svcFrame, Quarantine, Stays, Capture,
        TurnPlaces, SvcPlaces, ConsolePlaces, TypeOK, IInv
  <2>5. /\ worker' \in {"idle", "run", "cleanup", "stuck"} /\ cleanup' \in BOOLEAN
             /\ stop_requested' \in BOOLEAN /\ identify_job' \in BOOLEAN /\ request_token' \in 0..MaxToken
             /\ mode' \in Modes /\ turn_mode' \in Modes
    BY TasksAssumption, ChoicesAssumption, TokenAssumption
    DEF svc, none, Tasks, jobVars, modeVars, Goto, GotoWith, svcFrame, Quarantine, Stays, Capture,
        TurnPlaces, SvcPlaces, ConsolePlaces, TypeOK, IInv
  <2>6. PlacesOK'
    BY TasksAssumption, ChoicesAssumption, TokenAssumption
    DEF svc, none, Tasks, jobVars, modeVars, Goto, GotoWith, svcFrame, Quarantine, Stays, Capture,
        TurnPlaces, SvcPlaces, ConsolePlaces, TypeOK, IInv, PlacesOK
  <2>7. rc' \in [Tasks -> Codes] /\ token' \in [Tasks -> 0..MaxToken]
    BY TasksAssumption, ChoicesAssumption, TokenAssumption
    DEF svc, none, Tasks, jobVars, modeVars, Goto, GotoWith, svcFrame, Quarantine, Stays, Capture,
        TurnPlaces, SvcPlaces, ConsolePlaces, TypeOK, IInv, Codes
  <2>8. QED BY <2>1, <2>2, <2>3, <2>4, <2>5, <2>6, <2>7 DEF TypeOK, PlacesOK, Codes
<1>2. OwnersOK'
  BY TasksAssumption
  DEF svc, none, Tasks, Goto, GotoWith, svcFrame, Quarantine, Stays, Capture, TypeOK, OwnersOK,
      Exclusive, IInv
<1>3. LockOK'
  BY TasksAssumption
  DEF svc, none, Tasks, Goto, GotoWith, Quarantine, Capture, TypeOK, LockOK, IInv
<1>4. JobOK'
  BY DEF jobVars, svcFrame, Quarantine, Capture, JobOK, IInv
<1>5. Exclusive'
  BY TasksAssumption
  DEF svc, none, Tasks, jobVars, Goto, GotoWith, svcFrame, Quarantine, Stays, Capture, TypeOK,
      OwnersOK, JobOK, Exclusive, OwnFrame, IInv
<1>6. NpuExclusive'
  BY DEF jobVars, svcFrame, Quarantine, Capture, TypeOK, OwnersOK, Exclusive, NpuExclusive, IInv
<1>7. OwnFrame'
  BY TasksAssumption, TokenAssumption
  DEF svc, none, Tasks, jobVars, Goto, GotoWith, svcFrame, Quarantine, Capture, TypeOK, OwnersOK,
      Exclusive, OwnFrame, IInv
<1>8. CloudOnly'
  BY DEF Tasks, modeVars, Goto, GotoWith, svcFrame, Quarantine, Capture, TurnPlaces, TypeOK,
      CloudOnly, IInv
<1>9. QED BY <1>1, <1>2, <1>3, <1>4, <1>5, <1>6, <1>7, <1>8 DEF IInv

\* Recognise keeps the invariant.
LEMMA RecogniseStep ==
  ASSUME IInv, Recognise
  PROVE  IInv'
<1>1. TypeOK'
  <2>1. /\ operation_lock' \in Tasks \cup {none} /\ service_pid' \in {none, svc}
             /\ service_active' \in BOOLEAN /\ service_stop' \in BOOLEAN
             /\ route' \in {"none", "local", "cloud"} /\ product_manual_owner' \in Consoles \cup {none}
    BY TasksAssumption, ChoicesAssumption, TokenAssumption
    DEF svc, none, Tasks, jobVars, modeVars, Goto, GotoWith, svcFrame, Quarantine, Stays,
        FallsBack, Recognise, TurnPlaces, SvcPlaces, ConsolePlaces, TypeOK, IInv
  <2>2. session' \in BOOLEAN
    BY TasksAssumption, ChoicesAssumption, TokenAssumption
    DEF svc, none, Tasks, jobVars, modeVars, Goto, GotoWith, svcFrame, Quarantine, Stays,
        FallsBack, Recognise, TurnPlaces, SvcPlaces, ConsolePlaces, TypeOK, IInv
  <2>3. consent' \in BOOLEAN
    BY TasksAssumption, ChoicesAssumption, TokenAssumption
    DEF svc, none, Tasks, jobVars, modeVars, Goto, GotoWith, svcFrame, Quarantine, Stays,
        FallsBack, Recognise, TurnPlaces, SvcPlaces, ConsolePlaces, TypeOK, IInv
  <2>4. audio_fault' \in BOOLEAN
    BY TasksAssumption, ChoicesAssumption, TokenAssumption
    DEF svc, none, Tasks, jobVars, modeVars, Goto, GotoWith, svcFrame, Quarantine, Stays,
        FallsBack, Recognise, TurnPlaces, SvcPlaces, ConsolePlaces, TypeOK, IInv
  <2>5. /\ worker' \in {"idle", "run", "cleanup", "stuck"} /\ cleanup' \in BOOLEAN
             /\ stop_requested' \in BOOLEAN /\ identify_job' \in BOOLEAN /\ request_token' \in 0..MaxToken
             /\ mode' \in Modes /\ turn_mode' \in Modes
    BY TasksAssumption, ChoicesAssumption, TokenAssumption
    DEF svc, none, Tasks, jobVars, modeVars, Goto, GotoWith, svcFrame, Quarantine, Stays,
        FallsBack, Recognise, TurnPlaces, SvcPlaces, ConsolePlaces, TypeOK, IInv
  <2>6. PlacesOK'
    BY TasksAssumption, ChoicesAssumption, TokenAssumption
    DEF svc, none, Tasks, jobVars, modeVars, Goto, GotoWith, svcFrame, Quarantine, Stays,
        FallsBack, Recognise, TurnPlaces, SvcPlaces, ConsolePlaces, TypeOK, IInv, PlacesOK
  <2>7. rc' \in [Tasks -> Codes] /\ token' \in [Tasks -> 0..MaxToken]
    BY TasksAssumption, ChoicesAssumption, TokenAssumption
    DEF svc, none, Tasks, jobVars, modeVars, Goto, GotoWith, svcFrame, Quarantine, Stays,
        FallsBack, Recognise, TurnPlaces, SvcPlaces, ConsolePlaces, TypeOK, IInv, Codes
  <2>8. QED BY <2>1, <2>2, <2>3, <2>4, <2>5, <2>6, <2>7 DEF TypeOK, PlacesOK, Codes
<1>2. OwnersOK'
  BY TasksAssumption
  DEF svc, none, Tasks, Goto, GotoWith, svcFrame, Quarantine, Stays, Recognise, TypeOK, OwnersOK,
      Exclusive, IInv
<1>3. LockOK'
  BY TasksAssumption
  DEF svc, none, Tasks, Goto, GotoWith, Quarantine, Recognise, TypeOK, LockOK, IInv
<1>4. JobOK'
  BY DEF jobVars, svcFrame, Quarantine, Recognise, JobOK, IInv
<1>5. Exclusive'
  BY TasksAssumption
  DEF svc, none, Tasks, jobVars, Goto, GotoWith, svcFrame, Quarantine, Stays, Recognise, TypeOK,
      OwnersOK, JobOK, Exclusive, OwnFrame, IInv
<1>6. NpuExclusive'
  BY DEF jobVars, svcFrame, Quarantine, Recognise, TypeOK, OwnersOK, Exclusive, NpuExclusive, IInv
<1>7. OwnFrame'
  BY TasksAssumption, TokenAssumption
  DEF svc, none, Tasks, jobVars, Goto, GotoWith, svcFrame, Quarantine, Recognise, TypeOK,
      OwnersOK, Exclusive, OwnFrame, IInv
<1>8. CloudOnly'
  BY TasksAssumption, TokenAssumption
  DEF svc, none, Tasks, jobVars, modeVars, Goto, GotoWith, svcFrame, Quarantine, Stays, FallsBack,
      Recognise, TurnPlaces, SvcPlaces, ConsolePlaces, TypeOK, CloudOnly, IInv
<1>9. QED BY <1>1, <1>2, <1>3, <1>4, <1>5, <1>6, <1>7, <1>8 DEF IInv

\* Dispatch keeps the invariant.
LEMMA DispatchStep ==
  ASSUME IInv, Dispatch
  PROVE  IInv'
<1>1. TypeOK'
  <2>1. /\ operation_lock' \in Tasks \cup {none} /\ service_pid' \in {none, svc}
             /\ service_active' \in BOOLEAN /\ service_stop' \in BOOLEAN
             /\ route' \in {"none", "local", "cloud"} /\ product_manual_owner' \in Consoles \cup {none}
    BY TasksAssumption, ChoicesAssumption, TokenAssumption
    DEF svc, none, Tasks, jobVars, modeVars, Goto, GotoWith, svcFrame, Quarantine, Stays,
        CloseSession, Dispatch, TurnPlaces, SvcPlaces, ConsolePlaces, TypeOK, IInv
  <2>2. session' \in BOOLEAN
    BY TasksAssumption, ChoicesAssumption, TokenAssumption
    DEF svc, none, Tasks, jobVars, modeVars, Goto, GotoWith, svcFrame, Quarantine, Stays,
        CloseSession, Dispatch, TurnPlaces, SvcPlaces, ConsolePlaces, TypeOK, IInv
  <2>3. consent' \in BOOLEAN
    BY TasksAssumption, ChoicesAssumption, TokenAssumption
    DEF svc, none, Tasks, jobVars, modeVars, Goto, GotoWith, svcFrame, Quarantine, Stays,
        CloseSession, Dispatch, TurnPlaces, SvcPlaces, ConsolePlaces, TypeOK, IInv
  <2>4. audio_fault' \in BOOLEAN
    BY TasksAssumption, ChoicesAssumption, TokenAssumption
    DEF svc, none, Tasks, jobVars, modeVars, Goto, GotoWith, svcFrame, Quarantine, Stays,
        CloseSession, Dispatch, TurnPlaces, SvcPlaces, ConsolePlaces, TypeOK, IInv
  <2>5. /\ worker' \in {"idle", "run", "cleanup", "stuck"} /\ cleanup' \in BOOLEAN
             /\ stop_requested' \in BOOLEAN /\ identify_job' \in BOOLEAN /\ request_token' \in 0..MaxToken
             /\ mode' \in Modes /\ turn_mode' \in Modes
    BY TasksAssumption, ChoicesAssumption, TokenAssumption
    DEF svc, none, Tasks, jobVars, modeVars, Goto, GotoWith, svcFrame, Quarantine, Stays,
        CloseSession, Dispatch, TurnPlaces, SvcPlaces, ConsolePlaces, TypeOK, IInv
  <2>6. PlacesOK'
    BY TasksAssumption, ChoicesAssumption, TokenAssumption
    DEF svc, none, Tasks, jobVars, modeVars, Goto, GotoWith, svcFrame, Quarantine, Stays,
        CloseSession, Dispatch, TurnPlaces, SvcPlaces, ConsolePlaces, TypeOK, IInv, PlacesOK
  <2>7. rc' \in [Tasks -> Codes] /\ token' \in [Tasks -> 0..MaxToken]
    BY TasksAssumption, ChoicesAssumption, TokenAssumption
    DEF svc, none, Tasks, jobVars, modeVars, Goto, GotoWith, svcFrame, Quarantine, Stays,
        CloseSession, Dispatch, TurnPlaces, SvcPlaces, ConsolePlaces, TypeOK, IInv, Codes
  <2>8. QED BY <2>1, <2>2, <2>3, <2>4, <2>5, <2>6, <2>7 DEF TypeOK, PlacesOK, Codes
<1>2. OwnersOK'
  BY TasksAssumption
  DEF svc, none, Tasks, Goto, GotoWith, svcFrame, Quarantine, Stays, CloseSession, Dispatch,
      TypeOK, OwnersOK, Exclusive, IInv
<1>3. LockOK'
  BY TasksAssumption
  DEF svc, none, Tasks, Goto, GotoWith, Quarantine, CloseSession, Dispatch, TypeOK, LockOK, IInv
<1>4. JobOK'
  BY DEF jobVars, svcFrame, Quarantine, CloseSession, Dispatch, JobOK, IInv
<1>5. Exclusive'
  BY TasksAssumption
  DEF svc, none, Tasks, jobVars, Goto, GotoWith, svcFrame, Quarantine, Stays, CloseSession,
      Dispatch, TypeOK, OwnersOK, JobOK, Exclusive, OwnFrame, IInv
<1>6. NpuExclusive'
  BY DEF jobVars, svcFrame, Quarantine, CloseSession, Dispatch, TypeOK, OwnersOK, Exclusive,
      NpuExclusive, IInv
<1>7. OwnFrame'
  BY TasksAssumption, TokenAssumption
  DEF svc, none, Tasks, jobVars, Goto, GotoWith, svcFrame, Quarantine, CloseSession, Dispatch,
      TypeOK, OwnersOK, Exclusive, OwnFrame, IInv
<1>8. CloudOnly'
  BY DEF Tasks, modeVars, Goto, GotoWith, svcFrame, Quarantine, CloseSession, Dispatch, TurnPlaces,
      TypeOK, CloudOnly, IInv
<1>9. QED BY <1>1, <1>2, <1>3, <1>4, <1>5, <1>6, <1>7, <1>8 DEF IInv

\* SvcTurnEnds keeps the invariant.
LEMMA SvcTurnEndsStep ==
  ASSUME IInv, SvcTurnEnds
  PROVE  IInv'
<1>1. TypeOK'
  <2>1. /\ operation_lock' \in Tasks \cup {none} /\ service_pid' \in {none, svc}
             /\ service_active' \in BOOLEAN /\ service_stop' \in BOOLEAN
             /\ route' \in {"none", "local", "cloud"} /\ product_manual_owner' \in Consoles \cup {none}
    BY TasksAssumption, ChoicesAssumption, TokenAssumption
    DEF svc, none, Tasks, jobVars, modeVars, Goto, GotoWith, svcFrame, Quarantine, SvcTurnEnds,
        TurnPlaces, SvcPlaces, ConsolePlaces, TypeOK, IInv
  <2>2. session' \in BOOLEAN
    BY TasksAssumption, ChoicesAssumption, TokenAssumption
    DEF svc, none, Tasks, jobVars, modeVars, Goto, GotoWith, svcFrame, Quarantine, SvcTurnEnds,
        TurnPlaces, SvcPlaces, ConsolePlaces, TypeOK, IInv
  <2>3. consent' \in BOOLEAN
    BY TasksAssumption, ChoicesAssumption, TokenAssumption
    DEF svc, none, Tasks, jobVars, modeVars, Goto, GotoWith, svcFrame, Quarantine, SvcTurnEnds,
        TurnPlaces, SvcPlaces, ConsolePlaces, TypeOK, IInv
  <2>4. audio_fault' \in BOOLEAN
    BY TasksAssumption, ChoicesAssumption, TokenAssumption
    DEF svc, none, Tasks, jobVars, modeVars, Goto, GotoWith, svcFrame, Quarantine, SvcTurnEnds,
        TurnPlaces, SvcPlaces, ConsolePlaces, TypeOK, IInv
  <2>5. /\ worker' \in {"idle", "run", "cleanup", "stuck"} /\ cleanup' \in BOOLEAN
             /\ stop_requested' \in BOOLEAN /\ identify_job' \in BOOLEAN /\ request_token' \in 0..MaxToken
             /\ mode' \in Modes /\ turn_mode' \in Modes
    BY TasksAssumption, ChoicesAssumption, TokenAssumption
    DEF svc, none, Tasks, jobVars, modeVars, Goto, GotoWith, svcFrame, Quarantine, SvcTurnEnds,
        TurnPlaces, SvcPlaces, ConsolePlaces, TypeOK, IInv
  <2>6. PlacesOK'
    BY TasksAssumption, ChoicesAssumption, TokenAssumption
    DEF svc, none, Tasks, jobVars, modeVars, Goto, GotoWith, svcFrame, Quarantine, SvcTurnEnds,
        TurnPlaces, SvcPlaces, ConsolePlaces, TypeOK, IInv, PlacesOK
  <2>7. rc' \in [Tasks -> Codes] /\ token' \in [Tasks -> 0..MaxToken]
    BY TasksAssumption, ChoicesAssumption, TokenAssumption
    DEF svc, none, Tasks, jobVars, modeVars, Goto, GotoWith, svcFrame, Quarantine, SvcTurnEnds,
        TurnPlaces, SvcPlaces, ConsolePlaces, TypeOK, IInv, Codes
  <2>8. QED BY <2>1, <2>2, <2>3, <2>4, <2>5, <2>6, <2>7 DEF TypeOK, PlacesOK, Codes
<1>2. OwnersOK'
  BY TasksAssumption
  DEF svc, none, Tasks, Goto, GotoWith, svcFrame, Quarantine, SvcTurnEnds, TypeOK, OwnersOK,
      Exclusive, IInv
<1>3. LockOK'
  BY TasksAssumption
  DEF svc, none, Tasks, Goto, GotoWith, Quarantine, SvcTurnEnds, TypeOK, LockOK, IInv
<1>4. JobOK'
  BY DEF jobVars, svcFrame, Quarantine, SvcTurnEnds, JobOK, IInv
<1>5. Exclusive'
  BY TasksAssumption
  DEF svc, none, Tasks, jobVars, Goto, GotoWith, svcFrame, Quarantine, SvcTurnEnds, TypeOK,
      OwnersOK, JobOK, Exclusive, OwnFrame, IInv
<1>6. NpuExclusive'
  BY DEF jobVars, svcFrame, Quarantine, SvcTurnEnds, TypeOK, OwnersOK, Exclusive, NpuExclusive, IInv
<1>7. OwnFrame'
  BY TasksAssumption, TokenAssumption
  DEF svc, none, Tasks, jobVars, Goto, GotoWith, svcFrame, Quarantine, SvcTurnEnds, TypeOK,
      OwnersOK, Exclusive, OwnFrame, IInv
<1>8. CloudOnly'
  BY DEF Tasks, modeVars, Goto, GotoWith, svcFrame, Quarantine, SvcTurnEnds, TurnPlaces, TypeOK,
      CloudOnly, IInv
<1>9. QED BY <1>1, <1>2, <1>3, <1>4, <1>5, <1>6, <1>7, <1>8 DEF IInv

\* Exit keeps the invariant.
LEMMA ExitStep ==
  ASSUME IInv, Exit
  PROVE  IInv'
<1>1. TypeOK'
  <2>1. /\ operation_lock' \in Tasks \cup {none} /\ service_pid' \in {none, svc}
             /\ service_active' \in BOOLEAN /\ service_stop' \in BOOLEAN
             /\ route' \in {"none", "local", "cloud"} /\ product_manual_owner' \in Consoles \cup {none}
    BY TasksAssumption, ChoicesAssumption, TokenAssumption
    DEF svc, none, Tasks, jobVars, modeVars, Goto, GotoWith, svcFrame, Quarantine, Exit,
        TurnPlaces, SvcPlaces, ConsolePlaces, TypeOK, IInv
  <2>2. session' \in BOOLEAN
    BY TasksAssumption, ChoicesAssumption, TokenAssumption
    DEF svc, none, Tasks, jobVars, modeVars, Goto, GotoWith, svcFrame, Quarantine, Exit,
        TurnPlaces, SvcPlaces, ConsolePlaces, TypeOK, IInv
  <2>3. consent' \in BOOLEAN
    BY TasksAssumption, ChoicesAssumption, TokenAssumption
    DEF svc, none, Tasks, jobVars, modeVars, Goto, GotoWith, svcFrame, Quarantine, Exit,
        TurnPlaces, SvcPlaces, ConsolePlaces, TypeOK, IInv
  <2>4. audio_fault' \in BOOLEAN
    BY TasksAssumption, ChoicesAssumption, TokenAssumption
    DEF svc, none, Tasks, jobVars, modeVars, Goto, GotoWith, svcFrame, Quarantine, Exit,
        TurnPlaces, SvcPlaces, ConsolePlaces, TypeOK, IInv
  <2>5. /\ worker' \in {"idle", "run", "cleanup", "stuck"} /\ cleanup' \in BOOLEAN
             /\ stop_requested' \in BOOLEAN /\ identify_job' \in BOOLEAN /\ request_token' \in 0..MaxToken
             /\ mode' \in Modes /\ turn_mode' \in Modes
    BY TasksAssumption, ChoicesAssumption, TokenAssumption
    DEF svc, none, Tasks, jobVars, modeVars, Goto, GotoWith, svcFrame, Quarantine, Exit,
        TurnPlaces, SvcPlaces, ConsolePlaces, TypeOK, IInv
  <2>6. PlacesOK'
    BY TasksAssumption, ChoicesAssumption, TokenAssumption
    DEF svc, none, Tasks, jobVars, modeVars, Goto, GotoWith, svcFrame, Quarantine, Exit,
        TurnPlaces, SvcPlaces, ConsolePlaces, TypeOK, IInv, PlacesOK
  <2>7. rc' \in [Tasks -> Codes] /\ token' \in [Tasks -> 0..MaxToken]
    BY TasksAssumption, ChoicesAssumption, TokenAssumption
    DEF svc, none, Tasks, jobVars, modeVars, Goto, GotoWith, svcFrame, Quarantine, Exit,
        TurnPlaces, SvcPlaces, ConsolePlaces, TypeOK, IInv, Codes
  <2>8. QED BY <2>1, <2>2, <2>3, <2>4, <2>5, <2>6, <2>7 DEF TypeOK, PlacesOK, Codes
<1>2. OwnersOK'
  BY TasksAssumption
  DEF svc, none, Tasks, Goto, GotoWith, svcFrame, Quarantine, Exit, TypeOK, OwnersOK, Exclusive,
      IInv
<1>3. LockOK'
  BY TasksAssumption
  DEF svc, none, Tasks, Goto, GotoWith, Quarantine, Exit, TypeOK, LockOK, IInv
<1>4. JobOK'
  BY DEF jobVars, svcFrame, Quarantine, Exit, JobOK, IInv
<1>5. Exclusive'
  BY TasksAssumption
  DEF svc, none, Tasks, jobVars, Goto, GotoWith, svcFrame, Quarantine, Exit, TypeOK, OwnersOK,
      JobOK, Exclusive, OwnFrame, IInv
<1>6. NpuExclusive'
  BY DEF jobVars, svcFrame, Quarantine, Exit, TypeOK, OwnersOK, Exclusive, NpuExclusive, IInv
<1>7. OwnFrame'
  BY TasksAssumption, TokenAssumption
  DEF svc, none, Tasks, jobVars, Goto, GotoWith, svcFrame, Quarantine, Exit, TypeOK, OwnersOK,
      Exclusive, OwnFrame, IInv
<1>8. CloudOnly'
  BY DEF Tasks, modeVars, Goto, GotoWith, svcFrame, Quarantine, Exit, TurnPlaces, TypeOK, CloudOnly,
      IInv
<1>9. QED BY <1>1, <1>2, <1>3, <1>4, <1>5, <1>6, <1>7, <1>8 DEF IInv

\* JobRuns keeps the invariant.
LEMMA JobRunsStep ==
  ASSUME IInv, JobRuns
  PROVE  IInv'
<1>1. TypeOK'
  <2>1. /\ operation_lock' \in Tasks \cup {none}
             /\ service_active' \in BOOLEAN /\ service_stop' \in BOOLEAN /\ service_pid' \in {none, svc}
             /\ session' \in BOOLEAN /\ consent' \in BOOLEAN /\ route' \in {"none", "local", "cloud"}
             /\ product_manual_owner' \in Consoles \cup {none} /\ audio_fault' \in BOOLEAN
    BY TasksAssumption, ChoicesAssumption, TokenAssumption
    DEF svc, none, Tasks, serviceVars, modeVars, taskVars, JobRuns, TurnPlaces, SvcPlaces,
        ConsolePlaces, TypeOK, IInv
  <2>2. worker' \in {"idle", "run", "cleanup", "stuck"}
    BY TasksAssumption, ChoicesAssumption, TokenAssumption
    DEF svc, none, Tasks, serviceVars, modeVars, taskVars, JobRuns, TurnPlaces, SvcPlaces,
        ConsolePlaces, TypeOK, IInv
  <2>3. cleanup' \in BOOLEAN
    BY TasksAssumption, ChoicesAssumption, TokenAssumption
    DEF svc, none, Tasks, serviceVars, modeVars, taskVars, JobRuns, TurnPlaces, SvcPlaces,
        ConsolePlaces, TypeOK, IInv
  <2>4. stop_requested' \in BOOLEAN /\ identify_job' \in BOOLEAN
    BY TasksAssumption, ChoicesAssumption, TokenAssumption
    DEF svc, none, Tasks, serviceVars, modeVars, taskVars, JobRuns, TurnPlaces, SvcPlaces,
        ConsolePlaces, TypeOK, IInv
  <2>5. request_token' \in 0..MaxToken /\ mode' \in Modes /\ turn_mode' \in Modes
    BY TasksAssumption, ChoicesAssumption, TokenAssumption
    DEF svc, none, Tasks, serviceVars, modeVars, taskVars, JobRuns, TurnPlaces, SvcPlaces,
        ConsolePlaces, TypeOK, IInv
  <2>6. PlacesOK'
    BY TasksAssumption, ChoicesAssumption, TokenAssumption
    DEF svc, none, Tasks, serviceVars, modeVars, taskVars, JobRuns, TurnPlaces, SvcPlaces,
        ConsolePlaces, TypeOK, IInv, PlacesOK
  <2>7. rc' \in [Tasks -> Codes] /\ token' \in [Tasks -> 0..MaxToken]
    BY TasksAssumption, ChoicesAssumption, TokenAssumption
    DEF svc, none, Tasks, serviceVars, modeVars, taskVars, JobRuns, TurnPlaces, SvcPlaces,
        ConsolePlaces, TypeOK, IInv, Codes
  <2>8. QED BY <2>1, <2>2, <2>3, <2>4, <2>5, <2>6, <2>7 DEF TypeOK, PlacesOK, Codes
<1>2. OwnersOK'
  BY TasksAssumption
  DEF svc, none, Tasks, serviceVars, taskVars, JobRuns, TypeOK, OwnersOK, Exclusive, IInv
<1>3. LockOK'
  BY TasksAssumption
  DEF svc, none, Tasks, taskVars, JobRuns, TypeOK, LockOK, IInv
<1>4. JobOK'
  BY DEF JobRuns, JobOK, IInv
<1>5. Exclusive'
  BY TasksAssumption
  DEF svc, none, Tasks, serviceVars, taskVars, JobRuns, TypeOK, OwnersOK, JobOK, Exclusive,
      OwnFrame, IInv
<1>6. NpuExclusive'
  BY DEF serviceVars, JobRuns, TypeOK, OwnersOK, Exclusive, NpuExclusive, IInv
<1>7. OwnFrame'
  BY TasksAssumption, TokenAssumption
  DEF svc, none, Tasks, taskVars, JobRuns, TypeOK, OwnersOK, Exclusive, OwnFrame, IInv
<1>8. CloudOnly'
  BY DEF Tasks, serviceVars, modeVars, taskVars, JobRuns, TurnPlaces, TypeOK, CloudOnly, IInv
<1>9. QED BY <1>1, <1>2, <1>3, <1>4, <1>5, <1>6, <1>7, <1>8 DEF IInv

\* JobEnds keeps the invariant.
LEMMA JobEndsStep ==
  ASSUME IInv, JobEnds
  PROVE  IInv'
<1>1. TypeOK'
  <2>1. /\ operation_lock' \in Tasks \cup {none}
             /\ service_active' \in BOOLEAN /\ service_stop' \in BOOLEAN /\ service_pid' \in {none, svc}
             /\ session' \in BOOLEAN /\ consent' \in BOOLEAN /\ route' \in {"none", "local", "cloud"}
             /\ product_manual_owner' \in Consoles \cup {none} /\ audio_fault' \in BOOLEAN
    BY TasksAssumption, ChoicesAssumption, TokenAssumption
    DEF svc, none, Tasks, serviceVars, modeVars, taskVars, JobEnds, TurnPlaces, SvcPlaces,
        ConsolePlaces, TypeOK, IInv
  <2>2. worker' \in {"idle", "run", "cleanup", "stuck"}
    BY TasksAssumption, ChoicesAssumption, TokenAssumption
    DEF svc, none, Tasks, serviceVars, modeVars, taskVars, JobEnds, TurnPlaces, SvcPlaces,
        ConsolePlaces, TypeOK, IInv
  <2>3. cleanup' \in BOOLEAN
    BY TasksAssumption, ChoicesAssumption, TokenAssumption
    DEF svc, none, Tasks, serviceVars, modeVars, taskVars, JobEnds, TurnPlaces, SvcPlaces,
        ConsolePlaces, TypeOK, IInv
  <2>4. stop_requested' \in BOOLEAN /\ identify_job' \in BOOLEAN
    BY TasksAssumption, ChoicesAssumption, TokenAssumption
    DEF svc, none, Tasks, serviceVars, modeVars, taskVars, JobEnds, TurnPlaces, SvcPlaces,
        ConsolePlaces, TypeOK, IInv
  <2>5. request_token' \in 0..MaxToken /\ mode' \in Modes /\ turn_mode' \in Modes
    BY TasksAssumption, ChoicesAssumption, TokenAssumption
    DEF svc, none, Tasks, serviceVars, modeVars, taskVars, JobEnds, TurnPlaces, SvcPlaces,
        ConsolePlaces, TypeOK, IInv
  <2>6. PlacesOK'
    BY TasksAssumption, ChoicesAssumption, TokenAssumption
    DEF svc, none, Tasks, serviceVars, modeVars, taskVars, JobEnds, TurnPlaces, SvcPlaces,
        ConsolePlaces, TypeOK, IInv, PlacesOK
  <2>7. rc' \in [Tasks -> Codes] /\ token' \in [Tasks -> 0..MaxToken]
    BY TasksAssumption, ChoicesAssumption, TokenAssumption
    DEF svc, none, Tasks, serviceVars, modeVars, taskVars, JobEnds, TurnPlaces, SvcPlaces,
        ConsolePlaces, TypeOK, IInv, Codes
  <2>8. QED BY <2>1, <2>2, <2>3, <2>4, <2>5, <2>6, <2>7 DEF TypeOK, PlacesOK, Codes
<1>2. OwnersOK'
  BY TasksAssumption
  DEF svc, none, Tasks, serviceVars, taskVars, JobEnds, TypeOK, OwnersOK, Exclusive, IInv
<1>3. LockOK'
  BY TasksAssumption
  DEF svc, none, Tasks, taskVars, JobEnds, TypeOK, LockOK, IInv
<1>4. JobOK'
  BY DEF JobEnds, JobOK, IInv
<1>5. Exclusive'
  BY TasksAssumption
  DEF svc, none, Tasks, serviceVars, taskVars, JobEnds, TypeOK, OwnersOK, JobOK, Exclusive,
      OwnFrame, IInv
<1>6. NpuExclusive'
  BY DEF serviceVars, JobEnds, TypeOK, OwnersOK, Exclusive, NpuExclusive, IInv
<1>7. OwnFrame'
  BY TasksAssumption, TokenAssumption
  DEF svc, none, Tasks, taskVars, JobEnds, TypeOK, OwnersOK, Exclusive, OwnFrame, IInv
<1>8. CloudOnly'
  BY DEF Tasks, serviceVars, modeVars, taskVars, JobEnds, TurnPlaces, TypeOK, CloudOnly, IInv
<1>9. QED BY <1>1, <1>2, <1>3, <1>4, <1>5, <1>6, <1>7, <1>8 DEF IInv

-----------------------------------------------------------------------------
\* The invariant holds at the start.
LEMMA InitOK == Init => IInv
<1> SUFFICES ASSUME Init PROVE IInv OBVIOUS
<1>1. TypeOK
  <2>1. PlacesOK
    BY TasksAssumption DEF Init, PlacesOK, Tasks, SvcPlaces, ConsolePlaces, TurnPlaces, svc
  <2>2. rc \in [Tasks -> Codes] /\ token \in [Tasks -> 0..MaxToken] /\ request_token \in 0..MaxToken
    BY TokenAssumption DEF Init, Codes
  <2>3. QED BY <2>1, <2>2 DEF Init, TypeOK, PlacesOK, Codes
<1>2. OwnersOK /\ LockOK
  BY TasksAssumption DEF Init, OwnersOK, LockOK, Tasks, svc, none
<1>3. JobOK /\ Exclusive /\ NpuExclusive /\ OwnFrame
  BY DEF Init, JobOK, Exclusive, NpuExclusive, OwnFrame, Tasks, svc
<1>4. CloudOnly
  BY DEF Init, CloudOnly, TurnPlaces, Tasks, svc
<1>5. QED BY <1>1, <1>2, <1>3, <1>4 DEF IInv

\* Every step keeps the invariant.
LEMMA StepOK == IInv /\ [Next]_vars => IInv'
<1> SUFFICES ASSUME IInv, [Next]_vars PROVE IInv' OBVIOUS
<1>1. CASE SvcNext
  BY <1>1, ClaimStep, LoopStep, PauseStep, OpenStep, ListenStep, CaptureStep, RecogniseStep,
     DispatchStep, SvcTurnEndsStep, ExitStep
  DEF SvcNext
<1>2. CASE JobRuns \/ JobEnds
  BY <1>2, JobRunsStep, JobEndsStep
<1>3. CASE \E t \in Tasks : TurnNext(t)
  BY <1>3, IntentStep, IdentifyStep, PollStep, SayGuardStep, SayLockStep, SayingStep DEF TurnNext
<1>4. CASE \E c \in Consoles : AskEnds(c) \/ ModeSaved(c) \/ Command(c)
  BY <1>4, AskEndsStep, ModeSavedStep, RunStep, StopStep, ModeStep, AskStep, SpeakStep, CameraStep,
     LiveStopStep
  DEF Command
<1>5. CASE UNCHANGED vars
  BY <1>5 DEF vars, serviceVars, jobVars, modeVars, taskVars, IInv, TypeOK, OwnersOK, LockOK, JobOK,
              Exclusive, NpuExclusive, OwnFrame, CloudOnly
<1>6. QED BY <1>1, <1>1, <1>2, <1>3, <1>4, <1>5 DEF Next

\* The whole invariant holds whatever the consoles ask and whatever fails.
THEOREM Invariant == Spec => []IInv
BY InitOK, StepOK, PTL DEF Spec

\* Continuous camera and voice are exclusive: a job that shows the view runs beside
\* no service and no turn, one that identifies belongs to one of them that waits for
\* it or stands in quarantine because of it.
THEOREM CameraAndVoiceExclude == Spec => []Exclusive
BY Invariant, PTL DEF IInv

\* The recogniser is closed whenever a camera job runs.
THEOREM NpuExcludes == Spec => []NpuExclusive
BY Invariant, PTL DEF IInv

\* A turn that waits for the camera waits for its own request, also after the number
\* of the request has wrapped.
THEOREM WaitsForItsOwn == Spec => []OwnFrame
BY Invariant, PTL DEF IInv

\* Explicit cloud never becomes local, whatever is saved and whatever fails meanwhile.
THEOREM CloudStaysCloud == Spec => []CloudOnly
BY Invariant, PTL DEF IInv

\* What a camera job could not clean up is kept: no later job, no service and no
\* foreground turn begins.
THEOREM QuarantineStays == Spec => CleanupKept
<1>1. ASSUME IInv, [Next]_vars, cleanup
      PROVE  /\ cleanup' /\ request_token' = request_token
             /\ service_active' => service_active
             /\ product_manual_owner' # none => product_manual_owner' = product_manual_owner
  <2>1. CASE SvcNext
    <3>1. UNCHANGED <<jobVars, product_manual_owner>>
      BY <2>1
      DEF SvcNext, Claim, Loop, Pause, Open, Listen, Capture, Recognise, Dispatch, SvcTurnEnds,
          Exit, svcFrame
    <3>2. service_active' => service_active
      BY <2>1
      DEF SvcNext, Claim, Loop, Pause, Open, Listen, Capture, Recognise, Dispatch, SvcTurnEnds,
          Exit, svcFrame
    <3>3. QED BY <1>1, <3>1, <3>2 DEF jobVars
  <2>2. CASE JobRuns \/ JobEnds
    BY <1>1, <2>2 DEF JobRuns, JobEnds, serviceVars, IInv, JobOK
  <2>3. CASE \E t \in Tasks : TurnNext(t)
    <3>1. UNCHANGED <<service_active, product_manual_owner, cleanup, request_token>>
      BY <1>1, <2>3
      DEF TurnNext, Intent, Identify, JobMayStart, Poll, SayGuard, SayLock, Saying, jobVars,
          turnFrame,
          serviceVars
    <3>2. QED BY <1>1, <3>1
  <2>4. CASE \E c \in Consoles : AskEnds(c) \/ ModeSaved(c) \/ Command(c)
    <3>1. UNCHANGED <<service_active, cleanup, request_token>>
      BY <1>1, <2>4
      DEF AskEnds, ModeSaved, Command, Run, MayStart, VisionBusy, Stop, Mode, Ask, Speak, Camera,
          JobMayStart, LiveStop, jobVars, turnFrame, serviceVars
    <3>2. product_manual_owner' # none => product_manual_owner' = product_manual_owner
      BY <1>1, <2>4
      DEF AskEnds, ModeSaved, Command, Run, MayStart, VisionBusy, Stop, Mode, Ask, Speak, Camera,
          JobMayStart, LiveStop, jobVars, turnFrame, serviceVars
    <3>3. QED BY <1>1, <3>1, <3>2
  <2>5. CASE UNCHANGED vars
    BY <1>1, <2>5 DEF vars, jobVars, serviceVars
  <2>6. QED BY <1>1, <2>1, <2>2, <2>3, <2>4, <2>5 DEF Next
<1>2. QED BY <1>1, Invariant, PTL DEF Spec, CleanupKept

\* A turn whose camera job is in doubt ends in quarantine and does not go on to speak.
THEOREM DoubtEnds == Spec => DoubtEndsTurn
<1>1. ASSUME IInv, [Next]_vars, NEW u \in Tasks, pc[u] = "poll", cleanup, pc'[u] # "poll"
      PROVE  pc'[u] = "ended" /\ rc'[u] = "ownerdead"
  <2>1. u = svc => ~SvcNext /\ pc[svc] # "none"
    BY <1>1
    DEF SvcNext, Claim, Loop, Pause, Open, Listen, Capture, Recognise, Dispatch, SvcTurnEnds, Exit
  <2>2. CASE SvcNext
    BY <1>1, <2>1, <2>2
    DEF SvcNext, Claim, Loop, Pause, Open, Listen, Capture, Recognise, Dispatch, SvcTurnEnds, Exit,
        Goto, GotoWith, Quarantine, Stays, IInv, TypeOK
  <2>3. CASE JobRuns \/ JobEnds \/ UNCHANGED vars
    BY <1>1, <2>3 DEF JobRuns, JobEnds, taskVars, vars
  <2>4. CASE \E t \in Tasks : TurnNext(t)
    <3>1. PICK t \in Tasks : TurnNext(t) BY <2>4
    <3>2. CASE t # u
      BY <1>1, <3>1, <3>2
      DEF TurnNext, Intent, Identify, Poll, PollEnds, SayGuard, SayLock, Saying, SaysEnd, Goto,
          GotoWith,
          IInv, TypeOK
    <3>3. CASE t = u
      <4>1. Poll(u)
        BY <1>1, <3>1, <3>3 DEF TurnNext, Intent, Identify, SayGuard, SayLock, Saying
      <4>2. PollCode(u) \in {"again", "ownerdead"}
        BY <1>1 DEF PollCode, IInv, OwnFrame
      <4>3. PollEnds(u, "ownerdead")
        BY <1>1, <4>1, <4>2 DEF Poll, GivenUp
      <4>4. QED BY <1>1, <4>3 DEF PollEnds, GotoWith, Goto, IInv, TypeOK
    <3>4. QED BY <3>2, <3>3
  <2>5. CASE \E c \in Consoles : AskEnds(c) \/ ModeSaved(c) \/ Command(c)
    <3>1. PICK c \in Consoles : AskEnds(c) \/ ModeSaved(c) \/ Command(c) BY <2>5
    <3>2. pc[c] # "poll" /\ pc[svc] \in SvcPlaces
      BY <1>1, <3>1 DEF AskEnds, ModeSaved, Command, Run, Stop, Mode, Ask, Speak, Camera,
          LiveStop, IInv, TypeOK
    <3>3. CASE Run(c)
      BY <1>1, <3>3 DEF Run, MayStart, VisionBusy
    <3>4. QED
      BY <1>1, <3>1, <3>2, <3>3
      DEF AskEnds, ModeSaved, Command, Stop, Mode, Ask, Speak, Camera, LiveStop, Goto, GotoWith,
          taskVars,
          IInv, TypeOK, Tasks
  <2>6. QED BY <1>1, <2>2, <2>3, <2>4, <2>5 DEF Next
<1>2. IInv /\ [Next]_vars =>
        [\A t \in Tasks : pc[t] = "poll" /\ cleanup /\ pc'[t] # "poll" =>
           pc'[t] = "ended" /\ rc'[t] = "ownerdead"]_vars
  BY <1>1
<1>3. QED BY <1>2, Invariant, PTL DEF Spec, DoubtEndsTurn
-----------------------------------------------------------------------------
(* The devices are leased: the refinement of Leases.                        *)

\* What Leases does not see.
LEMMA PetSame ==
  ASSUME UNCHANGED <<operation_lock, service_active, product_manual_owner, audio_fault, session,
                     worker, cleanup, identify_job>>,
         Kept' = Kept
  PROVE  UNCHANGED Pet!vars
BY DEF Pet!vars, Holder, Npu, Doubt

\* Who goes on is no more and no less in quarantine than before.
LEMMA KeptGo ==
  ASSUME TypeOK, NEW t \in Tasks, NEW l, Goto(t, l), pc[t] # "quarantine", l # "quarantine"
  PROVE  Kept' = Kept
<1>1. \A u \in Tasks : pc'[u] = "quarantine" <=> pc[u] = "quarantine"
  BY DEF TypeOK, Goto
<1>2. QED BY <1>1 DEF Kept

\* Who stops for ever is in quarantine.
LEMMA KeptNow ==
  ASSUME TypeOK, NEW t \in Tasks, Goto(t, "quarantine")
  PROVE  Kept'
BY DEF TypeOK, Goto, Kept

\* A holder who goes on is the only one there is, so nobody is in quarantine.
LEMMA NotKept ==
  ASSUME IInv, NEW t \in Tasks, Holder \in {none, t}, pc[t] # "quarantine"
  PROVE  ~Kept
<1> SUFFICES ASSUME NEW u \in Tasks, pc[u] = "quarantine" PROVE FALSE
  BY DEF Kept
<1>1. CASE u = svc
  <2>1. service_active /\ Holder = svc
    BY <1>1 DEF IInv, OwnersOK, Holder
  <2>2. QED BY <1>1, <2>1 DEF svc, none
<1>2. CASE u \in Consoles
  <2>1. product_manual_owner = u /\ Holder = u
    BY <1>2, TasksAssumption DEF IInv, OwnersOK, Holder, svc, none
  <2>2. QED BY <1>2, <2>1, TasksAssumption DEF none
<1>3. QED BY <1>1, <1>2 DEF Tasks

\* The service is the holder, and a console with the lease is.
LEMMA HolderIs ==
  ASSUME IInv
  PROVE  /\ service_active => Holder = svc
         /\ \A c \in Consoles : product_manual_owner = c => Holder = c
         /\ ~service_active /\ product_manual_owner = none => Holder = none
         /\ svc # none /\ \A c \in Consoles : c # none /\ c # svc
BY TasksAssumption DEF IInv, OwnersOK, Holder, svc, none

\* No camera job runs beside a service that is not in a turn.
LEMMA SvcAlone ==
  ASSUME IInv, service_active, pc[svc] \notin {"poll", "quarantine", "ended"}
  PROVE  worker = "idle"
BY TasksAssumption DEF IInv, Exclusive, OwnersOK, Tasks, svc, none

\* What is in doubt, device by device.
LEMMA DoubtIs ==
  /\ audio_fault' = audio_fault /\ cleanup' = cleanup => Doubt' = Doubt
  /\ audio_fault' = TRUE /\ cleanup' = cleanup => Doubt' = Doubt \cup {"audio"}
  /\ audio_fault' = audio_fault /\ cleanup' = TRUE => Doubt' = Doubt \cup {"camera"}
  /\ ~audio_fault /\ ~cleanup => Doubt = {}
  /\ ~cleanup => "camera" \notin Doubt
BY DEF Doubt

\* The service stops for ever, wherever that happens.
LEMMA SvcKeeps ==
  ASSUME IInv, service_active, pc[svc] # "quarantine", Quarantine,
         UNCHANGED <<service_active, product_manual_owner, worker, identify_job, cleanup>>,
         session' = session \/ (worker = "idle" /\ session' = FALSE),
         operation_lock' = (IF operation_lock = svc THEN none ELSE operation_lock)
  PROVE  Pet!Keep
<1>1. Holder = svc /\ Holder # none /\ Holder' = Holder
  BY HolderIs DEF Holder
<1>2. ~Kept
  BY <1>1, NotKept DEF Tasks
<1>3. Kept'
  BY KeptNow DEF IInv, Quarantine, GotoWith, Tasks
<1>4. Npu' = Npu \/ (Npu = "recogniser" /\ Npu' = "free")
  BY DEF Npu, IInv, TypeOK
<1>5. Doubt' \in {Doubt, Doubt \cup {"audio"}}
  BY DoubtIs DEF Quarantine
<1>6. QED BY <1>1, <1>2, <1>3, <1>4, <1>5 DEF Pet!Keep

\* A step of the service that only concerns itself.
LEMMA SvcGoes ==
  ASSUME IInv, NEW l, Goto(svc, l), pc[svc] # "quarantine", l # "quarantine",
         UNCHANGED <<operation_lock, service_active, product_manual_owner, audio_fault, session, jobVars>>
  PROVE  UNCHANGED Pet!vars
BY KeptGo, PetSame DEF IInv, Tasks, jobVars

\* The steps of product_voice_main.
LEMMA SvcPet ==
  ASSUME IInv, SvcNext
  PROVE  Pet!Next \/ UNCHANGED Pet!vars
<1> USE DEF svcFrame
<1>1. CASE Claim
  <2>1. \E l \in {"loop", "exit"} : Goto(svc, l)
    BY <1>1 DEF Claim
  <2>2. UNCHANGED <<operation_lock, service_active, product_manual_owner, audio_fault, session, jobVars>>
    BY <1>1 DEF Claim
  <2>3. pc[svc] = "born" BY <1>1 DEF Claim
  <2>4. QED BY <2>1, <2>2, <2>3, SvcGoes
<1>2. CASE Loop
  <2>1. \E l \in {"exit", "open", "pause"} : Goto(svc, l)
    BY <1>2 DEF Loop
  <2>2. UNCHANGED <<operation_lock, service_active, product_manual_owner, audio_fault, session, jobVars>>
    BY <1>2 DEF Loop, Stays
  <2>3. pc[svc] = "loop" BY <1>2 DEF Loop
  <2>4. QED BY <2>1, <2>2, <2>3, SvcGoes
<1>3. CASE Pause
  <2>1. \E l \in {"exit", "loop"} : Goto(svc, l)
    BY <1>3 DEF Pause
  <2>2. UNCHANGED <<operation_lock, service_active, product_manual_owner, audio_fault, session, jobVars>>
    BY <1>3 DEF Pause, Stays
  <2>3. pc[svc] = "pause" BY <1>3 DEF Pause
  <2>4. QED BY <2>1, <2>2, <2>3, SvcGoes
<1>4. CASE Open
  <2>1. /\ pc[svc] = "open" /\ service_active /\ worker = "idle" /\ operation_lock # svc
        /\ UNCHANGED <<operation_lock, service_active, product_manual_owner, jobVars>>
    BY <1>4, SvcAlone DEF Open, IInv, OwnersOK, LockOK, Tasks
  <2>2. CASE Quarantine /\ UNCHANGED session
    <3>1. Pet!Keep BY <2>1, <2>2, SvcKeeps DEF jobVars
    <3>2. QED BY <3>1 DEF Pet!Next
  <2>3. CASE Goto(svc, "listen") /\ Stays /\ session' = (route = "local")
    <3>1. Holder = svc /\ Holder' = Holder /\ ~Kept
      BY <2>1, HolderIs, NotKept DEF Holder, Tasks
    <3>2. Kept' = Kept BY <2>1, <2>3, KeptGo DEF IInv, Tasks
    <3>3. Npu \in {"free", "recogniser"} /\ Npu' \in {"free", "recogniser"}
      BY <2>1 DEF Npu, jobVars
    <3>4. Doubt' = Doubt BY <2>1, <2>3, DoubtIs DEF Stays, jobVars
    <3>5. Pet!Recognise BY <2>1, <3>1, <3>2, <3>3, <3>4 DEF Pet!Recognise
    <3>6. QED BY <3>5 DEF Pet!Next
  <2>4. CASE (\E l \in {"exit", "pause"} : Goto(svc, l)) /\ Stays /\ UNCHANGED session
    BY <2>1, <2>4, SvcGoes DEF Stays
  <2>5. QED BY <1>4, <2>2, <2>3, <2>4 DEF Open
<1>5. CASE Listen
  <2>1. /\ pc[svc] = "listen" /\ service_active
        /\ UNCHANGED <<service_active, product_manual_owner, session, jobVars, audio_fault>>
    BY <1>5 DEF Listen, Stays, IInv, OwnersOK
  <2>2. CASE operation_lock = none /\ operation_lock' = svc /\ Goto(svc, "capture")
    <3>1. Holder = svc /\ Holder' = Holder /\ ~Kept
      BY <2>1, HolderIs, NotKept DEF Holder, Tasks
    <3>2. Kept' = Kept BY <2>1, <2>2, KeptGo DEF IInv, Tasks
    <3>3. Npu' = Npu /\ Doubt' = Doubt BY <2>1 DEF Npu, Doubt, jobVars
    <3>4. Pet!Play(svc) BY <2>2, <3>1, <3>2, <3>3 DEF Pet!Play
    <3>5. QED BY <3>4 DEF Pet!Next, Tasks
  <2>3. CASE Goto(svc, "exit") /\ UNCHANGED operation_lock
    BY <2>1, <2>3, SvcGoes
  <2>4. QED BY <1>5, <2>2, <2>3 DEF Listen
<1>6. CASE Capture
  <2>1. /\ pc[svc] = "capture" /\ service_active /\ operation_lock = svc /\ operation_lock' = none
        /\ svc # none
        /\ UNCHANGED <<service_active, product_manual_owner, session, jobVars>>
    BY <1>6 DEF Capture, IInv, OwnersOK, LockOK, Tasks, svc, none
  <2>2. CASE Quarantine
    <3>1. Pet!Keep BY <2>1, <2>2, SvcKeeps DEF jobVars
    <3>2. QED BY <3>1 DEF Pet!Next
  <2>3. CASE (\E l \in {"recognise", "loop", "exit"} : Goto(svc, l)) /\ Stays
    <3>1. Kept' = Kept BY <2>1, <2>3, KeptGo DEF IInv, Tasks
    <3>2. Holder' = Holder /\ Npu' = Npu /\ Doubt' = Doubt
      BY <2>1, <2>3 DEF Holder, Npu, Doubt, jobVars, Stays
    <3>3. Pet!Quiet BY <2>1, <3>1, <3>2 DEF Pet!Quiet
    <3>4. QED BY <3>3 DEF Pet!Next
  <2>4. QED BY <1>6, <2>2, <2>3 DEF Capture, Goto
<1>7. CASE Recognise
  <2>1. /\ pc[svc] = "recognise" /\ service_active /\ operation_lock # svc
        /\ UNCHANGED <<operation_lock, service_active, product_manual_owner, session, jobVars>>
    BY <1>7 DEF Recognise, IInv, OwnersOK, LockOK, Tasks
  <2>2. CASE Quarantine
    <3>1. Pet!Keep BY <2>1, <2>2, SvcKeeps DEF jobVars
    <3>2. QED BY <3>1 DEF Pet!Next
  <2>3. CASE (\E l \in {"dispatch", "exit", "pause"} : Goto(svc, l)) /\ Stays
    BY <2>1, <2>3, SvcGoes DEF Stays
  <2>4. QED BY <1>7, <2>2, <2>3 DEF Recognise, Goto
<1>8. CASE Dispatch
  <2>1. /\ pc[svc] = "dispatch" /\ service_active /\ worker = "idle" /\ operation_lock # svc
        /\ UNCHANGED <<operation_lock, service_active, product_manual_owner, jobVars>>
    BY <1>8, SvcAlone DEF Dispatch, IInv, OwnersOK, LockOK, Tasks
  <2>2. CASE CloseSession /\ Quarantine
    <3>1. Pet!Keep BY <2>1, <2>2, SvcKeeps DEF jobVars, CloseSession
    <3>2. QED BY <3>1 DEF Pet!Next
  <2>3. CASE CloseSession /\ Goto(svc, "identify") /\ Stays
    <3>1. Holder = svc /\ Holder' = Holder /\ ~Kept
      BY <2>1, HolderIs, NotKept DEF Holder, Tasks
    <3>2. Kept' = Kept BY <2>1, <2>3, KeptGo DEF IInv, Tasks
    <3>3. Npu \in {"free", "recogniser"} /\ Npu' \in {"free", "recogniser"}
      BY <2>1 DEF Npu, jobVars
    <3>4. Doubt' = Doubt BY <2>1, <2>3, DoubtIs DEF Stays, jobVars
    <3>5. Pet!Recognise BY <2>1, <3>1, <3>2, <3>3, <3>4 DEF Pet!Recognise
    <3>6. QED BY <3>5 DEF Pet!Next
  <2>4. CASE (\E l \in {"exit", "intent"} : Goto(svc, l)) /\ Stays /\ UNCHANGED session
    BY <2>1, <2>4, SvcGoes DEF Stays
  <2>5. QED BY <1>8, <2>2, <2>3, <2>4 DEF Dispatch
<1>9. CASE SvcTurnEnds
  <2>1. /\ pc[svc] = "ended" /\ service_active /\ operation_lock # svc
        /\ UNCHANGED <<operation_lock, service_active, product_manual_owner, session, jobVars>>
    BY <1>9 DEF SvcTurnEnds, IInv, OwnersOK, LockOK, Tasks
  <2>2. CASE Quarantine
    <3>1. Pet!Keep BY <2>1, <2>2, SvcKeeps DEF jobVars
    <3>2. QED BY <3>1 DEF Pet!Next
  <2>3. CASE (\E l \in {"exit", "loop"} : Goto(svc, l)) /\ UNCHANGED audio_fault
    BY <2>1, <2>3, SvcGoes
  <2>4. QED BY <1>9, <2>2, <2>3 DEF SvcTurnEnds, GotoWith
<1>10. CASE Exit
  <2>1. /\ pc[svc] = "exit" /\ service_active /\ worker = "idle" /\ operation_lock # svc
        /\ session' = FALSE
        /\ UNCHANGED <<operation_lock, product_manual_owner, jobVars>>
    BY <1>10, SvcAlone DEF Exit, IInv, OwnersOK, LockOK, Tasks
  <2>2. CASE Quarantine /\ UNCHANGED service_active
    <3>1. Pet!Keep BY <2>1, <2>2, SvcKeeps DEF jobVars
    <3>2. QED BY <3>1 DEF Pet!Next
  <2>3. CASE Goto(svc, "none") /\ UNCHANGED audio_fault /\ service_active' = FALSE
    <3>1. Holder = svc /\ Holder # none /\ ~Kept
      BY <2>1, HolderIs, NotKept DEF Tasks
    <3>2. product_manual_owner = none /\ Holder' = none
      BY <2>1, <2>3 DEF IInv, OwnersOK, Holder
    <3>3. Kept' = Kept BY <2>1, <2>3, KeptGo DEF IInv, Tasks
    <3>4. Npu \in {"free", "recogniser"} /\ Npu' = "free"
      BY <2>1 DEF Npu, jobVars
    <3>5. Doubt' = Doubt BY <2>1, <2>3, DoubtIs DEF jobVars
    <3>6. Pet!Return BY <2>1, <3>1, <3>2, <3>3, <3>4, <3>5 DEF Pet!Return
    <3>7. QED BY <3>6 DEF Pet!Next
  <2>4. QED BY <1>10, <2>2, <2>3 DEF Exit
<1>11. QED BY <1>1, <1>2, <1>3, <1>4, <1>5, <1>6, <1>7, <1>8, <1>9, <1>10 DEF SvcNext

\* Where a turn's speech, or a console's, leads to.
LEMMA SaysGo ==
  ASSUME IInv, NEW t \in Tasks, NEW r, SaysEnd(t, r), pc[t] # "quarantine"
  PROVE  Kept' = Kept
BY KeptGo DEF SaysEnd, GotoWith, IInv

\* The steps of product_turn and of what it calls.
LEMMA TurnPet ==
  ASSUME IInv, NEW t \in Tasks, TurnNext(t)
  PROVE  Pet!Next \/ UNCHANGED Pet!vars
<1> USE DEF turnFrame, serviceVars
<1>1. CASE Intent(t)
  <2>1. Kept' = Kept BY <1>1, KeptGo DEF Intent, GotoWith, IInv
  <2>2. QED BY <1>1, <2>1, PetSame DEF Intent, jobVars
<1>2. CASE Identify(t)
  <2>1. Kept' = Kept BY <1>2, KeptGo DEF Identify, GotoWith, IInv
  <2>2. UNCHANGED <<operation_lock, service_active, product_manual_owner, audio_fault, session>>
    BY <1>2 DEF Identify
  <2>3. CASE UNCHANGED jobVars
    BY <2>1, <2>2, <2>3, PetSame DEF jobVars
  <2>4. CASE JobMayStart(t) /\ JobStart(TRUE)
    <3>1. worker = "idle" /\ ~cleanup /\ cleanup' = FALSE /\ identify_job' = TRUE /\ ~audio_fault
      BY <2>4 DEF JobMayStart, JobStart, Reserved
    <3>2. Doubt = {} /\ Doubt' = Doubt
      BY <2>2, <3>1 DEF Doubt
    <3>3. Holder = t /\ Holder # none /\ Holder' = Holder /\ ~session
      <4>1. pc[t] = "identify" BY <1>2 DEF Identify
      <4>2. CASE t = svc
        BY <2>2, <4>1, <4>2, HolderIs DEF IInv, OwnersOK, Holder
      <4>3. CASE t \in Consoles
        <5>1. product_manual_owner = t /\ ~service_active
          BY <4>1, <4>3, HolderIs DEF IInv, OwnersOK
        <5>2. QED BY <2>2, <4>3, <5>1, HolderIs DEF IInv, OwnersOK, Holder
      <4>4. QED BY <4>2, <4>3 DEF Tasks
    <3>4. ~Kept BY <1>2, <3>3, NotKept DEF Identify
    <3>5. CASE worker' = "run"
      <4>1. Npu = "free" /\ Npu' = "identify" BY <3>1, <3>3, <3>5 DEF Npu
      <4>2. Pet!Job BY <2>1, <2>2, <3>2, <3>3, <3>4, <4>1 DEF Pet!Job
      <4>3. QED BY <4>2 DEF Pet!Next
    <3>6. CASE worker' = "idle"
      <4>1. Npu' = Npu BY <2>2, <3>1, <3>6 DEF Npu
      <4>2. QED BY <2>1, <2>2, <3>2, <3>3, <4>1 DEF Pet!vars
    <3>7. QED BY <2>4, <3>5, <3>6 DEF JobStart
  <2>5. QED BY <1>2, <2>3, <2>4 DEF Identify
<1>3. CASE Poll(t)
  <2>1. Kept' = Kept
    <3>1. CASE pc' = pc BY <3>1 DEF Kept
    <3>2. CASE \E r \in Codes : PollEnds(t, r)
      BY <1>3, <3>2, KeptGo DEF Poll, PollEnds, GotoWith, IInv
    <3>3. QED BY <1>3, <3>1, <3>2 DEF Poll, PollEnds, PollCode, IInv, TypeOK, Codes
  <2>2. QED BY <1>3, <2>1, PetSame DEF Poll
<1>4. CASE SayGuard(t)
  <2>1. Kept' = Kept BY <1>4, KeptGo, SaysGo DEF SayGuard, IInv
  <2>2. QED BY <1>4, <2>1, PetSame DEF SayGuard, jobVars
<1>5. CASE SayLock(t)
  <2>1. Kept' = Kept BY <1>5, KeptGo, SaysGo DEF SayLock, IInv
  <2>2. UNCHANGED <<service_active, product_manual_owner, audio_fault, session, jobVars>> /\ pc[t] = "say-lock"
    BY <1>5 DEF SayLock
  <2>3. CASE operation_lock = none /\ operation_lock' = t
    <3>1. Holder' = Holder /\ Npu' = Npu /\ Doubt' = Doubt
      BY <2>2 DEF Holder, Npu, Doubt, jobVars
    <3>2. t = svc => Holder = svc /\ ~Kept
      BY <2>2, HolderIs, NotKept DEF IInv, OwnersOK
    <3>3. Pet!Play(t) BY <2>1, <2>3, <3>1, <3>2 DEF Pet!Play
    <3>4. QED BY <3>3 DEF Pet!Next
  <2>4. CASE UNCHANGED operation_lock
    BY <2>1, <2>2, <2>4, PetSame DEF jobVars
  <2>5. QED BY <1>5, <2>3, <2>4 DEF SayLock
<1>6. CASE Saying(t)
  <2>1. Kept' = Kept BY <1>6, SaysGo DEF Saying
  <2>2. /\ UNCHANGED <<service_active, product_manual_owner, session, jobVars>>
        /\ operation_lock = t /\ operation_lock' = none /\ t # none
        /\ audio_fault' = audio_fault \/ audio_fault' = TRUE
    BY <1>6, TasksAssumption DEF Saying, IInv, LockOK, Tasks, svc, none
  <2>3. Holder' = Holder /\ Npu' = Npu BY <2>2 DEF Holder, Npu, jobVars
  <2>4. Doubt' \in {Doubt, Doubt \cup {"audio"}} BY <2>2, DoubtIs DEF jobVars
  <2>5. Pet!Quiet BY <2>1, <2>2, <2>3, <2>4 DEF Pet!Quiet
  <2>6. QED BY <2>5 DEF Pet!Next
<1>7. QED BY <1>1, <1>2, <1>3, <1>4, <1>5, <1>6 DEF TurnNext

\* The commands of the consoles, and the end of a foreground turn.
LEMMA ConsolePet ==
  ASSUME IInv, NEW c \in Consoles, AskEnds(c) \/ ModeSaved(c) \/ Command(c)
  PROVE  Pet!Next \/ UNCHANGED Pet!vars
<1> USE DEF turnFrame, serviceVars
<1>c. c \in Tasks /\ svc \in Tasks BY DEF Tasks
<1>1. CASE Run(c)
  <2>1. /\ ~service_active /\ product_manual_owner = none /\ worker = "idle" /\ ~cleanup
        /\ ~audio_fault /\ pc[svc] = "none" /\ ~session
        /\ UNCHANGED <<operation_lock, product_manual_owner, audio_fault, session, jobVars>>
    BY <1>1 DEF Run, MayStart, VisionBusy, IInv, OwnersOK
  <2>2. CASE service_active' = TRUE /\ Goto(svc, "born")
    <3>1. Holder = none /\ Holder' = svc BY <2>1, <2>2 DEF Holder
    <3>2. Kept' = Kept BY <1>c, <2>1, <2>2, KeptGo DEF IInv
    <3>3. Npu = "free" /\ Npu' = Npu /\ Doubt = {} /\ Doubt' = Doubt
      BY <2>1 DEF Npu, Doubt, jobVars
    <3>4. Pet!Take(svc) BY <2>1, <3>1, <3>2, <3>3 DEF Pet!Take
    <3>5. QED BY <1>c, <3>4 DEF Pet!Next
  <2>3. CASE UNCHANGED <<service_active, pc>>
    <3>1. Kept' = Kept BY <2>3 DEF Kept
    <3>2. QED BY <2>1, <2>3, <3>1, PetSame DEF jobVars
  <2>4. QED BY <1>1, <2>2, <2>3 DEF Run
<1>2. CASE Stop(c) \/ LiveStop(c)
  <2>1. Kept' = Kept BY <1>2 DEF Stop, LiveStop, taskVars, Kept
  <2>2. QED BY <1>2, <2>1, PetSame DEF Stop, LiveStop, jobVars
<1>3. CASE Mode(c) \/ ModeSaved(c) \/ Speak(c)
  <2>1. Kept' = Kept BY <1>c, <1>3, KeptGo DEF Mode, ModeSaved, Speak, IInv
  <2>2. QED BY <1>3, <2>1, PetSame DEF Mode, ModeSaved, Speak, jobVars
<1>4. CASE Ask(c)
  <2>1. /\ ~service_active /\ product_manual_owner = none /\ worker = "idle" /\ ~cleanup
        /\ ~audio_fault /\ ~session /\ product_manual_owner' = c
        /\ UNCHANGED <<operation_lock, service_active, audio_fault, session, jobVars>>
    BY <1>4 DEF Ask, VisionBusy, IInv, OwnersOK
  <2>2. Holder = none /\ Holder' = c BY <2>1 DEF Holder
  <2>3. Kept' = Kept
    <3>1. Goto(c, "intent") \/ Goto(c, "identify") BY <1>4 DEF Ask, Goto
    <3>2. QED BY <1>c, <1>4, <3>1, KeptGo DEF Ask, IInv
  <2>4. Npu = "free" /\ Npu' = Npu /\ Doubt = {} /\ Doubt' = Doubt
    BY <2>1 DEF Npu, Doubt, jobVars
  <2>5. Pet!Take(c) BY <2>1, <2>2, <2>3, <2>4 DEF Pet!Take
  <2>6. QED BY <1>c, <2>5 DEF Pet!Next
<1>5. CASE AskEnds(c)
  <2>1. /\ pc[c] = "ended" /\ product_manual_owner = c /\ ~service_active /\ ~session
        /\ operation_lock # c
        /\ UNCHANGED <<operation_lock, service_active, audio_fault, session, jobVars>>
    BY <1>c, <1>5, HolderIs DEF AskEnds, IInv, OwnersOK, LockOK
  <2>2. Holder = c /\ Holder # none /\ ~Kept
    BY <1>c, <2>1, HolderIs, NotKept
  <2>3. Npu' = Npu /\ Doubt' = Doubt BY <2>1 DEF Npu, Doubt, jobVars
  <2>4. CASE GotoWith(c, "quarantine", "ok") /\ UNCHANGED product_manual_owner
    <3>1. Kept' BY <1>c, <2>4, KeptNow DEF GotoWith, IInv
    <3>2. Holder' = Holder BY <2>1, <2>4 DEF Holder
    <3>3. Pet!Keep BY <2>1, <2>2, <2>3, <3>1, <3>2 DEF Pet!Keep
    <3>4. QED BY <3>3 DEF Pet!Next
  <2>5. CASE rc[c] # "ownerdead" /\ GotoWith(c, "idle", "ok") /\ product_manual_owner' = none
    <3>1. Kept' = Kept BY <1>c, <2>1, <2>5, KeptGo DEF GotoWith, IInv
    <3>2. Holder' = none BY <2>1, <2>5 DEF Holder
    <3>3. worker = "idle"
      BY <1>c, <2>1, <2>5, HolderIs DEF IInv, Exclusive
    <3>4. Npu = "free" BY <2>1, <3>3 DEF Npu
    <3>5. Pet!Return BY <2>1, <2>2, <2>3, <3>1, <3>2, <3>4 DEF Pet!Return
    <3>6. QED BY <3>5 DEF Pet!Next
  <2>6. QED BY <1>5, <2>4, <2>5 DEF AskEnds
<1>6. CASE Camera(c)
  <2>1. /\ worker = "idle" /\ ~cleanup /\ cleanup' = FALSE /\ identify_job' = FALSE /\ ~audio_fault
        /\ worker' \in {"run", "idle"} /\ pc[c] = "idle" /\ pc' = pc
        /\ UNCHANGED <<operation_lock, service_active, product_manual_owner, audio_fault, session>>
    BY <1>6 DEF Camera, JobMayStart, JobStart, Reserved, taskVars
  <2>2. ~service_active /\ product_manual_owner = none /\ ~session
    BY <1>6, <2>1, HolderIs DEF Camera, JobMayStart, Reserved, IInv, TypeOK, OwnersOK
  <2>3. Holder = none /\ Holder' = Holder BY <2>1, <2>2 DEF Holder
  <2>4. Doubt = {} /\ Doubt' = Doubt BY <2>1 DEF Doubt
  <2>5. ~Kept /\ Kept' = Kept
    <3>1. ~Kept BY <1>c, <2>1, <2>3, NotKept
    <3>2. Kept' = Kept BY <2>1 DEF Kept
    <3>3. QED BY <3>1, <3>2
  <2>6. CASE worker' = "run"
    <3>1. Npu = "free" /\ Npu' = "view" BY <2>1, <2>2, <2>6 DEF Npu
    <3>2. Pet!Job BY <2>1, <2>3, <2>4, <2>5, <3>1 DEF Pet!Job
    <3>3. QED BY <3>2 DEF Pet!Next
  <2>7. CASE worker' = "idle"
    <3>1. Npu' = Npu BY <2>1, <2>7 DEF Npu
    <3>2. QED BY <2>1, <2>3, <2>4, <2>5, <3>1 DEF Pet!vars
  <2>8. QED BY <2>1, <2>6, <2>7
<1>7. QED BY <1>1, <1>2, <1>3, <1>4, <1>5, <1>6 DEF Command

\* The end of a camera job.
LEMMA JobPet ==
  ASSUME IInv, JobRuns \/ JobEnds
  PROVE  Pet!Next \/ UNCHANGED Pet!vars
<1>1. /\ UNCHANGED <<operation_lock, service_active, product_manual_owner, audio_fault, session,
                     identify_job>>
      /\ worker \in {"run", "cleanup"} /\ ~cleanup /\ ~session
  BY DEF JobRuns, JobEnds, serviceVars, IInv, JobOK, NpuExclusive
<1>2. Kept' = Kept BY DEF JobRuns, JobEnds, taskVars, Kept
<1>3. Holder' = Holder BY <1>1 DEF Holder
<1>4. Npu \in {"identify", "view"} /\ "camera" \notin Doubt
  BY <1>1, DoubtIs DEF Npu
<1>5. CASE worker' = "cleanup" /\ UNCHANGED cleanup
  <2>1. Npu' = Npu BY <1>1, <1>5 DEF Npu
  <2>2. Doubt' = Doubt BY <1>1, <1>5, DoubtIs
  <2>3. QED BY <1>1, <1>2, <1>3, <2>1, <2>2 DEF Pet!vars
<1>6. CASE worker' = "stuck" /\ cleanup' = TRUE
  <2>1. Npu' = Npu BY <1>1, <1>6 DEF Npu
  <2>2. Doubt' = Doubt \cup {"camera"} BY <1>1, <1>6, DoubtIs
  <2>3. Pet!JobEnds BY <1>1, <1>2, <1>3, <1>4, <2>1, <2>2 DEF Pet!JobEnds
  <2>4. QED BY <2>3 DEF Pet!Next
<1>7. CASE worker' = "idle" /\ cleanup' \in BOOLEAN
  <2>1. Npu' = "free" BY <1>1, <1>7 DEF Npu
  <2>2. Doubt' \in {Doubt, Doubt \cup {"camera"}}
    <3>1. CASE cleanup' = TRUE BY <1>1, <3>1, DoubtIs
    <3>2. CASE cleanup' = cleanup BY <1>1, <3>2, DoubtIs
    <3>3. QED BY <1>1, <1>7, <3>1, <3>2 DEF IInv, TypeOK
  <2>3. Pet!JobEnds BY <1>1, <1>2, <1>3, <1>4, <2>1, <2>2 DEF Pet!JobEnds
  <2>4. QED BY <2>3 DEF Pet!Next
<1>8. QED BY <1>5, <1>6, <1>7 DEF JobRuns, JobEnds

\* The service, the foreground turns, the camera jobs and the commands implement
\* Leases: one holder of the pet, one user of the NPU and of the audio device, and
\* no lease taken and no camera job begun once a device is in doubt, for every set of
\* consoles, modes, commands and hazards.
THEOREM ImplementsLeases == Spec => DevicesAreLeased
<1>1. Init => Pet!Init
  <2> SUFFICES ASSUME Init PROVE Pet!Init
    OBVIOUS
  <2>1. Holder = none /\ Npu = "free" /\ Doubt = {} /\ operation_lock = none
    BY DEF Init, Holder, Npu, Doubt
  <2>2. ~Kept BY DEF Init, Kept
  <2>3. QED BY <2>1, <2>2 DEF Pet!Init
<1>2. IInv /\ [Next]_vars => [Pet!Next]_Pet!vars
  <2> SUFFICES ASSUME IInv, [Next]_vars PROVE Pet!Next \/ UNCHANGED Pet!vars
    OBVIOUS
  <2>1. CASE UNCHANGED vars
    <3>1. Kept' = Kept BY <2>1 DEF vars, taskVars, Kept
    <3>2. QED BY <2>1, <3>1, PetSame DEF vars, serviceVars, jobVars
  <2>2. QED BY <2>1, SvcPet, TurnPet, ConsolePet, JobPet DEF Next
<1>3. QED BY <1>1, <1>2, Invariant, PTL DEF Spec, DevicesAreLeased, Pet!Spec

=============================================================================
