------------------------------- MODULE McuLink -------------------------------
(***************************************************************************)
(* The serial link between the desktop pet and its STM32 motor controller: *)
(* apps/system/aipet/mcu_link.cxx.                                         *)
(*                                                                         *)
(* One worker task owns /dev/ttyS4: each iteration reads frames, decides   *)
(* under `lock' which single frame to send, drops the lock, and writes it. *)
(* Console commands, the voice route and the agent tool are callers: they  *)
(* change the permission to move under `lock' and run one request at a     *)
(* time under `call_lock'.  The controller at the other end, and the wire, *)
(* are external: frames are lost, faults are raised, and it restarts.      *)
(*                                                                         *)
(* Time is counted in ticks.  Each deadline of the code is kept as the     *)
(* ticks left, or elapsed, so that the clock itself needs no bound.        *)
(***************************************************************************)
EXTENDS Naturals, Sequences, FiniteSets

CONSTANTS
  Callers,    \* threads that may call mcu_request
  Ops,        \* requests they make, a subset of AllOps
  Console,    \* console commands in use, a subset of AllConsole
  Hazards,    \* what the outside does, a subset of AllHazards
  UpCap,      \* frames in flight to the controller
  DownCap,    \* frames in flight from the controller
  FreshTicks, \* 750 ms: how long a PONG proves the link
  PingTicks,  \* 250 ms: heartbeat period
  JobTicks,   \* 600 ms: deadline of a request
  CallTicks,  \* 1000 ms: how long the caller waits
  ArmTicks,   \* 300 s: a plain `arm'
  MaxUptime   \* bound of the controller's uptime counter

Motion == {"move", "servo"}
Queries == {"config_get", "stat"}
AllOps == Motion \cup Queries \cup {"ping", "stop", "clear", "config", "device"}
AllConsole == {"start", "arm", "session", "desktop_on", "desktop_off", "disarm", "disconnect"}
AllHazards == {"lose", "trip", "fault", "reboot", "reconfig", "ioerror"}

ASSUME OpsAssumption == Ops \subseteq AllOps
ASSUME ConsoleAssumption == Console \subseteq AllConsole
ASSUME HazardsAssumption == Hazards \subseteq AllHazards
ASSUME BoundsAssumption ==
  /\ UpCap \in Nat \ {0} /\ DownCap \in Nat \ {0}
  /\ FreshTicks \in Nat /\ PingTicks \in Nat /\ MaxUptime \in Nat
  /\ JobTicks \in Nat \ {0} /\ CallTicks \in Nat \ {0} /\ ArmTicks \in Nat \ {0}
  /\ JobTicks < CallTicks

VARIABLES
  \* `link', guarded by `lock'
  ready, quit, armed, urgent, desktop, desktop_inhibit,
  lease,                 \* ticks until arm_until, or Forever; 0 unless armed
  seen, pongAge, uptime, config, fault,
  pending, sent, done, result, command, jobLeft, pingLeft,
  \* the worker: its place in the loop and the frame it is about to write
  wpc, hand,
  \* the callers: their place, their request, and the owner's patience
  cpc, creq, callLeft,
  \* the wire and the controller
  up, down, mcuUptime, mcuConfig, mcuFault,
  \* history: executions of the current request, and whether a STOP or a
  \* disarm was asked for while it was still queued
  acted, overruled

permitVars == <<armed, lease, urgent, desktop_inhibit>>
healthVars == <<seen, pongAge, uptime, config, fault>>
jobVars    == <<pending, sent, done, result, command, jobLeft>>
callVars   == <<cpc, creq, callLeft>>
mcuVars    == <<mcuUptime, mcuConfig, mcuFault>>
histVars   == <<acted, overruled>>
vars == <<ready, quit, permitVars, desktop, healthVars, jobVars,
          pingLeft, wpc, hand, callVars, up, down, mcuVars, histVars>>

-----------------------------------------------------------------------------
Forever  == ArmTicks + 1
NoFrame  == [op |-> "none", tag |-> "zero"]
Results  == {"none", "ok", "refused", "cancelled", "remote", "timeout", "dead"}
Bit      == 0..1

\* Sequence numbers.  The code compares a reply's number with job_seq and with
\* ping_seq only, so a frame carries what its number is equal to: "job",
\* "ping", "zero" in a broadcast, or "old", which is neither.  A new number is
\* never one that is still in use: a lap of 65535 takes the worker over two
\* minutes, longer than any frame or request lives.
Tags == {"job", "ping", "old", "zero"}
UpFrames == [op : AllOps, tag : Tags]

Replies  == {"pong", "ack", "nak", "cfg", "stat", "alarm"}
Events   == {"trip", "fault", "config"}
DownFrames == [kind : Replies \cup Events, tag : Tags,
               uptime : 0..MaxUptime, config : Bit, fault : Bit]

Running == wpc # "none"
LockFree == wpc # "rx"
Fresh == seen /\ pongAge <= FreshTicks

\* Mutant: the gate forgets to ask for the permission.
AllowedUnarmed(op) ==
  \/ op \in {"stop", "ping"} \cup Queries
  \/ /\ Fresh
     /\ \/ op \in {"clear", "device"}
        \/ op = "config" /\ ~armed
        \/ op \in Motion /\ fault = 0 /\ (op = "servo" => config = 1)

\* The gate in front of every request, evaluated when it is made and again
\* when the worker is about to transmit it.
Allowed(op) ==
  \/ op \in {"stop", "ping"} \cup Queries
  \/ /\ Fresh
     /\ \/ op \in {"clear", "device"}
        \/ op = "config" /\ ~armed
        \/ op \in Motion /\ armed /\ lease # 0 /\ fault = 0 /\ (op = "servo" => config = 1)

\* Adding to a direction of the wire; giving a number out again.
Put(ch, cap, f) == IF Len(ch) < cap THEN Append(ch, f) ELSE ch
Outdate(ch, t) == [i \in DOMAIN ch |-> IF ch[i].tag = t THEN [ch[i] EXCEPT !.tag = "old"] ELSE ch[i]]
next_seq(t) == up' = Outdate(up, t) /\ down' = Outdate(down, t)

\* `armed' with the time it lasts, which nothing reads once it is withdrawn.
SetArmed(b) == armed' = b /\ lease' = IF b THEN lease ELSE 0
Less(n) == IF n = 0 THEN 0 ELSE n - 1

-----------------------------------------------------------------------------
Init ==
  /\ ready = FALSE /\ quit = FALSE /\ armed = FALSE /\ urgent = FALSE
  /\ desktop = FALSE /\ desktop_inhibit = FALSE /\ lease = 0
  /\ seen = FALSE /\ pongAge = FreshTicks + 1 /\ uptime = 0 /\ config = 0 /\ fault = 1
  /\ pending = FALSE /\ sent = FALSE /\ done = FALSE /\ result = "none"
  /\ command = "ping" /\ jobLeft = 0
  /\ pingLeft = 0
  /\ wpc = "none" /\ hand = NoFrame
  /\ cpc = [c \in Callers |-> "idle"] /\ creq = [c \in Callers |-> "ping"] /\ callLeft = 0
  /\ up = <<>> /\ down = <<>>
  /\ mcuUptime = 0 /\ mcuConfig = 0
  /\ mcuFault \in (IF "fault" \in Hazards THEN Bit ELSE {0})
  /\ acted = 0 /\ overruled = FALSE

-----------------------------------------------------------------------------
(* Console commands: one critical section of `lock' each.                   *)

QueuedMotion == pending /\ ~sent /\ ~done /\ command \in Motion

\* start(): spawn the worker unless one is running; the spawn may fail.
Start ==
  /\ "start" \in Console /\ LockFree /\ ~Running
  /\ wpc' \in {"boot", "none"} /\ ready' = FALSE /\ quit' = FALSE
  /\ SetArmed(FALSE) /\ urgent' = FALSE
  /\ seen' = FALSE /\ pongAge' = FreshTicks + 1
  /\ UNCHANGED <<desktop_inhibit, desktop, uptime, config, fault, jobVars,
                 pingLeft, hand, callVars, up, down, mcuVars, histVars>>

\* `arm' for five minutes and `arm session'.
Arm(how) ==
  /\ how \in Console \cap {"arm", "session"} /\ LockFree
  /\ ready /\ Fresh /\ fault = 0
  /\ armed' = TRUE /\ desktop_inhibit' = FALSE
  /\ lease' = IF how = "session" THEN Forever ELSE ArmTicks
  /\ UNCHANGED <<ready, quit, urgent, desktop, healthVars, jobVars, pingLeft, wpc,
                 hand, callVars, up, down, mcuVars, histVars>>

\* mcu_desktop_session(true): the user's consent for the voice route.
DesktopOn ==
  /\ "desktop_on" \in Console /\ LockFree
  /\ desktop' = TRUE /\ desktop_inhibit' = FALSE
  /\ UNCHANGED <<ready, quit, armed, urgent, lease, healthVars, jobVars, pingLeft,
                 wpc, hand, callVars, up, down, mcuVars, histVars>>

\* mcu_desktop_session(false), `disarm' and `disconnect' all withdraw the
\* permission and ask for a STOP.
Withdraw(how) ==
  /\ how \in Console \cap {"desktop_off", "disarm", "disconnect"} /\ LockFree
  /\ desktop' = FALSE /\ SetArmed(FALSE) /\ urgent' = TRUE
  /\ quit' = (quit \/ how = "disconnect")
  /\ overruled' = (overruled \/ QueuedMotion)
  /\ UNCHANGED <<ready, desktop_inhibit, healthVars, jobVars, pingLeft, wpc,
                 hand, callVars, up, down, mcuVars, acted>>

-----------------------------------------------------------------------------
(* Requests: mcu_request and what its callers do first.                     *)

\* The console's plain request, or one that withdraws the permission first:
\* `stop' and `config' also ask for a STOP frame, `clear' does not.
Call(c, op) ==
  /\ op \in Ops /\ cpc[c] = "idle" /\ LockFree
  /\ cpc' = [cpc EXCEPT ![c] = "try"] /\ creq' = [creq EXCEPT ![c] = op]
  /\ SetArmed(armed /\ op \notin {"stop", "config", "clear"})
  /\ urgent' = (urgent \/ op \in {"stop", "config"})
  /\ overruled' = (overruled \/ (QueuedMotion /\ op = "stop"))
  /\ UNCHANGED <<ready, quit, desktop_inhibit, desktop, healthVars, jobVars,
                 pingLeft, wpc, hand, callLeft, up, down, mcuVars, acted>>

\* mcu_desktop_request for a motion: a consented session arms the link.
CallDesktop(c, op) ==
  /\ op \in Ops \cap Motion /\ cpc[c] = "idle" /\ LockFree
  /\ desktop /\ ~desktop_inhibit /\ ready /\ Fresh /\ fault = 0
  /\ cpc' = [cpc EXCEPT ![c] = "try"] /\ creq' = [creq EXCEPT ![c] = op]
  /\ armed' = TRUE /\ lease' = Forever
  /\ UNCHANGED <<ready, quit, urgent, desktop_inhibit, desktop, healthVars, jobVars,
                 pingLeft, wpc, hand, callLeft, up, down, mcuVars, histVars>>

\* call_lock is held from a successful trylock until the request returns.
CallLockHeld == \E c \in Callers : cpc[c] = "wait"

\* Mutant: no early return when the link is not ready.
TurnAwayNotReady(c) ==
  /\ cpc[c] = "try" /\ LockFree
  /\ CallLockHeld \/ (ready /\ ~Allowed(creq[c]))
  /\ cpc' = [cpc EXCEPT ![c] = "idle"] /\ creq' = [creq EXCEPT ![c] = "ping"]
  /\ UNCHANGED <<ready, quit, permitVars, desktop, healthVars, jobVars, pingLeft, wpc, hand,
                 callLeft, up, down, mcuVars, histVars>>

\* -EBUSY, -ENODEV or the gate's error: nothing is queued.
TurnAway(c) ==
  /\ cpc[c] = "try" /\ LockFree
  /\ CallLockHeld \/ ~ready \/ ~Allowed(creq[c])
  /\ cpc' = [cpc EXCEPT ![c] = "idle"] /\ creq' = [creq EXCEPT ![c] = "ping"]
  /\ UNCHANGED <<ready, quit, permitVars, desktop, healthVars, jobVars,
                 pingLeft, wpc, hand, callLeft, up, down, mcuVars, histVars>>

Accept(c) ==
  /\ cpc[c] = "try" /\ LockFree
  /\ ~CallLockHeld /\ ready /\ Allowed(creq[c])
  /\ cpc' = [cpc EXCEPT ![c] = "wait"] /\ callLeft' = CallTicks
  /\ command' = creq[c] /\ pending' = TRUE /\ sent' = FALSE /\ done' = FALSE
  /\ result' = "none" /\ jobLeft' = JobTicks
  /\ acted' = 0 /\ overruled' = FALSE
  /\ UNCHANGED <<ready, quit, permitVars, desktop, healthVars, pingLeft, wpc, hand, creq, up,
                 down, mcuVars>>

\* Mutant: a caller that gives up disarms without asking for a STOP.
ReturnSilently(c) ==
  /\ cpc[c] = "wait" /\ LockFree
  /\ done \/ callLeft = 0
  /\ cpc' = [cpc EXCEPT ![c] = "idle"] /\ creq' = [creq EXCEPT ![c] = "ping"]
  /\ callLeft' = 0
  /\ pending' = FALSE /\ done' = FALSE /\ result' = "none" /\ command' = "ping"
  /\ jobLeft' = 0
  /\ SetArmed(armed /\ done)
  /\ desktop_inhibit' = (desktop_inhibit \/ ~done)
  /\ UNCHANGED <<ready, quit, urgent, desktop, healthVars, sent, pingLeft, wpc, hand, up, down,
                 mcuVars, histVars>>

\* The caller sees `done', or has waited a second and gives up.  The request's
\* own fields are not read again before the next request sets them.
Return(c) ==
  /\ cpc[c] = "wait" /\ LockFree
  /\ done \/ callLeft = 0
  /\ cpc' = [cpc EXCEPT ![c] = "idle"] /\ creq' = [creq EXCEPT ![c] = "ping"]
  /\ callLeft' = 0
  /\ pending' = FALSE /\ done' = FALSE /\ result' = "none" /\ command' = "ping"
  /\ jobLeft' = 0
  /\ SetArmed(armed /\ done)
  /\ urgent' = (urgent \/ ~done)
  /\ desktop_inhibit' = (desktop_inhibit \/ ~done)
  /\ UNCHANGED <<ready, quit, desktop, healthVars, sent, pingLeft, wpc, hand,
                 up, down, mcuVars, histVars>>

-----------------------------------------------------------------------------
(* The worker.  "boot": opening the port; "loop": outside the lock; "rx":   *)
(* inside it, handling what was read; "write": send_frame, outside it;      *)
(* "exit": the loop has ended; "last": the final critical section.          *)

workerFrame == <<quit, desktop, callVars, mcuVars, histVars>>

\* Mutant: opening the port drops a STOP asked for meanwhile.
OpenForgets ==
  /\ wpc = "boot"
  /\ wpc' = "loop" /\ ready' = TRUE /\ pingLeft' = 0 /\ urgent' = FALSE
  /\ UNCHANGED <<armed, lease, desktop_inhibit, healthVars, jobVars, hand, up, down, workerFrame>>

Open ==
  /\ wpc = "boot"
  /\ wpc' = "loop" /\ ready' = TRUE /\ pingLeft' = 0
  /\ UNCHANGED <<permitVars, healthVars, jobVars, hand, up, down, workerFrame>>

OpenFails ==
  /\ wpc = "boot" /\ "ioerror" \in Hazards
  /\ wpc' = "exit"
  /\ UNCHANGED <<ready, permitVars, healthVars, jobVars, pingLeft, hand, up, down,
                 workerFrame>>

Lock ==
  /\ wpc = "loop"
  /\ wpc' = "rx"
  /\ UNCHANGED <<ready, permitVars, healthVars, jobVars, pingLeft, hand, up, down,
                 workerFrame>>

ReadFails ==
  /\ wpc = "loop" /\ "ioerror" \in Hazards
  /\ wpc' = "exit"
  /\ UNCHANGED <<ready, permitVars, healthVars, jobVars, pingLeft, hand, up, down,
                 workerFrame>>

-----------------------------------------------------------------------------
(* receive(): one frame, with the lock held.                                *)

OpenFor(cmds) == pending /\ ~done /\ command \in cmds
\* Mutant: a reply to the previous request answers one not yet transmitted.
AnswersEarly(f) == pending /\ ~done /\ jobLeft > 0 /\ f.tag = "job"
Answers(f) == pending /\ sent /\ ~done /\ jobLeft > 0 /\ f.tag = "job"

\* Mutant: without the Inhibit destructor.
DisarmOnly(off, stop) ==
  /\ SetArmed(armed /\ ~off)
  /\ urgent' = (urgent \/ stop)
  /\ UNCHANGED desktop_inhibit

\* The lock-protected fields a frame may disarm, with the Inhibit destructor:
\* a permission that a frame takes away stays away.
Disarm(off, stop) ==
  /\ SetArmed(armed /\ ~off)
  /\ desktop_inhibit' = (desktop_inhibit \/ (armed /\ off))
  /\ urgent' = (urgent \/ stop)

Finish(now, res) ==
  /\ done' = (done \/ now)
  /\ result' = IF now THEN res ELSE result

\* Edge and obstacle trips, fault and configuration broadcasts.
OnEvent(f) ==
  /\ f.kind \in Events /\ f.tag = "zero"
  /\ fault' = CASE f.kind = "trip" -> 1 [] f.kind = "fault" -> f.fault [] OTHER -> fault
  /\ config' = IF f.kind = "config" THEN f.config ELSE config
  /\ Disarm(TRUE, TRUE)
  /\ Finish(OpenFor(Motion), "cancelled")
  /\ UNCHANGED <<seen, pongAge, uptime>>

\* Mutant: a restart that leaves the configuration as it was goes unnoticed.
RestartedElsewhere(f) == seen /\ f.config # config
Restarted(f) == seen /\ (f.uptime < uptime \/ f.config # config)
\* A PONG counts for the latest heartbeat, or answers the caller's ping.
PongCounts(f) == f.tag = "ping" \/ (Answers(f) /\ command = "ping")
\* Mutant: a fault that a PONG reports is noted and nothing else.
OnPongTrusting(f) ==
  /\ f.kind = "pong" /\ PongCounts(f)
  /\ seen' = TRUE /\ pongAge' = 0
  /\ uptime' = f.uptime /\ config' = f.config /\ fault' = f.fault
  /\ LET cancel == OpenFor(Motion) /\ Restarted(f)
         answer == Answers(f) /\ command = "ping"
     IN  /\ Disarm(Restarted(f), Restarted(f))
         /\ Finish(cancel \/ answer, IF answer THEN "ok" ELSE "cancelled")

OnPong(f) ==
  /\ f.kind = "pong" /\ PongCounts(f)
  /\ seen' = TRUE /\ pongAge' = 0
  /\ uptime' = f.uptime /\ config' = f.config /\ fault' = f.fault
  /\ LET cancel == OpenFor(Motion) /\ (Restarted(f) \/ f.fault # 0)
         answer == Answers(f) /\ command = "ping"
     IN  /\ Disarm(Restarted(f) \/ f.fault # 0, Restarted(f) \/ cancel)
         /\ Finish(cancel \/ answer, IF answer THEN "ok" ELSE "cancelled")

\* The three read-only queries; a reply that shows a changed configuration, a
\* fault, a thermal trip or a foreign owner disarms.
OnData(f) ==
  /\ Answers(f)
  /\ \/ command = "config_get" /\ f.kind = "cfg"
     \/ command = "stat" /\ f.kind \in {"stat", "alarm"}
  /\ Finish(TRUE, "ok")
  /\ LET bad == IF f.kind = "cfg" THEN f.config # config ELSE f.kind = "alarm" \/ f.fault # 0
     IN Disarm(bad, bad)
  /\ config' = IF f.kind = "cfg" THEN f.config ELSE config
  /\ fault' = IF f.kind = "cfg" THEN fault ELSE f.fault
  /\ UNCHANGED <<seen, pongAge, uptime>>

\* An ACK with status 0 accepts the command; any other status, and a NAK,
\* refuses it.  No ACK is defined for ping and the queries.
OnAck(f) ==
  /\ Answers(f)
  /\ \/ f.kind = "ack" /\ command \notin Queries \cup {"ping"}
     \/ f.kind = "nak"
  /\ Finish(TRUE, IF f.kind = "ack" THEN "ok" ELSE "remote")
  /\ Disarm(f.kind = "nak", f.kind = "nak")
  /\ UNCHANGED healthVars

Discards(f) ==
  /\ ~(f.kind \in Events /\ f.tag = "zero")
  /\ ~(f.kind = "pong" /\ PongCounts(f))
  /\ Answers(f) =>
       /\ ~(command = "config_get" /\ f.kind = "cfg")
       /\ ~(command = "stat" /\ f.kind \in {"stat", "alarm"})
       /\ ~(command \notin Queries \cup {"ping"} /\ f.kind = "ack")
       /\ f.kind # "nak"

Receive ==
  /\ wpc = "rx" /\ down # <<>>
  /\ down' = Tail(down)
  /\ LET f == Head(down) IN
       \/ OnEvent(f)
       \/ OnPong(f)
       \/ OnData(f)
       \/ OnAck(f)
       \/ Discards(f) /\ UNCHANGED <<permitVars, healthVars, done, result>>
  /\ UNCHANGED <<ready, pending, sent, command, jobLeft, pingLeft, wpc, hand,
                 up, workerFrame>>

-----------------------------------------------------------------------------
(* The rest of the critical section: what to send next, then the deadline.  *)

Lost == armed /\ (~Fresh \/ lease = 0 \/ fault # 0)
\* Mutant: a request already transmitted is picked up again.
QueuedAgain == pending /\ ~done
Queued == pending /\ ~sent /\ ~done
Expired == pending /\ ~done /\ jobLeft = 0

\* The deadline check after the choice.  `stop' is the value the choice left
\* in `urgent', `lost' whether the permission was found stale before it.
Deadline(lost, stop) ==
  /\ Finish(Expired, "timeout")
  /\ SetArmed(armed /\ ~lost /\ ~Expired)
  /\ desktop_inhibit' = (desktop_inhibit \/ lost \/ Expired)
  /\ urgent' = (stop \/ Expired)

selectFrame == <<ready, healthVars, pending, command, jobLeft, workerFrame>>

\* Mutant: a disconnect that waits for the request under way, lock in hand.
SelectQuitIdle ==
  /\ wpc = "rx" /\ quit /\ ~pending
  /\ wpc' = "exit"
  /\ UNCHANGED <<permitVars, done, result, sent, pingLeft, hand, up, down, selectFrame>>

SelectQuit ==
  /\ wpc = "rx" /\ quit
  /\ wpc' = "exit"
  /\ UNCHANGED <<permitVars, done, result, sent, pingLeft, hand, up, down, selectFrame>>

SelectStop ==
  /\ wpc = "rx" /\ ~quit
  /\ urgent \/ Lost
  /\ hand' = [op |-> "stop", tag |-> "old"] /\ wpc' = "write"
  /\ Deadline(Lost, FALSE)
  /\ UNCHANGED <<sent, pingLeft, up, down, selectFrame>>

SelectJob ==
  /\ wpc = "rx" /\ ~quit /\ ~urgent /\ ~Lost
  /\ Queued /\ Allowed(command) /\ jobLeft > 0
  /\ hand' = [op |-> command, tag |-> "job"] /\ wpc' = "write"
  /\ next_seq("job") /\ sent' = TRUE
  /\ UNCHANGED <<permitVars, done, result, pingLeft, selectFrame>>

RefuseJob ==
  /\ wpc = "rx" /\ ~quit /\ ~urgent /\ ~Lost
  /\ Queued /\ (~Allowed(command) \/ jobLeft = 0)
  /\ wpc' = "loop"
  /\ Finish(TRUE, IF Allowed(command) THEN "timeout" ELSE "refused")
  /\ UNCHANGED <<permitVars, sent, pingLeft, hand, up, down, selectFrame>>

SelectPing ==
  /\ wpc = "rx" /\ ~quit /\ ~urgent /\ ~Lost /\ ~Queued
  /\ pingLeft = 0
  /\ hand' = [op |-> "ping", tag |-> "ping"] /\ wpc' = "write"
  /\ next_seq("ping") /\ pingLeft' = PingTicks
  /\ Deadline(FALSE, FALSE)
  /\ UNCHANGED <<sent, selectFrame>>

SelectNothing ==
  /\ wpc = "rx" /\ ~quit /\ ~urgent /\ ~Lost /\ ~Queued
  /\ pingLeft > 0
  /\ wpc' = "loop"
  /\ Deadline(FALSE, FALSE)
  /\ UNCHANGED <<sent, pingLeft, hand, up, down, selectFrame>>

\* send_frame, with no lock held.
Write ==
  /\ wpc = "write"
  /\ up' = Put(up, UpCap, hand)
  /\ hand' = NoFrame /\ wpc' = "loop"
  /\ UNCHANGED <<ready, permitVars, healthVars, jobVars, pingLeft, down, workerFrame>>

\* The UART stays full for 50 ms or reports an error: the frame is cut short.
WriteFails ==
  /\ wpc = "write" /\ "ioerror" \in Hazards
  /\ hand' = NoFrame /\ wpc' = "exit"
  /\ UNCHANGED <<ready, permitVars, healthVars, jobVars, pingLeft, up, down,
                 workerFrame>>

\* The best-effort STOP on the way out.
ExitStop ==
  /\ wpc = "exit"
  /\ \/ up' = Put(up, UpCap, [op |-> "stop", tag |-> "old"])
     \/ "ioerror" \in Hazards /\ up' = up
  /\ wpc' = "last"
  /\ UNCHANGED <<ready, permitVars, healthVars, jobVars, pingLeft, hand, down,
                 workerFrame>>

ExitLast ==
  /\ wpc = "last"
  /\ wpc' = "none" /\ ready' = FALSE
  /\ SetArmed(FALSE) /\ desktop_inhibit' = TRUE
  /\ Finish(pending /\ ~done, "dead")
  /\ UNCHANGED <<urgent, healthVars, pending, sent, command, jobLeft,
                 pingLeft, hand, up, down, workerFrame>>

-----------------------------------------------------------------------------
(* The wire and the controller: external, as the code's comments, tests and *)
(* protocol header expect them.  An iteration reads the port before it takes *)
(* the lock, so what arrives inside it waits for the next one.              *)

linkVars == <<ready, quit, permitVars, desktop, healthVars, jobVars, pingLeft,
              wpc, hand, callVars>>

Reply(kind, f) ==
  [kind |-> kind, tag |-> f.tag, uptime |-> 0, config |-> 0, fault |-> 0]
Event(kind) == Reply(kind, [tag |-> "zero"])
Tell(r) == down' = Put(down, DownCap, r)

\* Counting executions of the current request.
Act(f) == acted' = IF f.tag = "job" /\ sent /\ acted < 2 THEN acted + 1 ELSE acted

McuPing(f) ==
  /\ f.op = "ping"
  /\ Tell([Reply("pong", f) EXCEPT !.uptime = mcuUptime, !.config = mcuConfig, !.fault = mcuFault])
  /\ Act(f)
  /\ UNCHANGED mcuVars

McuQuery(f) ==
  /\ \/ f.op = "config_get" /\ Tell([Reply("cfg", f) EXCEPT !.config = mcuConfig])
     \/ f.op = "stat" /\ Tell([Reply("stat", f) EXCEPT !.fault = mcuFault])
     \/ f.op = "stat" /\ Tell([Reply("alarm", f) EXCEPT !.fault = mcuFault])
  /\ Act(f)
  /\ UNCHANGED mcuVars

\* A command is carried out and acknowledged, or refused.
McuObey(f) ==
  /\ f.op \notin Queries \cup {"ping"}
  /\ f.op \in Motion => mcuFault = 0
  /\ Tell(Reply("ack", f))
  /\ Act(f)
  /\ mcuFault' = IF f.op = "clear" THEN 0 ELSE mcuFault
  /\ mcuConfig' = IF f.op = "config" THEN 1 - mcuConfig ELSE mcuConfig
  /\ UNCHANGED mcuUptime

McuRefuse(f) ==
  /\ f.op \notin {"ping", "stop"}
  /\ Tell(Reply("nak", f))
  /\ UNCHANGED <<mcuVars, acted>>

Mcu ==
  /\ LockFree /\ up # <<>>
  /\ up' = Tail(up)
  /\ McuPing(Head(up)) \/ McuQuery(Head(up)) \/ McuObey(Head(up)) \/ McuRefuse(Head(up))
  /\ UNCHANGED <<linkVars, overruled>>

LoseUp ==
  /\ LockFree /\ "lose" \in Hazards /\ up # <<>>
  /\ up' = Tail(up)
  /\ UNCHANGED <<linkVars, down, mcuVars, histVars>>

LoseDown ==
  /\ LockFree /\ "lose" \in Hazards /\ down # <<>>
  /\ down' = Tail(down)
  /\ UNCHANGED <<linkVars, up, mcuVars, histVars>>

McuTrips ==
  /\ LockFree /\ "trip" \in Hazards /\ Tell(Event("trip"))
  /\ UNCHANGED <<linkVars, up, mcuVars, histVars>>

McuFaults ==
  /\ LockFree /\ "fault" \in Hazards /\ mcuFault' = 1 - mcuFault
  /\ Tell([Event("fault") EXCEPT !.fault = mcuFault'])
  /\ UNCHANGED <<linkVars, up, mcuUptime, mcuConfig, histVars>>

McuReconfigures ==
  /\ LockFree /\ "reconfig" \in Hazards /\ mcuConfig' = 1 - mcuConfig
  /\ Tell([Event("config") EXCEPT !.config = mcuConfig'])
  /\ UNCHANGED <<linkVars, up, mcuUptime, mcuFault, histVars>>

McuReboots ==
  /\ LockFree /\ "reboot" \in Hazards
  /\ mcuUptime' = 0 /\ mcuFault' \in Bit /\ up' = <<>>
  /\ UNCHANGED <<linkVars, down, mcuConfig, histVars>>

\* The clock.  An iteration reads it once, so it stands still inside the lock.
Tick ==
  /\ LockFree
  /\ pongAge' = IF pongAge <= FreshTicks THEN pongAge + 1 ELSE pongAge
  /\ lease' = IF lease # Forever THEN Less(lease) ELSE lease
  /\ jobLeft' = IF pending /\ ~done THEN Less(jobLeft) ELSE jobLeft
  /\ pingLeft' = Less(pingLeft)
  /\ callLeft' = Less(callLeft)
  /\ mcuUptime' = IF mcuUptime < MaxUptime THEN mcuUptime + 1 ELSE mcuUptime
  /\ UNCHANGED <<ready, quit, armed, urgent, desktop_inhibit, desktop, seen, uptime, config, fault, pending, sent,
                 done, result, command, wpc, hand, cpc, creq, up, down,
                 mcuConfig, mcuFault, histVars>>

-----------------------------------------------------------------------------
Worker ==
  \/ Open \/ OpenFails \/ Lock \/ ReadFails \/ Receive
  \/ SelectQuit \/ SelectStop \/ SelectJob \/ RefuseJob \/ SelectPing \/ SelectNothing
  \/ Write \/ WriteFails \/ ExitStop \/ ExitLast

Requests == \E c \in Callers :
  \/ \E op \in Ops : Call(c, op) \/ CallDesktop(c, op)
  \/ TurnAway(c) \/ Accept(c) \/ Return(c)

ConsoleNext ==
  \/ Start
  \/ \E how \in {"arm", "session"} : Arm(how)
  \/ DesktopOn
  \/ \E how \in {"desktop_off", "disarm", "disconnect"} : Withdraw(how)

Outside ==
  \/ Mcu \/ LoseUp \/ LoseDown
  \/ McuTrips \/ McuFaults \/ McuReconfigures \/ McuReboots

Next == Worker \/ Requests \/ ConsoleNext \/ Outside \/ Tick

Spec == Init /\ [][Next]_vars

\* The worker sleeps 2 ms between iterations and one read is bounded by 256
\* bytes, so it reaches the choice of every iteration; callers poll every 2 ms
\* and find the lock free infinitely often; the clock advances.
Select == SelectQuit \/ SelectStop \/ SelectJob \/ RefuseJob \/ SelectPing \/ SelectNothing
Fairness ==
  /\ WF_vars(Worker) /\ WF_vars(Select) /\ SF_vars(Tick)
  /\ \A c \in Callers : SF_vars(TurnAway(c) \/ Accept(c)) /\ SF_vars(Return(c))
FairSpec == Spec /\ Fairness

-----------------------------------------------------------------------------
\* One part per group of variables.
PermitTypeOK ==
  /\ armed \in BOOLEAN /\ lease \in 0..Forever
  /\ urgent \in BOOLEAN /\ desktop_inhibit \in BOOLEAN
HealthTypeOK ==
  /\ seen \in BOOLEAN /\ pongAge \in 0..(FreshTicks + 1) /\ uptime \in 0..MaxUptime
  /\ config \in Bit /\ fault \in Bit
JobTypeOK ==
  /\ pending \in BOOLEAN /\ sent \in BOOLEAN /\ done \in BOOLEAN
  /\ result \in Results /\ command \in AllOps /\ jobLeft \in 0..JobTicks
WorkerTypeOK ==
  /\ ready \in BOOLEAN /\ quit \in BOOLEAN /\ desktop \in BOOLEAN /\ pingLeft \in 0..PingTicks
  /\ wpc \in {"none", "boot", "loop", "rx", "write", "exit", "last"}
  /\ hand \in UpFrames \cup {NoFrame}
CallTypeOK ==
  /\ cpc \in [Callers -> {"idle", "try", "wait"}] /\ creq \in [Callers -> AllOps]
  /\ callLeft \in 0..CallTicks
WireTypeOK == up \in Seq(UpFrames) /\ down \in Seq(DownFrames)
McuTypeOK == mcuUptime \in 0..MaxUptime /\ mcuConfig \in Bit /\ mcuFault \in Bit
HistTypeOK == acted \in 0..2 /\ overruled \in BOOLEAN

TypeOK ==
  /\ PermitTypeOK /\ HealthTypeOK /\ JobTypeOK /\ WorkerTypeOK
  /\ CallTypeOK /\ WireTypeOK /\ McuTypeOK /\ HistTypeOK

\* The outcome belongs to the request being served, which a caller waits for;
\* a refused one was never transmitted; a frame is in hand only between the
\* choice and the write.
ServingOK ==
  /\ done => pending
  /\ ~done => result = "none"
  /\ result = "refused" => ~sent
  /\ pending => CallLockHeld
  /\ ready => Running
  /\ wpc = "write" <=> hand # NoFrame

\* Once the current request is transmitted, its only frame is in hand, on the
\* wire, or carried out; an answer to it other than a refusal follows that.
NoneIn(ch) == \A i \in DOMAIN ch : ch[i].tag # "job"
OneIn(ch)  == \A i, j \in DOMAIN ch : ch[i].tag = "job" /\ ch[j].tag = "job" => i = j
AckIn(ch)  == \E i \in DOMAIN ch : ch[i].tag = "job" /\ ch[i].kind # "nak"
JobFrameOK ==
  /\ ~sent => acted = 0
  /\ sent =>
       /\ hand.tag = "job" => acted = 0 /\ NoneIn(up)
       /\ OneIn(up)
       /\ ~NoneIn(up) => acted = 0
       /\ AckIn(down) => acted = 1

\* Permission to move exists only on a ready link that has heard a PONG, with
\* no fault on record and no revocation outstanding (receive, worker, start,
\* mcu_control and mcu_desktop_request all write these fields).
PermitSound == armed => ready /\ seen /\ fault = 0 /\ ~desktop_inhibit

\* What a caller is told is true: "acknowledged" means the controller carried
\* out this very request, once; "refused" means nothing was transmitted.
OutcomeTruth ==
  /\ acted <= 1
  /\ pending /\ done /\ result = "ok" => acted = 1
  /\ pending /\ done /\ result = "refused" => acted = 0

\* The inductive invariant behind the safety properties.
IInv == TypeOK /\ ServingOK /\ PermitSound /\ JobFrameOK /\ OutcomeTruth

\* mcu_request keeps the promise of OneShot: transmitted at most once, carried
\* out at most once, acknowledged only if carried out, refused only if unsent.
Request == INSTANCE OneShot
RequestIsOneShot == Request!Spec

\* A motion frame is chosen only while the permission stands on fresh evidence
\* and no STOP is waiting to go first.
MotionStep ==
  hand'.op \in Motion /\ hand.op \notin Motion =>
    armed /\ Fresh /\ fault = 0 /\ ~desktop_inhibit /\ ~urgent
MotionOnlyWhenPermitted == [][MotionStep]_vars

\* Whoever withdraws the permission also gets a STOP on its way, unless the
\* controller itself reported the fault, the worker has just written its last
\* STOP, or the operator is clearing a fault.
ClearCalled == \E c \in Callers : cpc[c] = "idle" /\ cpc'[c] = "try" /\ creq'[c] = "clear"
DisarmStep ==
  armed /\ ~armed' =>
    urgent' \/ hand'.op = "stop" \/ fault' # 0 \/ wpc = "last" \/ ClearCalled

\* A permission does not outlive the controller it was given for: whichever frame
\* shows a restart (a smaller uptime) or another configuration takes it away.
ControllerStep == armed /\ armed' => uptime' >= uptime /\ config' = config

\* How a permission lasts and how it ends.
PermitKeptOrStopped == [][ControllerStep /\ DisarmStep]_vars

\* A permission the link loses by itself (a frame, a stale PONG, a missed
\* deadline) is not given back by the voice route without new consent.
LinkStep == wpc = "rx" \/ (wpc = "last" /\ wpc' = "none")
              \/ \E c \in Callers : cpc[c] = "wait" /\ cpc'[c] = "idle"
LossStep == armed /\ ~armed' /\ LinkStep => desktop_inhibit'
LossNeedsConsent == [][LossStep]_vars

\* A STOP that is asked for is written, or the link ends with one.
StopIsSent == (urgent /\ Running) ~> (hand.op = "stop" \/ wpc = "last" \/ ~Running)

\* Every request returns to its caller.
CallReturns == \A c \in Callers : cpc[c] # "idle" ~> cpc[c] = "idle"

\* A disconnect ends the worker.
DisconnectEnds == (quit /\ Running) ~> ~Running
\* docs/a733/AGENT_UART4_STM32_V177.md:119 "STOP also closes the permission to
\* move; the next motion must be armed again": a motion still queued when a STOP
\* or a disarm is asked for is not transmitted afterwards.
StopOverrulesQueuedMotion == [][~sent /\ sent' /\ command \in Motion => ~overruled]_vars

\* docs/PRODUCT_V2_0PRE_V225.md:12 "NAK, loss or fault locks the current session
\* ... after the fault is corrected, `aipet mcu desktop on' explicitly": a fault
\* that is reported during a desktop session inhibits it.
FaultLocksSession == [][desktop /\ fault = 0 /\ fault' # 0 => desktop_inhibit']_vars
=============================================================================
