----------------------------- MODULE AgentTurn -----------------------------
(***************************************************************************)
(* One question to the cloud agent: agent_bridge.c, which carries it to    *)
(* the agent engine and the answer back, mcu_agent_tool.cxx, which lets    *)
(* the engine move the motors only as the user's own words allow, and the  *)
(* two callers of both: `aipet cloud' (routed_ask in pet_routes.cxx, under *)
(* turn_lock) and the product's chat (product_runtime.cxx, under           *)
(* product_turn_lock).  The two locks do not exclude each other, so the    *)
(* bridge and the tool see both callers at once.                           *)
(*                                                                         *)
(* The engine and its message bus are external: it takes one message at a  *)
(* time, may call the tool while it works on it, may answer late or never. *)
(* Each step is one critical section of the bridge or of the tool.         *)
(***************************************************************************)
EXTENDS Naturals, Sequences

CONSTANTS
  Commands,   \* the motor commands a user's words can mean
  NoCommand,  \* words that mean none, or ask for a reading
  MaxAsks,    \* bound on the requests submitted
  MaxTurns,   \* bound on the turns that open a permit
  Hazards     \* what goes wrong outside, a subset of AllHazards

\* "cancel": somebody types `aipet cancel'; "interrupt": the product's turn is
\* interrupted; "bus": the bus refuses a message; "bad": the engine answers
\* nothing usable; "shutdown": the engine is shut down
AllHazards == {"cancel", "interrupt", "bus", "bad", "shutdown"}

ASSUME CommandsAssumption == NoCommand \notin Commands
ASSUME BoundsAssumption == MaxAsks \in Nat /\ MaxTurns \in Nat
ASSUME HazardsAssumption == Hazards \subseteq AllHazards

VARIABLES
  \* agent_bridge.c: chat and response are request numbers, 0 for the empty
  \* string; overdue says that the clock has passed `deadline'
  attached, pending, ready, result, cancelled, sequence, chat,
  overdue, response,
  \* mcu_agent_tool.cxx: turn is the number of the turn that last opened the
  \* permit, last_report the turn it reports on and what it says
  active, used, permit, expired, turn, last_report,
  \* the holder of each lock: its place, the number of its request, what the
  \* poll gave it (the request answered, 0 for an error)
  pc, mine, got,
  \* the engine (its phase is the bridge's `lifecycle') and its bus: messages
  \* in, the one being worked on, the turn whose permit its running tool call
  \* uses (0: no call), answers out
  engine, inbox, current, calling, outbox,
  \* history of the latest turn of `aipet cloud': the calls its permit let
  \* through, the request whose processing used it (0: none), how that call
  \* went ("none" until it returns), whether the product revoked the permit
  \* before the turn's report, and the report shown (about turn 0: none)
  calls, by, outcome, revoked, shown,
  \* history: `aipet cancel' hit a request
  meddled

bridgeVars == <<attached, pending, ready, result, cancelled, sequence, chat,
                overdue, response>>
toolVars   == <<active, used, permit, expired, turn, last_report>>
askVars    == <<pc, mine, got>>
busVars    == <<inbox, current, outbox>>
histVars   == <<calls, by, outcome, revoked, shown>>
vars == <<bridgeVars, toolVars, askVars, engine, busVars, calling,
          histVars, meddled>>

-----------------------------------------------------------------------------
\* Who may be asking: the holder of turn_lock (`aipet cloud') and the holder of
\* product_turn_lock (`aipet ask', the listening service).
Locks == {"turn", "product"}

Requests == 1..MaxAsks

\* What a report says: that no tool was called, or how the command went.
Reports == {"none", "ok", "failed"}

\* An answer on the bus: the request it is for, and whether it is usable text.
Answers == [id : Requests, good : BOOLEAN]

\* The report of a turn that shows none.
NoReport == [turn |-> 0, says |-> "none"]

\* The flags, and the types of the bridge's, the tool's, the askers' and the
\* engine's other state.
FlagTypeOK ==
  /\ attached \in BOOLEAN /\ pending \in BOOLEAN /\ ready \in BOOLEAN
  /\ cancelled \in BOOLEAN /\ overdue \in BOOLEAN
  /\ active \in BOOLEAN /\ used \in BOOLEAN /\ expired \in BOOLEAN
  /\ revoked \in BOOLEAN /\ meddled \in BOOLEAN

BridgeTypeOK ==
  /\ result \in {"ok", "error"}
  /\ sequence \in 0..MaxAsks /\ chat \in 0..MaxAsks
  /\ response \in 0..MaxAsks

ToolTypeOK ==
  /\ permit \in Commands \cup {NoCommand}
  /\ turn \in 0..MaxTurns
  /\ last_report \in [turn : 0..MaxTurns, says : Reports]

AskTypeOK ==
  /\ pc \in [Locks -> {"idle", "submit", "poll", "report", "end"}]
  /\ mine \in [Locks -> 0..MaxAsks]
  /\ got \in [Locks -> 0..MaxAsks]

EngineTypeOK ==
  /\ engine \in {"off", "starting", "serving", "closing", "closed"}
  /\ inbox \in Seq(Requests) /\ outbox \in Seq(Answers)
  /\ current \in 0..MaxAsks /\ calling \in 0..MaxTurns

HistTypeOK ==
  /\ calls \in Nat /\ by \in 0..MaxAsks /\ outcome \in Reports
  /\ shown \in [turn : 0..MaxTurns, says : Reports]

\* The state's types.
TypeOK == /\ FlagTypeOK /\ BridgeTypeOK /\ ToolTypeOK
          /\ AskTypeOK /\ EngineTypeOK /\ HistTypeOK

\* The state before the engine is started.
Init ==
  /\ attached = FALSE /\ pending = FALSE /\ ready = FALSE
  /\ result = "ok" /\ cancelled = FALSE /\ sequence = 0 /\ chat = 0
  /\ overdue = FALSE /\ response = 0
  /\ active = FALSE /\ used = FALSE /\ permit = NoCommand /\ expired = FALSE
  /\ turn = 0 /\ last_report = NoReport
  /\ pc = [l \in Locks |-> "idle"]
  /\ mine = [l \in Locks |-> 0] /\ got = [l \in Locks |-> 0]
  /\ engine = "off" /\ inbox = <<>> /\ outbox = <<>>
  /\ current = 0 /\ calling = 0
  /\ calls = 0 /\ by = 0 /\ outcome = "none"
  /\ revoked = FALSE /\ shown = NoReport /\ meddled = FALSE

-----------------------------------------------------------------------------
(***************************************************************************)
(* The engine's life.  It is claimed once and never again.                 *)
(***************************************************************************)

\* aipet_agent_claim: the second claim is refused and changes nothing.
Claim ==
  /\ engine = "off"
  /\ engine' = "starting"
  /\ UNCHANGED <<bridgeVars, toolVars, askVars, busVars, calling, histVars, meddled>>

\* aipet_agent_attach, once the engine's loop runs; the tap may be refused.
Attach ==
  /\ engine = "starting"
  /\ engine' = "serving"
  /\ attached' = TRUE \/ ("bus" \in Hazards /\ UNCHANGED attached)
  /\ UNCHANGED <<pending, ready, result, cancelled, sequence, chat,
                 overdue, response, toolVars, askVars, busVars, calling, histVars,
                 meddled>>

\* Mutant: a detach or cancel that does not say so.
DropUntold ==
  /\ pending' = FALSE /\ ready' = FALSE
  /\ chat' = 0 /\ response' = 0
  /\ UNCHANGED <<result, cancelled, sequence, overdue>>

\* What aipet_agent_cancel and aipet_agent_detach do to the request.
Drop ==
  /\ pending' = FALSE /\ ready' = FALSE /\ cancelled' = TRUE
  /\ chat' = 0 /\ response' = 0
  /\ UNCHANGED <<result, sequence, overdue>>

\* aipet_agent_detach, then the bus is destroyed with what waits in it; a
\* message being worked on or delivered goes on.
Detach ==
  /\ "shutdown" \in Hazards
  /\ engine \in {"starting", "serving"}
  /\ engine' = "closing" /\ attached' = FALSE /\ Drop
  /\ inbox' = <<>>
  /\ UNCHANGED <<toolVars, askVars, current, outbox, calling, histVars,
                 meddled>>

\* aipet_agent_finish; the engine's status only tells lifecycle 3 from 4.
Finish ==
  /\ engine = "closing"
  /\ engine' = "closed"
  /\ UNCHANGED <<bridgeVars, toolVars, askVars, busVars, calling, histVars, meddled>>

-----------------------------------------------------------------------------
(***************************************************************************)
(* The askers.                                                             *)
(***************************************************************************)

\* The requests that turns already begun may still submit.
Reserved == (IF pc["turn"] = "submit" THEN 1 ELSE 0)
            + (IF pc["product"] = "submit" THEN 1 ELSE 0)

\* The bound on the requests: every turn begun has one left.
Room == sequence + Reserved < MaxAsks

\* routed_ask takes turn_lock and opens the permit its words allow:
\* mcu_turn_begin.
BeginTurn(c) ==
  /\ pc["turn"] = "idle" /\ turn < MaxTurns /\ Room
  /\ turn' = turn + 1 /\ permit' = c
  /\ active' = TRUE /\ used' = FALSE /\ expired' = FALSE
  /\ last_report' = [turn |-> turn + 1, says |-> "none"]
  /\ pc' = [pc EXCEPT !["turn"] = "submit"]
  /\ calls' = 0 /\ by' = 0 /\ outcome' = "none"
  /\ revoked' = FALSE /\ shown' = NoReport
  /\ UNCHANGED <<bridgeVars, mine, got, engine, busVars, calling, meddled>>

\* RuntimePorts::chat on the cloud route, under product_turn_lock: it revokes
\* any permit, mcu_turn_end.
BeginProduct ==
  /\ pc["product"] = "idle" /\ Room
  /\ active' = FALSE
  /\ revoked' = (revoked \/ (active /\ pc["turn"] # "end"))
  /\ pc' = [pc EXCEPT !["product"] = "submit"]
  /\ UNCHANGED <<bridgeVars, mine, got, used, permit, expired, turn,
                 last_report, engine, busVars, calling, calls, by, outcome,
                 shown, meddled>>

\* Where an asker goes when it has its answer or its error: `aipet cloud'
\* reports in either case (cloud_reply, or local_reply as the fallback).
Answered(l) == [pc EXCEPT ![l] = IF l = "turn" THEN "report" ELSE "end"]

\* An asker's locals end with its turn.
Leave(l) ==
  /\ pc' = [pc EXCEPT ![l] = "idle"]
  /\ mine' = [mine EXCEPT ![l] = 0] /\ got' = [got EXCEPT ![l] = 0]

\* Mutant: only a request in the way counts, not an answer.
FreeOfRequest == attached /\ ~pending

\* The bridge takes a request.
Free == attached /\ ~pending /\ ~ready

\* A turn ends without a question: routes.json is invalid, or nothing is left
\* of its words.
NoQuestion ==
  /\ pc["turn"] = "submit"
  /\ pc' = [pc EXCEPT !["turn"] = "end"]
  /\ UNCHANGED <<bridgeVars, toolVars, mine, got, engine, busVars, calling,
                 histVars, meddled>>

\* aipet_agent_submit turns the request away: no engine, a request or an answer
\* in the way, or no memory for the copy.
SubmitRefused(l) ==
  /\ pc[l] = "submit"
  /\ ~Free \/ "bus" \in Hazards
  /\ pc' = Answered(l)
  /\ UNCHANGED <<bridgeVars, toolVars, mine, got, engine, busVars,
                 calling, histVars, meddled>>

\* aipet_agent_submit takes it and pushes it on the bus, which may refuse it.
Submit(l) ==
  /\ pc[l] = "submit"
  /\ Free
  /\ sequence' = sequence + 1 /\ chat' = sequence'
  /\ cancelled' = FALSE /\ overdue' = FALSE
  /\ \/ /\ pending' = TRUE /\ inbox' = Append(inbox, sequence')
        /\ mine' = [mine EXCEPT ![l] = sequence']
        /\ pc' = [pc EXCEPT ![l] = "poll"]
     \/ /\ "bus" \in Hazards
        /\ pc' = Answered(l)
        /\ UNCHANGED <<pending, inbox, mine>>
  /\ UNCHANGED <<attached, ready, result, response, toolVars, got,
                 engine, current, outbox, calling, histVars, meddled>>

\* aipet_agent_poll finds the request past its deadline, an answer ready, or
\* the request cancelled; else it says -EAGAIN, changes nothing, and the asker
\* polls again.
Poll(l) ==
  /\ pc[l] = "poll"
  /\ \/ /\ pending /\ overdue
        /\ pending' = FALSE /\ ready' = FALSE /\ result' = "error"
        /\ response' = 0
        /\ UNCHANGED got
     \/ /\ ~(pending /\ overdue) /\ ready
        /\ ready' = FALSE /\ response' = 0
        /\ got' = [got EXCEPT ![l] = IF result = "ok" THEN response ELSE 0]
        /\ UNCHANGED <<pending, result>>
     \/ /\ ~(pending /\ overdue) /\ ~ready /\ cancelled
        /\ UNCHANGED <<pending, ready, result, response, got>>
  /\ pc' = Answered(l)
  /\ UNCHANGED <<attached, cancelled, sequence, chat, overdue,
                 toolVars, mine, engine, busVars, calling, histVars, meddled>>

\* The product's turn is interrupted, or its own 91 seconds pass: it cancels.
\* The bridge's 90 seconds come first while the request is still the bridge's.
GiveUp ==
  /\ pc["product"] = "poll"
  /\ \/ "interrupt" \in Hazards
     \/ mine["product"] # chat /\ ~ready /\ ~cancelled /\ ~(pending /\ overdue)
  /\ Drop
  /\ Leave("product")
  /\ UNCHANGED <<attached, toolVars, engine, busVars, calling, histVars, meddled>>

\* `aipet cancel': aipet_agent_cancel from any console.
UserCancel ==
  /\ "cancel" \in Hazards
  /\ Drop
  /\ meddled' = (meddled \/ pending \/ ready)
  /\ UNCHANGED <<attached, toolVars, askVars, engine, busVars,
                 calling, histVars>>

\* mcu_turn_report, over the model's words or in place of a failed answer: it
\* speaks only in a turn that was asked to move and not revoked.
Report ==
  /\ pc["turn"] = "report"
  /\ shown' = IF active /\ permit \in Commands THEN last_report ELSE NoReport
  /\ pc' = [pc EXCEPT !["turn"] = "end"]
  /\ UNCHANGED <<bridgeVars, toolVars, mine, got, engine, busVars, calling,
                 calls, by, outcome, revoked, meddled>>

\* The answer has been presented: the lease closes the permit, mcu_turn_end,
\* and frees turn_lock.
EndTurn ==
  /\ pc["turn"] = "end"
  /\ active' = FALSE
  /\ Leave("turn")
  /\ calls' = 0 /\ by' = 0 /\ outcome' = "none"
  /\ revoked' = FALSE /\ shown' = NoReport
  /\ UNCHANGED <<bridgeVars, used, permit, expired, turn, last_report, engine,
                 busVars, calling, meddled>>

\* The product has consumed the answer and frees product_turn_lock.
EndProduct ==
  /\ pc["product"] = "end"
  /\ Leave("product")
  /\ UNCHANGED <<bridgeVars, toolVars, engine, busVars, calling, histVars,
                 meddled>>

-----------------------------------------------------------------------------
(***************************************************************************)
(* The engine, and the tool it may call while it works on a message.       *)
(***************************************************************************)

\* The engine takes the next message.
Take ==
  /\ engine = "serving" /\ current = 0 /\ inbox # <<>>
  /\ current' = Head(inbox) /\ inbox' = Tail(inbox)
  /\ UNCHANGED <<bridgeVars, toolVars, askVars, engine, outbox,
                 calling, histVars, meddled>>

\* The tool refuses a call without changing anything, or uses up the permit
\* before the request to the motors goes out: execute.  Reading the status
\* needs an open permit but no command in it.
ToolCall(c) ==
  /\ current # 0 /\ calling = 0
  /\ active /\ ~expired /\ ~used
  /\ c = "status" \/ c = permit
  /\ used' = TRUE /\ calling' = turn
  /\ calls' = calls + 1 /\ by' = current
  /\ UNCHANGED <<bridgeVars, active, permit, expired, turn,
                 last_report, askVars, engine, busVars, outcome, revoked,
                 shown, meddled>>

\* Mutant: a call that failed gives the permit back.
ToolReturnRefunds(says) ==
  /\ calling # 0
  /\ last_report' = [turn |-> calling, says |-> says]
  /\ outcome' = IF calling = turn THEN says ELSE outcome
  /\ used' = (used /\ says = "ok")
  /\ calling' = 0
  /\ UNCHANGED <<bridgeVars, active, permit, expired, turn, askVars, engine,
                 busVars, calls, by, revoked, shown, meddled>>

\* Mutant: only a success is reported.
ToolReturnProud(says) ==
  /\ calling # 0
  /\ last_report' = IF says = "ok" THEN [turn |-> calling, says |-> says]
                                   ELSE last_report
  /\ outcome' = IF calling = turn THEN says ELSE outcome
  /\ calling' = 0
  /\ UNCHANGED <<bridgeVars, active, used, permit, expired, turn, askVars,
                 engine, busVars, calls, by, revoked, shown, meddled>>

\* mcu_request has answered or failed; its words become the report.
ToolReturn(says) ==
  /\ calling # 0
  /\ last_report' = [turn |-> calling, says |-> says]
  /\ outcome' = IF calling = turn THEN says ELSE outcome
  /\ calling' = 0
  /\ UNCHANGED <<bridgeVars, active, used, permit, expired, turn,
                 askVars, engine, busVars, calls, by, revoked, shown, meddled>>

\* The engine answers the message, perhaps with nothing usable.
Answer(good) ==
  /\ current # 0 /\ calling = 0
  /\ good \/ "bad" \in Hazards
  /\ outbox' = Append(outbox, [id |-> current, good |-> good])
  /\ current' = 0
  /\ UNCHANGED <<bridgeVars, toolVars, askVars, engine, inbox,
                 calling, histVars, meddled>>

\* Mutant: the answer's request is not looked at.
AwaitedAny(a) == attached /\ pending

\* The bridge waits for this very answer.
Awaited(a) == attached /\ pending /\ a.id = chat

\* The bus delivers an answer to the bridge's tap: receive.  An answer to
\* anything but the request that waits is dropped.
Deliver ==
  /\ outbox # <<>>
  /\ outbox' = Tail(outbox)
  /\ LET a == Head(outbox)
         rc == IF a.good /\ ~overdue THEN "ok" ELSE "error"
     IN IF Awaited(a)
          THEN /\ pending' = FALSE /\ ready' = TRUE /\ result' = rc
               /\ response' = IF rc = "ok" THEN a.id ELSE response
          ELSE UNCHANGED <<pending, ready, result, response>>
  /\ UNCHANGED <<attached, cancelled, sequence, chat, overdue,
                 toolVars, askVars, engine, inbox, current, calling, histVars,
                 meddled>>

\* The clock passes the deadline of the waiting request.
DeadlinePasses ==
  /\ pending /\ ~overdue
  /\ overdue' = TRUE
  /\ UNCHANGED <<attached, pending, ready, result, cancelled,
                 sequence, chat, response, toolVars, askVars, engine, busVars,
                 calling, histVars, meddled>>

\* The clock passes the permit's 95 seconds.
PermitExpires ==
  /\ active /\ ~expired
  /\ expired' = TRUE
  /\ UNCHANGED <<bridgeVars, active, used, permit, turn,
                 last_report, askVars, engine, busVars, calling, histVars, meddled>>

-----------------------------------------------------------------------------
\* What the engine, the clock and the users may do.
EngineNext ==
  \/ Claim \/ Attach \/ Detach \/ Finish
  \/ Take \/ Deliver
  \/ \E c \in Commands \cup {"status"} : ToolCall(c)
  \/ \E says \in {"ok", "failed"} : ToolReturn(says)
  \/ \E good \in BOOLEAN : Answer(good)

\* What the holders of the two locks may do.
AskNext ==
  \/ \E c \in Commands \cup {NoCommand} : BeginTurn(c)
  \/ BeginProduct
  \/ \E l \in Locks : SubmitRefused(l) \/ Submit(l) \/ Poll(l)
  \/ NoQuestion \/ GiveUp \/ Report \/ EndTurn \/ EndProduct

\* The next-state relation.
Next == EngineNext \/ AskNext \/ UserCancel \/ DeadlinePasses \/ PermitExpires

\* The specification without fairness.
Spec == Init /\ [][Next]_vars

\* The askers' tasks are scheduled and the clock goes on; the engine, the
\* network behind it and the users owe nothing.
FairSpec ==
  /\ Spec
  /\ \A l \in Locks : /\ WF_vars(Submit(l) \/ SubmitRefused(l))
                      /\ WF_vars(Poll(l))
  /\ WF_vars(Report) /\ WF_vars(EndTurn) /\ WF_vars(EndProduct)
  /\ WF_vars(DeadlinePasses)

-----------------------------------------------------------------------------
(***************************************************************************)
(* The inductive invariant.                                                *)
(***************************************************************************)

\* The bridge holds one request: waiting or answered, never both, and only
\* while it is the latest one submitted.
SlotOK ==
  /\ ~(pending /\ ready)
  /\ pending \/ ready => /\ attached /\ ~cancelled
                         /\ chat = sequence /\ chat # 0
  /\ ready /\ result = "ok" => response = chat

\* Requests have one asker each, and an asker that polls still has its request
\* in the bridge, unless the engine was detached under it.
HolderOK ==
  /\ \A l \in Locks :
       /\ mine[l] <= sequence
       /\ pc[l] \in {"idle", "submit", "poll"} => got[l] = 0
       /\ pc[l] \in {"idle", "submit"} => mine[l] = 0
  /\ mine["turn"] = mine["product"] => mine["turn"] = 0
  /\ attached => engine = "serving"
  /\ ~meddled => \A l \in Locks : pc[l] = "poll" =>
       /\ mine[l] # 0
       /\ \/ (pending \/ ready) /\ mine[l] = chat
          \/ cancelled /\ ~attached /\ engine \in {"closing", "closed"}

\* An answer is taken by one asker only, whoever cancels what: what somebody
\* holds is no longer in the bridge, and the two callers never hold the same.
GivenOnce ==
  /\ \A l \in Locks : /\ got[l] <= sequence
                      /\ got[l] # 0 /\ (pending \/ ready) => got[l] # chat
  /\ got["turn"] = got["product"] => got["turn"] = 0

\* The bound on the requests is never in a turn's way.
RoomOK == sequence + Reserved <= MaxAsks

\* The permit of the latest turn is used up by the one call it let through.
PermitOK ==
  /\ active => turn # 0
  /\ pc["turn"] # "idle" => turn # 0
  /\ calling <= turn /\ (calling # 0 => current # 0)
  /\ ~used => calls = 0

\* While nobody types `aipet cancel', an asker takes the answer to its own
\* request or none, though the two callers share one bridge, answers come late
\* and a turn is interrupted: agent_bridge.c receive and poll.
OwnReply == ~meddled => \A l \in Locks : got[l] \in {0, mine[l]}

\* One turn's words let at most one request through to the motors, however
\* often the engine calls the tool, however it ends and however late an older
\* message is still being worked on: execute in mcu_agent_tool.cxx.
ToolOnce == calls <= 1

\* The inductive invariant.
IInv == /\ TypeOK /\ RoomOK /\ SlotOK /\ HolderOK /\ PermitOK
        /\ GivenOnce /\ OwnReply /\ ToolOnce

-----------------------------------------------------------------------------
(***************************************************************************)
(* Safety.                                                                 *)
(***************************************************************************)

\* A cancelled asker is told so and presents no other request's answer: "cancel
\* only stops the local presentation", and every request's own chat_id keeps
\* late replies apart (aipet_agent_cancel, poll and submit).
CancelIsolates == \A l \in Locks : got[l] \in {0, mine[l]}

\* A turn that presents the answer to its own request, whose processing moved
\* the motors under the turn's permit, reports how that went, not what the
\* model claims, unless the product revoked the permit in between.
ActionShown ==
  /\ pc["turn"] = "end" /\ permit \in Commands
  /\ got["turn"] # 0 /\ by = got["turn"] /\ ~revoked
  => shown = [turn |-> turn, says |-> outcome]

\* What a turn reports about the motors is true: it is about this turn, and it
\* says that no tool was called only if none was.
ReportTruth ==
  shown.turn # 0 => /\ shown.turn = turn
                    /\ shown.says = "none" => calls = 0

\* The engine is done with request r: it is neither worked on nor waits.
Settled(r) ==
  r <= sequence /\ r # current /\ \A i \in DOMAIN inbox : inbox[i] # r

\* The requests whose answers the bus, the bridge and `aipet cloud' hold.
Held == {outbox[i].id : i \in DOMAIN outbox} \cup ({response, got["turn"]} \ {0})

\* The engine works on each request once, and every answer held is about a
\* request it is done with.
BusOK ==
  /\ current <= sequence
  /\ \A i \in DOMAIN inbox : inbox[i] <= sequence /\ inbox[i] # current
  /\ \A i, j \in DOMAIN inbox : inbox[i] = inbox[j] => i = j
  /\ \A r \in Held : Settled(r)

\* The call a permit let through: it runs for the request being worked on and
\* uses no older permit, or its outcome is this turn's report.
CallOK ==
  /\ by # 0 => \/ calling = turn /\ turn # 0 /\ by = current
               \/ calling = 0 /\ last_report = [turn |-> turn, says |-> outcome]
  /\ pc["turn"] \in {"submit", "poll", "report"} /\ ~revoked => active

\* The strengthening behind ActionShown.
ShownInv == IInv /\ BusOK /\ CallOK /\ ActionShown

-----------------------------------------------------------------------------
(***************************************************************************)
(* Actions and liveness.                                                   *)
(***************************************************************************)

\* "At most one request and one answer to be consumed; no concurrent
\* overwriting": an answer that waits is never replaced by another.
NoOverwrite ==
  [][ready /\ ready' => response' = response /\ result' = result]_vars

\* The one place of the bridge, and how far the engine's life is, for Mailbox.
BridgeSlot ==
  [state    |-> IF pending THEN "waiting" ELSE IF ready THEN "answered" ELSE "empty",
   question |-> IF pending \/ ready THEN chat ELSE 0,
   usable   |-> ready /\ result = "ok"]
BridgeLife == IF attached THEN "open"
              ELSE IF engine \in {"closing", "closed"} THEN "closed" ELSE "new"

\* The bridge keeps the promise of Mailbox to its two callers, however late or
\* often the engine answers and whoever cancels: nobody's question is dropped
\* for another's, and an answer is only taken for the question it answers.
Box == INSTANCE Mailbox
  WITH Askers <- Locks, life <- BridgeLife, issued <- sequence, slot <- BridgeSlot,
       asks <- mine, given <- got
BridgeIsMailbox == Box!Spec

\* While nobody types `aipet cancel', every turn ends, even if the engine never
\* answers, dies or is shut down: cloud_reply's loop has no deadline of its own.
AskEnds ==
  \A l \in Locks : (pc[l] # "idle") ~> (pc[l] = "idle" \/ meddled)

=============================================================================
