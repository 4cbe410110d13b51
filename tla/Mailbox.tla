------------------------------ MODULE Mailbox ------------------------------
(***************************************************************************)
(* What the agent bridge promises those who ask through it, with no        *)
(* engine, bus, clock or lock: there is room for one question or the       *)
(* answer to it, never for two; a question is withdrawn by whoever asked   *)
(* it, by `aipet cancel' or by the engine's end, by nobody else; what is   *)
(* taken is the answer to the question that was there, it is taken once,   *)
(* and as long as nobody typed `aipet cancel' by whoever asked it.         *)
(***************************************************************************)
EXTENDS Naturals

CONSTANTS Askers

VARIABLES
  life,      \* "new", then perhaps "open", then perhaps "closed"
  issued,    \* the number of the latest question
  slot,      \* the question that waits, or the answer to it
  asks,      \* the question each asker put and has not done with, or 0
  given,     \* the question whose answer each asker took, or 0
  meddled    \* `aipet cancel' took a question or an answer out

vars == <<life, issued, slot, asks, given, meddled>>

Empty       == [state |-> "empty", question |-> 0, usable |-> FALSE]
Waiting(q)  == [state |-> "waiting", question |-> q, usable |-> FALSE]
Answered(q, usable) == [state |-> "answered", question |-> q, usable |-> usable]

\* The question or answer in the slot, if any, is a's business.
Concerns(a) == slot = Empty \/ slot.question = asks[a] \/ meddled

Init ==
  /\ life = "new" /\ issued = 0 /\ slot = Empty /\ meddled = FALSE
  /\ asks = [a \in Askers |-> 0] /\ given = [a \in Askers |-> 0]

Open ==
  /\ life = "new" /\ life' = "open"
  /\ UNCHANGED <<issued, slot, asks, given, meddled>>

\* The end of the engine takes everything that waits with it.
Close ==
  /\ life # "closed" /\ life' = "closed" /\ slot' = Empty
  /\ UNCHANGED <<issued, asks, given, meddled>>

Ask(a) ==
  /\ life = "open" /\ slot = Empty /\ asks[a] = 0
  /\ issued' = issued + 1 /\ slot' = Waiting(issued + 1)
  /\ asks' = [asks EXCEPT ![a] = issued + 1]
  /\ UNCHANGED <<life, given, meddled>>

\* A question that cannot be passed on uses up its number.
Lose ==
  /\ life = "open" /\ slot = Empty
  /\ issued' = issued + 1
  /\ UNCHANGED <<life, slot, asks, given, meddled>>

Answer(usable) ==
  /\ slot.state = "waiting"
  /\ slot' = Answered(slot.question, usable)
  /\ UNCHANGED <<life, issued, asks, given, meddled>>

Take(a) ==
  /\ slot.state = "answered" /\ Concerns(a)
  /\ slot' = Empty
  /\ given' = [given EXCEPT ![a] = IF slot.usable THEN slot.question ELSE 0]
  /\ UNCHANGED <<life, issued, asks, meddled>>

\* An asker stops waiting: its question is overdue.
Expire(a) ==
  /\ slot.state = "waiting" /\ Concerns(a)
  /\ slot' = Empty
  /\ UNCHANGED <<life, issued, asks, given, meddled>>

\* An asker is interrupted and withdraws its question.
Withdraw(a) ==
  /\ Concerns(a)
  /\ slot' = Empty
  /\ asks' = [asks EXCEPT ![a] = 0] /\ given' = [given EXCEPT ![a] = 0]
  /\ UNCHANGED <<life, issued, meddled>>

\* `aipet cancel', typed by anybody.
Cancel ==
  /\ slot' = Empty
  /\ meddled' = (meddled \/ slot # Empty)
  /\ UNCHANGED <<life, issued, asks, given>>

\* An asker is done with its question and with what it took.
Leave(a) ==
  /\ asks' = [asks EXCEPT ![a] = 0] /\ given' = [given EXCEPT ![a] = 0]
  /\ UNCHANGED <<life, issued, slot, meddled>>

Next ==
  \/ Open \/ Close \/ Lose \/ Cancel
  \/ \E usable \in BOOLEAN : Answer(usable)
  \/ \E a \in Askers : Ask(a) \/ Take(a) \/ Expire(a) \/ Withdraw(a) \/ Leave(a)

Spec == Init /\ [][Next]_vars
=============================================================================
