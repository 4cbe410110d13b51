------------------------------- MODULE OneShot -------------------------------
(***************************************************************************)
(* What mcu_request promises its caller, with no wire, worker or clock: a  *)
(* request is transmitted at most once and never again, the controller     *)
(* carries it out at most once, "acknowledged" is only said of a request   *)
(* that was carried out, and "not sent" only of one that never left.       *)
(* A request that timed out may still be carried out later: that is why    *)
(* its result is reported as unknown and it is never retried.              *)
(***************************************************************************)
EXTENDS Naturals

CONSTANTS Results     \* what a caller can be told

VARIABLES
  pending,   \* a request is being served
  sent,      \* the latest request has been handed to the wire
  done,      \* its outcome is known
  result,    \* that outcome
  acted      \* how often the controller carried the latest request out

vars == <<pending, sent, done, result, acted>>

Init ==
  /\ pending = FALSE /\ sent = FALSE /\ done = FALSE
  /\ result = "none" /\ acted = 0

Accept ==
  /\ ~pending
  /\ pending' = TRUE /\ sent' = FALSE /\ done' = FALSE
  /\ result' = "none" /\ acted' = 0

Transmit ==
  /\ pending /\ ~done /\ ~sent
  /\ sent' = TRUE
  /\ UNCHANGED <<pending, done, result, acted>>

Act ==
  /\ sent /\ acted = 0
  /\ acted' = 1
  /\ UNCHANGED <<pending, sent, done, result>>

Finish(r) ==
  /\ pending /\ ~done
  /\ r = "ok" => acted = 1
  /\ r = "refused" => ~sent
  /\ done' = TRUE /\ result' = r
  /\ UNCHANGED <<pending, sent, acted>>

\* The outcome is collected, or the caller stops waiting for one.
Return ==
  /\ pending
  /\ pending' = FALSE /\ done' = FALSE /\ result' = "none"
  /\ UNCHANGED <<sent, acted>>

Next == Accept \/ Transmit \/ Act \/ (\E r \in Results : Finish(r)) \/ Return

Spec == Init /\ [][Next]_vars
=============================================================================
