----------------------------- MODULE SpokenText -----------------------------
(***************************************************************************)
(* What a spoken turn promises its listener, with no threads, buffers or   *)
(* errors: the reply grows, its sounds are heard in turn, none is skipped, *)
(* repeated or heard before it was written, a turn that reports success    *)
(* has been heard to the end, and after the end there is silence, unless a *)
(* thread that could not be joined is left behind, which the outcome says. *)
(***************************************************************************)
EXTENDS Naturals

VARIABLES
  written,   \* sounds of the reply published so far
  heard,     \* sounds given to the device
  outcome    \* "open", "ok", "failed", or "retained"

vars == <<written, heard, outcome>>

Init == written = 0 /\ heard = 0 /\ outcome = "open"

Write ==
  /\ outcome = "open"
  /\ written' > written
  /\ UNCHANGED <<heard, outcome>>

Hear ==
  /\ outcome \in {"open", "retained"}
  /\ heard < written /\ heard' = heard + 1
  /\ UNCHANGED <<written, outcome>>

Succeed ==
  /\ outcome = "open" /\ heard = written
  /\ outcome' = "ok"
  /\ UNCHANGED <<written, heard>>

Fail ==
  /\ outcome = "open"
  /\ outcome' \in {"failed", "retained"}
  /\ UNCHANGED <<written, heard>>

Next == Write \/ Hear \/ Succeed \/ Fail

Spec == Init /\ [][Next]_vars
=============================================================================
