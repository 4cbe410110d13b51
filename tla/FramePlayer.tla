---------------------------- MODULE FramePlayer -----------------------------
(***************************************************************************)
(* What a pipelined camera job promises whoever looks at the display, with *)
(* no threads, slots or errors: frames are captured at most two ahead of   *)
(* the picture, every captured frame is shown in turn or not at all, no    *)
(* frame is skipped or shown twice, each one carries its own inference     *)
(* result, and after the end of the job nothing is captured or shown.      *)
(***************************************************************************)
EXTENDS Naturals

CONSTANTS Ahead      \* how many frames may be captured beyond the one shown

VARIABLES
  captured,  \* frames captured so far
  screen,    \* the frame shown and the frame its overlay is about
  over       \* the job has ended

vars == <<captured, screen, over>>

Init == captured = 0 /\ screen = [rgb |-> 0, result |-> 0] /\ over = FALSE

Capture ==
  /\ ~over /\ captured < screen.rgb + Ahead
  /\ captured' = captured + 1
  /\ UNCHANGED <<screen, over>>

Show ==
  /\ ~over /\ screen.rgb < captured
  /\ screen' = [rgb |-> screen.rgb + 1, result |-> screen.rgb + 1]
  /\ UNCHANGED <<captured, over>>

Finish ==
  /\ ~over /\ over' = TRUE
  /\ UNCHANGED <<captured, screen>>

Next == Capture \/ Show \/ Finish

Spec == Init /\ [][Next]_vars
=============================================================================
