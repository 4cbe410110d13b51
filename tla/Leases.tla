------------------------------- MODULE Leases -------------------------------
(***************************************************************************)
(* What the pet's tasks promise each other about its devices, with no      *)
(* locks, settings, requests, routes or timeouts.                          *)
(*                                                                         *)
(* One task at a time holds the pet: the listening service or a foreground *)
(* turn.  The NPU is the recogniser's of the service, or a camera job's    *)
(* the holder waits for, or, while nobody holds the pet, a camera job's    *)
(* that only shows the view.  The audio device has one user at a time.     *)
(* Once a device is in doubt nobody takes the pet or starts a camera job   *)
(* any more, and a holder who cannot answer for what it used keeps the pet *)
(* for ever.  (The holder it has may go on using the audio device.)        *)
(***************************************************************************)

CONSTANTS
  Tasks,     \* who may hold the pet
  service,   \* the one of them that listens
  none       \* nobody

VARIABLES
  holder,    \* who holds the pet
  npu,       \* "free", "recogniser", "identify" or "view"
  sound,     \* who uses the audio device
  doubt,     \* the devices whose last user could not clean up, of "audio" and "camera"
  kept       \* the holder stands in quarantine

vars == <<holder, npu, sound, doubt, kept>>

Init == holder = none /\ npu = "free" /\ sound = none /\ doubt = {} /\ kept = FALSE

\* Nobody takes the pet from another, from a camera job, or with a device in doubt.
Take(t) ==
  /\ holder = none /\ npu = "free" /\ doubt = {}
  /\ holder' = t
  /\ UNCHANGED <<npu, sound, doubt, kept>>

\* It is given back with everything that went with it.
Return ==
  /\ holder # none /\ ~kept /\ npu \in {"free", "recogniser"} /\ sound # holder
  /\ holder' = none /\ npu' = "free"
  /\ UNCHANGED <<sound, doubt, kept>>

\* The service opens its recogniser, or closes it.
Recognise ==
  /\ holder = service /\ ~kept /\ npu \in {"free", "recogniser"}
  /\ npu' \in {"free", "recogniser"}
  /\ UNCHANGED <<holder, sound, doubt, kept>>

\* A camera job: the holder's, or anybody's while nobody holds the pet.
Job ==
  /\ npu = "free" /\ doubt = {} /\ ~kept
  /\ npu' = IF holder = none THEN "view" ELSE "identify"
  /\ UNCHANGED <<holder, sound, doubt, kept>>

\* The job ends and has cleaned up, or not; or it never ends.
JobEnds ==
  /\ npu \in {"identify", "view"} /\ "camera" \notin doubt
  /\ \/ npu' = "free" /\ doubt' \in {doubt, doubt \cup {"camera"}}
     \/ npu' = npu /\ doubt' = doubt \cup {"camera"}
  /\ UNCHANGED <<holder, sound, kept>>

Play(t) ==
  /\ sound = none /\ (t = service => holder = service /\ ~kept)
  /\ sound' = t
  /\ UNCHANGED <<holder, npu, doubt, kept>>

\* The end of a use, after which the device may be in doubt.
Quiet ==
  /\ sound # none /\ sound' = none
  /\ doubt' \in {doubt, doubt \cup {"audio"}}
  /\ UNCHANGED <<holder, npu, kept>>

\* The holder stops where it is: it keeps the pet, and uses the device no more.
Keep ==
  /\ holder # none /\ ~kept /\ kept' = TRUE
  /\ npu' = npu \/ (npu = "recogniser" /\ npu' = "free")
  /\ sound' = IF sound = holder THEN none ELSE sound
  /\ doubt' \in {doubt, doubt \cup {"audio"}}
  /\ UNCHANGED holder

Next ==
  \/ Return \/ Recognise \/ Job \/ JobEnds \/ Quiet \/ Keep
  \/ \E t \in Tasks : Take(t) \/ Play(t)

Spec == Init /\ [][Next]_vars
=============================================================================
