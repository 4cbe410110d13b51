------------------------------ MODULE MCMcuLink ------------------------------
(* The serial link of McuLink on small instances.                          *)
EXTENDS McuLink, TLC

\* Callers are interchangeable: no definition tells one from another.
Symmetry == Permutations(Callers)
=============================================================================
