------------------------------ MODULE MCControl -------------------------------
(* Model checking of the control API.                                       *)
EXTENDS ControlProperties, TLC

(* Calls are interchangeable, and so are run IDs.                           *)
Symmetry == Permutations(Calls) \cup Permutations(Runs)
==============================================================================
