---------------------------- MODULE MCPublication -----------------------------
(* Model checking of the publication of a run.                              *)
EXTENDS PublisherProperties, TLC

(* Publishers are interchangeable.                                          *)
Symmetry == Permutations(Publishers)
==============================================================================
