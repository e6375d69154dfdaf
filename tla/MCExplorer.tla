------------------------------ MODULE MCExplorer ------------------------------
(* Model checking of the explorer.                                          *)
EXTENDS ExplorerProperties

CONSTANTS r1, r2

(* One replay is as large as the cache, the other half.                     *)
ReplayBytes == (r1 :> 2) @@ (r2 :> 1)

(* Requests are interchangeable.                                            *)
Symmetry == Permutations(Requests)
==============================================================================
