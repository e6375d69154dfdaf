------------------------------ MODULE MCKnockout ------------------------------
(* Model checking of the knockout rounds in sample mode.                    *)
EXTENDS KnockoutProperties

MCLottery ==
  [r \in RoundNames |-> [p \in 1..32 |-> IF p % 2 = 0 THEN "entrant1" ELSE "entrant2"]]
==============================================================================
