----------------------------- MODULE MCStandings ------------------------------
(* Model checking of the group standings.                                   *)
EXTENDS StandingsProperties

MCSwapSides == {pair \in Pairings : (pair[1] + pair[2]) % 2 = 1}

(* The rank digests order the participants against their place.             *)
MCTieKey == [p \in Participants |-> Size - p]
==============================================================================
