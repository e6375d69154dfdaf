------------------------- MODULE StandingsProperties --------------------------
(***************************************************************************)
(* What the standings of a group guarantee, provisional ones included.     *)
(***************************************************************************)
EXTENDS GroupStandings

Opponent(p, r) == IF r.p1 = p THEN r.p2 ELSE r.p1

WonBy(p) == {r \in Range(results) : \/ r.p1 = p /\ r.winner = "p1"
                                    \/ r.p2 = p /\ r.winner = "p2"}

DrawnBy(p) == {r \in Range(results) : p \in {r.p1, r.p2} /\ r.winner = "tie"}

PointsOf(p) == 3 * Cardinality(WonBy(p)) + Cardinality(DrawnBy(p))

Level(p, r) == PointsOf(Opponent(p, r)) = PointsOf(p)

MiniTableOf(p) ==
  3 * Cardinality({r \in WonBy(p) : Level(p, r)}) + Cardinality({r \in DrawnBy(p) : Level(p, r)})

BergerOf(p) ==
  2 * MapThenSumSet(LAMBDA r : PointsOf(Opponent(p, r)), WonBy(p))
    + MapThenSumSet(LAMBDA r : PointsOf(Opponent(p, r)), DrawnBy(p))

(* The standings are those of docs/technical-design.md (three points a     *)
(* win, then the matches among those level on points, wins, and the final  *)
(* points of the beaten and half of the drawn), read off the set of the    *)
(* results: the order in which they were accepted, which differs from one  *)
(* execution to the next and between the runner and the archive loader,    *)
(* leaves no trace.                                                        *)
StandingsFollowRules ==
  \A p \in Participants :
    SortKeys(results)[p] =
      <<PointsOf(p), MiniTableOf(p), Cardinality(WonBy(p)), BergerOf(p), -TieKey[p]>>

(* Winning a match never costs the winner a rank, although it changes who  *)
(* is level with whom, and with that every tie-break.                      *)
WinnerNeverDrops ==
  [][LET last == results'[Len(results')]
     IN  \A p \in Participants :
           \/ last.p1 = p /\ last.winner = "p1"
           \/ last.p2 = p /\ last.winner = "p2"
           => Ranks(results')[p] <= Ranks(results)[p]]_results
==============================================================================
