---------------------------- MODULE TournamentRun ----------------------------
(***************************************************************************)
(* What a tournament run promises, whatever crashes, stops and failures    *)
(* its runner meets: results are accepted one match at a time, each match  *)
(* once, a stage only after the stages before it are complete, the games   *)
(* of a series in order and none after the one that decides it; the run    *)
(* completes only when every match has its result; and a run that has      *)
(* completed or failed never changes again.                                *)
(***************************************************************************)
EXTENDS TournamentRules

VARIABLES
  accepted,    \* the accepted results
  status       \* "running", "failed" or "completed"

Init == accepted = {} /\ status = "running"

Accept(r, s, outcome) ==
  /\ status = "running"
  /\ \A q \in 0..(r - 1) : StageComplete(accepted, q)
  /\ ~SeriesDone(accepted, r, s)
  /\ accepted' = accepted \cup {[round |-> r, series |-> s,
                                 game |-> NextGame(accepted, r, s),
                                 outcome |-> outcome]}
  /\ UNCHANGED status

Complete ==
  /\ status = "running"
  /\ \A q \in 0..Rounds : StageComplete(accepted, q)
  /\ status' = "completed"
  /\ UNCHANGED accepted

Fail == status = "running" /\ status' = "failed" /\ UNCHANGED accepted

Next ==
  \/ \E r \in 0..Rounds : \E s \in SeriesIn(r), outcome \in OutcomesIn(r) :
       Accept(r, s, outcome)
  \/ Complete
  \/ Fail

Spec == Init /\ [][Next]_<<accepted, status>>
==============================================================================
