-------------------------- MODULE MCRunnerFencing --------------------------
(* Small instances of RunnerFencing for TLC.                               *)
EXTENDS RunnerFencing

CONSTANTS g1, g2

\* The host takes one job at a time, and all hosts together two.
OneAtATime == {[of |-> {g1, g2}, limit |-> 1], [of |-> {g1}, limit |-> 2]}
=============================================================================
