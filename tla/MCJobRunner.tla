---------------------------- MODULE MCJobRunner -----------------------------
(* Values for model-checking JobRunner. *)
EXTENDS JobRunner

CONSTANTS w1, w2

MCRetryDelay == [n \in 1..MaxAttempts |-> 0]
MCInstants == 0..MaxTime

MCTwoJobs == {[key |-> 1, max |-> 2, due |-> 0], [key |-> 2, max |-> 1, due |-> 1]}
=============================================================================
