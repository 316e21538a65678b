---------------------------- MODULE MCJobProgress ---------------------------
(* Values for model-checking JobProgress. *)
EXTENDS JobProgress

MCRetryDelay == [n \in 1..MaxAttempts |-> n - 1]
=============================================================================
