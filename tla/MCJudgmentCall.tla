--------------------------- MODULE MCJudgmentCall ----------------------------
(* Values for model-checking JudgmentCall. *)
EXTENDS JudgmentCall

\* The longest jitter: 250 ms after the first attempt, 1000 ms later.
MCBase(n) == IF n = 1 THEN 1 ELSE 2
=============================================================================
