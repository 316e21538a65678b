--------------------------- MODULE MCEodScheduler ----------------------------
(* Names of invocations for model-checking EodScheduler. *)
EXTENDS EodScheduler

CONSTANTS i1, i2
=============================================================================
