------------------------- MODULE MCDurablePipeline --------------------------
(* DurablePipeline on small instances: one run, two workers. *)
EXTENDS DurablePipeline, TLC

CONSTANTS r1, j1, j2, j3, j4, w1, w2
=============================================================================
