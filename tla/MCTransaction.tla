--------------------------- MODULE MCTransaction ----------------------------
(* Transaction on small instances: a few calls of ctx.tx, nested or queued. *)
EXTENDS Transaction, TLC

Symmetry == Permutations(Tx)
=============================================================================
