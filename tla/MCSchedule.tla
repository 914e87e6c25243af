----------------------------- MODULE MCSchedule -----------------------------
(* Schedule on small instances: two turns, in two processes. *)
EXTENDS Schedule, TLC

CONSTANTS j1, j2, l1, l2, l3, l4, p1, p2, t1, t2

MCJob == {j1, j2}
MCLease == {l1, l2, l3, l4}
TwoProcs == t1 :> p1 @@ t2 :> p2

(* min(2^n, 60) seconds, on a scale where the cap is two ticks *)
MCBackoff == [n \in 0..(MostAttempts - 1) |-> Min2(2 ^ n, MaxWait)]

(* The two processes are alike, each with the turn it runs *)
Swap == t1 :> t2 @@ t2 :> t1 @@ p1 :> p2 @@ p2 :> p1

Symmetry == Permutations(Job) \cup Permutations(Lease) \cup {Swap}
=============================================================================
