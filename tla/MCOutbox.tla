------------------------------ MODULE MCOutbox ------------------------------
(* Outbox on small instances: deliveries of two processes. *)
EXTENDS Outbox, TLC

CONSTANTS e1, e2, l1, l2, p1, p2, t1, t2

TwoProcs == t1 :> p1 @@ t2 :> p2

(* min(2^n, 300) seconds, on a scale where the cap is the lease *)
MCRetryMs == [n \in 1..MostAttempts |-> IF 2 ^ (n - 1) < LeaseMs THEN 2 ^ (n - 1) ELSE LeaseMs]

(* The two processes are alike, each with the delivery it runs *)
Swap == t1 :> t2 @@ t2 :> t1 @@ p1 :> p2 @@ p2 :> p1

Symmetry == Permutations(Event) \cup Permutations(Listener) \cup {Swap}
=============================================================================
