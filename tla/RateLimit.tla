----------------------------- MODULE RateLimit -----------------------------
(***************************************************************************)
(* The in-process counter of guard/internal/limit.ts: a key counts the     *)
(* requests of one fixed window. `counts` is the Map, a function on the    *)
(* keys it holds; time is in seconds.                                      *)
(***************************************************************************)
EXTENDS Integers, Functions

CONSTANTS Requests, Seconds    \* a route's declared limit: { requests, seconds }

ASSUME WindowAssumption == Requests \in Nat \ {0} /\ Seconds \in Nat \ {0}

NoCounts == [k \in {} |-> [hits |-> 0, until |-> 0]]

Open(counts, key, now) == key \in DOMAIN counts /\ counts[key].until > now

With(counts, key, bucket) ==
  [k \in DOMAIN counts \cup {key} |-> IF k = key THEN bucket ELSE counts[k]]

\* the request that opens a window is not counted in it
SpendUncounted(counts, key, now) ==
  With(counts, key,
       IF Open(counts, key, now)
       THEN [counts[key] EXCEPT !.hits = @ + 1]
       ELSE [hits |-> 0, until |-> now + Seconds])

\* spend: the first request after a window opens the next one
Spend(counts, key, now) ==
  With(counts, key,
       IF Open(counts, key, now)
       THEN [counts[key] EXCEPT !.hits = @ + 1]
       ELSE [hits |-> 1, until |-> now + Seconds])

\* the verdict of a spend that left `counts`
Allowed(counts, key) == counts[key].hits <= Requests

\* refund: one back, whichever window the key counts by now
Refund(counts, key) ==
  IF key \in DOMAIN counts /\ counts[key].hits > 0
  THEN [counts EXCEPT ![key].hits = @ - 1]
  ELSE counts

\* sweep: what no longer counts is dropped
Swept(counts, now) == Restrict(counts, {k \in DOMAIN counts : counts[k].until > now})
============================================================================
