------------------------------ MODULE MCServing ------------------------------
EXTENDS Serving, TLC

CONSTANTS r1, r2, a1, a2, u1

MCAddrOf == r1 :> a1 @@ r2 :> a1

\* a public stream that any page may open, a guarded and limited form either way
MCRoute ==
  { [kind |-> "stream", accepts |-> "json", unsafe |-> FALSE, public |-> TRUE,
     anyOrigin |-> TRUE, guarded |-> FALSE, limited |-> FALSE, countSuccess |-> TRUE, byAddress |-> FALSE],
    [kind |-> "either", accepts |-> "form", unsafe |-> TRUE, public |-> FALSE,
     anyOrigin |-> FALSE, guarded |-> TRUE, limited |-> TRUE, countSuccess |-> FALSE, byAddress |-> TRUE] }

\* forged; by a caller that its headers name; grown, under two cookies of the name
MCShape ==
  { [cookies |-> 1, origin |-> "other", type |-> "form", size |-> "fits", parses |-> TRUE],
    [cookies |-> 0, origin |-> "none", type |-> "form", size |-> "fits", parses |-> TRUE],
    [cookies |-> 2, origin |-> "other", type |-> "form", size |-> "grown", parses |-> TRUE] }
==============================================================================
