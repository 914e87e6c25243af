------------------------------ MODULE MCSockets ------------------------------
EXTENDS Sockets, TLC

CONSTANTS p1, p2, s1, s2, s3, s4, k1, ann, acme

Ann == [id |-> ann, scope |-> acme, holds |-> {"see"}]
AnnLess == [Ann EXCEPT !.holds = {}]

MCChannels == "team" :> [reach |-> "scope", requires |-> {"see"}]
MCCredOf == [s \in {s1, s2, s3, s4} |-> k1]
MCStart == k1 :> Ann
MCIdentity == {Ann, AnnLess}
MCPushed == {[channel |-> "team", scope |-> acme, to |-> Nobody,
              variants |-> <<[requires |-> {"see"}, body |-> "full"]>>]}
MCFrames == {[does |-> "listen", channel |-> "team", to |-> Nobody],
             [does |-> "ask", channel |-> "team", to |-> Nobody]}

Of(procs, socks, n, c, f) ==
  [procs |-> procs, socks |-> socks,
   left |-> [pushes |-> n, changes |-> c, faults |-> f]]

\* one socket among two processes, two of one caller in one, one asked of twice
MCDeployments ==
  { Of({p1, p2}, {s1}, 1, 0, 0), Of({p1, p2}, {s1}, 0, 1, 0), Of({p1, p2}, {s1}, 0, 0, 1),
    Of({p1}, {s2, s3}, 1, 0, 0), Of({p1}, {s2, s3}, 0, 0, 1),
    Of({p1}, {s4}, 1, 1, 0), Of({p1}, {s4}, 0, 1, 1) }
MCMaxAsks == s1 :> 1 @@ s2 :> 1 @@ s3 :> 1 @@ s4 :> 2
==============================================================================
