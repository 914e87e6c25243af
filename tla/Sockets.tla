------------------------------ MODULE Sockets ------------------------------
(***************************************************************************)
(* The sockets of every process serving one application: each opened at an *)
(* upgrade, identified again while it lives, closed by its server, its     *)
(* peer or a crash; and what crosses between the processes for them,       *)
(* pushes and presence, over LISTEN/NOTIFY, which loses what is published  *)
(* while a process does not listen (serve/internal/listen.ts, connection.ts *)
(* and socket.ts, http/internal/sockets.ts and relay.ts,                   *)
(* database/internal/pgPubSub.ts, serve/internal/closing.ts).              *)
(***************************************************************************)
EXTENDS Hub, FiniteSets, Integers, SequencesExt

CONSTANTS
  Proc,          \* processes; one started again is another, its origin is new
  Sock, CredOf,  \* sockets, each dialled once, and the credential each carries
  Deployments,   \* [procs, socks, left]: which serve, which dial, and the bounds
                 \* on pushes, changes of credentials and faults: crashes,
                 \* drops, losses, vanished peers, failed checks
  Leaving,       \* the processes that may stop or crash
  Cred, Start,   \* credentials, and whom each stands for at first
  Identity,      \* whom a credential may come to stand for
  Addr,          \* the address every socket comes from
  Pushed,        \* what jobs push: [channel, scope, to, variants]
  Frames,        \* what clients send: [does, channel, to]
  Most,          \* mostSocketsPerCaller
  Silent,        \* SILENT_MS in heartbeats
  MaxAsks        \* bound: refreshes of one socket under way at once

Allowance == {"pushes", "changes", "faults"}
Callers == {who.id : who \in Identity} \cup {Addr}

ASSUME SocketsAssumption ==
  /\ CredOf \in [Sock -> Cred] /\ Leaving \subseteq Proc
  /\ \A d \in Deployments : /\ d.procs \subseteq Proc /\ d.socks \subseteq Sock
                            /\ d.left \in [Allowance -> Nat]
  /\ Start \in [Cred -> Identity \cup {Nobody}]
  /\ Nobody \notin Identity /\ Nobody \notin Callers
  /\ Most \in Nat \ {0} /\ Silent \in Nat \ {0} /\ MaxAsks \in [Sock -> Nat \ {0}]

VARIABLES
  proc,       \* up, stopping, gone
  listening,  \* the processes whose LISTEN connection is up
  truth,      \* whom each credential stands for
  sock,       \* each socket's life
  perCaller,  \* OpenSockets.perCaller of each process
  mirror,     \* relay's mirror in each process, by the process it heard from
  wire,       \* notices on their way
  pushes,     \* the messages pushed so far
  heard,      \* what each socket was handed: [push, body, who]
  left        \* what of the bounds is left

vars == <<proc, listening, truth, sock, perCaller, mirror, wire, pushes, heard, left>>
net == <<proc, listening, mirror>>
past == <<pushes, heard>>

At == {"new", "upgraded", "open", "closing", "gone"}
Unread == [unread |-> TRUE]
Unheard == [quiet |-> -1, present |-> {}]
NoFrame == [does |-> "none"]
NoProc == "none"

\* `who` is connection.ts' identity, `as` the subscription's; `asks` are the
\* refreshes under way, each with the frame that waits for it
NewSock ==
  [at |-> "new", on |-> NoProc, who |-> Nobody, as |-> Nobody, caller |-> Addr, again |-> FALSE,
   refused |-> FALSE, counted |-> FALSE, hears |-> {}, asks |-> <<>>, there |-> TRUE]

Init ==
  /\ \E d \in Deployments :
       /\ proc = [p \in Proc |-> IF p \in d.procs THEN "up" ELSE "gone"]
       /\ listening = d.procs
       /\ sock = [s \in Sock |-> [NewSock EXCEPT !.at = IF s \in d.socks THEN "new" ELSE "gone"]]
       /\ left = d.left
  /\ truth = Start
  /\ perCaller = [p \in Proc |-> [c \in Callers |-> 0]]
  /\ mirror = [p \in Proc |-> [q \in Proc |-> Unheard]]
  /\ wire = {}
  /\ pushes = <<>>
  /\ heard = [s \in Sock |-> <<>>]

\* subscribed: from onOpen, where it is counted, to onClose
Subscribed(r) == r.counted /\ r.at \in {"open", "closing"}
HubIn(sk, p) == {s \in Sock : Subscribed(sk[s]) /\ sk[s].on = p}
Others(p) == {q \in listening : q # p}
Runs(p) == proc[p] # "gone"

Spend(what) == left[what] > 0 /\ left' = [left EXCEPT ![what] = @ - 1]
Fault == Spend("faults")

-----------------------------------------------------------------------------
(* Presence: what a process tells the others of its own sockets. *)

PresentIn(sk, p) == {who \in {sk[s].as : s \in HubIn(sk, p)} : ScopeOf(who) # NoScope}

Notices(sk, p) ==
  {[to |-> q, from |-> p, kind |-> "presence", present |-> PresentIn(sk, p)] : q \in Others(p)}

\* relay's tell, with the sockets as the step leaves them
Tell(p) == wire' = wire \cup Notices(sock', p)

\* a variant: a mirror entry is believed however old
OlderKept(told) == [told EXCEPT !.quiet = IF @ \in 0..(Silent - 1) THEN @ + 1 ELSE @]

\* a mirror entry one beat later
Older(told) ==
  IF told.quiet \in 0..(Silent - 1) THEN [told EXCEPT !.quiet = @ + 1] ELSE Unheard

\* one beat of every live process; connected() lets go of what it finds too old,
\* which is the same as letting go of it at once
Heartbeat ==
  /\ \E p \in Proc : Runs(p)
  /\ \A m \in wire : m.kind # "presence"
  /\ wire' = wire \cup UNION {Notices(sock, p) : p \in {q \in Proc : Runs(q)}}
  /\ mirror' = [p \in Proc |-> [q \in Proc |-> Older(mirror[p][q])]]
  /\ UNCHANGED <<proc, listening, truth, sock, perCaller, past, left>>

\* connected(), of which each scope and permission is a part
Connected(p) == PresentIn(sock, p) \cup UNION {mirror[p][q].present : q \in Proc}

\* relay hears a snapshot; the bound on beats is Heartbeat's
HearPresence(m) ==
  /\ m \in wire /\ m.kind = "presence"
  /\ wire' = wire \ {m}
  /\ mirror' = IF Runs(m.to) THEN [mirror EXCEPT ![m.to][m.from] = [quiet |-> 0, present |-> m.present]]
               ELSE mirror
  /\ UNCHANGED <<proc, listening, truth, sock, perCaller, past, left>>

-----------------------------------------------------------------------------
(* Pushes: this process's sockets at once, the others' when they hear of it. *)

\* a socket that is closing is written to in vain
HandedIn(sk, p, m, n) ==
  heard' = [s \in Sock |->
    IF s \in HubIn(sk, p) /\ sk[s].at = "open" /\ Heard(m, sk[s].as, sk[s].hears)
    THEN Append(heard[s], [push |-> n, body |-> TextFor(m, sk[s].as), who |-> sk[s].as])
    ELSE heard[s]]

PushNotices(p, m, n) ==
  IF ~Crosses(m) THEN {}
  ELSE {[to |-> q, from |-> p, kind |-> "push", push |-> n, message |-> Crossed(m)] : q \in listening}

Pushing(sk, p, m) ==
  /\ pushes' = Append(pushes, m)
  /\ HandedIn(sk, p, m, Len(pushes) + 1)

\* a job pushes, acting in a scope as nobody
Push(p) ==
  /\ proc[p] # "gone"
  /\ Spend("pushes")
  /\ \E f \in Pushed :
       LET m == Message(f.channel, Nobody, f.scope, f.to, "plain", f.variants) IN
       /\ MayPush(f.channel, f.scope, f.to)
       /\ Pushing(sock, p, m)
       /\ wire' = wire \cup PushNotices(p, m, Len(pushes) + 1)
  /\ UNCHANGED <<net, truth, sock, perCaller>>

\* a variant: what the process published itself is taken for another's
OwnHeard(m) == FALSE

Own(m) == m.from = m.to

HearPush(m) ==
  /\ m \in wire /\ m.kind = "push"
  /\ wire' = wire \ {m}
  /\ IF Runs(m.to) /\ ~Own(m) THEN HandedIn(sock, m.to, m.message, m.push) ELSE UNCHANGED heard
  /\ UNCHANGED <<net, truth, sock, perCaller, pushes, left>>

\* at most once: a publish that fails, or a row swept before it is read
Lose(m) ==
  /\ m \in wire
  /\ Fault
  /\ wire' = wire \ {m}
  /\ UNCHANGED <<net, truth, sock, perCaller, past>>

\* the LISTEN connection ends, and what was on its way to it is not sent again
Drop(p) ==
  /\ p \in listening /\ Runs(p)
  /\ Fault
  /\ listening' = listening \ {p}
  /\ wire' = {m \in wire : m.to # p}
  /\ UNCHANGED <<proc, mirror, truth, sock, perCaller, past>>

\* again and connect: every topic is listened to afresh
Reconnect(p) ==
  /\ p \notin listening /\ Runs(p)
  /\ listening' = listening \cup {p}
  /\ UNCHANGED <<proc, mirror, wire, truth, sock, perCaller, past, left>>

-----------------------------------------------------------------------------
(* A socket opens. *)

\* the upgrade, identified as a request is unless its origin refused it; one
\* whose identify throws is nobody
Upgrade(s, p) ==
  /\ sock[s].at = "new" /\ proc[p] = "up"
  /\ \E refused \in BOOLEAN, who \in {truth[CredOf[s]], Nobody} :
       /\ refused => who = Nobody
       /\ IF refused \/ who = truth[CredOf[s]] THEN UNCHANGED left ELSE Fault
       /\ sock' = [sock EXCEPT ![s] =
            [@ EXCEPT !.at = "upgraded", !.on = p, !.who = who, !.refused = refused,
                      !.again = who # Nobody, !.caller = IF who = Nobody THEN Addr ELSE who.id]]
  /\ UNCHANGED <<net, truth, perCaller, wire, past>>

\* a variant: one more than the most
RoomMore(p, caller) == perCaller[p][caller] <= Most

Room(p, caller) == perCaller[p][caller] < Most

\* onOpen
Open(s) ==
  LET p == sock[s].on IN
  /\ sock[s].at = "upgraded"
  /\ IF sock[s].refused \/ ~Room(p, sock[s].caller)
     THEN /\ sock' = [sock EXCEPT ![s].at = "closing"]
          /\ UNCHANGED <<perCaller, wire>>
     ELSE /\ sock' = [sock EXCEPT ![s] = [@ EXCEPT !.at = "open", !.counted = TRUE, !.as = sock[s].who]]
          /\ perCaller' = [perCaller EXCEPT ![p][sock[s].caller] = @ + 1]
          /\ Tell(p)
  /\ UNCHANGED <<net, truth, past, left>>

-----------------------------------------------------------------------------
(* It is identified again, on its own and before each frame. *)

\* a variant: what it listens to stays
MayStillAll(hears, who) == hears

\* what a listening socket hears once it is `who`: the rest is dropped at once
MayStill(hears, who) == {c \in hears : MayHear(c, who)}

\* one refused at its opening, or closed by now, has no subscription
FrameDone(f, now) ==
  IF f = NoFrame \/ ~now.counted THEN now
  ELSE CASE f.does = "listen" -> [now EXCEPT !.hears = IF MayHear(f.channel, now.as) THEN @ \cup {f.channel} ELSE @]
         [] f.does = "unlisten" -> [now EXCEPT !.hears = @ \ {f.channel}]
         [] OTHER -> now

\* a request frame: its handler pushes as whom the socket is, or is refused
AskDone(f, now) ==
  LET scope == ScopeOf(now.who)
      m == Message(f.channel, now.who, scope, f.to, "plain", <<>>)
  IN IF f # NoFrame /\ f.does = "ask" /\ MayPush(f.channel, scope, f.to) /\ left.pushes > 0
     THEN {m} ELSE {}

\* handleSocketMessage on the socket as `now` finds it; `told` says reidentify ran
Handle(s, f, now, told) ==
  LET p == now.on
      asked == AskDone(f, now)
      sent == UNION {PushNotices(p, m, Len(pushes) + 1) : m \in asked}
      after == [sock EXCEPT ![s] = FrameDone(f, now)]
  IN /\ sock' = after
     /\ wire' = wire \cup sent \cup (IF told THEN Notices(after, p) ELSE {})
     /\ \/ asked = {} /\ UNCHANGED <<past, left>>
        \/ \E m \in asked : Pushing(after, p, m) /\ Spend("pushes")

\* onMessage, also of what arrives while the socket is closing: an anonymous
\* socket is not identified again
Frame(s, f) ==
  /\ sock[s].at \in {"open", "closing"} /\ sock[s].there
  /\ IF sock[s].again
     THEN /\ Len(sock[s].asks) < MaxAsks[s]
          /\ sock' = [sock EXCEPT ![s].asks = Append(@, [frame |-> f, read |-> Unread])]
          /\ UNCHANGED <<wire, past, left>>
     ELSE Handle(s, f, sock[s], FALSE)
  /\ UNCHANGED <<net, truth, perCaller>>

\* the recheck's interval
Recheck(s) ==
  /\ sock[s].at \in {"open", "closing"} /\ sock[s].counted /\ sock[s].again
  /\ Len(sock[s].asks) < MaxAsks[s]
  /\ sock' = [sock EXCEPT ![s].asks = Append(@, [frame |-> NoFrame, read |-> Unread])]
  /\ UNCHANGED <<net, truth, perCaller, wire, past, left>>

\* identify reads whom the credential stands for, in its own time
Identify(s, i) ==
  /\ i \in DOMAIN sock[s].asks /\ sock[s].asks[i].read = Unread
  /\ sock' = [sock EXCEPT ![s].asks[i].read = truth[CredOf[s]]]
  /\ UNCHANGED <<net, truth, perCaller, wire, past, left>>

\* or throws: the frame is dropped, the socket stays as it was
IdentifyFails(s, i) ==
  /\ i \in DOMAIN sock[s].asks /\ sock[s].asks[i].read = Unread
  /\ Fault
  /\ sock' = [sock EXCEPT ![s].asks = RemoveAt(@, i)]
  /\ UNCHANGED <<net, truth, perCaller, wire, past>>

\* a variant: one no longer identified stays open
SignedOutStays(now) == now

SignedOut(now) == IF now.at = "open" THEN [now EXCEPT !.at = "closing"] ELSE now

\* refresh goes on with what identify read, in whatever order they answered; of
\* who one without a subscription is nobody is told
Refreshed(s, i) ==
  /\ i \in DOMAIN sock[s].asks /\ sock[s].asks[i].read # Unread
  /\ LET ask == sock[s].asks[i]
         now == [sock[s] EXCEPT !.asks = RemoveAt(@, i), !.who = ask.read]
         still == [now EXCEPT !.as = ask.read, !.hears = MayStill(@, ask.read)]
     IN IF ask.read = Nobody
        THEN sock' = [sock EXCEPT ![s] = SignedOut(now)] /\ UNCHANGED <<wire, past, left>>
        ELSE Handle(s, ask.frame, still, now.counted \/ now.at = "gone")
  /\ UNCHANGED <<net, truth, perCaller>>

\* the credential comes to stand for another, or for nobody
Change(c) ==
  /\ Spend("changes")
  /\ \E who \in (Identity \cup {Nobody}) \ {truth[c]} : truth' = [truth EXCEPT ![c] = who]
  /\ UNCHANGED <<net, sock, perCaller, wire, past>>

-----------------------------------------------------------------------------
(* It ends. *)

\* at its lifetime, by its peer, or given up for a ping its peer did not answer
Ending(s) ==
  /\ sock[s].at = "open"
  /\ sock' = [sock EXCEPT ![s].at = "closing"]
  /\ UNCHANGED <<net, truth, perCaller, wire, past, left>>

\* the second beat without a pong
Terminate(s) == ~sock[s].there /\ Ending(s)

Vanish(s) ==
  /\ sock[s].at = "open" /\ sock[s].there
  /\ Fault
  /\ sock' = [sock EXCEPT ![s].there = FALSE]
  /\ UNCHANGED <<net, truth, perCaller, wire, past>>

\* a variant: whatever closes gives a place back
GivenBackAlways(s) == 1

GivenBack(s) == IF sock[s].counted THEN 1 ELSE 0

\* nothing reads of a socket that is gone but the refreshes still under way
Left(r) == [NewSock EXCEPT !.at = "gone", !.on = r.on, !.again = r.again, !.asks = r.asks]

\* onClose
Closed(s) ==
  LET p == sock[s].on IN
  /\ sock[s].at = "closing"
  /\ sock' = [sock EXCEPT ![s] = Left(sock[s])]
  /\ perCaller' = [perCaller EXCEPT ![p][sock[s].caller] = @ - GivenBack(s)]
  /\ IF sock[s].counted THEN Tell(p) ELSE UNCHANGED wire
  /\ UNCHANGED <<net, truth, past, left>>

\* closeOnce: every socket it holds is told to redial; one still opening is not
Stop(p) ==
  /\ proc[p] = "up" /\ p \in Leaving
  /\ proc' = [proc EXCEPT ![p] = "stopping"]
  /\ sock' = [s \in Sock |-> IF s \in HubIn(sock, p) /\ sock[s].at = "open"
                             THEN [sock[s] EXCEPT !.at = "closing"] ELSE sock[s]]
  /\ UNCHANGED <<listening, mirror, truth, perCaller, wire, past, left>>

\* what a process takes with it, and the notices nobody hears any more
Leaves(p) ==
  /\ proc' = [proc EXCEPT ![p] = "gone"]
  /\ listening' = listening \ {p}
  /\ sock' = [s \in Sock |-> IF sock[s].on = p THEN Left([sock[s] EXCEPT !.asks = <<>>])
                             ELSE sock[s]]
  /\ perCaller' = [perCaller EXCEPT ![p] = [c \in Callers |-> 0]]
  /\ mirror' = [mirror EXCEPT ![p] = [q \in Proc |-> Unheard]]
  /\ wire' = {m \in wire : m.to # p}
  /\ UNCHANGED <<truth, past>>

Exit(p) == proc[p] = "stopping" /\ Leaves(p) /\ UNCHANGED left
Crash(p) == Runs(p) /\ p \in Leaving /\ Fault /\ Leaves(p)

-----------------------------------------------------------------------------

Next ==
  \/ Heartbeat
  \/ \E m \in wire : HearPresence(m) \/ HearPush(m) \/ Lose(m)
  \/ \E p \in Proc : Push(p) \/ Drop(p) \/ Reconnect(p) \/ Stop(p) \/ Exit(p) \/ Crash(p)
  \/ \E s \in Sock : \/ \E p \in Proc : Upgrade(s, p)
                     \/ Open(s) \/ Recheck(s) \/ Ending(s) \/ Terminate(s) \/ Vanish(s) \/ Closed(s)
                     \/ \E f \in Frames : Frame(s, f)
                     \/ \E i \in 1..MaxAsks[s] : Identify(s, i) \/ IdentifyFails(s, i) \/ Refreshed(s, i)
  \/ \E c \in Cred : Change(c)

Spec == Init /\ [][Next]_vars

\* timers fire, notices arrive, identify answers, a closed socket is closed,
\* the server is reached again; nothing of peers or of what is pushed
FairSpec ==
  /\ Spec
  /\ WF_vars(Heartbeat) /\ WF_vars(\E m \in wire : HearPresence(m))
  /\ \A p \in Proc : WF_vars(Reconnect(p)) /\ WF_vars(Exit(p))
  /\ \A s \in Sock : /\ WF_vars(Open(s)) /\ WF_vars(Recheck(s)) /\ WF_vars(Terminate(s)) /\ WF_vars(Closed(s))
                     /\ WF_vars(\E i \in 1..MaxAsks[s] : Identify(s, i) \/ IdentifyFails(s, i))
                     /\ WF_vars(\E i \in 1..MaxAsks[s] : Refreshed(s, i))

-----------------------------------------------------------------------------
(* What it promises. *)

TypeOK ==
  /\ proc \in [Proc -> {"up", "stopping", "gone"}] /\ listening \subseteq Proc
  /\ truth \in [Cred -> Identity \cup {Nobody}]
  /\ \A s \in Sock : sock[s].at \in At /\ sock[s].hears \subseteq DOMAIN Channels
                     /\ Len(sock[s].asks) <= MaxAsks[s]
  /\ perCaller \in [Proc -> [Callers -> 0..Most]]
  /\ left \in [Allowance -> Nat]

\* A caller holds at most mostSocketsPerCaller sockets of a process, the count
\* is of the sockets that opened and have not closed, whoever they have come
\* to stand for since (connection.ts onOpen, onClose), and none listens to
\* a channel it may not hear as whom it is now.
SocketsCounted ==
  /\ TypeOK
  /\ \A p \in Proc, c \in Callers :
       perCaller[p][c] = Cardinality({s \in HubIn(sock, p) : sock[s].caller = c})
  /\ \A s \in Sock : \A c \in sock[s].hears : MayHear(c, sock[s].as)

\* within reach of what was pushed, whatever crossed
Meant(m, who) ==
  /\ m.reach \in {"scope", "identity"} => ScopeOf(who) = m.scope
  /\ m.reach = "identity" => IdOf(who) = m.to
  /\ m.reach = "viewer" => IdOf(who) = m.from /\ who # Nobody
  /\ Channels[m.channel].requires \subseteq Holds(who)

\* A push is handed to a socket once at most, by the process that pushed or
\* by the one that heard of it, to one it was meant for, in the text
\* for what that one holds (relay.ts, sockets.ts push).
HeardOnceAsMeant ==
  \A s \in Sock : \A i \in DOMAIN heard[s] :
    LET got == heard[s][i]
        m == pushes[got.push]
    IN /\ Meant(m, got.who)
       /\ got.body = TextFor(m, got.who)
       /\ \A j \in DOMAIN heard[s] : heard[s][j].push = got.push => i = j

\* Once credentials stop changing, a socket that stays open has its peer there
\* and is whom its credential stands for: a revoked one is closed, however
\* the refreshes crossed, and a vanished peer's place comes back
\* (connection.ts refresh, recheck and beat).
OnlyRightfulStay ==
  <>[](\A s \in Sock : sock[s].at = "open" =>
        /\ sock[s].there
        /\ sock[s].again => sock[s].as = truth[CredOf[s]])

\* Every process comes to know who is connected to all the live ones, after
\* losses, reordered snapshots, dropped connections and crashes, and forgets
\* the sockets of a process that is gone (relay.ts tell, connected).
PresenceComesRight ==
  <>[](\A p \in Proc : Runs(p) => Connected(p) = UNION {PresentIn(sock, q) : q \in {q \in Proc : Runs(q)}})
=============================================================================
