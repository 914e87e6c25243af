---------------------------- MODULE SocketsProofs ----------------------------
(* What Sockets says of any number of processes, sockets, callers and       *)
(* pushes, whatever is lost, delayed or answered out of order: proved.      *)
EXTENDS Sockets, FiniteSetTheorems, SequenceTheorems, TLAPS

Asked == [frame: Frames \cup {NoFrame}, read: {Unread} \cup Identity \cup {Nobody}]

SockType ==
  [at: At, on: Proc \cup {NoProc}, who: Identity \cup {Nobody}, as: Identity \cup {Nobody},
   caller: Callers, again: BOOLEAN, refused: BOOLEAN, counted: BOOLEAN, hears: SUBSET DOMAIN Channels,
   asks: Seq(Asked), there: BOOLEAN]

(* One socket: until it opens it has no place, no channel and no refresh    *)
(* under way; it listens to what it may hear as whom it is subscribed.      *)
Fits(r) ==
  /\ r \in SockType
  /\ r.at \in {"new", "upgraded"} => r.asks = <<>> /\ r.hears = {} /\ ~r.counted
  /\ r.at \in {"upgraded", "open", "closing"} => r.on \in Proc
  /\ \A c \in r.hears : MayHear(c, r.as)

SocksFit ==
  /\ sock \in [Sock -> SockType]
  /\ \A s \in Sock : Fits(sock[s]) /\ Len(sock[s].asks) <= MaxAsks[s]

(* The sockets of a caller in a process, finitely many and all counted *)
Places(p, c) == {s \in Sock : Subscribed(sock[s]) /\ sock[s].on = p /\ sock[s].caller = c}

PlacesFit ==
  \A p \in Proc, c \in Callers : IsFiniteSet(Places(p, c)) /\ perCaller[p][c] = Cardinality(Places(p, c))

RestFits ==
  /\ proc \in [Proc -> {"up", "stopping", "gone"}] /\ listening \subseteq Proc
  /\ truth \in [Cred -> Identity \cup {Nobody}]
  /\ perCaller \in [Proc -> [Callers -> 0..Most]]
  /\ left \in [Allowance -> Nat]

IsSequence(x) == x \in Seq({x[i] : i \in DOMAIN x})

(* What was pushed is as its channel has it *)
IsMessage(m) ==
  /\ m.reach = Channels[m.channel].reach
  /\ m = [channel |-> m.channel, reach |-> m.reach, body |-> m.body, variants |-> m.variants,
          scope |-> m.scope, to |-> m.to, from |-> m.from]

PushesFit == IsSequence(pushes) /\ \A n \in 1..Len(pushes) : IsMessage(pushes[n])

Has(s, n) == \E i \in DOMAIN heard[s] : heard[s][i].push = n

(* A push on its way is the one its process made, once for each process,    *)
(* and no socket of a process it is on its way to was handed it             *)
WireFits ==
  /\ \A m \in wire : m.kind = "push" => m.push \in 1..Len(pushes) /\ m.message = Crossed(pushes[m.push])
  /\ \A m, o \in wire : m.kind = "push" /\ o.kind = "push" /\ m.push = o.push /\ m.to = o.to => m = o
  /\ \A m \in wire : m.kind = "push" /\ ~Own(m) => \A s \in Sock : sock[s].on = m.to => ~Has(s, m.push)

(* What a socket was handed is what was pushed, each once, in the text for  *)
(* whom it was handed as                                                    *)
HandedRight(got) ==
  /\ got.push \in 1..Len(pushes)
  /\ Meant(pushes[got.push], got.who)
  /\ got.body = TextFor(pushes[got.push], got.who)

HeardFits ==
  \A s \in Sock :
    /\ IsSequence(heard[s])
    /\ sock[s].at = "new" => heard[s] = <<>>
    /\ \A i \in 1..Len(heard[s]) : HandedRight(heard[s][i])
    /\ \A i, j \in 1..Len(heard[s]) : heard[s][i].push = heard[s][j].push => i = j

IInv == RestFits /\ SocksFit /\ PlacesFit /\ PushesFit /\ WireFits /\ heard \in [Sock -> Range(heard)] /\ HeardFits

-----------------------------------------------------------------------------
(* Sequences of anything *)

(* What a sequence of anything has. *)
LEMMA SequenceFacts ==
  ASSUME NEW x, IsSequence(x)
  PROVE  Len(x) \in Nat /\ DOMAIN x = 1..Len(x)
BY DEF IsSequence

(* The empty one is such a sequence. *)
LEMMA EmptyIsSequence == IsSequence(<<>>) /\ Len(<<>>) = 0
BY DEF IsSequence

(* Appending adds one place and leaves the others. *)
LEMMA AppendAny ==
  ASSUME NEW x, IsSequence(x), NEW e
  PROVE  /\ IsSequence(Append(x, e)) /\ Len(Append(x, e)) = Len(x) + 1
         /\ \A i \in 1..Len(x) : Append(x, e)[i] = x[i]
         /\ Append(x, e)[Len(x) + 1] = e
<1> DEFINE S == {x[i] : i \in DOMAIN x} \cup {e}
           y == Append(x, e)
<1>1. x \in Seq(S) /\ e \in S
  BY DEF IsSequence
<1>2. /\ y \in Seq(S) /\ Len(y) = Len(x) + 1 /\ Len(x) \in Nat
      /\ \A i \in 1..Len(x) : y[i] = x[i]
      /\ y[Len(x) + 1] = e
  BY <1>1
<1> HIDE DEF S, y
<1>3. y \in Seq({y[i] : i \in DOMAIN y})
  BY <1>2
<1>4. QED
  BY <1>2, <1>3 DEF IsSequence, y

(* Taking one out leaves a sequence of the same things, one shorter. *)
LEMMA RemovesOne ==
  ASSUME NEW S, NEW x \in Seq(S), NEW i \in 1..Len(x)
  PROVE  RemoveAt(x, i) \in Seq(S) /\ Len(RemoveAt(x, i)) = Len(x) - 1
<1> DEFINE a == SubSeq(x, 1, i - 1)
           b == SubSeq(x, i + 1, Len(x))
<1>1. Len(x) \in Nat /\ i \in Nat /\ \A j \in 1..Len(x) : x[j] \in S
  OBVIOUS
<1>2. a \in Seq(S) /\ Len(a) = i - 1
  BY <1>1, SubSeqProperties
<1>3. b \in Seq(S) /\ Len(b) = Len(x) - i
  BY <1>1, SubSeqProperties
<1>4. RemoveAt(x, i) = a \o b
  BY DEF RemoveAt
<1> HIDE DEF a, b
<1>5. a \o b \in Seq(S) /\ Len(a \o b) = Len(a) + Len(b)
  BY <1>2, <1>3, ConcatProperties
<1>6. QED
  BY <1>1, <1>2, <1>3, <1>4, <1>5

-----------------------------------------------------------------------------
(* What one socket's step keeps *)

(* A socket that is another record *)
LEMMA SockBecomes ==
  ASSUME SocksFit, NEW s \in Sock, NEW r, Fits(r), Len(r.asks) <= MaxAsks[s], sock' = [sock EXCEPT ![s] = r]
  PROVE  SocksFit' /\ sock'[s] = r /\ \A u \in Sock \ {s} : sock'[u] = sock[u]
<1>1. r \in SockType
  BY DEF Fits
<1>2. sock' \in [Sock -> SockType] /\ sock'[s] = r /\ \A u \in Sock \ {s} : sock'[u] = sock[u]
  BY <1>1 DEF SocksFit
<1>3. ASSUME NEW u \in Sock PROVE Fits(sock[u])' /\ Len(sock'[u].asks) <= MaxAsks[u]
  <2>1. CASE u = s
    BY <2>1, <1>2 DEF Fits
  <2>2. CASE u # s
    BY <2>2, <1>2 DEF SocksFit, Fits
  <2>3. QED
    BY <2>1, <2>2
<1>4. QED
  BY <1>2, <1>3 DEF SocksFit

(* Places that stay as they are *)
LEMMA PlacesStay ==
  ASSUME PlacesFit, perCaller' = perCaller,
         \A u \in Sock : \/ Subscribed(sock[u]) /\ Subscribed(sock'[u]) /\ sock'[u].on = sock[u].on
                            /\ sock'[u].caller = sock[u].caller
                         \/ ~Subscribed(sock[u]) /\ ~Subscribed(sock'[u])
  PROVE  PlacesFit'
<1>1. \A p \in Proc, c \in Callers : Places(p, c)' = Places(p, c)
  BY DEF Places, Subscribed
<1>2. QED
  BY <1>1 DEF PlacesFit

(* A step that neither pushes nor hands anything over *)
LEMMA QuietStep ==
  ASSUME IInv, UNCHANGED past, SocksFit', PlacesFit', RestFits',
         \A u \in Sock : \/ sock'[u].on = sock[u].on /\ (sock'[u].at = "new" => sock[u].at = "new")
                         \/ sock[u].at = "new" /\ sock'[u].at # "new",
         \A m \in wire' : m.kind = "push" => m \in wire
  PROVE  IInv'
<1>1. pushes' = pushes /\ heard' = heard
  BY DEF past
<1>2. PushesFit'
  BY <1>1 DEF IInv, PushesFit
<1>3. HeardFits'
  <2>1. \A s \in Sock : sock'[s].at = "new" => sock[s].at = "new"
    OBVIOUS
  <2>2. QED
    BY <1>1, <2>1 DEF IInv, HeardFits, HandedRight
<1>4. WireFits'
  <2>1. \A s \in Sock : \A n : Has(s, n)' <=> Has(s, n)
    BY <1>1 DEF Has
  <2>2. \A s \in Sock : sock[s].at = "new" => \A n : ~Has(s, n)
    BY EmptyIsSequence, SequenceFacts DEF IInv, HeardFits, Has
  <2>3. ASSUME NEW m \in wire', m.kind = "push", ~Own(m), NEW s \in Sock, sock'[s].on = m.to
        PROVE  ~Has(s, m.push)
    <3>1. m \in wire
      BY <2>3
    <3>2. CASE sock[s].at = "new"
      BY <2>2, <3>2
    <3>3. CASE sock[s].at # "new"
      BY <2>3, <3>1, <3>3 DEF IInv, WireFits
    <3>4. QED
      BY <3>2, <3>3
  <2>4. QED
    BY <1>1, <2>1, <2>3 DEF IInv, WireFits, Own
<1>5. QED
  BY <1>1, <1>2, <1>3, <1>4 DEF IInv

(* One of a socket that neither takes nor leaves its place *)
LEMMA SockMoves ==
  ASSUME IInv, NEW s \in Sock, NEW r, Fits(r), Len(r.asks) <= MaxAsks[s], sock' = [sock EXCEPT ![s] = r],
         r.on = sock[s].on, r.caller = sock[s].caller, Subscribed(r) <=> Subscribed(sock[s]),
         r.at = "new" => sock[s].at = "new",
         UNCHANGED <<past, perCaller>>, RestFits', \A m \in wire' : m.kind = "push" => m \in wire
  PROVE  IInv'
<1>1. SocksFit' /\ sock'[s] = r /\ \A u \in Sock \ {s} : sock'[u] = sock[u]
  BY SockBecomes DEF IInv
<1>2. PlacesFit'
  <2>1. \A u \in Sock : /\ Subscribed(sock'[u]) <=> Subscribed(sock[u])
                        /\ sock'[u].on = sock[u].on /\ sock'[u].caller = sock[u].caller
    BY <1>1
  <2>2. QED
    BY <2>1, PlacesStay DEF IInv
<1>3. UNCHANGED past
  OBVIOUS
<1>4. QED
  BY <1>1, <1>2, <1>3, QuietStep

-----------------------------------------------------------------------------
(* What handing a push over keeps *)

(* Whoever hears it, as it was pushed or as it crossed, was meant to hear   *)
(* it, in the same text                                                     *)
LEMMA HeardIsMeant ==
  ASSUME NEW m, IsMessage(m), NEW who, NEW hears
  PROVE  /\ Heard(m, who, hears) => Meant(m, who)
         /\ Heard(Crossed(m), who, hears) => Meant(m, who)
         /\ TextFor(Crossed(m), who) = TextFor(m, who)
<1>1. /\ Crossed(m).channel = m.channel /\ Crossed(m).reach = m.reach /\ Crossed(m).body = m.body
      /\ Crossed(m).variants = m.variants /\ Crossed(m).scope = m.scope /\ Crossed(m).to = m.to
      /\ m.reach = "viewer" => Crossed(m).from = m.from
  BY DEF Crossed, IsMessage
<1>2. Heard(m, who, hears) => Meant(m, who)
  BY DEF Heard, Reaches, MayHear, Meant, IsMessage
<1>3. Heard(Crossed(m), who, hears) => Meant(m, who)
  BY <1>1 DEF Heard, Reaches, MayHear, Meant, IsMessage
<1>4. TextFor(Crossed(m), who) = TextFor(m, who)
  BY <1>1 DEF TextFor
<1>5. QED
  BY <1>2, <1>3, <1>4

(* What the sockets of one process were handed after it handed one push over *)
LEMMA Hands ==
  ASSUME heard \in [Sock -> Range(heard)], HeardFits,
         NEW sk, sk = sock', NEW p, NEW m, NEW n, HandedIn(sk, p, m, n),
         \A u \in Sock : sock'[u].at = "new" => sock[u].at = "new",
         Len(pushes) \in Nat, Len(pushes') \in Nat, Len(pushes) <= Len(pushes'),
         \A k \in 1..Len(pushes) : pushes'[k] = pushes[k],
         n \in 1..Len(pushes'),
         \A who, hears : Heard(m, who, hears) => Meant(pushes'[n], who) /\ TextFor(m, who) = TextFor(pushes'[n], who),
         \A s \in Sock : sock'[s].on = p => ~Has(s, n)
  PROVE  /\ heard' \in [Sock -> Range(heard')] /\ HeardFits'
         /\ \A s \in Sock : \A k : Has(s, k)' => Has(s, k) \/ (k = n /\ sock'[s].on = p)
<1> DEFINE Gets(s) == s \in HubIn(sk, p) /\ sk[s].at = "open" /\ Heard(m, sk[s].as, sk[s].hears)
           Got(s) == [push |-> n, body |-> TextFor(m, sk[s].as), who |-> sk[s].as]
           Right(got) == /\ got.push \in 1..Len(pushes')
                         /\ Meant(pushes'[got.push], got.who)
                         /\ got.body = TextFor(pushes'[got.push], got.who)
<1>1. heard' = [s \in Sock |-> IF Gets(s) THEN Append(heard[s], Got(s)) ELSE heard[s]]
  BY DEF HandedIn
<1>2. \A s \in Sock : Gets(s) => /\ sock'[s].on = p /\ sock'[s].at = "open" /\ ~Has(s, n)
                                 /\ Heard(m, sk[s].as, sk[s].hears)
  BY DEF HubIn
<1>3. \A s \in Sock : Gets(s) => Meant(pushes'[n], sk[s].as) /\ TextFor(m, sk[s].as) = TextFor(pushes'[n], sk[s].as)
  BY <1>2
<1> HIDE DEF Gets
<1>4. heard' \in [Sock -> Range(heard')]
  BY <1>1 DEF Range
<1>5. ASSUME NEW s \in Sock
      PROVE  /\ IsSequence(heard'[s])
             /\ sock'[s].at = "new" => heard'[s] = <<>>
             /\ \A i \in 1..Len(heard'[s]) : Right(heard'[s][i])
             /\ \A i, j \in 1..Len(heard'[s]) : heard'[s][i].push = heard'[s][j].push => i = j
             /\ \A k : Has(s, k)' => Has(s, k) \/ (k = n /\ sock'[s].on = p)
  <2>1. /\ IsSequence(heard[s]) /\ Len(heard[s]) \in Nat /\ DOMAIN heard[s] = 1..Len(heard[s])
        /\ sock[s].at = "new" => heard[s] = <<>>
        /\ \A i \in 1..Len(heard[s]) : HandedRight(heard[s][i])
        /\ \A i, j \in 1..Len(heard[s]) : heard[s][i].push = heard[s][j].push => i = j
    BY SequenceFacts DEF HeardFits
  <2>2. \A got : HandedRight(got) => Right(got)
    BY DEF HandedRight
  <2> HIDE DEF Right
  <2>3. CASE ~Gets(s)
    <3>1. heard'[s] = heard[s]
      BY <1>1, <2>3
    <3>2. \A k : Has(s, k)' <=> Has(s, k)
      BY <3>1 DEF Has
    <3>3. QED
      BY <2>1, <2>2, <3>1, <3>2
  <2>4. CASE Gets(s)
    <3> DEFINE G == Got(s)
    <3>1. heard'[s] = Append(heard[s], G) /\ G.push = n
      BY <1>1, <2>4
    <3>2. Right(G)
      BY <1>3, <2>4 DEF Right
    <3> HIDE DEF G
    <3>3. /\ IsSequence(heard'[s]) /\ Len(heard'[s]) = Len(heard[s]) + 1
          /\ \A i \in 1..Len(heard[s]) : heard'[s][i] = heard[s][i]
          /\ heard'[s][Len(heard[s]) + 1] = G
      BY <2>1, <3>1, AppendAny
    <3>4. DOMAIN heard'[s] = 1..(Len(heard[s]) + 1)
      BY <3>3, SequenceFacts
    <3>5. \A i \in 1..Len(heard[s]) : heard[s][i].push # n
      BY <1>2, <2>1, <2>4 DEF Has
    <3>6. \A i \in 1..Len(heard'[s]) : i \in 1..Len(heard[s]) \/ i = Len(heard[s]) + 1
      BY <2>1, <3>3
    <3>7. \A k : Has(s, k)' => Has(s, k) \/ k = n
      BY <2>1, <3>1, <3>3, <3>4, <3>6 DEF Has
    <3>8. \A i \in 1..Len(heard'[s]) : Right(heard'[s][i])
      BY <2>1, <2>2, <3>2, <3>3, <3>6
    <3>9. \A i, j \in 1..Len(heard'[s]) : heard'[s][i].push = heard'[s][j].push => i = j
      BY <2>1, <3>1, <3>3, <3>5, <3>6
    <3>10. QED
      BY <1>2, <2>4, <3>3, <3>7, <3>8, <3>9
  <2>5. QED
    BY <2>3, <2>4
<1>6. HeardFits'
  BY <1>5 DEF HeardFits, HandedRight
<1>7. QED
  BY <1>4, <1>5, <1>6

(* A step that makes a push: its own sockets at once, a notice to the others *)
LEMMA PushStep ==
  ASSUME IInv, NEW p, NEW m, IsMessage(m), NEW sk, sk = sock', Pushing(sk, p, m),
         SocksFit', PlacesFit', RestFits',
         \A u \in Sock : sock'[u].on = sock[u].on /\ (sock'[u].at = "new" => sock[u].at = "new"),
         \A o \in wire' : o.kind = "push" => o \in wire \cup PushNotices(p, m, Len(pushes) + 1)
  PROVE  IInv'
<1>1. PICK n : n = Len(pushes) + 1
  OBVIOUS
<1>2. /\ IsSequence(pushes') /\ Len(pushes') = n /\ Len(pushes) \in Nat /\ pushes'[n] = m
      /\ \A k \in 1..Len(pushes) : pushes'[k] = pushes[k]
  BY <1>1, AppendAny, SequenceFacts DEF IInv, PushesFit, Pushing
<1>3. PushesFit'
  <2>1. \A k \in 1..Len(pushes') : IsMessage(pushes'[k])
    BY <1>1, <1>2 DEF IInv, PushesFit
  <2>2. QED
    BY <1>2, <2>1 DEF PushesFit, IsMessage
<1>4. \A s \in Sock : ~Has(s, n)
  BY <1>1, <1>2, SequenceFacts DEF IInv, HeardFits, HandedRight, Has
<1>5. /\ heard' \in [Sock -> Range(heard')] /\ HeardFits'
      /\ \A s \in Sock : \A k : Has(s, k)' => Has(s, k) \/ (k = n /\ sock'[s].on = p)
  <2>1. HandedIn(sk, p, m, n)
    BY <1>1 DEF Pushing
  <2>2. \A who, hears : Heard(m, who, hears) => Meant(pushes'[n], who) /\ TextFor(m, who) = TextFor(pushes'[n], who)
    BY <1>2, HeardIsMeant
  <2>3. n \in 1..Len(pushes') /\ Len(pushes') \in Nat /\ Len(pushes) <= Len(pushes')
    BY <1>1, <1>2
  <2>4. heard \in [Sock -> Range(heard)] /\ HeardFits /\ \A s \in Sock : sock'[s].on = p => ~Has(s, n)
    BY <1>4 DEF IInv
  <2>5. QED
    BY <1>2, <2>1, <2>2, <2>3, <2>4, Hands
<1>6. WireFits'
  <2>1. \A o \in wire' : o.kind = "push" =>
           o \in wire \/ /\ o.push = n /\ o.message = Crossed(m) /\ o.from = p
                         /\ o = [to |-> o.to, from |-> p, kind |-> "push", push |-> n, message |-> Crossed(m)]
    BY <1>1 DEF PushNotices
  <2>2. \A o \in wire : o.kind = "push" => o.push \in 1..Len(pushes) /\ o.message = Crossed(pushes[o.push])
    BY DEF IInv, WireFits
  <2>3. \A o \in wire' : o.kind = "push" => o.push \in 1..Len(pushes') /\ o.message = Crossed(pushes'[o.push])
    BY <1>1, <1>2, <2>1, <2>2
  <2>4. \A o \in wire : o.kind = "push" => o.push # n
    BY <1>1, <1>2, <2>2
  <2>5. \A o, a \in wire' : o.kind = "push" /\ a.kind = "push" /\ o.push = a.push /\ o.to = a.to => o = a
    BY <2>1, <2>4 DEF IInv, WireFits
  <2>6. ASSUME NEW o \in wire', o.kind = "push", ~Own(o), NEW s \in Sock, sock'[s].on = o.to
        PROVE  ~Has(s, o.push)'
    <3>1. CASE o \in wire
      <4>1. ~Has(s, o.push)
        BY <2>6, <3>1 DEF IInv, WireFits
      <4>2. PICK k : k = o.push
        OBVIOUS
      <4>3. ~Has(s, k)'
        BY <1>5, <2>4, <2>6, <3>1, <4>1, <4>2
      <4>4. QED
        BY <4>2, <4>3 DEF Has
    <3>2. CASE o \notin wire
      <4>1. o.push = n /\ o.from = p
        BY <2>1, <2>6, <3>2
      <4>2. sock'[s].on # p
        BY <2>6, <4>1 DEF Own
      <4>3. ~Has(s, n)'
        BY <1>4, <1>5, <4>2
      <4>4. QED
        BY <4>1, <4>3 DEF Has
    <3>3. QED
      BY <3>1, <3>2
  <2>7. QED
    BY <2>3, <2>5, <2>6 DEF WireFits, Own
<1>7. QED
  BY <1>3, <1>5, <1>6 DEF IInv

-----------------------------------------------------------------------------
(* The first state *)

(* At first nothing is open, pushed or on its way. *)
LEMMA InitIInv == ASSUME Init PROVE IInv
<1> USE SocketsAssumption
<1>1. PICK d \in Deployments :
        /\ proc = [p \in Proc |-> IF p \in d.procs THEN "up" ELSE "gone"]
        /\ listening = d.procs
        /\ sock = [s \in Sock |-> [NewSock EXCEPT !.at = IF s \in d.socks THEN "new" ELSE "gone"]]
        /\ left = d.left
  BY DEF Init
<1>2. RestFits
  <2>1. perCaller \in [Proc -> [Callers -> 0..Most]]
    BY DEF Init
  <2>2. QED
    BY <1>1, <2>1 DEF Init, RestFits
<1>3. \A s \in Sock : sock[s] = [NewSock EXCEPT !.at = sock[s].at] /\ sock[s].at \in {"new", "gone"}
  BY <1>1 DEF NewSock
<1>4. SocksFit
  <2>1. Callers = {who.id : who \in Identity} \cup {Addr}
    BY DEF Callers
  <2>2. <<>> \in Seq(Asked) /\ Len(<<>>) = 0
    OBVIOUS
  <2>3. ASSUME NEW s \in Sock PROVE Fits(sock[s]) /\ Len(sock[s].asks) <= MaxAsks[s]
    <3>1. NewSock \in SockType
      BY <2>1, <2>2 DEF NewSock, SockType, At
    <3>2. /\ sock[s].asks = <<>> /\ sock[s].hears = {} /\ ~sock[s].counted /\ sock[s].at \in {"new", "gone"}
      BY ZenonT(60), <1>3 DEF NewSock
    <3>3. sock[s] \in SockType
      <4>1. PICK a \in {"new", "gone"} : sock[s] = [NewSock EXCEPT !.at = a]
        BY <1>3
      <4>2. [NewSock EXCEPT !.at = a] \in SockType
        BY <3>1 DEF SockType, At
      <4>3. QED
        BY <4>1, <4>2
    <3>4. QED
      BY <2>2, <3>2, <3>3 DEF Fits
  <2>4. sock \in [Sock -> SockType]
    BY <1>1, <2>3 DEF Fits
  <2>5. QED
    BY <2>3, <2>4 DEF SocksFit
<1>5. PlacesFit
  <2>1. \A p \in Proc, c \in Callers : Places(p, c) = {}
    BY <1>3 DEF Places, Subscribed, NewSock
  <2>2. \A p \in Proc, c \in Callers : perCaller[p][c] = 0
    BY DEF Init
  <2>3. QED
    BY <2>1, <2>2, FS_EmptySet DEF PlacesFit
<1>6. PushesFit
  BY EmptyIsSequence DEF PushesFit, Init
<1>7. WireFits
  BY DEF WireFits, Init
<1>8. heard \in [Sock -> Range(heard)] /\ HeardFits
  <2>1. heard \in [Sock -> Range(heard)] /\ \A s \in Sock : heard[s] = <<>>
    BY DEF Init, Range
  <2>2. QED
    BY <2>1, EmptyIsSequence DEF HeardFits
<1>9. QED
  BY <1>2, <1>4, <1>5, <1>6, <1>7, <1>8 DEF IInv

-----------------------------------------------------------------------------
(* Every action of the processes and their connections keeps it *)

(* What of the bounds is left *)
LEMMA SpendFits ==
  ASSUME RestFits, NEW what \in Allowance, Spend(what)
  PROVE  left' \in [Allowance -> Nat]
<1>1. left \in [Allowance -> Nat] /\ left[what] > 0 /\ left' = [left EXCEPT ![what] = left[what] - 1]
  BY DEF RestFits, Spend
<1>2. left[what] - 1 \in Nat
  BY <1>1
<1>3. QED
  BY <1>1, <1>2

(* What the wide steps spend is allowed by name. *)
LEMMA Allowances == {"pushes", "changes", "faults"} \subseteq Allowance
BY DEF Allowance

(* Sockets that stay as they are *)
LEMMA SocksStay ==
  ASSUME IInv, UNCHANGED <<sock, perCaller, past>>, RestFits', \A m \in wire' : m.kind = "push" => m \in wire
  PROVE  IInv'
<1>1. SocksFit'
  BY DEF IInv, SocksFit
<1>2. PlacesFit'
  BY PlacesStay DEF IInv
<1>3. UNCHANGED past
  OBVIOUS
<1>4. QED
  BY <1>1, <1>2, <1>3, QuietStep

(* Heartbeats, presence, losses, reconnections and changes of credentials move no socket. *)
LEMMA NetKeeps ==
  ASSUME IInv,
         \/ Heartbeat \/ \E m \in wire : HearPresence(m) \/ Lose(m)
         \/ \E p \in Proc : Drop(p) \/ Reconnect(p)
         \/ \E c \in Cred : Change(c)
  PROVE  IInv'
<1>1. CASE Heartbeat
  <2>1. \A m \in wire' : m.kind = "push" => m \in wire
    BY <1>1 DEF Heartbeat, Notices
  <2>2. RestFits' /\ UNCHANGED <<sock, perCaller, past>>
    BY <1>1 DEF Heartbeat, IInv, RestFits
  <2>3. QED
    BY <2>1, <2>2, SocksStay
<1>2. ASSUME NEW m \in wire, HearPresence(m) PROVE IInv'
  <2>1. RestFits' /\ UNCHANGED <<sock, perCaller, past>> /\ wire' \subseteq wire
    BY <1>2 DEF HearPresence, IInv, RestFits
  <2>2. QED
    BY <2>1, SocksStay
<1>3. ASSUME NEW m \in wire, Lose(m) PROVE IInv'
  <2>0. left' \in [Allowance -> Nat]
    BY <1>3, SpendFits, Allowances DEF IInv, Lose, Fault
  <2>1. RestFits' /\ UNCHANGED <<sock, perCaller, past>> /\ wire' \subseteq wire
    BY <1>3, <2>0 DEF Lose, IInv, RestFits, net
  <2>2. QED
    BY <2>1, SocksStay
<1>4. ASSUME NEW p \in Proc, Drop(p) PROVE IInv'
  <2>0. left' \in [Allowance -> Nat]
    BY <1>4, SpendFits, Allowances DEF IInv, Drop, Fault
  <2>1. RestFits' /\ UNCHANGED <<sock, perCaller, past>> /\ wire' \subseteq wire
    BY <1>4, <2>0 DEF Drop, IInv, RestFits
  <2>2. QED
    BY <2>1, SocksStay
<1>5. ASSUME NEW p \in Proc, Reconnect(p) PROVE IInv'
  <2>1. RestFits' /\ UNCHANGED <<sock, perCaller, past>> /\ wire' \subseteq wire
    BY <1>5 DEF Reconnect, IInv, RestFits
  <2>2. QED
    BY <2>1, SocksStay
<1>6. ASSUME NEW c \in Cred, Change(c) PROVE IInv'
  <2>0. left' \in [Allowance -> Nat]
    BY <1>6, SpendFits, Allowances DEF IInv, Change
  <2>1. RestFits' /\ UNCHANGED <<sock, perCaller, past>> /\ wire' \subseteq wire
    BY <1>6, <2>0 DEF Change, IInv, RestFits, net
  <2>2. QED
    BY <2>1, SocksStay
<1>7. QED
  BY <1>1, <1>2, <1>3, <1>4, <1>5, <1>6

(* A process that leaves takes its sockets, its counts and what was on its way to it *)
LEMMA LeavesKeeps ==
  ASSUME IInv, NEW p \in Proc, Leaves(p), left' \in [Allowance -> Nat]
  PROVE  IInv'
<1> DEFINE L(s) == Left([sock[s] EXCEPT !.asks = <<>>])
<1>1. \A s \in Sock : sock'[s] = (IF sock[s].on = p THEN L(s) ELSE sock[s])
  BY DEF Leaves
<1>2. \A s \in Sock : /\ Fits(L(s)) /\ L(s).on = sock[s].on /\ L(s).at = "gone" /\ ~L(s).counted
                      /\ L(s).asks = <<>>
  <2>1. Callers = {who.id : who \in Identity} \cup {Addr} /\ <<>> \in Seq(Asked)
    BY DEF Callers
  <2>2. ASSUME NEW s \in Sock
        PROVE  /\ L(s) \in SockType /\ L(s).on = sock[s].on /\ L(s).at = "gone" /\ ~L(s).counted
               /\ L(s).asks = <<>> /\ L(s).hears = {}
    <3>1. sock[s] \in SockType
      BY DEF IInv, SocksFit
    <3>2. QED
      BY <2>1, <3>1 DEF SockType, Left, NewSock, At
  <2>3. QED
    BY <2>2 DEF Fits
<1> HIDE DEF L
<1>3. SocksFit'
  <2>1. \A s \in Sock : Fits(sock'[s]) /\ Len(sock'[s].asks) <= MaxAsks[s]
    <3>1. Len(<<>>) = 0 /\ \A s \in Sock : MaxAsks[s] \in Nat
      BY EmptyIsSequence, SocketsAssumption
    <3>2. ASSUME NEW s \in Sock PROVE Fits(sock'[s]) /\ Len(sock'[s].asks) <= MaxAsks[s]
      <4>1. CASE sock[s].on = p
        <5>1. sock'[s] = L(s)
          BY <1>1, <4>1
        <5>2. Len(L(s).asks) = 0
          BY <1>2, <3>1
        <5>3. QED
          BY <1>2, <3>1, <5>1, <5>2
      <4>2. CASE sock[s].on # p
        BY <1>1, <4>2 DEF IInv, SocksFit
      <4>3. QED
        BY <4>1, <4>2
    <3>3. QED
      BY <3>2
  <2>2. sock' \in [Sock -> SockType]
    BY <2>1 DEF Leaves, Fits
  <2>3. QED
    BY <2>1, <2>2 DEF SocksFit, Fits
<1>4. RestFits'
  BY SocketsAssumption DEF Leaves, IInv, RestFits
<1>5. PlacesFit'
  <2>1. \A c \in Callers : Places(p, c)' = {} /\ perCaller'[p][c] = 0
    BY <1>1, <1>2 DEF Places, Subscribed, Leaves, IInv, RestFits
  <2>2. \A q \in Proc \ {p}, c \in Callers : Places(q, c)' = Places(q, c) /\ perCaller'[q][c] = perCaller[q][c]
    BY <1>1, <1>2 DEF Places, Subscribed, Leaves, IInv, RestFits
  <2>3. IsFiniteSet({}) /\ Cardinality({}) = 0
    BY FS_EmptySet
  <2>4. ASSUME NEW q \in Proc, NEW c \in Callers
        PROVE  (IsFiniteSet(Places(q, c)) /\ perCaller[q][c] = Cardinality(Places(q, c)))'
    <3>1. CASE q = p
      BY <2>1, <2>3, <3>1
    <3>2. CASE q # p
      <4>1. IsFiniteSet(Places(q, c)) /\ perCaller[q][c] = Cardinality(Places(q, c))
        BY DEF PlacesFit, IInv
      <4>2. QED
        BY <2>2, <3>2, <4>1
    <3>3. QED
      BY <3>1, <3>2
  <2>5. QED
    BY <2>4 DEF PlacesFit
<1>6. \A s \in Sock : sock'[s].on = sock[s].on /\ (sock'[s].at = "new" => sock[s].at = "new")
  BY <1>1, <1>2
<1>7. UNCHANGED past /\ wire' \subseteq wire
  BY DEF Leaves
<1>8. QED
  BY <1>3, <1>4, <1>5, <1>6, <1>7, QuietStep

(* A server that closes tells each of its open sockets to dial again *)
LEMMA StopKeeps ==
  ASSUME IInv, NEW p \in Proc, Stop(p)
  PROVE  IInv'
<1> DEFINE Told(s) == s \in HubIn(sock, p) /\ sock[s].at = "open"
           C(s) == [sock[s] EXCEPT !.at = "closing"]
<1>1. sock' = [s \in Sock |-> IF Told(s) THEN C(s) ELSE sock[s]]
  BY DEF Stop
<1>2. \A s \in Sock : Told(s) => sock[s].at = "open"
  OBVIOUS
<1> HIDE DEF Told
<1>3. ASSUME NEW s \in Sock
      PROVE  /\ Fits(sock'[s]) /\ Len(sock'[s].asks) <= MaxAsks[s]
             /\ sock'[s].on = sock[s].on /\ sock'[s].caller = sock[s].caller
             /\ Subscribed(sock'[s]) <=> Subscribed(sock[s])
             /\ sock'[s].at = "new" => sock[s].at = "new"
  <2>1. Fits(sock[s]) /\ Len(sock[s].asks) <= MaxAsks[s] /\ sock[s] \in SockType
    BY DEF IInv, SocksFit
  <2>2. CASE Told(s)
    <3>1. sock'[s] = C(s) /\ sock[s].at = "open"
      BY <1>1, <1>2, <2>2
    <3>2. C(s) \in SockType
      BY <2>1 DEF SockType, At
    <3>3. QED
      BY <2>1, <3>1, <3>2 DEF Fits, Subscribed, SockType
  <2>3. CASE ~Told(s)
    BY <1>1, <2>1, <2>3
  <2>4. QED
    BY <2>2, <2>3
<1>4. SocksFit'
  <2>1. sock' \in [Sock -> SockType]
    BY <1>1, <1>3 DEF Fits
  <2>2. QED
    BY <1>3, <2>1 DEF SocksFit, Fits
<1>5. PlacesFit'
  <2>1. perCaller' = perCaller
    BY DEF Stop
  <2>2. QED
    BY <1>3, <2>1, PlacesStay DEF IInv
<1>6. RestFits' /\ UNCHANGED past /\ wire' = wire
  BY DEF Stop, IInv, RestFits
<1>7. QED
  BY <1>3, <1>4, <1>5, <1>6, QuietStep

-----------------------------------------------------------------------------
(* Every action of a socket that pushes nothing keeps it *)

(* What a fitting socket is made of *)
LEMMA SockFacts ==
  ASSUME IInv, NEW s \in Sock
  PROVE  /\ Fits(sock[s]) /\ sock[s] \in SockType /\ Len(sock[s].asks) <= MaxAsks[s]
         /\ sock[s].asks \in Seq(Asked) /\ MaxAsks[s] \in Nat
         /\ sock = [sock EXCEPT ![s] = sock[s]]
  BY SocketsAssumption DEF IInv, SocksFit, SockType

(* A refresh asked for, answered or dropped *)
LEMMA AsksChange ==
  ASSUME IInv, NEW s \in Sock, NEW asks \in Seq(Asked), Len(asks) <= MaxAsks[s],
         sock[s].at \notin {"new", "upgraded"},
         sock' = [sock EXCEPT ![s] = [sock[s] EXCEPT !.asks = asks]],
         UNCHANGED <<perCaller, past>>, wire' = wire, RestFits'
  PROVE  IInv'
<1> DEFINE r == [sock[s] EXCEPT !.asks = asks]
<1>1. /\ r \in SockType /\ r.asks = asks /\ r.at = sock[s].at /\ r.on = sock[s].on /\ r.hears = sock[s].hears
      /\ r.as = sock[s].as /\ r.caller = sock[s].caller /\ r.counted = sock[s].counted
  BY SockFacts DEF SockType
<1>2. sock' = [sock EXCEPT ![s] = r]
  OBVIOUS
<1> HIDE DEF r
<1>3. Fits(r) /\ Len(r.asks) <= MaxAsks[s] /\ (Subscribed(r) <=> Subscribed(sock[s]))
  BY <1>1, SockFacts DEF Fits, Subscribed
<1>4. UNCHANGED <<past, perCaller>> /\ \A m \in wire' : m.kind = "push" => m \in wire
  OBVIOUS
<1>5. QED
  BY <1>1, <1>2, <1>3, <1>4, SockMoves

(* A recheck asks once more, identify answers or fails: who the socket is stays. *)
LEMMA AsksKeep ==
  ASSUME IInv, NEW s \in Sock, NEW i \in 1..MaxAsks[s], Recheck(s) \/ Identify(s, i) \/ IdentifyFails(s, i)
  PROVE  IInv'
<1>1. sock[s].asks \in Seq(Asked) /\ Len(sock[s].asks) \in Nat /\ DOMAIN sock[s].asks = 1..Len(sock[s].asks)
  BY SockFacts
<1>2. CASE Recheck(s)
  <2> DEFINE a == [frame |-> NoFrame, read |-> Unread]
             asks == Append(sock[s].asks, a)
  <2>1. a \in Asked
    BY DEF Asked
  <2>2. sock' = [sock EXCEPT ![s] = [sock[s] EXCEPT !.asks = asks]]
    BY <1>2 DEF Recheck
  <2> HIDE DEF a
  <2>3. asks \in Seq(Asked) /\ Len(asks) <= MaxAsks[s]
    BY <1>1, <1>2, <2>1, SocketsAssumption DEF Recheck
  <2> HIDE DEF asks
  <2>4. sock[s].at \notin {"new", "upgraded"} /\ UNCHANGED <<perCaller, past>> /\ wire' = wire /\ RestFits'
    BY <1>2 DEF Recheck, IInv, RestFits, net
  <2>5. QED
    BY <2>2, <2>3, <2>4, AsksChange
<1>3. ASSUME i \in DOMAIN sock[s].asks PROVE sock[s].at \notin {"new", "upgraded"}
  <2>1. sock[s].asks # <<>>
    BY <1>3, <1>1, EmptyIsSequence
  <2>2. QED
    BY <2>1, SockFacts DEF Fits
<1>4. CASE Identify(s, i)
  <2> DEFINE a == [sock[s].asks[i] EXCEPT !.read = truth[CredOf[s]]]
             asks == [sock[s].asks EXCEPT ![i] = a]
  <2>1. a \in Asked
    <3>1. truth[CredOf[s]] \in Identity \cup {Nobody} /\ sock[s].asks[i] \in Asked
      BY <1>1, <1>4, SocketsAssumption DEF IInv, RestFits, Identify
    <3>2. QED
      BY <3>1 DEF Asked
  <2>2. sock' = [sock EXCEPT ![s] = [sock[s] EXCEPT !.asks = asks]]
    BY <1>4 DEF Identify
  <2> HIDE DEF a
  <2>3. asks \in Seq(Asked) /\ Len(asks) <= MaxAsks[s]
    <3>1. asks \in Seq(Asked) /\ Len(asks) = Len(sock[s].asks)
      BY <1>1, <1>4, <2>1, ExceptSeq DEF Identify
    <3>2. QED
      BY <3>1, SockFacts
  <2> HIDE DEF asks
  <2>4. sock[s].at \notin {"new", "upgraded"} /\ UNCHANGED <<perCaller, past>> /\ wire' = wire /\ RestFits'
    BY <1>3, <1>4 DEF Identify, IInv, RestFits, net
  <2>5. QED
    BY <2>2, <2>3, <2>4, AsksChange
<1>5. CASE IdentifyFails(s, i)
  <2> DEFINE asks == RemoveAt(sock[s].asks, i)
  <2>1. i \in 1..Len(sock[s].asks)
    BY <1>1, <1>5 DEF IdentifyFails
  <2>2. sock' = [sock EXCEPT ![s] = [sock[s] EXCEPT !.asks = asks]]
    BY <1>5 DEF IdentifyFails
  <2>3. asks \in Seq(Asked) /\ Len(asks) = Len(sock[s].asks) - 1
    BY <1>1, <2>1, RemovesOne
  <2> HIDE DEF asks
  <2>4. Len(asks) <= MaxAsks[s]
    BY <1>1, <2>3, SockFacts
  <2>5. left' \in [Allowance -> Nat]
    BY <1>5, SpendFits, Allowances DEF IInv, IdentifyFails, Fault
  <2>6. sock[s].at \notin {"new", "upgraded"} /\ UNCHANGED <<perCaller, past>> /\ wire' = wire /\ RestFits'
    BY <1>3, <1>5, <2>5 DEF IdentifyFails, IInv, RestFits, net
  <2>7. QED
    BY <2>2, <2>3, <2>4, <2>6, AsksChange
<1>6. QED
  BY <1>2, <1>4, <1>5

(* A socket that begins to close, or whose peer vanishes, keeps its place until onClose. *)
LEMMA EndsKeep ==
  ASSUME IInv, NEW s \in Sock, Ending(s) \/ Terminate(s) \/ Vanish(s)
  PROVE  IInv'
<1>1. CASE Ending(s)
  <2> DEFINE r == [sock[s] EXCEPT !.at = "closing"]
  <2>1. /\ r \in SockType /\ r.asks = sock[s].asks /\ r.at = "closing" /\ r.on = sock[s].on /\ r.hears = sock[s].hears
        /\ r.as = sock[s].as /\ r.caller = sock[s].caller /\ r.counted = sock[s].counted /\ sock[s].at = "open"
    BY <1>1, SockFacts DEF SockType, At, Ending
  <2>2. sock' = [sock EXCEPT ![s] = r]
    BY <1>1 DEF Ending
  <2> HIDE DEF r
  <2>3. Fits(r) /\ Len(r.asks) <= MaxAsks[s] /\ (Subscribed(r) <=> Subscribed(sock[s]))
    BY <2>1, SockFacts DEF Fits, Subscribed
  <2>4. UNCHANGED <<past, perCaller>> /\ wire' = wire /\ RestFits'
    BY <1>1 DEF Ending, IInv, RestFits, net
  <2>5. QED
    BY <2>1, <2>2, <2>3, <2>4, SockMoves
<1>2. CASE Vanish(s)
  <2> DEFINE r == [sock[s] EXCEPT !.there = FALSE]
  <2>1. /\ r \in SockType /\ r.asks = sock[s].asks /\ r.at = sock[s].at /\ r.on = sock[s].on /\ r.hears = sock[s].hears
        /\ r.as = sock[s].as /\ r.caller = sock[s].caller /\ r.counted = sock[s].counted
    BY <1>2, SockFacts DEF SockType
  <2>2. sock' = [sock EXCEPT ![s] = r]
    BY <1>2 DEF Vanish
  <2> HIDE DEF r
  <2>3. Fits(r) /\ Len(r.asks) <= MaxAsks[s] /\ (Subscribed(r) <=> Subscribed(sock[s]))
    BY <2>1, SockFacts DEF Fits, Subscribed
  <2>4. left' \in [Allowance -> Nat]
    BY <1>2, SpendFits, Allowances DEF IInv, Vanish, Fault
  <2>5. UNCHANGED <<past, perCaller>> /\ wire' = wire /\ RestFits'
    BY <1>2, <2>4 DEF Vanish, IInv, RestFits, net
  <2>6. QED
    BY <2>1, <2>2, <2>3, <2>5, SockMoves
<1>3. QED
  BY <1>1, <1>2 DEF Terminate

(* A socket that has not opened has no place yet, and was handed nothing *)
LEMMA UpgradeKeeps ==
  ASSUME IInv, NEW s \in Sock, NEW p \in Proc, Upgrade(s, p)
  PROVE  IInv'
<1>1. PICK refused \in BOOLEAN, who \in {truth[CredOf[s]], Nobody} :
        /\ IF refused \/ who = truth[CredOf[s]] THEN UNCHANGED left ELSE Fault
        /\ sock' = [sock EXCEPT ![s] =
             [sock[s] EXCEPT !.at = "upgraded", !.on = p, !.who = who, !.refused = refused,
                             !.again = who # Nobody, !.caller = IF who = Nobody THEN Addr ELSE who.id]]
  BY DEF Upgrade
<1> DEFINE caller == IF who = Nobody THEN Addr ELSE who.id
           r == [sock[s] EXCEPT !.at = "upgraded", !.on = p, !.who = who, !.refused = refused,
                                !.again = who # Nobody, !.caller = caller]
<1>2. who \in Identity \cup {Nobody} /\ caller \in Callers
  BY SocketsAssumption DEF IInv, RestFits, Callers
<1>3. sock' = [sock EXCEPT ![s] = r]
  BY <1>1
<1> HIDE DEF caller
<1>4. /\ r \in SockType /\ r.asks = sock[s].asks /\ r.at = "upgraded" /\ r.on = p /\ r.hears = sock[s].hears
      /\ r.counted = sock[s].counted
  BY ZenonT(60), <1>2, SockFacts DEF SockType, At
<1> HIDE DEF r
<1>5. sock[s].at = "new" /\ ~sock[s].counted /\ sock[s].asks = <<>> /\ sock[s].hears = {}
  BY SockFacts DEF Upgrade, Fits
<1>6. Fits(r) /\ Len(r.asks) <= MaxAsks[s]
  BY <1>4, <1>5, SockFacts DEF Fits
<1>7. SocksFit' /\ sock'[s] = r /\ \A u \in Sock \ {s} : sock'[u] = sock[u]
  BY <1>3, <1>6, SockBecomes DEF IInv
<1>8. PlacesFit'
  <2>1. perCaller' = perCaller /\ ~Subscribed(sock[s]) /\ ~Subscribed(sock'[s])
    BY <1>4, <1>5, <1>7 DEF Upgrade, Subscribed
  <2>2. \A u \in Sock : \/ Subscribed(sock[u]) /\ Subscribed(sock'[u]) /\ sock'[u].on = sock[u].on
                           /\ sock'[u].caller = sock[u].caller
                        \/ ~Subscribed(sock[u]) /\ ~Subscribed(sock'[u])
    BY <1>7, <2>1
  <2>3. QED
    BY <2>1, <2>2, PlacesStay DEF IInv
<1>9. left' \in [Allowance -> Nat]
  BY <1>1, SpendFits, Allowances DEF IInv, RestFits, Fault
<1>10. RestFits' /\ UNCHANGED past /\ wire' = wire
  BY <1>9 DEF Upgrade, IInv, RestFits, net
<1>11. \A u \in Sock : \/ sock'[u].on = sock[u].on /\ (sock'[u].at = "new" => sock[u].at = "new")
                       \/ sock[u].at = "new" /\ sock'[u].at # "new"
  BY <1>4, <1>5, <1>7
<1>12. QED
  BY <1>7, <1>8, <1>10, <1>11, QuietStep

-----------------------------------------------------------------------------
(* A place is taken where a socket opens and given back where it closes     *)

(* One more socket in the place of its caller: the count is one more. *)
LEMMA PlaceTaken ==
  ASSUME PlacesFit, NEW s \in Sock, NEW p \in Proc, NEW c \in Callers, perCaller \in [Proc -> [Callers -> 0..Most]],
         perCaller' = [perCaller EXCEPT ![p][c] = @ + 1],
         ~Subscribed(sock[s]), Subscribed(sock'[s]), sock'[s].on = p, sock'[s].caller = c,
         \A u \in Sock \ {s} : sock'[u] = sock[u]
  PROVE  PlacesFit'
<1>1. ASSUME NEW q \in Proc, NEW d \in Callers
      PROVE  (IsFiniteSet(Places(q, d)) /\ perCaller[q][d] = Cardinality(Places(q, d)))'
  <2>1. IsFiniteSet(Places(q, d)) /\ perCaller[q][d] = Cardinality(Places(q, d)) /\ s \notin Places(q, d)
    BY DEF PlacesFit, Places
  <2>2. CASE q = p /\ d = c
    <3>1. Places(q, d)' = Places(q, d) \cup {s}
      BY <2>2 DEF Places, Subscribed
    <3>2. perCaller'[q][d] = perCaller[q][d] + 1
      BY <2>2
    <3>3. IsFiniteSet(Places(q, d) \cup {s}) /\ Cardinality(Places(q, d) \cup {s}) = Cardinality(Places(q, d)) + 1
      BY <2>1, FS_AddElement
    <3>4. QED
      BY <2>1, <3>1, <3>2, <3>3
  <2>3. CASE ~(q = p /\ d = c)
    <3>1. Places(q, d)' = Places(q, d)
      BY <2>3 DEF Places, Subscribed
    <3>2. perCaller'[q][d] = perCaller[q][d]
      BY <2>3
    <3>3. QED
      BY <2>1, <3>1, <3>2
  <2>4. QED
    BY <2>2, <2>3
<1>2. QED
  BY <1>1 DEF PlacesFit

(* One socket fewer: the count was above zero and is one less. *)
LEMMA PlaceLeft ==
  ASSUME PlacesFit, NEW s \in Sock, NEW p \in Proc, NEW c \in Callers, perCaller \in [Proc -> [Callers -> 0..Most]],
         perCaller' = [perCaller EXCEPT ![p][c] = @ - 1],
         Subscribed(sock[s]), sock[s].on = p, sock[s].caller = c, ~Subscribed(sock'[s]),
         \A u \in Sock \ {s} : sock'[u] = sock[u]
  PROVE  PlacesFit' /\ perCaller[p][c] > 0
<1>1. s \in Places(p, c) /\ IsFiniteSet(Places(p, c)) /\ perCaller[p][c] = Cardinality(Places(p, c))
  BY DEF PlacesFit, Places
<1>2. Cardinality(Places(p, c)) > 0
  <2>1. Places(p, c) # {} /\ Cardinality(Places(p, c)) \in Nat
    BY <1>1, FS_CardinalityType
  <2>2. Cardinality(Places(p, c)) # 0
    BY <1>1, <2>1, FS_EmptySet
  <2>3. QED
    BY <2>1, <2>2
<1>3. ASSUME NEW q \in Proc, NEW d \in Callers
      PROVE  (IsFiniteSet(Places(q, d)) /\ perCaller[q][d] = Cardinality(Places(q, d)))'
  <2>1. IsFiniteSet(Places(q, d)) /\ perCaller[q][d] = Cardinality(Places(q, d))
    BY DEF PlacesFit
  <2>2. CASE q = p /\ d = c
    <3>1. Places(q, d)' = Places(q, d) \ {s}
      BY <2>2 DEF Places, Subscribed
    <3>2. perCaller'[q][d] = perCaller[q][d] - 1
      BY <2>2
    <3>3. IsFiniteSet(Places(q, d) \ {s}) /\ Cardinality(Places(q, d) \ {s}) = Cardinality(Places(q, d)) - 1
      BY <1>1, <2>1, <2>2, FS_RemoveElement
    <3>4. QED
      BY <2>1, <3>1, <3>2, <3>3
  <2>3. CASE ~(q = p /\ d = c)
    <3>1. Places(q, d)' = Places(q, d)
      BY <2>3 DEF Places, Subscribed
    <3>2. perCaller'[q][d] = perCaller[q][d]
      BY <2>3
    <3>3. QED
      BY <2>1, <3>1, <3>2
  <2>4. QED
    BY <2>2, <2>3
<1>4. QED
  BY <1>1, <1>2, <1>3 DEF PlacesFit

(* onOpen takes a place and subscribes, or ends the socket that finds no room. *)
LEMMA OpenKeeps ==
  ASSUME IInv, NEW s \in Sock, Open(s)
  PROVE  IInv'
<1> DEFINE p == sock[s].on
           c == sock[s].caller
<1>1. /\ p \in Proc /\ c \in Callers /\ sock[s].at = "upgraded" /\ ~sock[s].counted
      /\ sock[s].asks = <<>> /\ sock[s].hears = {} /\ sock[s].who \in Identity \cup {Nobody}
  BY SockFacts DEF Open, Fits, SockType
<1>2. CASE sock[s].refused \/ ~Room(p, c)
  <2> DEFINE r == [sock[s] EXCEPT !.at = "closing"]
  <2>1. /\ r \in SockType /\ r.asks = sock[s].asks /\ r.at = "closing" /\ r.on = sock[s].on /\ r.hears = {}
        /\ r.caller = sock[s].caller /\ ~r.counted
    BY <1>1, SockFacts DEF SockType, At
  <2>2. sock' = [sock EXCEPT ![s] = r]
    BY <1>2 DEF Open
  <2> HIDE DEF r
  <2>3. Fits(r) /\ Len(r.asks) <= MaxAsks[s] /\ (Subscribed(r) <=> Subscribed(sock[s]))
    BY <1>1, <2>1, SockFacts DEF Fits, Subscribed
  <2>4. UNCHANGED <<past, perCaller>> /\ wire' = wire /\ RestFits'
    BY <1>2 DEF Open, IInv, RestFits, net
  <2>5. QED
    BY <2>1, <2>2, <2>3, <2>4, SockMoves
<1>3. CASE ~(sock[s].refused \/ ~Room(p, c))
  <2> DEFINE r == [sock[s] EXCEPT !.at = "open", !.counted = TRUE, !.as = sock[s].who]
  <2>1. /\ r \in SockType /\ r.asks = sock[s].asks /\ r.at = "open" /\ r.on = p /\ r.hears = {}
        /\ r.caller = c /\ r.counted
    BY <1>1, SockFacts DEF SockType, At
  <2>2. sock' = [sock EXCEPT ![s] = r] /\ perCaller' = [perCaller EXCEPT ![p][c] = @ + 1] /\ Room(p, c)
    BY <1>3 DEF Open
  <2> HIDE DEF r
  <2>3. Fits(r) /\ Len(r.asks) <= MaxAsks[s]
    BY <1>1, <2>1, SockFacts DEF Fits
  <2>4. SocksFit' /\ sock'[s] = r /\ \A u \in Sock \ {s} : sock'[u] = sock[u]
    BY <2>2, <2>3, SockBecomes DEF IInv
  <2>5. perCaller \in [Proc -> [Callers -> 0..Most]] /\ perCaller[p][c] \in 0..Most /\ perCaller[p][c] < Most
    BY <1>1, <2>2 DEF IInv, RestFits, Room
  <2>6. perCaller' \in [Proc -> [Callers -> 0..Most]]
    <3>1. perCaller[p][c] + 1 \in 0..Most
      BY <2>5, SocketsAssumption
    <3>2. QED
      BY <1>1, <2>2, <2>5, <3>1
  <2>7. PlacesFit'
    <3>1. ~Subscribed(sock[s]) /\ Subscribed(sock'[s]) /\ sock'[s].on = p /\ sock'[s].caller = c
      BY <1>1, <2>1, <2>4 DEF Subscribed
    <3> HIDE DEF p, c
    <3>2. QED
      BY <1>1, <2>2, <2>4, <2>5, <3>1, PlaceTaken DEF IInv
  <2>8. RestFits' /\ UNCHANGED past
    BY <2>6 DEF Open, IInv, RestFits, net
  <2>9. \A m \in wire' : m.kind = "push" => m \in wire
    BY <1>3 DEF Open, Tell, Notices
  <2>10. \A u \in Sock : sock'[u].on = sock[u].on /\ (sock'[u].at = "new" => sock[u].at = "new")
    BY <2>1, <2>4
  <2>11. QED
    BY <2>4, <2>7, <2>8, <2>9, <2>10, QuietStep
<1>4. QED
  BY <1>2, <1>3

(* onClose gives back the place the socket took, and none it did not. *)
LEMMA ClosedKeeps ==
  ASSUME IInv, NEW s \in Sock, Closed(s)
  PROVE  IInv'
<1> DEFINE p == sock[s].on
           c == sock[s].caller
           r == Left(sock[s])
<1>1. p \in Proc /\ c \in Callers /\ sock[s].at = "closing"
  BY SockFacts DEF Closed, Fits, SockType
<1>2. /\ r \in SockType /\ r.asks = sock[s].asks /\ r.at = "gone" /\ r.on = p /\ r.hears = {} /\ ~r.counted
  <2>1. Callers = {who.id : who \in Identity} \cup {Addr}
    BY DEF Callers
  <2>2. QED
    BY <2>1, SockFacts DEF SockType, Left, NewSock, At
<1>3. sock' = [sock EXCEPT ![s] = r]
  BY DEF Closed
<1> HIDE DEF r
<1>4. Fits(r) /\ Len(r.asks) <= MaxAsks[s]
  BY <1>2, SockFacts DEF Fits
<1>5. SocksFit' /\ sock'[s] = r /\ \A u \in Sock \ {s} : sock'[u] = sock[u]
  BY <1>3, <1>4, SockBecomes DEF IInv
<1>6. perCaller \in [Proc -> [Callers -> 0..Most]] /\ perCaller[p][c] \in 0..Most
  BY <1>1 DEF IInv, RestFits
<1>7. PlacesFit' /\ perCaller' \in [Proc -> [Callers -> 0..Most]]
  <2>1. CASE sock[s].counted
    <3>1. perCaller' = [perCaller EXCEPT ![p][c] = @ - 1]
      BY <2>1 DEF Closed, GivenBack
    <3>2. Subscribed(sock[s]) /\ ~Subscribed(sock'[s])
      BY <1>1, <1>2, <1>5, <2>1 DEF Subscribed
    <3>3. PlacesFit' /\ perCaller[p][c] > 0
      <4>1. PICK q, d : q = p /\ d = c
        OBVIOUS
      <4>2. QED
        BY <1>1, <1>5, <1>6, <3>1, <3>2, <4>1, PlaceLeft DEF IInv
    <3>4. perCaller[p][c] - 1 \in 0..Most
      BY <1>6, <3>3, SocketsAssumption
    <3>5. QED
      BY <1>1, <1>6, <3>1, <3>3, <3>4
  <2>2. CASE ~sock[s].counted
    <3>1. perCaller' = perCaller
      <4>1. perCaller' = [perCaller EXCEPT ![p][c] = @ - 0]
        BY <2>2 DEF Closed, GivenBack
      <4>2. perCaller[p][c] - 0 = perCaller[p][c]
        BY <1>6
      <4>3. QED
        BY <1>1, <1>6, <4>1, <4>2
    <3>2. ~Subscribed(sock[s]) /\ ~Subscribed(sock'[s])
      BY <1>2, <1>5, <2>2 DEF Subscribed
    <3>3. PlacesFit'
      BY <1>5, <3>1, <3>2, PlacesStay DEF IInv
    <3>4. QED
      BY <1>6, <3>1, <3>3
  <2>3. QED
    BY <2>1, <2>2
<1>8. RestFits' /\ UNCHANGED past
  BY <1>7 DEF Closed, IInv, RestFits, net
<1>9. \A m \in wire' : m.kind = "push" => m \in wire
  BY DEF Closed, Tell, Notices
<1>10. \A u \in Sock : sock'[u].on = sock[u].on /\ (sock'[u].at = "new" => sock[u].at = "new")
  BY <1>2, <1>5
<1>11. QED
  BY <1>5, <1>7, <1>8, <1>9, <1>10, QuietStep

-----------------------------------------------------------------------------
(* What pushes, and what hears of a push, keeps it *)

(* What Message makes has the fields a push is told apart by. *)
LEMMA MessageFits ==
  ASSUME NEW channel, NEW from, NEW scope, NEW to, NEW body, NEW variants
  PROVE  IsMessage(Message(channel, from, scope, to, body, variants))
BY DEF IsMessage, Message

(* A push is handed out at home and sent to the other processes. *)
LEMMA PushKeeps ==
  ASSUME IInv, NEW p \in Proc, Push(p)
  PROVE  IInv'
<1>1. PICK f \in Pushed :
        LET m == Message(f.channel, Nobody, f.scope, f.to, "plain", f.variants) IN
        Pushing(sock, p, m) /\ wire' = wire \cup PushNotices(p, m, Len(pushes) + 1)
  BY DEF Push
<1>2. PICK m : m = Message(f.channel, Nobody, f.scope, f.to, "plain", f.variants)
  OBVIOUS
<1>3. IsMessage(m) /\ Pushing(sock, p, m) /\ wire' = wire \cup PushNotices(p, m, Len(pushes) + 1)
  BY <1>1, <1>2, MessageFits
<1>4. PICK sk : sk = sock
  OBVIOUS
<1>5. sock' = sock /\ perCaller' = perCaller /\ sk = sock' /\ Pushing(sk, p, m)
  BY <1>3, <1>4 DEF Push
<1>6. left' \in [Allowance -> Nat]
  BY SpendFits, Allowances DEF IInv, Push
<1>7. RestFits' /\ SocksFit'
  BY <1>5, <1>6 DEF Push, IInv, RestFits, SocksFit, net
<1>8. PlacesFit'
  BY <1>5, PlacesStay DEF IInv
<1>9. QED
  BY <1>3, <1>5, <1>7, <1>8, PushStep

(* A notice is handed to the sockets of the process that hears it, once, and is gone. *)
LEMMA HearPushKeeps ==
  ASSUME IInv, NEW m \in wire, HearPush(m)
  PROVE  IInv'
<1>1. /\ m.kind = "push" /\ wire' = wire \ {m} /\ sock' = sock /\ perCaller' = perCaller /\ pushes' = pushes
      /\ RestFits'
  BY DEF HearPush, IInv, RestFits, net
<1>2. CASE ~(Runs(m.to) /\ ~Own(m))
  <2>1. UNCHANGED <<sock, perCaller, past>> /\ wire' \subseteq wire
    BY <1>1, <1>2 DEF HearPush, past
  <2>2. QED
    BY <1>1, <2>1, SocksStay
<1>3. CASE Runs(m.to) /\ ~Own(m)
  <2>1. PICK sk, p, n : sk = sock /\ p = m.to /\ n = m.push
    OBVIOUS
  <2>2. PICK msg : msg = m.message
    OBVIOUS
  <2>3. HandedIn(sk, p, msg, n) /\ sk = sock'
    BY <1>1, <1>3, <2>1, <2>2 DEF HearPush
  <2>4. n \in 1..Len(pushes) /\ msg = Crossed(pushes[n]) /\ \A s \in Sock : sock[s].on = p => ~Has(s, n)
    BY <1>1, <1>3, <2>1, <2>2 DEF IInv, WireFits
  <2>5. Len(pushes) \in Nat /\ IsMessage(pushes[n])
    BY <2>4, SequenceFacts DEF IInv, PushesFit
  <2>6. \A who, hears : Heard(msg, who, hears) => Meant(pushes[n], who) /\ TextFor(msg, who) = TextFor(pushes[n], who)
    BY <2>4, <2>5, HeardIsMeant
  <2>7. /\ heard' \in [Sock -> Range(heard')] /\ HeardFits'
        /\ \A s \in Sock : \A k : Has(s, k)' => Has(s, k) \/ (k = n /\ sock'[s].on = p)
    <3>1. heard \in [Sock -> Range(heard)] /\ HeardFits
      BY DEF IInv
    <3>2. Len(pushes) <= Len(pushes')
      BY <1>1, <2>5
    <3>3. \A k \in 1..Len(pushes) : pushes'[k] = pushes[k]
      BY <1>1
    <3>4. QED
      BY <1>1, <2>3, <2>4, <2>5, <2>6, <3>1, <3>2, <3>3, Hands
  <2>8. WireFits'
    <3>1. ASSUME NEW o \in wire', o.kind = "push", ~Own(o), NEW s \in Sock, sock'[s].on = o.to
          PROVE  ~Has(s, o.push)'
      <4>1. PICK k : k = o.push
        OBVIOUS
      <4>2. o \in wire /\ o # m /\ ~Has(s, k)
        BY <1>1, <3>1, <4>1 DEF IInv, WireFits
      <4>3. ~(k = n /\ sock'[s].on = p)
        BY <1>1, <2>1, <3>1, <4>1, <4>2 DEF IInv, WireFits
      <4>4. ~Has(s, k)'
        BY <2>7, <4>2, <4>3
      <4>5. QED
        BY <4>1, <4>4 DEF Has
    <3>2. QED
      BY <1>1, <3>1 DEF IInv, WireFits, Own
  <2>9. SocksFit' /\ PlacesFit' /\ PushesFit'
    BY <1>1, PlacesStay DEF IInv, SocksFit, PushesFit
  <2>10. QED
    BY <1>1, <2>7, <2>8, <2>9 DEF IInv
<1>4. QED
  BY <1>2, <1>3

(* A frame handled on the socket as it was found *)
LEMMA HandleKeeps ==
  ASSUME IInv, NEW s \in Sock, NEW f \in Frames \cup {NoFrame}, NEW now, NEW told, Handle(s, f, now, told),
         Fits(now), Len(now.asks) <= MaxAsks[s], now.on = sock[s].on, now.caller = sock[s].caller,
         Subscribed(now) <=> Subscribed(sock[s]), now.at \notin {"new", "upgraded"},
         UNCHANGED <<net, truth, perCaller>>
  PROVE  IInv'
<1> DEFINE p == now.on
           r == FrameDone(f, now)
           asked == AskDone(f, now)
           sent == UNION {PushNotices(p, m, Len(pushes) + 1) : m \in asked}
<1>1. PICK after : after = [sock EXCEPT ![s] = r]
  OBVIOUS
<1>2. /\ after = sock' /\ sock' = [sock EXCEPT ![s] = r]
      /\ wire' = wire \cup sent \cup (IF told THEN Notices(after, p) ELSE {})
      /\ \/ asked = {} /\ UNCHANGED <<past, left>>
         \/ \E m \in asked : Pushing(after, p, m) /\ Spend("pushes")
  BY <1>1 DEF Handle
<1>3. /\ Fits(r) /\ r.asks = now.asks /\ r.on = now.on /\ r.caller = now.caller /\ r.at = now.at
      /\ r.counted = now.counted
  <2>1. now \in SockType /\ now.hears \subseteq DOMAIN Channels /\ \A c \in now.hears : MayHear(c, now.as)
    BY DEF Fits, SockType
  <2>2. \E hears \in SUBSET DOMAIN Channels : /\ r = [now EXCEPT !.hears = hears]
                                              /\ \A c \in hears : MayHear(c, now.as)
    <3>1. now = [now EXCEPT !.hears = now.hears]
      BY <2>1 DEF SockType
    <3>2. MayHear(f.channel, now.as) => f.channel \in DOMAIN Channels
      BY DEF MayHear
    <3>3. CASE f = NoFrame \/ ~now.counted \/ f.does \notin {"listen", "unlisten"}
      BY <2>1, <3>1, <3>3 DEF FrameDone
    <3>4. CASE f # NoFrame /\ now.counted /\ f.does = "listen" /\ MayHear(f.channel, now.as)
      <4>1. r = [now EXCEPT !.hears = now.hears \cup {f.channel}]
        BY <3>4 DEF FrameDone
      <4>2. QED
        BY ZenonT(60), <2>1, <3>2, <3>4, <4>1
    <3>5. CASE f # NoFrame /\ now.counted /\ f.does = "listen" /\ ~MayHear(f.channel, now.as)
      <4>1. r = [now EXCEPT !.hears = now.hears]
        BY <3>5 DEF FrameDone
      <4>2. QED
        BY <2>1, <4>1
    <3>6. CASE f # NoFrame /\ now.counted /\ f.does = "unlisten"
      <4>1. r = [now EXCEPT !.hears = now.hears \ {f.channel}]
        BY <3>6 DEF FrameDone
      <4>2. QED
        BY <2>1, <4>1
    <3>7. QED
      BY <3>3, <3>4, <3>5, <3>6
  <2>3. PICK hears \in SUBSET DOMAIN Channels : /\ r = [now EXCEPT !.hears = hears]
                                                /\ \A c \in hears : MayHear(c, now.as)
    BY <2>2
  <2> HIDE DEF r
  <2>4. /\ r \in SockType /\ r.asks = now.asks /\ r.on = now.on /\ r.caller = now.caller /\ r.at = now.at
        /\ r.counted = now.counted /\ r.as = now.as /\ r.hears = hears
    BY <2>1, <2>3 DEF SockType
  <2>5. QED
    BY <2>3, <2>4 DEF Fits
<1> HIDE DEF r
<1>4. SocksFit' /\ sock'[s] = r /\ \A u \in Sock \ {s} : sock'[u] = sock[u]
  <2>1. Len(r.asks) <= MaxAsks[s]
    BY <1>3
  <2>2. QED
    BY <1>2, <1>3, <2>1, SockBecomes DEF IInv
<1>5. \A u \in Sock : sock'[u].on = sock[u].on /\ (sock'[u].at = "new" => sock[u].at = "new")
  BY <1>3, <1>4
<1>6. PlacesFit'
  <2>1. \A u \in Sock : /\ Subscribed(sock'[u]) <=> Subscribed(sock[u])
                        /\ sock'[u].on = sock[u].on /\ sock'[u].caller = sock[u].caller
    BY <1>3, <1>4 DEF Subscribed
  <2>2. QED
    BY <2>1, PlacesStay DEF IInv
<1>7. left' \in [Allowance -> Nat]
  <2>1. left \in [Allowance -> Nat] /\ "pushes" \in Allowance
    BY Allowances DEF IInv, RestFits
  <2>2. (UNCHANGED left) \/ Spend("pushes")
    BY <1>2
  <2>3. QED
    BY <2>1, <2>2, SpendFits DEF IInv
<1>8. RestFits'
  BY <1>7 DEF IInv, RestFits, net
<1>9. \A o \in Notices(after, p) : o.kind # "push"
  BY DEF Notices
<1>10. CASE asked = {} /\ UNCHANGED <<past, left>>
  <2>1. \A o \in wire' : o.kind = "push" => o \in wire
    BY <1>2, <1>9, <1>10
  <2>2. QED
    BY <1>4, <1>5, <1>6, <1>8, <1>10, <2>1, QuietStep
<1>11. ASSUME NEW m \in asked, Pushing(after, p, m) PROVE IInv'
  <2>1. asked = {m} /\ IsMessage(m)
    BY MessageFits DEF AskDone
  <2>2. \A o \in wire' : o.kind = "push" => o \in wire \cup PushNotices(p, m, Len(pushes) + 1)
    BY <1>2, <1>9, <2>1
  <2> HIDE DEF asked, sent
  <2>3. QED
    BY <1>2, <1>4, <1>5, <1>6, <1>8, <1>11, <2>1, <2>2, PushStep
<1>12. QED
  BY <1>2, <1>10, <1>11

(* A frame is handled at once, or asks who the socket is first. *)
LEMMA FrameKeeps ==
  ASSUME IInv, NEW s \in Sock, NEW f \in Frames, Frame(s, f)
  PROVE  IInv'
<1>1. CASE sock[s].again
  <2> DEFINE a == [frame |-> f, read |-> Unread]
             asks == Append(sock[s].asks, a)
  <2>1. a \in Asked
    BY DEF Asked
  <2>2. sock' = [sock EXCEPT ![s] = [sock[s] EXCEPT !.asks = asks]]
    BY <1>1 DEF Frame
  <2> HIDE DEF a
  <2>3. asks \in Seq(Asked) /\ Len(asks) <= MaxAsks[s]
    BY <1>1, <2>1, SockFacts DEF Frame
  <2> HIDE DEF asks
  <2>4. sock[s].at \notin {"new", "upgraded"} /\ UNCHANGED <<perCaller, past>> /\ wire' = wire /\ RestFits'
    BY <1>1 DEF Frame, IInv, RestFits, net
  <2>5. QED
    BY <2>2, <2>3, <2>4, AsksChange
<1>2. CASE ~sock[s].again
  <2>1. PICK now : now = sock[s]
    OBVIOUS
  <2>2. /\ Handle(s, f, now, FALSE) /\ now.on = sock[s].on /\ now.caller = sock[s].caller
        /\ Subscribed(now) <=> Subscribed(sock[s])
        /\ now.at \notin {"new", "upgraded"} /\ UNCHANGED <<net, truth, perCaller>>
    BY <1>2, <2>1 DEF Frame
  <2>3. Fits(now) /\ Len(now.asks) <= MaxAsks[s] /\ f \in Frames \cup {NoFrame}
    BY <2>1, SockFacts
  <2>4. QED
    BY <2>2, <2>3, HandleKeeps
<1>3. QED
  BY <1>1, <1>2

(* The answer to a refresh may change who the socket is, end it, or let its frame through. *)
LEMMA RefreshedKeeps ==
  ASSUME IInv, NEW s \in Sock, NEW i, Refreshed(s, i)
  PROVE  IInv'
<1> DEFINE ask == sock[s].asks[i]
           asks == RemoveAt(sock[s].asks, i)
           now == [sock[s] EXCEPT !.asks = asks, !.who = ask.read]
           still == [now EXCEPT !.as = ask.read, !.hears = MayStill(@, ask.read)]
<1>1. sock[s].asks \in Seq(Asked) /\ Len(sock[s].asks) \in Nat /\ i \in 1..Len(sock[s].asks)
  BY SockFacts DEF Refreshed
<1>2. ask.frame \in Frames \cup {NoFrame} /\ ask.read \in Identity \cup {Nobody}
  <2>1. ask \in Asked
    BY <1>1
  <2>2. QED
    BY <2>1 DEF Asked, Refreshed
<1>3. asks \in Seq(Asked) /\ Len(asks) <= MaxAsks[s]
  <2>1. asks \in Seq(Asked) /\ Len(asks) = Len(sock[s].asks) - 1
    BY <1>1, RemovesOne
  <2> HIDE DEF asks
  <2>2. QED
    BY <1>1, <2>1, SockFacts
<1>4. sock[s].at \notin {"new", "upgraded"}
  <2>1. sock[s].asks # <<>>
    BY <1>1, EmptyIsSequence
  <2>2. QED
    BY <2>1, SockFacts DEF Fits
<1> HIDE DEF asks
<1>5. CASE ask.read = Nobody
  <2>1. sock' = [sock EXCEPT ![s] = SignedOut(now)] /\ UNCHANGED <<wire, past, left, net, truth, perCaller>>
    BY <1>5 DEF Refreshed, asks
  <2> DEFINE r == SignedOut(now)
  <2>2. /\ now \in SockType /\ now.asks = asks /\ now.at = sock[s].at /\ now.on = sock[s].on /\ now.hears = sock[s].hears
        /\ now.as = sock[s].as /\ now.caller = sock[s].caller /\ now.counted = sock[s].counted
    BY <1>2, <1>3, SockFacts DEF SockType
  <2> HIDE DEF now
  <2>3. /\ r \in SockType /\ r.asks = asks /\ r.at = (IF now.at = "open" THEN "closing" ELSE now.at)
        /\ r.on = sock[s].on /\ r.hears = sock[s].hears
        /\ r.as = sock[s].as /\ r.caller = sock[s].caller /\ r.counted = sock[s].counted
    BY <2>2 DEF SockType, At, SignedOut
  <2>4. sock' = [sock EXCEPT ![s] = r]
    BY <2>1
  <2> HIDE DEF r
  <2>5. Fits(r) /\ Len(r.asks) <= MaxAsks[s] /\ (Subscribed(r) <=> Subscribed(sock[s]))
    BY <1>3, <1>4, <2>2, <2>3, SockFacts DEF Fits, Subscribed
  <2>6. UNCHANGED <<past, perCaller>> /\ wire' = wire /\ RestFits'
    BY <2>1 DEF IInv, RestFits, net
  <2>7. r.at = "new" => sock[s].at = "new"
    BY <2>2, <2>3
  <2>8. QED
    BY <2>3, <2>4, <2>5, <2>6, <2>7, SockMoves
<1>6. CASE ask.read # Nobody
  <2>1. PICK told : Handle(s, ask.frame, still, told) /\ UNCHANGED <<net, truth, perCaller>>
    BY <1>6 DEF Refreshed, asks
  <2>2. /\ still \in SockType /\ still.asks = asks /\ still.at = sock[s].at /\ still.on = sock[s].on
        /\ still.hears = MayStill(sock[s].hears, ask.read) /\ still.as = ask.read
        /\ still.caller = sock[s].caller /\ still.counted = sock[s].counted
    BY ZenonT(60), <1>2, <1>3, SockFacts DEF SockType, MayStill
  <2> HIDE DEF ask, still
  <2>3. Fits(still) /\ Len(still.asks) <= MaxAsks[s] /\ (Subscribed(still) <=> Subscribed(sock[s]))
    BY <1>3, <1>4, <2>2, SockFacts DEF Fits, Subscribed, MayStill
  <2>4. QED
    BY <1>2, <1>4, <2>1, <2>2, <2>3, HandleKeeps
<1>7. QED
  BY <1>5, <1>6

(* Every action, and every step that changes nothing *)
LEMMA NextIInv == IInv /\ [Next]_vars => IInv'
<1> SUFFICES ASSUME IInv, [Next]_vars PROVE IInv'
  OBVIOUS
<1>1. CASE UNCHANGED vars
  <2>1. UNCHANGED <<sock, perCaller, past>> /\ wire' = wire /\ RestFits'
    BY <1>1 DEF vars, past, IInv, RestFits
  <2>2. QED
    BY <2>1, SocksStay
<1>2. ASSUME NEW p \in Proc, Exit(p) \/ Crash(p) PROVE IInv'
  <2>1. Leaves(p)
    BY <1>2 DEF Exit, Crash
  <2>2. left' \in [Allowance -> Nat]
    BY <1>2, SpendFits, Allowances DEF IInv, RestFits, Exit, Crash, Fault
  <2>3. QED
    BY <2>1, <2>2, LeavesKeeps
<1>3. ASSUME NEW s \in Sock, Recheck(s) PROVE IInv'
  <2>1. 1 \in 1..MaxAsks[s]
    BY SocketsAssumption
  <2>2. QED
    BY <1>3, <2>1, AsksKeep
<1>4. CASE Next
  BY <1>2, <1>3, <1>4, NetKeeps, StopKeeps, PushKeeps, HearPushKeeps, UpgradeKeeps, OpenKeeps, ClosedKeeps, EndsKeep,
     FrameKeeps, AsksKeep, RefreshedKeeps DEF Next
<1>5. QED
  BY <1>1, <1>4

-----------------------------------------------------------------------------
(* What it promises *)

(* The counts, the identities and the pushes of every socket stay as they   *)
(* are said to fit (connection.ts, sockets.ts, relay.ts)                    *)
THEOREM Invariance == Spec => []IInv
<1>1. Init => IInv
  BY InitIInv
<1>2. QED
  BY <1>1, NextIInv, PTL DEF Spec

(* However many sockets a caller opens and however they end, with refreshes *)
(* under way, at a stop or a crash: its process counts exactly those that   *)
(* opened and have not closed, never more than the most, and none listens   *)
(* to what it may not hear as whom it is now (connection.ts onOpen, onClose) *)
THEOREM PlacesCounted == Spec => []SocketsCounted
<1>1. IInv => SocketsCounted
  <2> SUFFICES ASSUME IInv PROVE SocketsCounted
    OBVIOUS
  <2>1. TypeOK
    BY DEF IInv, RestFits, SocksFit, SockType, TypeOK
  <2>2. ASSUME NEW p \in Proc, NEW c \in Callers
        PROVE  perCaller[p][c] = Cardinality({s \in HubIn(sock, p) : sock[s].caller = c})
    <3>1. {s \in HubIn(sock, p) : sock[s].caller = c} = Places(p, c)
      BY DEF HubIn, Places
    <3>2. QED
      BY <3>1 DEF IInv, PlacesFit
  <2>3. \A s \in Sock : \A c \in sock[s].hears : MayHear(c, sock[s].as)
    BY DEF IInv, SocksFit, Fits
  <2>4. QED
    BY <2>1, <2>2, <2>3 DEF SocketsCounted
<1>2. QED
  BY <1>1, Invariance, PTL

(* Whatever is lost, delayed or heard after the sockets of a process came   *)
(* and went, no push is handed to one socket twice, nor to one it was not   *)
(* meant for, nor in a text for those who hold more (relay.ts, sockets.ts)  *)
THEOREM HandsOnceAsMeant == Spec => []HeardOnceAsMeant
<1>1. IInv => HeardOnceAsMeant
  <2> SUFFICES ASSUME IInv, NEW s \in Sock, NEW i \in DOMAIN heard[s]
               PROVE  /\ HandedRight(heard[s][i])
                      /\ \A j \in DOMAIN heard[s] : heard[s][j].push = heard[s][i].push => i = j
    BY DEF HeardOnceAsMeant, HandedRight
  <2>1. DOMAIN heard[s] = 1..Len(heard[s])
    BY SequenceFacts DEF IInv, HeardFits
  <2>2. QED
    BY <2>1 DEF IInv, HeardFits
<1>2. QED
  BY <1>1, Invariance, PTL
=============================================================================
