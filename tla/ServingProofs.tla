---------------------------- MODULE ServingProofs ----------------------------
(***************************************************************************)
(* What Serving says of any number of requests, callers, routes and slots, *)
(* and of any limit, proved.                                               *)
(***************************************************************************)
EXTENDS Serving, FiniteSetTheorems, TLAPS

Bucket == [hits : Nat, until : Nat]

\* the requests that came: finitely many at any time, however many may come
Arrived == {r \in Req : req[r].at # "idle"}

SlotsOf(c) == {r \in Active : CallerOf(r) = c}

\* those counted in a key's window and not given back, and those given back to
\* it from a window before
Through(k) == {r \in Req : req[r].window = counts[k].until /\ KeyOf(r) = k /\ req[r].credited = Never}
Late(k) == {r \in Req : req[r].credited = counts[k].until /\ req[r].window # counts[k].until /\ KeyOf(r) = k}

\* a request is counted once its handler is reached, and given back once it
\* answered
ReqFits(q) ==
  /\ q.at \in {"idle", "asked", "reading"} => q.window = Never
  /\ q.at \in {"idle", "asked", "reading", "handling"} => q.credited = Never
  /\ q.credited # Never => q.window # Never
  /\ q.at = "handling" /\ q.route.limited => q.window # Never

Pulled == {"waiting", "held", "last"}

\* a slot is open just under a handler that only streams, and while it streams
StreamFits(q, s) ==
  /\ s.slot = "open" <=> q.at = "streaming" \/ (q.at = "handling" /\ q.route.kind = "stream")
  /\ q.at = "streaming" => s.gen \in Pulled

\* no request is counted in a window later than its key's, or than now
WindowFits(r) ==
  req[r].window # Never =>
    /\ KeyOf(r) \in DOMAIN counts => req[r].window <= counts[KeyOf(r)].until
    /\ KeyOf(r) \notin DOMAIN counts => req[r].window <= clock

CallerFits(c) == perCaller[c] = Cardinality(SlotsOf(c)) /\ perCaller[c] <= Most

KeyFits(k) ==
  /\ Cardinality(Through(k)) <= counts[k].hits + Cardinality(Late(k))
  /\ Cardinality(Through(k)) <= Requests + Cardinality(Late(k))

CountsFit ==
  /\ DOMAIN counts \subseteq Caller /\ counts \in [DOMAIN counts -> Bucket]
  /\ \A r \in Req : WindowFits(r)
  /\ \A k \in DOMAIN counts : KeyFits(k)

\* a stream that only streams is told once the process stops
ToldOf(q, s) == s.slot = "open" /\ q.route.kind = "stream" => s.told # "none"

StopFits ==
  /\ phase = "closing" => InFlight = {}
  /\ phase # "serving" => \A r \in Req : ToldOf(req[r], stream[r])

IInv ==
  /\ TypeOK /\ IsFiniteSet(Arrived)
  /\ \A r \in Req : ReqFits(req[r]) /\ StreamFits(req[r], stream[r])
  /\ \A c \in Caller : CallerFits(c)
  /\ CountsFit /\ StopFits

-----------------------------------------------------------------------------
(* Types *)

Request == [at : At, route : Route, shape : Shape, who : User \cup {Nobody},
            left : BOOLEAN, window : Nat \cup {Never}, credited : Nat \cup {Never}]

Channel == [slot : {"none", "open", "released"}, told : Ending \cup {"none"},
            gen : {"none", "waiting", "held", "last", "done"}]

\* The constants are what the code counts with; a key is a caller
\* (limit.ts keyOf, request.ts callerOf).
LEMMA Bounds ==
  /\ Most \in Nat /\ Requests \in Nat /\ Requests > 0 /\ Seconds \in Nat /\ Seconds > 0
  /\ Never = -1 /\ Never \notin Nat /\ Nobody \notin User
  BY ServingAssumption, WindowAssumption DEF Never

\* A request's caller and the key it is counted for are callers.
LEMMA TypeMeans ==
  ASSUME TypeOK
  PROVE  /\ req \in [Req -> Request] /\ stream \in [Req -> Channel]
         /\ perCaller \in [Caller -> Nat] /\ clock \in Nat /\ phase \in Phase
         /\ \A r \in Req : CallerOf(r) \in Caller /\ KeyOf(r) \in Caller
<1>1. /\ req \in [Req -> Request] /\ stream \in [Req -> Channel]
      /\ perCaller \in [Caller -> Nat] /\ clock \in Nat /\ phase \in Phase
  BY ServingAssumption DEF TypeOK, Request, Channel
<1>2. \A r \in Req : AddrOf[r] \in Caller /\ req[r].who \in User \cup {Nobody}
  BY <1>1, ServingAssumption DEF Request, Caller
<1> QED
  BY <1>1, <1>2 DEF CallerOf, KeyOf, Caller

\* A new request, and an answered one, are requests (serve.ts).
LEMMA OverType ==
  /\ NewReq \in Request /\ NewReq.window = Never /\ NewReq.credited = Never /\ NewReq.at = "idle"
  /\ NewReq.who = Nobody /\ NewReq.left = FALSE
  /\ \A q \in Request : /\ Over(q) \in Request /\ Over(q).at = "answered"
                        /\ Over(q).window = q.window /\ Over(q).credited = q.credited
                        /\ q.window # Never => Over(q).route = q.route /\ Over(q).who = q.who
<1>1. (CHOOSE p \in Route : TRUE) \in Route /\ (CHOOSE s \in Shape : TRUE) \in Shape
  BY ServingAssumption
<1>2. /\ NewReq \in Request /\ NewReq.window = Never /\ NewReq.credited = Never /\ NewReq.at = "idle"
      /\ NewReq.who = Nobody /\ NewReq.left = FALSE
  BY <1>1 DEF NewReq, Request, At
<1>3. ASSUME NEW q \in Request
      PROVE  /\ Over(q) \in Request /\ Over(q).at = "answered"
             /\ Over(q).window = q.window /\ Over(q).credited = q.credited
             /\ q.window # Never => Over(q).route = q.route /\ Over(q).who = q.who
  <2>1. NewReq.route \in Route /\ NewReq.shape \in Shape
    BY <1>2 DEF Request
  <2> QED
    BY <2>1 DEF Over, Request, At
<1> QED
  BY <1>2, <1>3

\* An answered request fits whatever its counting says (serve.ts respond).
LEMMA AnsweredFits ==
  ASSUME NEW q \in Request, q.credited # Never => q.window # Never
  PROVE  ReqFits(Over(q))
  BY OverType DEF ReqFits

\* Only finitely many came, after any one more (serve.ts).
LEMMA ArrivedFinite ==
  ASSUME TypeOK, IsFiniteSet(Arrived), NEW r \in Req, NEW q, req' = [req EXCEPT ![r] = q]
  PROVE  IsFiniteSet(Arrived')
<1>1. Arrived' \subseteq Arrived \cup {r}
  BY TypeMeans DEF Arrived
<1>2. IsFiniteSet(Arrived \cup {r})
  BY FS_AddElement
<1> QED
  BY <1>1, <1>2, FS_Subset

-----------------------------------------------------------------------------
(* Slots *)

\* What a step does to the slots, told by one request's record and stream
KeepsSlot(r, q, s) ==
  /\ s.slot = "open" <=> stream[r].slot = "open"
  /\ s.slot = "open" => q.who = req[r].who
  /\ perCaller' = perCaller

TakesSlot(r, q, s) ==
  /\ s.slot = "open" /\ stream[r].slot # "open" /\ q.who = req[r].who
  /\ perCaller[CallerOf(r)] < Most
  /\ perCaller' = [perCaller EXCEPT ![CallerOf(r)] = perCaller[CallerOf(r)] + 1]

GivesSlot(r, q, s) ==
  /\ s.slot # "open" /\ stream[r].slot = "open"
  /\ perCaller' = [perCaller EXCEPT ![CallerOf(r)] = perCaller[CallerOf(r)] - 1]

\* A caller is counted a slot for each of its open streams, whichever way one
\* opens or ends (request.ts openStream, release).
LEMMA SlotsStep ==
  ASSUME IInv, NEW r \in Req, NEW q \in Request, NEW s \in Channel,
         req' = [req EXCEPT ![r] = q], stream' = [stream EXCEPT ![r] = s],
         KeepsSlot(r, q, s) \/ TakesSlot(r, q, s) \/ GivesSlot(r, q, s)
  PROVE  perCaller' \in [Caller -> Nat] /\ \A c \in Caller : CallerFits(c)'
<1>1. /\ req \in [Req -> Request] /\ stream \in [Req -> Channel] /\ perCaller \in [Caller -> Nat]
      /\ \A u \in Req : CallerOf(u) \in Caller
  BY TypeMeans DEF IInv
<1>2. /\ req'[r] = q /\ stream'[r] = s
      /\ \A u \in Req : u # r => req'[u] = req[u] /\ stream'[u] = stream[u]
  BY <1>1
<1>3. \A u \in Req : u # r => CallerOf(u)' = CallerOf(u)
  BY <1>2 DEF CallerOf
<1>4. q.who = req[r].who => CallerOf(r)' = CallerOf(r)
  BY <1>2 DEF CallerOf
<1>5. ASSUME NEW c \in Caller
      PROVE  IsFiniteSet(SlotsOf(c)) /\ Cardinality(SlotsOf(c)) \in Nat /\ perCaller[c] = Cardinality(SlotsOf(c))
             /\ perCaller[c] <= Most
  <2>1. SlotsOf(c) \subseteq Arrived
    BY DEF SlotsOf, Active, Arrived, IInv, StreamFits
  <2> QED
    BY <2>1, FS_Subset, FS_CardinalityType DEF IInv, CallerFits
<1>6. CASE KeepsSlot(r, q, s)
  <2>1. \A c \in Caller : SlotsOf(c)' = SlotsOf(c)
    BY <1>2, <1>3, <1>4, <1>6 DEF SlotsOf, Active, KeepsSlot
  <2> QED
    BY <1>1, <1>5, <1>6, <2>1 DEF CallerFits, KeepsSlot
<1>9. PICK k \in Caller : k = CallerOf(r)
  BY <1>1
<1>7. CASE TakesSlot(r, q, s)
  <2>1. SlotsOf(k)' = SlotsOf(k) \cup {r} /\ r \notin SlotsOf(k)
    BY <1>1, <1>2, <1>3, <1>4, <1>7, <1>9 DEF SlotsOf, Active, TakesSlot
  <2>2. \A c \in Caller : c # k => SlotsOf(c)' = SlotsOf(c)
    BY <1>1, <1>2, <1>3, <1>4, <1>7, <1>9 DEF SlotsOf, Active, TakesSlot
  <2>3. Cardinality(SlotsOf(k) \cup {r}) = Cardinality(SlotsOf(k)) + 1
    BY <1>5, <2>1, FS_AddElement
  <2>4. /\ perCaller' \in [Caller -> Nat] /\ perCaller'[k] = perCaller[k] + 1 /\ perCaller[k] < Most
        /\ \A c \in Caller : c # k => perCaller'[c] = perCaller[c]
    BY <1>1, <1>7, <1>9 DEF TakesSlot
  <2>5. CallerFits(k)'
    BY <1>1, <1>5, <2>1, <2>3, <2>4, Bounds DEF CallerFits
  <2>6. \A c \in Caller : c # k => CallerFits(c)'
    BY <1>5, <2>2, <2>4 DEF CallerFits
  <2> QED
    BY <2>4, <2>5, <2>6
<1>8. CASE GivesSlot(r, q, s)
  <2>1. SlotsOf(k)' = SlotsOf(k) \ {r} /\ r \in SlotsOf(k)
    BY <1>1, <1>2, <1>3, <1>8, <1>9 DEF SlotsOf, Active, GivesSlot
  <2>2. \A c \in Caller : c # k => SlotsOf(c)' = SlotsOf(c)
    BY <1>1, <1>2, <1>3, <1>8, <1>9 DEF SlotsOf, Active, GivesSlot
  <2>3. Cardinality(SlotsOf(k) \ {r}) = Cardinality(SlotsOf(k)) - 1 /\ Cardinality(SlotsOf(k) \ {r}) \in Nat
    BY <1>5, <2>1, FS_RemoveElement, FS_CardinalityType
  <2>4. /\ perCaller' \in [Caller -> Nat] /\ perCaller'[k] = perCaller[k] - 1
        /\ \A c \in Caller : c # k => perCaller'[c] = perCaller[c]
    BY <1>1, <1>5, <1>8, <1>9, <2>3 DEF GivesSlot
  <2>5. CallerFits(k)'
    BY <1>1, <1>5, <2>1, <2>3, <2>4, Bounds DEF CallerFits
  <2>6. \A c \in Caller : c # k => CallerFits(c)'
    BY <1>5, <2>2, <2>4 DEF CallerFits
  <2> QED
    BY <2>4, <2>5, <2>6
<1> QED
  BY <1>6, <1>7, <1>8

-----------------------------------------------------------------------------
(* Windows *)

\* The counts `after` one more of a key's
CountsOneMore(key, after) ==
  /\ DOMAIN after = DOMAIN counts \cup {key} /\ after \in [DOMAIN after -> Bucket]
  /\ \A k \in DOMAIN counts : k # key => after[k] = counts[k]
  /\ Open(counts, key, clock) => after[key].hits = counts[key].hits + 1 /\ after[key].until = counts[key].until
  /\ ~Open(counts, key, clock) => after[key].hits = 1 /\ after[key].until = clock + Seconds

\* A spend counts in the key's open window, or opens the next (limit.ts spend).
LEMMA SpendCounts ==
  ASSUME IInv, NEW key
  PROVE  CountsOneMore(key, Spend(counts, key, clock))
<1>1. counts \in [DOMAIN counts -> Bucket] /\ clock \in Nat
  BY TypeMeans DEF IInv, CountsFit
<1> DEFINE bucket == IF Open(counts, key, clock) THEN [counts[key] EXCEPT !.hits = counts[key].hits + 1]
                     ELSE [hits |-> 1, until |-> clock + Seconds]
<1>2. /\ bucket \in Bucket
      /\ Open(counts, key, clock) => bucket.hits = counts[key].hits + 1 /\ bucket.until = counts[key].until
      /\ ~Open(counts, key, clock) => bucket.hits = 1 /\ bucket.until = clock + Seconds
  <2>1. CASE Open(counts, key, clock)
    <3>1. counts[key] \in Bucket
      BY <1>1, <2>1 DEF Open
    <3> QED
      BY <2>1, <3>1 DEF Bucket
  <2>2. CASE ~Open(counts, key, clock)
    BY <1>1, <2>2, Bounds DEF Bucket
  <2> QED
    BY <2>1, <2>2
<1>3. Spend(counts, key, clock) = [k \in DOMAIN counts \cup {key} |-> IF k = key THEN bucket ELSE counts[k]]
  BY DEF Spend, With
<1> HIDE DEF bucket
<1> QED
  BY <1>1, <1>2, <1>3 DEF CountsOneMore

\* The counts `after` one back of a key's
CountsOneLess(key, after) ==
  /\ DOMAIN after = DOMAIN counts /\ after \in [DOMAIN after -> Bucket]
  /\ \A k \in DOMAIN counts : after[k].until = counts[k].until /\ (k # key => after[k].hits = counts[k].hits)
  /\ key \in DOMAIN counts => after[key].hits = (IF counts[key].hits > 0 THEN counts[key].hits - 1 ELSE 0)

\* A refund takes one back from the key's window of now (limit.ts refund).
LEMMA RefundCounts ==
  ASSUME IInv, NEW key
  PROVE  CountsOneLess(key, Refund(counts, key))
<1>1. counts \in [DOMAIN counts -> Bucket]
  BY DEF IInv, CountsFit
<1>2. CASE key \in DOMAIN counts /\ counts[key].hits > 0
  <2> DEFINE next == [counts[key] EXCEPT !.hits = counts[key].hits - 1]
  <2>1. counts[key] \in Bucket
    BY <1>1, <1>2
  <2>2. next \in Bucket /\ next.hits = counts[key].hits - 1 /\ next.until = counts[key].until
    BY <1>2, <2>1 DEF Bucket
  <2>3. Refund(counts, key) = [counts EXCEPT ![key] = next]
    BY <1>2 DEF Refund
  <2> HIDE DEF next
  <2> QED
    BY <1>1, <1>2, <2>1, <2>2, <2>3 DEF CountsOneLess
<1>3. CASE ~(key \in DOMAIN counts /\ counts[key].hits > 0)
  <2>1. Refund(counts, key) = counts
    BY <1>3 DEF Refund
  <2>2. key \in DOMAIN counts => counts[key].hits = 0
    BY <1>1, <1>3 DEF Bucket
  <2> QED
    BY <1>1, <1>3, <2>1, <2>2 DEF CountsOneLess
<1> QED
  BY <1>2, <1>3

\* What a key's counts say is of finitely many requests, all counted in a window.
LEMMA CountedFinite ==
  ASSUME IInv, NEW k \in DOMAIN counts
  PROVE  /\ counts[k] \in Bucket /\ counts[k].until \in Nat /\ counts[k].hits \in Nat /\ k \in Caller
         /\ \A r \in Through(k) \cup Late(k) : r \in Req /\ KeyOf(r) = k /\ req[r].window # Never
         /\ IsFiniteSet(Through(k)) /\ Cardinality(Through(k)) \in Nat
         /\ IsFiniteSet(Late(k)) /\ Cardinality(Late(k)) \in Nat
         /\ KeyFits(k)
<1>1. /\ counts[k] \in Bucket /\ counts[k].until \in Nat /\ counts[k].hits \in Nat /\ k \in Caller /\ KeyFits(k)
      /\ IsFiniteSet(Arrived) /\ \A r \in Req : ReqFits(req[r])
  BY DEF IInv, CountsFit, Bucket
<1>2. \A r \in Through(k) \cup Late(k) : r \in Req /\ KeyOf(r) = k /\ req[r].window # Never
  BY <1>1, Bounds DEF Through, Late, ReqFits
<1>3. Through(k) \subseteq Arrived /\ Late(k) \subseteq Arrived
  BY <1>1, <1>2 DEF Arrived, ReqFits
<1> QED
  BY <1>1, <1>2, <1>3, FS_Subset, FS_CardinalityType

\* The counts stand while no counted request changes whom it is counted for.
LEMMA CountsStay ==
  ASSUME IInv, UNCHANGED counts, clock' \in Nat, clock' >= clock,
         \A r \in Req : /\ req'[r].window = req[r].window /\ req'[r].credited = req[r].credited
                        /\ req[r].window # Never => KeyOf(r)' = KeyOf(r)
  PROVE  CountsFit'
<1>1. ASSUME NEW k \in DOMAIN counts PROVE KeyFits(k)'
  <2>1. \A r \in Through(k) \cup Late(k) : req[r].window # Never
    BY CountedFinite
  <2>2. counts[k].until # Never /\ counts'[k] = counts[k] /\ \A r \in Req : ReqFits(req[r])
    BY CountedFinite, Bounds DEF IInv
  <2>3. Through(k)' = Through(k)
    BY <2>1, <2>2 DEF Through
  <2>4. Late(k)' = Late(k)
    BY <2>1, <2>2 DEF Late, ReqFits
  <2> QED
    BY <2>2, <2>3, <2>4, CountedFinite DEF KeyFits
<1>2. ASSUME NEW r \in Req PROVE WindowFits(r)'
  <2>1. WindowFits(r) /\ clock \in Nat /\ req[r].window \in Nat \cup {Never}
    BY TypeMeans DEF IInv, CountsFit, Request
  <2> QED
    BY <2>1, Bounds DEF WindowFits
<1> QED
  BY <1>1, <1>2 DEF CountsFit, IInv

\* One request changes, and is counted as it was.
LEMMA OneStays ==
  ASSUME IInv, UNCHANGED <<counts, clock>>, NEW r \in Req, NEW q \in Request, req' = [req EXCEPT ![r] = q],
         q.window = req[r].window, q.credited = req[r].credited,
         q.window # Never => q.route = req[r].route /\ q.who = req[r].who
  PROVE  CountsFit'
<1>1. req \in [Req -> Request] /\ clock \in Nat
  BY TypeMeans DEF IInv
<1>2. req'[r] = q /\ \A u \in Req : u # r => req'[u] = req[u]
  BY <1>1
<1>3. \A u \in Req : req[u].window # Never => KeyOf(u)' = KeyOf(u)
  BY <1>2 DEF KeyOf, CallerOf
<1> QED
  BY <1>1, <1>2, <1>3, CountsStay

\* A request counted, and let through or not, keeps its key's budget (spend).
LEMMA Spent ==
  ASSUME IInv, NEW r \in Req, NEW q \in Request, req' = [req EXCEPT ![r] = q], UNCHANGED clock,
         NEW key, key = KeyOf(r), NEW after, CountsOneMore(key, after), counts' = after,
         req[r].window = Never, req[r].credited = Never, q.credited = Never,
         q.window = IF Allowed(after, key) THEN after[key].until ELSE Never,
         q.window # Never => q.route = req[r].route /\ q.who = req[r].who
  PROVE  CountsFit'
<1>1. /\ req \in [Req -> Request] /\ clock \in Nat /\ key \in Caller
      /\ counts \in [DOMAIN counts -> Bucket] /\ DOMAIN counts \subseteq Caller
  BY TypeMeans DEF IInv, CountsFit
<1>2. req'[r] = q /\ \A u \in Req : u # r => req'[u] = req[u]
  BY <1>1
<1>3. (\A u \in Req : u # r => KeyOf(u)' = KeyOf(u)) /\ (q.window # Never => KeyOf(r)' = key)
  BY <1>2 DEF KeyOf, CallerOf
<1>4. /\ DOMAIN after = DOMAIN counts \cup {key} /\ after \in [DOMAIN after -> Bucket]
      /\ \A k \in DOMAIN counts : k # key => after[k] = counts[k]
      /\ Open(counts, key, clock) => after[key].hits = counts[key].hits + 1 /\ after[key].until = counts[key].until
      /\ ~Open(counts, key, clock) => after[key].hits = 1 /\ after[key].until = clock + Seconds
  BY DEF CountsOneMore
<1>5. after[key].until \in Nat /\ after[key].hits \in Nat /\ after[key].until > clock
  BY <1>1, <1>4, Bounds DEF Bucket, Open
<1>6. ASSUME NEW u \in Req PROVE WindowFits(u) /\ WindowFits(u)'
  <2>1. WindowFits(u) /\ req[u].window \in Nat \cup {Never}
    BY <1>1 DEF IInv, CountsFit, Request
  <2>2. CASE u = r
    BY <1>2, <1>3, <1>4, <1>5, <2>1, <2>2, Bounds DEF WindowFits
  <2>3. CASE u # r /\ KeyOf(u) # key
    BY <1>2, <1>3, <1>4, <2>1, <2>3 DEF WindowFits
  <2>4. CASE u # r /\ KeyOf(u) = key
    <3>1. req[u].window # Never => req[u].window <= after[key].until
      <4>1. CASE Open(counts, key, clock)
        BY <1>4, <2>1, <2>4, <4>1 DEF WindowFits, Open
      <4>2. CASE ~Open(counts, key, clock)
        <5>1. key \in DOMAIN counts => counts[key].until \in Nat /\ counts[key].until <= clock
          BY <1>1, <4>2 DEF Open, Bucket
        <5> QED
          BY <1>1, <1>5, <2>1, <2>4, <5>1, Bounds DEF WindowFits
      <4> QED
        BY <4>1, <4>2
    <3> QED
      BY <1>2, <1>3, <1>4, <2>1, <2>4, <3>1 DEF WindowFits
  <2> QED
    BY <2>1, <2>2, <2>3, <2>4
<1>7. ASSUME NEW k \in DOMAIN counts, k # key PROVE KeyFits(k)'
  <2>1. counts'[k] = counts[k] /\ counts[k].until # Never
    BY <1>4, <1>7, CountedFinite, Bounds
  <2>2. Through(k)' = Through(k) /\ Late(k)' = Late(k)
    BY <1>2, <1>3, <1>7, <2>1 DEF Through, Late
  <2> QED
    BY <2>1, <2>2, CountedFinite DEF KeyFits
<1>8. CASE Open(counts, key, clock)
  <2>1. key \in DOMAIN counts /\ after[key].until = counts[key].until /\ after[key].hits = counts[key].hits + 1
    BY <1>4, <1>8 DEF Open
  <2>2. counts[key].until # Never
    BY <2>1, CountedFinite, Bounds
  <2>3. r \notin Through(key) /\ r \notin Late(key) /\ Late(key)' = Late(key)
    BY <1>2, <1>3, <2>1, <2>2 DEF Through, Late
  <2>4. CASE Allowed(after, key)
    <3>1. Through(key)' = Through(key) \cup {r}
      BY <1>2, <1>3, <2>1, <2>2, <2>4 DEF Through
    <3>2. Cardinality(Through(key)') = Cardinality(Through(key)) + 1
      BY ZenonT(60), <2>1, <2>3, <3>1, CountedFinite, FS_AddElement
    <3> QED
      BY <1>7, <1>6, <1>4, <1>1, <2>1, <2>3, <2>4, <3>2, CountedFinite, Bounds DEF KeyFits, Allowed, CountsFit
  <2>5. CASE ~Allowed(after, key)
    <3>1. Through(key)' = Through(key)
      BY <1>2, <1>3, <2>1, <2>2, <2>5 DEF Through
    <3> QED
      BY <1>7, <1>6, <1>4, <1>1, <2>1, <2>3, <3>1, CountedFinite, Bounds DEF KeyFits, CountsFit
  <2> QED
    BY <2>4, <2>5
<1>9. CASE ~Open(counts, key, clock)
  <2>1. after[key].hits = 1 /\ after[key].until = clock + Seconds
    BY <1>4, <1>9
  <2>2. \A u \in Req : u # r /\ KeyOf(u) = key => req[u].window # clock + Seconds
    <3>1. \A u \in Req : KeyOf(u) = key => req[u].window <= clock
      <4>1. key \in DOMAIN counts => counts[key].until \in Nat /\ counts[key].until <= clock
        BY <1>1, <1>9 DEF Open, Bucket
      <4>2. \A u \in Req : req[u].window \in Nat \cup {Never}
        BY <1>1 DEF Request
      <4> QED
        BY <1>1, <1>6, <4>1, <4>2, Bounds DEF WindowFits
    <3>2. \A u \in Req : req[u].window \in Nat \cup {Never}
      BY <1>1 DEF Request
    <3> QED
      BY <1>1, <3>1, <3>2, Bounds
  <2>3. Through(key)' \subseteq {r}
    BY <1>2, <1>3, <2>1, <2>2 DEF Through
  <2>4. Cardinality(Through(key)') \in Nat /\ Cardinality(Through(key)') <= 1
    <3>1. IsFiniteSet({r}) /\ Cardinality({r}) = 1
      BY FS_Singleton
    <3> QED
      BY <2>3, <3>1, FS_Subset, FS_CardinalityType
  <2>5. IsFiniteSet(Late(key)') /\ Cardinality(Late(key)') \in Nat
    <3>1. Late(key)' \subseteq Arrived
      <4>1. \A u \in Req : ReqFits(req[u])
        BY DEF IInv
      <4> QED
        BY <1>2, <1>5, <4>1, Bounds DEF Late, Arrived, ReqFits
    <3> QED
      BY <3>1, FS_Subset, FS_CardinalityType DEF IInv
  <2> QED
    BY <1>1, <1>4, <1>6, <1>7, <2>1, <2>4, <2>5, Bounds DEF KeyFits, CountsFit
<1> QED
  BY <1>8, <1>9

\* A request given back leaves its key's budget: to the window it was counted
\* in, or to a later one, which then may let one more through (limit.ts refund).
LEMMA GivenBack ==
  ASSUME IInv, NEW r \in Req, NEW q \in Request, req' = [req EXCEPT ![r] = q], UNCHANGED clock,
         NEW key, key = KeyOf(r), NEW after, CountsOneLess(key, after), counts' = after,
         req[r].window # Never, req[r].credited = Never,
         q.window = req[r].window, q.route = req[r].route, q.who = req[r].who,
         q.credited = IF key \in DOMAIN counts THEN counts[key].until ELSE Never
  PROVE  CountsFit'
<1>1. /\ req \in [Req -> Request] /\ clock \in Nat
      /\ counts \in [DOMAIN counts -> Bucket] /\ DOMAIN counts \subseteq Caller
  BY TypeMeans DEF IInv, CountsFit
<1>2. req'[r] = q /\ \A u \in Req : u # r => req'[u] = req[u]
  BY <1>1
<1>3. \A u \in Req : KeyOf(u)' = KeyOf(u) /\ req'[u].window = req[u].window
  BY <1>2 DEF KeyOf, CallerOf
<1>4. /\ DOMAIN after = DOMAIN counts /\ after \in [DOMAIN after -> Bucket]
      /\ \A k \in DOMAIN counts : after[k].until = counts[k].until /\ (k # key => after[k].hits = counts[k].hits)
      /\ key \in DOMAIN counts => after[key].hits = (IF counts[key].hits > 0 THEN counts[key].hits - 1 ELSE 0)
  BY DEF CountsOneLess
<1>5. ASSUME NEW u \in Req PROVE WindowFits(u)'
  <2>1. WindowFits(u)
    BY DEF IInv, CountsFit
  <2> QED
    BY <1>3, <1>4, <2>1 DEF WindowFits
<1>6. ASSUME NEW k \in DOMAIN counts, k # key PROVE KeyFits(k)'
  <2>1. counts'[k].until = counts[k].until /\ counts'[k].hits = counts[k].hits
    BY <1>4, <1>6
  <2>2. Through(k)' = Through(k) /\ Late(k)' = Late(k)
    BY <1>2, <1>3, <1>6, <2>1 DEF Through, Late
  <2> QED
    BY <2>1, <2>2, CountedFinite DEF KeyFits
<1>7. ASSUME key \in DOMAIN counts PROVE KeyFits(key)'
  <2>1. /\ counts'[key].until = counts[key].until /\ counts[key].hits \in Nat /\ counts[key].until \in Nat
        /\ counts'[key].hits = (IF counts[key].hits > 0 THEN counts[key].hits - 1 ELSE 0)
        /\ IsFiniteSet(Through(key)) /\ Cardinality(Through(key)) \in Nat
        /\ IsFiniteSet(Late(key)) /\ Cardinality(Late(key)) \in Nat /\ KeyFits(key)
    BY <1>4, <1>7, CountedFinite
  <2>2. q.credited = counts[key].until /\ counts[key].until # Never
    BY <1>7, <2>1, Bounds
  <2>3. CASE req[r].window = counts[key].until
    <3>1. Through(key)' = Through(key) \ {r} /\ r \in Through(key) /\ Late(key)' = Late(key)
      BY <1>2, <1>3, <2>1, <2>2, <2>3 DEF Through, Late
    <3>2. Cardinality(Through(key)') = Cardinality(Through(key)) - 1
      BY <2>1, <3>1, FS_RemoveElement
    <3> QED
      BY <2>1, <3>1, <3>2, Bounds DEF KeyFits
  <2>4. CASE req[r].window # counts[key].until
    <3>1. Through(key)' = Through(key) /\ Late(key)' = Late(key) \cup {r} /\ r \notin Late(key)
      BY <1>2, <1>3, <2>1, <2>2, <2>4 DEF Through, Late
    <3>2. Cardinality(Late(key)') = Cardinality(Late(key)) + 1
      BY <2>1, <3>1, FS_AddElement
    <3> QED
      BY <2>1, <3>1, <3>2, Bounds DEF KeyFits
  <2> QED
    BY <2>3, <2>4
<1> QED
  BY <1>1, <1>4, <1>5, <1>6, <1>7 DEF CountsFit

\* Time passes, and what expired may be swept (limit.ts sweep).
LEMMA TickCounts == ASSUME IInv, Tick PROVE CountsFit'
<1>1. /\ clock \in Nat /\ clock' = clock + 1 /\ req' = req /\ counts' \in {counts, Swept(counts, clock + 1)}
      /\ counts \in [DOMAIN counts -> Bucket] /\ DOMAIN counts \subseteq Caller
  BY TypeMeans DEF Tick, IInv, CountsFit
<1>2. CASE counts' = counts
  BY <1>1, <1>2, CountsStay DEF KeyOf, CallerOf
<1>3. CASE counts' = Swept(counts, clock + 1)
  <2> DEFINE kept == {k \in DOMAIN counts : counts[k].until > clock + 1}
  <2>1. counts' = [k \in kept |-> counts[k]]
    BY <1>3 DEF Swept, Restrict
  <2>2. ASSUME NEW k \in kept PROVE KeyFits(k)'
    <3>1. Through(k)' = Through(k) /\ Late(k)' = Late(k) /\ counts'[k] = counts[k]
      BY <1>1, <2>1 DEF Through, Late, KeyOf, CallerOf
    <3> QED
      BY <3>1, CountedFinite DEF KeyFits
  <2>3. ASSUME NEW r \in Req PROVE WindowFits(r)'
    <3>1. KeyOf(r)' = KeyOf(r) /\ WindowFits(r) /\ req[r].window \in Nat \cup {Never}
      BY <1>1, TypeMeans DEF KeyOf, CallerOf, IInv, CountsFit, Request
    <3>2. CASE KeyOf(r) \in kept
      BY <1>1, <2>1, <3>1, <3>2 DEF WindowFits
    <3>3. CASE KeyOf(r) \notin kept
      <4>1. KeyOf(r) \in DOMAIN counts => counts[KeyOf(r)].until \in Nat /\ counts[KeyOf(r)].until <= clock + 1
        BY <1>1, <3>3 DEF Bucket
      <4> QED
        BY <1>1, <2>1, <3>1, <3>3, <4>1, Bounds DEF WindowFits
    <3> QED
      BY <3>2, <3>3
  <2> QED
    BY <1>1, <2>1, <2>2, <2>3 DEF CountsFit
<1> QED
  BY <1>1, <1>2, <1>3

-----------------------------------------------------------------------------
(* Steps *)

\* A step of one request keeps the invariant when its record and its stream fit,
\* its caller's slots add up and the counts do.
LEMMA RequestStep ==
  ASSUME IInv, NEW r \in Req, NEW q \in Request, NEW s \in Channel,
         req' = [req EXCEPT ![r] = q], stream' = [stream EXCEPT ![r] = s], UNCHANGED <<clock, phase>>,
         CountsFit', ReqFits(q), StreamFits(q, s),
         KeepsSlot(r, q, s) \/ TakesSlot(r, q, s) \/ GivesSlot(r, q, s),
         q.at = "handling" => req[r].at = "handling" \/ phase = "serving",
         phase # "serving" => ToldOf(q, s)
  PROVE  IInv'
<1>1. req \in [Req -> Request] /\ stream \in [Req -> Channel] /\ TypeOK /\ IsFiniteSet(Arrived)
  BY TypeMeans DEF IInv
<1>2. /\ req' \in [Req -> Request] /\ stream' \in [Req -> Channel] /\ req'[r] = q /\ stream'[r] = s
      /\ \A u \in Req : u # r => req'[u] = req[u] /\ stream'[u] = stream[u]
  BY <1>1
<1>3. perCaller' \in [Caller -> Nat] /\ \A c \in Caller : CallerFits(c)'
  BY SlotsStep
<1>4. TypeOK'
  BY <1>1, <1>2, <1>3 DEF TypeOK, Request, Channel, CountsFit, Bucket
<1>5. IsFiniteSet(Arrived)'
  BY <1>1, ArrivedFinite
<1>6. \A u \in Req : ReqFits(req'[u]) /\ StreamFits(req'[u], stream'[u])
  BY <1>2 DEF IInv
<1>7. StopFits'
  BY <1>2 DEF IInv, StopFits, InFlight
<1> QED
  BY <1>3, <1>4, <1>5, <1>6, <1>7 DEF IInv

\* A step of a stream that neither opens nor ends it, and untells it nothing,
\* keeps the invariant (events.ts).
LEMMA ChannelStep ==
  ASSUME IInv, NEW r \in Req, NEW s \in Channel, stream' = [stream EXCEPT ![r] = s],
         s.slot = stream[r].slot, stream[r].told # "none" => s.told # "none",
         s.gen = stream[r].gen \/ s.gen \in Pulled, UNCHANGED <<req, perCaller, counts, clock, phase>>
  PROVE  IInv'
<1>1. /\ req[r] \in Request /\ req' = [req EXCEPT ![r] = req[r]]
      /\ ReqFits(req[r]) /\ StreamFits(req[r], stream[r])
  BY TypeMeans DEF IInv
<1>2. CountsFit'
  BY <1>1, OneStays
<1>3. KeepsSlot(r, req[r], s) /\ StreamFits(req[r], s) /\ (phase # "serving" => ToldOf(req[r], s))
  BY <1>1 DEF KeepsSlot, StreamFits, IInv, StopFits, ToldOf
<1>4. req[r].at = "handling" => req[r].at = "handling" \/ phase = "serving"
  OBVIOUS
<1> QED
  BY <1>1, <1>2, <1>3, <1>4, RequestStep

\* A request answered before any stream was opened for it (serve.ts respond).
LEMMA AnswersStep ==
  ASSUME IInv, NEW r \in Req, Answers(r), stream[r].slot # "open", UNCHANGED <<stream, perCaller, counts, clock, phase>>
  PROVE  IInv'
<1>1. req[r] \in Request /\ stream[r] \in Channel /\ stream' = [stream EXCEPT ![r] = stream[r]] /\ ReqFits(req[r])
  BY TypeMeans DEF IInv
<1>2. PICK q \in Request : q = Over(req[r])
  BY <1>1, OverType
<1>3. /\ req' = [req EXCEPT ![r] = q] /\ q.at = "answered" /\ q.window = req[r].window /\ q.credited = req[r].credited
      /\ q.window # Never => q.route = req[r].route /\ q.who = req[r].who
  BY <1>1, <1>2, OverType DEF Answers
<1>4. CountsFit'
  BY <1>3, OneStays
<1>5. ReqFits(q)
  BY <1>1, <1>2, AnsweredFits DEF ReqFits
<1>6. KeepsSlot(r, q, stream[r]) /\ StreamFits(q, stream[r]) /\ ToldOf(q, stream[r])
  BY <1>3 DEF KeepsSlot, StreamFits, ToldOf
<1> QED
  BY <1>1, <1>3, <1>4, <1>5, <1>6, RequestStep

\* However a stream ends, its slot is given back once (request.ts release).
LEMMA EndsStep ==
  ASSUME IInv, NEW r \in Req, NEW gen \in {"none", "done"}, Release(r, gen), Answers(r), UNCHANGED <<counts, clock, phase>>
  PROVE  IInv'
<1>1. req[r] \in Request /\ stream[r] \in Channel /\ ReqFits(req[r])
  BY TypeMeans DEF IInv
<1>2. PICK q \in Request : q = Over(req[r])
  BY <1>1, OverType
<1>3. /\ req' = [req EXCEPT ![r] = q] /\ q.at = "answered" /\ q.window = req[r].window /\ q.credited = req[r].credited
      /\ q.window # Never => q.route = req[r].route /\ q.who = req[r].who
  BY <1>1, <1>2, OverType DEF Answers
<1> DEFINE s == [NewStream EXCEPT !.slot = Released(r), !.gen = gen]
<1>4. s \in Channel /\ s.slot # "open" /\ stream' = [stream EXCEPT ![r] = s]
  BY <1>1 DEF NewStream, Released, Channel, Release
<1> HIDE DEF s
<1>5. CountsFit'
  BY <1>3, OneStays
<1>6. ReqFits(q) /\ StreamFits(q, s) /\ ToldOf(q, s)
  BY <1>1, <1>2, <1>3, <1>4, AnsweredFits DEF ReqFits, StreamFits, ToldOf
<1>7. KeepsSlot(r, q, s) \/ GivesSlot(r, q, s)
  BY <1>4 DEF KeepsSlot, GivesSlot, Release
<1> QED
  BY <1>3, <1>4, <1>5, <1>6, <1>7, RequestStep

\* A request comes, and one another site may have forged is turned away at once
\* (serve.ts isForgeable).
LEMMA ArriveStep ==
  ASSUME IInv, NEW r \in Req, NEW route \in Route, NEW shape \in Shape, Arrive(r, route, shape)
  PROVE  IInv'
<1>1. /\ req[r] \in Request /\ stream[r] \in Channel /\ stream' = [stream EXCEPT ![r] = stream[r]]
      /\ ReqFits(req[r]) /\ StreamFits(req[r], stream[r])
  BY TypeMeans DEF IInv, Arrive
<1>2. /\ req[r].at = "idle" /\ req[r].window = Never /\ req[r].credited = Never /\ stream[r].slot # "open"
      /\ UNCHANGED <<perCaller, counts, clock, phase>>
  BY <1>1 DEF Arrive, ReqFits, StreamFits
<1> DEFINE sent == [NewReq EXCEPT !.at = "asked", !.route = route, !.shape = shape]
<1>3. /\ sent \in Request /\ sent.at = "asked"
      /\ sent.window = Never /\ sent.credited = Never
  BY OverType DEF Request, At
<1>4. req' = [req EXCEPT ![r] = IF Forgeable(route, shape) THEN Over(sent) ELSE sent]
  BY DEF Arrive
<1> HIDE DEF sent
<1>5. ReqFits(Over(sent)) /\ ReqFits(sent)
  BY <1>3, AnsweredFits DEF ReqFits
<1>6. PICK q \in Request : /\ req' = [req EXCEPT ![r] = q] /\ ReqFits(q) /\ q.at \notin {"handling", "streaming"}
                           /\ q.window = Never /\ q.credited = Never
  <2>1. CASE Forgeable(route, shape)
    <3>1. req' = [req EXCEPT ![r] = Over(sent)]
      BY <1>4, <2>1
    <3>2. Over(sent) \in Request /\ Over(sent).at = "answered" /\ Over(sent).window = Never /\ Over(sent).credited = Never
      BY <1>3, OverType
    <3> QED
      BY <1>5, <3>1, <3>2
  <2>2. CASE ~Forgeable(route, shape)
    BY <1>3, <1>4, <1>5, <2>2
  <2> QED
    BY <2>1, <2>2
<1>7. CountsFit'
  BY <1>2, <1>6, OneStays
<1>8. KeepsSlot(r, q, stream[r]) /\ StreamFits(q, stream[r]) /\ ToldOf(q, stream[r])
  BY <1>2, <1>6 DEF KeepsSlot, StreamFits, ToldOf
<1> QED
  BY <1>1, <1>2, <1>6, <1>7, <1>8, RequestStep

\* A request is told whom it runs as, and nothing else of it changes (serve.ts
\* identity).
LEMMA IdentifyStep == ASSUME IInv, NEW r \in Req, Identify(r) PROVE IInv'
<1>1. /\ req[r] \in Request /\ stream[r] \in Channel /\ stream' = [stream EXCEPT ![r] = stream[r]]
      /\ ReqFits(req[r]) /\ StreamFits(req[r], stream[r])
  BY TypeMeans DEF IInv, Identify
<1>2. /\ req[r].at = "asked" /\ req[r].window = Never /\ req[r].credited = Never /\ stream[r].slot # "open"
      /\ UNCHANGED <<stream, perCaller, counts, clock, phase>>
  BY <1>1 DEF Identify, ReqFits, StreamFits
<1>3. ASSUME NEW who \in WhoMayBe(r), req' = [req EXCEPT ![r].who = who, ![r].at = "reading"] PROVE IInv'
  <2> DEFINE q == [req[r] EXCEPT !.who = who, !.at = "reading"]
  <2>1. who \in User \cup {Nobody}
    BY <1>3 DEF WhoMayBe
  <2>2. /\ q \in Request /\ q.who = who /\ q.at = "reading" /\ q.window = Never /\ q.credited = Never
        /\ q.route = req[r].route
    BY <1>1, <1>2, <2>1 DEF Request, At
  <2>3. req' = [req EXCEPT ![r] = q]
    BY <1>3
  <2> HIDE DEF q
  <2>4. CountsFit'
    BY <1>2, <2>2, <2>3, OneStays
  <2>5. ReqFits(q)
    BY <1>1, <1>2, <2>1, <2>2 DEF ReqFits
  <2>6. KeepsSlot(r, q, stream[r]) /\ StreamFits(q, stream[r]) /\ ToldOf(q, stream[r])
    BY <1>2, <2>2 DEF KeepsSlot, StreamFits, ToldOf
  <2> QED
    BY <1>1, <1>2, <2>2, <2>3, <2>4, <2>5, <2>6, RequestStep
<1> QED
  BY <1>2, <1>3, AnswersStep DEF Identify

\* A request refused before its limit is read (serve.ts, kernel.handle).
LEMMA TurnAwayStep == ASSUME IInv, NEW r \in Req, TurnAway(r) PROVE IInv'
<1>1. stream[r].slot # "open"
  BY DEF IInv, TurnAway, StreamFits
<1> QED
  BY <1>1, AnswersStep DEF TurnAway

\* The caller takes frames, the source yields them, and it ends one of its ways
\* (events.ts streamedEvents, eventStream).
LEMMA YieldsStep ==
  ASSUME IInv, NEW r \in Req, NEW gen \in {"held", "last"}, Yields(r, gen), UNCHANGED <<counts, clock, phase>>
  PROVE  IInv'
<1>1. stream[r] \in Channel
  BY TypeMeans DEF IInv
<1>2. CASE req[r].left
  BY <1>2, EndsStep DEF Yields, Ends
<1>3. CASE ~req[r].left
  <2> DEFINE s == [stream[r] EXCEPT !.gen = gen]
  <2>1. s \in Channel /\ s.slot = stream[r].slot /\ s.told = stream[r].told /\ s.gen \in Pulled
    BY <1>1 DEF Channel, Pulled
  <2>2. stream' = [stream EXCEPT ![r] = s] /\ UNCHANGED <<req, perCaller, counts, clock, phase>>
    BY <1>3 DEF Yields
  <2> HIDE DEF s
  <2> QED
    BY <2>1, <2>2, ChannelStep
<1> QED
  BY <1>2, <1>3

\* Whatever its stream does next, its caller's slot is counted (events.ts).
LEMMA FlowsStep == ASSUME IInv, NEW r \in Req, Flows(r) PROVE IInv'
<1>1. UNCHANGED <<counts, clock, phase>>
  BY DEF Flows, Frame, SourceEnds, Told, Take, Cancel
<1>2. \/ \E gen \in {"held", "last"} : Yields(r, gen)
      \/ Ends(r)
      \/ stream' = [stream EXCEPT ![r].gen = "waiting"] /\ UNCHANGED <<req, perCaller>>
  BY DEF Flows, Frame, SourceEnds, Told, Take, Cancel
<1>3. CASE \E gen \in {"held", "last"} : Yields(r, gen)
  BY <1>1, <1>3, YieldsStep
<1>4. CASE Ends(r)
  BY <1>1, <1>4, EndsStep DEF Ends
<1>5. CASE stream' = [stream EXCEPT ![r].gen = "waiting"] /\ UNCHANGED <<req, perCaller>>
  <2> DEFINE s == [stream[r] EXCEPT !.gen = "waiting"]
  <2>1. stream[r] \in Channel
    BY TypeMeans DEF IInv
  <2>2. /\ s \in Channel /\ s.slot = stream[r].slot /\ s.told = stream[r].told /\ s.gen \in Pulled
        /\ stream' = [stream EXCEPT ![r] = s]
    BY <1>5, <2>1 DEF Channel, Pulled
  <2> HIDE DEF s
  <2> QED
    BY <1>1, <1>5, <2>2, ChannelStep
<1> QED
  BY <1>2, <1>3, <1>4, <1>5

\* The lifetime timer tells an open stream it expired (request.ts openStream).
LEMMA ExpireStep == ASSUME IInv, NEW r \in Req, Expire(r) PROVE IInv'
<1> DEFINE s == [stream[r] EXCEPT !.told = "EXPIRED"]
<1>1. stream[r] \in Channel
  BY TypeMeans DEF IInv
<1>2. /\ s \in Channel /\ s.slot = stream[r].slot /\ s.told = "EXPIRED" /\ s.gen = stream[r].gen
      /\ stream' = [stream EXCEPT ![r] = s]
  BY <1>1 DEF Channel, Ending, Expire
<1> HIDE DEF s
<1> QED
  BY <1>2, ChannelStep DEF Expire

\* A caller that leaves is told of to its stream, if it was open by then.
LEMMA LeaveStep == ASSUME IInv, NEW r \in Req, Leave(r) PROVE IInv'
<1>1. req[r] \in Request /\ stream[r] \in Channel /\ ReqFits(req[r]) /\ StreamFits(req[r], stream[r])
  BY TypeMeans DEF IInv
<1> DEFINE q == [req[r] EXCEPT !.left = TRUE]
           s == [stream[r] EXCEPT !.told = EndingOf(r, "GONE")]
<1>2. /\ q \in Request /\ q.at = req[r].at /\ q.window = req[r].window /\ q.credited = req[r].credited
      /\ q.route = req[r].route /\ q.who = req[r].who
  BY <1>1 DEF Request
<1>3. /\ s \in Channel /\ s.slot = stream[r].slot /\ s.gen = stream[r].gen
      /\ stream[r].told # "none" => s.told # "none"
  BY <1>1 DEF Channel, Ending, EndingOf
<1>4. /\ req' = [req EXCEPT ![r] = q] /\ stream' = [stream EXCEPT ![r] = s]
      /\ UNCHANGED <<perCaller, counts, clock, phase>>
  BY DEF Leave
<1> HIDE DEF q, s
<1>5. CountsFit'
  BY <1>2, <1>4, OneStays
<1>6. ReqFits(q) /\ StreamFits(q, s) /\ KeepsSlot(r, q, s)
  BY <1>1, <1>2, <1>3, <1>4 DEF ReqFits, StreamFits, KeepsSlot
<1>7. phase # "serving" => ToldOf(q, s)
  BY <1>2, <1>3 DEF IInv, StopFits, ToldOf
<1> QED
  BY <1>2, <1>3, <1>4, <1>5, <1>6, <1>7, RequestStep

\* A handler that throws gives back the slot it held (serve.ts respond).
LEMMA FailsStep == ASSUME IInv, NEW r \in Req, Fails(r) PROVE IInv'
  BY EndsStep DEF Fails

-----------------------------------------------------------------------------
(* Steps that count *)

\* A request counted as its route's limit asks, whatever comes of it
\* (request.ts, limit.ts).
LEMMA SpendsCounts ==
  ASSUME IInv, NEW r \in Req, Reaches(r), NEW q \in Request, req' = [req EXCEPT ![r] = q],
         counts' = Counted(r), UNCHANGED clock, q.credited = Never,
         q.window = IF Within(r) THEN WindowOf(r) ELSE Never,
         q.window # Never => q.route = req[r].route /\ q.who = req[r].who
  PROVE  CountsFit'
<1>1. req[r].window = Never /\ req[r].credited = Never
  BY DEF IInv, ReqFits, Reaches
<1>2. CASE req[r].route.limited
  <2>1. PICK key : key = KeyOf(r)
    OBVIOUS
  <2>2. PICK after : after = Spend(counts, key, clock) /\ CountsOneMore(key, after)
    BY SpendCounts
  <2>3. Counted(r) = after /\ (Within(r) <=> Allowed(after, key)) /\ WindowOf(r) = after[key].until
    BY <1>2, <2>1, <2>2 DEF Counted, Within, WindowOf
  <2>4. counts' = after /\ q.window = IF Allowed(after, key) THEN after[key].until ELSE Never
    BY <2>3
  <2> QED
    BY <1>1, <2>1, <2>2, <2>4, Spent
<1>3. CASE ~req[r].route.limited
  <2>1. counts' = counts /\ q.window = Never
    BY <1>3 DEF Counted, Within, WindowOf
  <2> QED
    BY <1>1, <2>1, OneStays
<1> QED
  BY <1>2, <1>3

\* The window a request is counted in is a time, or none.
LEMMA WindowType == ASSUME IInv, NEW r \in Req PROVE
  /\ WindowOf(r) \in Nat \cup {Never}
  /\ req[r].route.limited => WindowOf(r) # Never
<1>1. PICK key : key = KeyOf(r)
  OBVIOUS
<1>2. PICK after : after = Spend(counts, key, clock) /\ CountsOneMore(key, after)
  BY SpendCounts
<1>3. after[key].until \in Nat
  BY <1>2 DEF CountsOneMore, Bucket
<1> QED
  BY <1>1, <1>2, <1>3, Bounds DEF WindowOf, Counted

\* A request counted and refused (request.ts).
LEMMA RefuseStep == ASSUME IInv, NEW r \in Req, Refuse(r) PROVE IInv'
<1>1. /\ req[r] \in Request /\ stream[r] \in Channel /\ stream' = [stream EXCEPT ![r] = stream[r]]
      /\ ReqFits(req[r]) /\ StreamFits(req[r], stream[r]) /\ Reaches(r)
  BY TypeMeans DEF IInv, Refuse
<1>2. req[r].at = "reading" /\ req[r].credited = Never /\ stream[r].slot # "open" /\ UNCHANGED <<perCaller, clock, phase>>
  BY <1>1 DEF Reaches, Refuse, ReqFits, StreamFits
<1> DEFINE counted == [req[r] EXCEPT !.at = "answered", !.window = IF Within(r) THEN WindowOf(r) ELSE Never]
<1>3. /\ counted \in Request /\ counted.credited = Never /\ counted.route = req[r].route /\ counted.who = req[r].who
      /\ counted.window = (IF Within(r) THEN WindowOf(r) ELSE Never)
  <2>1. (IF Within(r) THEN WindowOf(r) ELSE Never) \in Nat \cup {Never}
    BY WindowType
  <2> QED
    BY <1>1, <1>2, <2>1 DEF Request, At
<1>4. req' = [req EXCEPT ![r] = Over(counted)] /\ counts' = Counted(r)
  BY DEF Refuse, Spends
<1> HIDE DEF counted
<1>5. PICK q \in Request : q = Over(counted)
  BY <1>3, OverType
<1>6. /\ q.at = "answered" /\ q.credited = Never /\ q.window = (IF Within(r) THEN WindowOf(r) ELSE Never)
      /\ q.window # Never => q.route = req[r].route /\ q.who = req[r].who
  BY <1>3, <1>5, OverType
<1>7. CountsFit'
  BY <1>1, <1>2, <1>4, <1>5, <1>6, SpendsCounts
<1>8. ReqFits(q)
  BY <1>3, <1>5, AnsweredFits
<1>9. KeepsSlot(r, q, stream[r]) /\ StreamFits(q, stream[r]) /\ ToldOf(q, stream[r])
  BY <1>2, <1>6 DEF KeepsSlot, StreamFits, ToldOf
<1> QED
  BY <1>1, <1>2, <1>4, <1>5, <1>6, <1>7, <1>8, <1>9, RequestStep

\* A handler starts only while the process serves; one that streams takes its
\* caller's slot (request.ts openStream).
LEMMA StartStep == ASSUME IInv, NEW r \in Req, Start(r) PROVE IInv'
<1>1. /\ req[r] \in Request /\ stream[r] \in Channel /\ stream \in [Req -> Channel]
      /\ ReqFits(req[r]) /\ StreamFits(req[r], stream[r]) /\ Reaches(r) /\ Within(r) /\ phase = "serving"
  BY TypeMeans DEF IInv, Start, Reaches, Running
<1>2. req[r].at = "reading" /\ req[r].credited = Never /\ stream[r].slot # "open" /\ UNCHANGED <<clock, phase>>
  BY <1>1 DEF Reaches, Start, ReqFits, StreamFits
<1> DEFINE q == [req[r] EXCEPT !.at = "handling", !.window = WindowOf(r)]
<1>3. /\ q \in Request /\ q.at = "handling" /\ q.credited = Never /\ q.window = WindowOf(r)
      /\ q.route = req[r].route /\ q.who = req[r].who
  <2>1. WindowOf(r) \in Nat \cup {Never}
    BY WindowType
  <2> QED
    BY <1>1, <1>2, <2>1 DEF Request, At
<1>4. req' = [req EXCEPT ![r] = q] /\ counts' = Counted(r)
  BY <1>1 DEF Start, Spends
<1> HIDE DEF q
<1>5. CountsFit'
  BY <1>1, <1>2, <1>3, <1>4, SpendsCounts
<1>6. ReqFits(q)
  BY <1>1, <1>2, <1>3, WindowType DEF ReqFits
<1>7. CASE req[r].route.kind = "stream"
  <2>1. Opened \in Channel /\ Opened.slot = "open" /\ stream' = [stream EXCEPT ![r] = Opened]
    BY <1>7 DEF Opened, Channel, Start
  <2>2. TakesSlot(r, q, Opened)
    BY <1>2, <1>3, <1>7, <2>1 DEF TakesSlot, Start, HasSlot
  <2>3. StreamFits(q, Opened)
    BY <1>3, <1>7, <2>1 DEF StreamFits
  <2> QED
    BY <1>1, <1>2, <1>3, <1>4, <1>5, <1>6, <2>1, <2>2, <2>3, RequestStep
<1>8. CASE req[r].route.kind # "stream"
  <2>1. UNCHANGED <<stream, perCaller>> /\ stream' = [stream EXCEPT ![r] = stream[r]]
    BY <1>1, <1>8 DEF Start
  <2>2. KeepsSlot(r, q, stream[r]) /\ StreamFits(q, stream[r])
    BY <1>2, <1>3, <1>8, <2>1 DEF KeepsSlot, StreamFits
  <2> QED
    BY <1>1, <1>2, <1>3, <1>4, <1>5, <1>6, <2>1, <2>2, RequestStep
<1> QED
  BY <1>7, <1>8

\* A handler that answered gives its request back where its route says so; its
\* stream goes on with the slot it has or takes (serve.ts respond, limit.ts).
LEMMA SucceedsStep ==
  ASSUME IInv, NEW r \in Req, req[r].at = "handling", NEW at \in {"answered", "streaming"}, Succeeds(r, at),
         NEW s \in Channel, stream' = [stream EXCEPT ![r] = s], UNCHANGED <<clock, phase>>,
         at = "answered" <=> s.slot # "open", at = "streaming" => s.gen \in Pulled,
         \/ perCaller' = perCaller /\ (s.slot = "open" <=> stream[r].slot = "open")
         \/ /\ s.slot = "open" /\ stream[r].slot # "open" /\ perCaller[CallerOf(r)] < Most
            /\ perCaller' = [perCaller EXCEPT ![CallerOf(r)] = perCaller[CallerOf(r)] + 1],
         phase # "serving" => ToldOf(req[r], s)
  PROVE  IInv'
<1>1. req[r] \in Request /\ ReqFits(req[r]) /\ req[r].credited = Never
  BY TypeMeans DEF IInv, ReqFits
<1>2. PICK key : key = KeyOf(r)
  OBVIOUS
<1>3. PICK credited \in Nat \cup {Never} :
        /\ credited = IF GivesBack(r) /\ key \in DOMAIN counts THEN counts[key].until ELSE req[r].credited
        /\ credited # Never => GivesBack(r)
  <2>1. key \in DOMAIN counts => counts[key].until \in Nat
    BY CountedFinite
  <2> QED
    BY <1>1, <2>1 DEF Request
<1> DEFINE done == [req[r] EXCEPT !.at = at, !.credited = credited]
<1>4. /\ done \in Request /\ done.at = at /\ done.window = req[r].window /\ done.credited = credited
      /\ done.route = req[r].route /\ done.who = req[r].who
  BY <1>1 DEF Request, At
<1>5. /\ counts' = IF GivesBack(r) THEN Refund(counts, key) ELSE counts
      /\ req' = [req EXCEPT ![r] = IF at = "answered" THEN Over(done) ELSE done]
  BY <1>2, <1>3 DEF Succeeds
<1> HIDE DEF done
<1>6. PICK q \in Request : q = IF at = "answered" THEN Over(done) ELSE done
  BY <1>4, OverType
<1>7. /\ q.at = at /\ q.window = req[r].window /\ q.credited = credited
      /\ q.window # Never => q.route = req[r].route /\ q.who = req[r].who
      /\ at = "streaming" => q = done
  BY <1>4, <1>6, OverType
<1>8. GivesBack(r) => req[r].window # Never
  BY <1>1 DEF GivesBack, ReqFits
<1>9. CountsFit'
  <2>1. CASE GivesBack(r)
    <3>1. PICK after : after = Refund(counts, key) /\ CountsOneLess(key, after)
      BY RefundCounts
    <3>2. counts' = after /\ q.credited = IF key \in DOMAIN counts THEN counts[key].until ELSE Never
      BY <1>1, <1>3, <1>5, <1>7, <2>1, <3>1
    <3> QED
      BY <1>1, <1>2, <1>5, <1>6, <1>7, <1>8, <2>1, <3>1, <3>2, GivenBack
  <2>2. CASE ~GivesBack(r)
    <3>1. counts' = counts /\ q.credited = req[r].credited
      BY <1>3, <1>5, <1>7, <2>2
    <3> QED
      BY <1>5, <1>6, <1>7, <3>1, OneStays
  <2> QED
    BY <2>1, <2>2
<1>10. ReqFits(q)
  <2>1. done.credited # Never => done.window # Never
    BY <1>3, <1>4, <1>8
  <2>2. CASE at = "answered"
    BY <1>4, <1>6, <2>1, <2>2, AnsweredFits
  <2>3. CASE at = "streaming"
    BY <1>1, <1>4, <1>7, <2>1, <2>3 DEF ReqFits
  <2> QED
    BY <2>2, <2>3
<1>11. KeepsSlot(r, q, s) \/ TakesSlot(r, q, s)
  BY <1>4, <1>7 DEF KeepsSlot, TakesSlot
<1>12. StreamFits(q, s) /\ q.at # "handling" /\ (phase # "serving" => ToldOf(q, s))
  BY <1>4, <1>7 DEF StreamFits, ToldOf
<1> QED
  BY <1>5, <1>6, <1>9, <1>10, <1>11, <1>12, RequestStep

\* One answer, of a route that opened no stream (serve.ts respond).
LEMMA AnswersValueStep == ASSUME IInv, NEW r \in Req, AnswersValue(r) PROVE IInv'
<1>1. /\ stream[r] \in Channel /\ stream[r].slot # "open" /\ stream' = [stream EXCEPT ![r] = stream[r]]
      /\ req[r].at = "handling" /\ Succeeds(r, "answered") /\ UNCHANGED <<perCaller, clock, phase>>
  BY TypeMeans DEF IInv, AnswersValue, StreamFits
<1> QED
  BY <1>1, SucceedsStep DEF ToldOf

\* Events: the slot was taken before, or is now, or there is none (request.ts).
LEMMA AnswersEventsStep == ASSUME IInv, NEW r \in Req, AnswersEvents(r) PROVE IInv'
<1>1. /\ stream[r] \in Channel /\ StreamFits(req[r], stream[r]) /\ req[r].at = "handling" /\ UNCHANGED <<clock, phase>>
  BY TypeMeans DEF IInv, AnswersEvents
<1>2. CASE /\ req[r].route.kind = "stream" /\ stream' = [stream EXCEPT ![r].gen = "waiting"]
           /\ Succeeds(r, "streaming") /\ UNCHANGED perCaller
  <2> DEFINE s == [stream[r] EXCEPT !.gen = "waiting"]
  <2>1. /\ s \in Channel /\ s.slot = stream[r].slot /\ s.told = stream[r].told /\ s.gen \in Pulled
        /\ s.slot = "open" /\ stream' = [stream EXCEPT ![r] = s]
    BY <1>1, <1>2 DEF Channel, Pulled, StreamFits
  <2> HIDE DEF s
  <2>2. phase # "serving" => ToldOf(req[r], s)
    BY <2>1 DEF IInv, StopFits, ToldOf
  <2> QED
    BY ZenonT(60), <1>1, <1>2, <2>1, <2>2, SucceedsStep
<1>3. CASE /\ req[r].route.kind = "either" /\ HasSlot(r)
           /\ stream' = [stream EXCEPT ![r] = [Opened EXCEPT !.gen = "waiting"]]
           /\ perCaller' = [perCaller EXCEPT ![CallerOf(r)] = @ + 1]
           /\ Succeeds(r, "streaming")
  <2> DEFINE s == [Opened EXCEPT !.gen = "waiting"]
  <2>1. s \in Channel /\ s.slot = "open" /\ s.gen \in Pulled /\ stream' = [stream EXCEPT ![r] = s]
    BY <1>3 DEF Channel, Opened, Pulled
  <2> HIDE DEF s
  <2>2. stream[r].slot # "open" /\ ToldOf(req[r], s)
    BY <1>1, <1>3 DEF StreamFits, ToldOf
  <2> QED
    BY <1>1, <1>3, <2>1, <2>2, SucceedsStep DEF HasSlot
<1>4. CASE /\ req[r].route.kind = "either" /\ ~HasSlot(r) /\ Answers(r)
           /\ UNCHANGED <<stream, perCaller, counts>>
  BY <1>1, <1>4, AnswersStep DEF StreamFits
<1> QED
  BY <1>2, <1>3, <1>4 DEF AnswersEvents

-----------------------------------------------------------------------------
(* The process *)

\* A stop tells every open stream, and the rest of it moves the phase alone; it
\* tears down only once nothing is in flight (kernel.stop).
LEMMA ProcessStep == ASSUME IInv, Stop \/ Drained \/ Teardown \/ Exit PROVE IInv'
<1>1. TypeOK /\ stream \in [Req -> Channel] /\ UNCHANGED <<req, perCaller, counts, clock>> /\ phase' \in Phase
  BY TypeMeans DEF IInv, Stop, Drained, Teardown, Exit, Phase
<1>2. /\ stream' \in [Req -> Channel]
      /\ \A r \in Req : /\ stream'[r].slot = stream[r].slot /\ stream'[r].gen = stream[r].gen
                        /\ stream[r].told # "none" => stream'[r].told # "none"
  <2>1. CASE stream' = stream
    BY <1>1, <2>1
  <2>2. CASE Stop
    <3>1. ASSUME NEW r \in Req
          PROVE  /\ stream'[r] \in Channel /\ stream'[r].slot = stream[r].slot /\ stream'[r].gen = stream[r].gen
                 /\ stream[r].told # "none" => stream'[r].told # "none"
      <4>1. stream[r] \in Channel /\ stream'[r] = [stream[r] EXCEPT !.told = EndingOf(r, "RESTARTING")]
        BY <1>1, <2>2 DEF Stop
      <4> QED
        BY <4>1 DEF Channel, Ending, EndingOf
    <3>2. stream' = [r \in Req |-> stream'[r]]
      BY <2>2 DEF Stop
    <3> QED
      BY <3>1, <3>2
  <2> QED
    BY <2>1, <2>2 DEF Drained, Teardown, Exit
<1>3. TypeOK'
  BY <1>1, <1>2 DEF TypeOK, Channel
<1>4. IsFiniteSet(Arrived)' /\ \A r \in Req : (ReqFits(req[r]) /\ StreamFits(req[r], stream[r]))'
  BY <1>1, <1>2 DEF IInv, Arrived, StreamFits
<1>5. \A c \in Caller : CallerFits(c)'
  <2>1. \A c \in Caller : SlotsOf(c)' = SlotsOf(c)
    BY <1>1, <1>2 DEF SlotsOf, Active, CallerOf
  <2> QED
    BY <1>1, <2>1 DEF IInv, CallerFits
<1>6. CountsFit'
  <2>1. clock \in Nat /\ \A r \in Req : KeyOf(r)' = KeyOf(r)
    BY <1>1, TypeMeans DEF KeyOf, CallerOf
  <2> QED
    BY <1>1, <2>1, CountsStay
<1>7. StopFits'
  <2>1. phase' = "closing" => InFlight' = {}
    BY <1>1 DEF Stop, Drained, Teardown, Exit, InFlight
  <2>2. \A r \in Req : ToldOf(req'[r], stream'[r])
    <3>1. CASE phase # "serving"
      BY <1>1, <1>2, <3>1 DEF IInv, StopFits, ToldOf
    <3>2. CASE phase = "serving"
      <4>1. Stop
        BY <3>2 DEF Drained, Teardown, Exit
      <4>2. \A r \in Req : stream'[r].slot = "open" => stream'[r].told # "none"
        <5>1. ASSUME NEW r \in Req PROVE stream'[r] = [stream[r] EXCEPT !.told = EndingOf(r, "RESTARTING")]
          BY <4>1 DEF Stop
        <5> QED
          BY <1>1, <5>1 DEF EndingOf, Channel
      <4> QED
        BY <4>2 DEF ToldOf
    <3> QED
      BY <3>1, <3>2
  <2> QED
    BY <2>1, <2>2 DEF StopFits
<1> QED
  BY <1>3, <1>4, <1>5, <1>6, <1>7 DEF IInv

\* Time passing touches no request, no stream and no slot (limit.ts sweep).
LEMMA TickStep == ASSUME IInv, Tick PROVE IInv'
<1>1. TypeOK /\ UNCHANGED <<req, stream, perCaller, phase>> /\ CountsFit' /\ clock' \in 0..MaxTime
  BY TickCounts, ServingAssumption DEF IInv, Tick, TypeOK
<1>2. TypeOK'
  BY <1>1 DEF TypeOK, CountsFit, Bucket
<1>3. \A c \in Caller : CallerFits(c)'
  BY <1>1 DEF IInv, CallerFits, SlotsOf, Active, CallerOf
<1> QED
  BY <1>1, <1>2, <1>3 DEF IInv, Arrived, StopFits, InFlight

-----------------------------------------------------------------------------
(* What holds *)

\* Nobody came at the start.
LEMMA InitIInv == ASSUME Init PROVE IInv
<1>1. /\ \A r \in Req : /\ req[r] = NewReq /\ stream[r] = NewStream /\ stream[r].slot = "none"
      /\ counts = NoCounts /\ DOMAIN counts = {} /\ phase = "serving"
      /\ \A c \in Caller : perCaller[c] = 0
  BY DEF Init, NoCounts, NewStream
<1>2. TypeOK
  <2>1. req \in [Req -> Request] /\ stream \in [Req -> Channel]
    BY OverType DEF Init, NewStream, Channel
  <2> QED
    BY <1>1, <2>1, ServingAssumption DEF Init, TypeOK, Request, Channel, Phase
<1>3. Arrived = {}
  BY <1>1, OverType DEF Arrived
<1>4. \A r \in Req : ReqFits(req[r]) /\ StreamFits(req[r], stream[r]) /\ WindowFits(r)
  BY <1>1, OverType DEF ReqFits, StreamFits, WindowFits
<1>5. ASSUME NEW c \in Caller PROVE CallerFits(c)
  <2>1. SlotsOf(c) = {}
    BY <1>1 DEF SlotsOf, Active
  <2> QED
    BY <1>1, <2>1, FS_EmptySet, Bounds DEF CallerFits
<1>6. CountsFit
  BY <1>1, <1>4 DEF CountsFit, NoCounts
<1> QED
  BY <1>1, <1>2, <1>3, <1>4, <1>5, <1>6, FS_EmptySet DEF IInv, StopFits

\* Every step keeps the invariant.
LEMMA NextIInv == ASSUME IInv, [Next]_vars PROVE IInv'
<1>1. ASSUME NEW r \in Req, NEW route \in Route, NEW shape \in Shape, Arrive(r, route, shape) PROVE IInv'
  BY <1>1, ArriveStep
<1>2. ASSUME NEW r \in Req, Reads(r) PROVE IInv'
  BY <1>2, IdentifyStep, TurnAwayStep, RefuseStep, StartStep DEF Reads
<1>3. ASSUME NEW r \in Req, Handles(r) PROVE IInv'
  BY <1>3, AnswersValueStep, AnswersEventsStep, FailsStep DEF Handles
<1>4. ASSUME NEW r \in Req, Flows(r) \/ Leave(r) \/ Expire(r) PROVE IInv'
  BY <1>4, FlowsStep, LeaveStep, ExpireStep
<1>5. CASE Stop \/ Drained \/ Teardown \/ Exit \/ Tick
  BY <1>5, ProcessStep, TickStep
<1>6. CASE UNCHANGED vars
  <2>1. CountsFit'
    BY <1>6, TypeMeans, CountsStay DEF vars, KeyOf, CallerOf, IInv
  <2>2. UNCHANGED <<req, stream, perCaller, counts, clock, phase>>
    BY <1>6 DEF vars
  <2>3. TypeOK'
    BY <2>2 DEF IInv, TypeOK
  <2>4. Arrived' = Arrived /\ InFlight' = InFlight /\ \A c \in Caller : SlotsOf(c)' = SlotsOf(c)
    BY <2>2 DEF Arrived, InFlight, SlotsOf, Active, CallerOf
  <2>5. \A r \in Req : (ReqFits(req[r]) /\ StreamFits(req[r], stream[r]))'
    BY <2>2 DEF IInv
  <2>6. \A c \in Caller : CallerFits(c)'
    BY <2>2, <2>4 DEF IInv, CallerFits
  <2>7. StopFits'
    BY <2>2, <2>4 DEF IInv, StopFits
  <2> QED
    BY <2>1, <2>3, <2>4, <2>5, <2>6, <2>7 DEF IInv
<1> QED
  BY <1>1, <1>2, <1>3, <1>4, <1>5, <1>6 DEF Next

\* The inductive invariant holds of every behaviour.
THEOREM Invariance == Spec => []IInv
<1>1. Init => IInv
  BY InitIInv
<1>2. IInv /\ [Next]_vars => IInv'
  BY NextIInv
<1> QED
  BY <1>1, <1>2, PTL DEF Spec

\* However a stream ends, and however often it is told to, its caller holds one
\* slot per open stream, and never more than the most (request.ts openStream);
\* every variable has its type.
THEOREM SlotsAddUp == Spec => []SlotsCounted
<1>1. IInv => SlotsCounted
  BY DEF IInv, SlotsCounted, CallerFits, SlotsOf
<1> QED
  BY <1>1, Invariance, PTL

\* No way out of a handler or of a generator keeps a slot, and no stream goes on
\* without one, past its lifetime and past a stop (request.ts respond, streams.ts).
THEOREM NoneKept == Spec => []SlotWhileStreaming
<1>1. IInv => SlotWhileStreaming
  BY DEF IInv, SlotWhileStreaming, StreamFits, Pulled
<1> QED
  BY <1>1, Invariance, PTL

\* A limit that counts failures lets at most its requests through a window that
\* did not succeed, and one more for each answer of an earlier window given back
\* to this one (limit.ts spend, refund).
THEOREM WithinBudget == Spec => []BudgetHolds
<1>1. IInv => BudgetHolds
  BY DEF IInv, CountsFit, BudgetHolds, KeyFits, Through, Late
<1> QED
  BY <1>1, Invariance, PTL

\* The store closes under no handler, and no stream opened before its handler
\* ran is torn down untold (kernel.stop, kernel.handle).
THEOREM ClosesInOrder == Spec => []TornDownInOrder
<1>1. IInv => TornDownInOrder
  BY DEF IInv, StopFits, TornDownInOrder, ToldOf, Active
<1> QED
  BY <1>1, Invariance, PTL
=============================================================================
