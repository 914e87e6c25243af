-------------------------- MODULE TransactionProofs --------------------------
(* What Transaction says of any number of calls, nested any way and to any  *)
(* depth, where a callback waits for the calls it makes: proved.            *)
EXTENDS Transaction, SequenceTheorems, TLAPS

Point == [name: Tx, held: SUBSET Effect]

Top == Len(points)
On(u) == \E i \in 1..Top : points[i].name = u

(* An inner call whose savepoint is released, and that has not told its mark *)
InnerTells(u) == tx[u].at = "tell" /\ tx[u].parent # NoTx

Wrote(v, rows) == {k \in Kind : <<v, k>> \in rows}
Owes(u, v) == \E k \in Kind : <<v, k>> \in waiting[u]
Stored == {"event", "job"}

(* What a call did is in the database or waits at a mark to be; or none of  *)
(* it is left                                                               *)
Owed(v) == {k \in Stored : \E u \in Tx : <<v, k>> \in waiting[u]}
Whole(v) == Wrote(v, db) \cup Owed(v) = tx[v].did \ {"push"}
Gone(v) == Wrote(v, db) = {} /\ \A u \in Tx : ~Owes(u, v)

(* The calls under way are a chain, each inside the one before, of which    *)
(* only the last goes on                                                    *)
InLine ==
  /\ line \in Seq(Tx)
  /\ \A i \in 1..Len(line) : tx[line[i]].at = "queued" /\ \A j \in 1..Len(line) : line[i] = line[j] => i = j

Chained ==
  /\ points \in Seq(Point)
  /\ \A i, j \in 1..Top : points[i].name = points[j].name => i = j
  /\ \A i \in 1..Top :
       /\ tx[points[i].name].at \in Under
       /\ i < Top => tx[points[i].name].at = "work"
       /\ tx[points[i].name].parent = IF i = 1 THEN NoTx ELSE points[i - 1].name
  /\ \A t \in Tx : tx[t].at \in Under => On(t)

CallFits(t) ==
  /\ tx[t].at \in {"idle", "queued"} =>
       tx[t].parent = NoTx /\ tx[t].did = {} /\ tx[t].plain /\ Children(t) = {} /\ Gone(t)
  /\ tx[t].at \notin Under \cup {"tell"} => waiting[t] = {}
  /\ InnerTells(t) => Top > 0 /\ tx[t].parent = points[Top].name /\ tx[tx[t].parent].at = "work"
  /\ tx[t].parent # NoTx /\ tx[t].plain => tx[t].handed /\ tx[tx[t].parent].plain
  /\ tx[t].did \cap Announced \in {{}, Announced}
  /\ tx[t].threw => tx[t].at = "ended"

(* What waits at a call's mark is its own or of calls inside it that ended  *)
WaitsFor(u, v) ==
  /\ {v} \X Announced \subseteq waiting[u] /\ <<v, "row">> \notin waiting[u] /\ Announced \subseteq tx[v].did
  /\ tx[v].plain => tx[u].plain
  /\ u = v \/ tx[v].at = "ended"

(* The outermost writes all of it before it closes                          *)
MarkFits(u) ==
  /\ \A v \in Tx : Owes(u, v) => WaitsFor(u, v)
  /\ IsOutermost(u) /\ tx[u].at \in {"events", "close", "tell"} => Waiting(u, "job") \subseteq db
  /\ IsOutermost(u) /\ tx[u].at \in {"close", "tell"} => Waiting(u, "event") \subseteq db

Accounts(v) ==
  /\ tx[v].at \in Under \cup {"tell"} => Whole(v)
  /\ tx[v].at = "ended" => Whole(v) \/ Gone(v)
  /\ tx[v].threw => Gone(v) /\ \A u \in Children(v) : Gone(u)

(* Nothing of a call was there when a point was made, and what waits of it  *)
(* waits above; or all of it was, and waits below or is kept                *)
Above(i, u) == InnerTells(u) \/ \E j \in i..Top : points[j].name = u
Below(i, u) == \E j \in 1..(i - 1) : points[j].name = u

Fresh(i, v) ==
  /\ Wrote(v, points[i].held) = {}
  /\ \A u \in Tx : Owes(u, v) => Above(i, u)

Same(i, v) ==
  /\ Wrote(v, points[i].held) = Wrote(v, db)
  /\ \A u \in Tx, k \in Stored : <<v, k>> \in waiting[u] => <<v, k>> \in db \/ Below(i, u)

(* A rollback to a point takes all of the calls above it, what they wait    *)
(* for and what ran inside them, and nothing of those below or committed    *)
Takes(i, u) ==
  /\ Fresh(i, u)
  /\ \A v \in Children(u) : Fresh(i, v)
  /\ \A v \in Tx : Owes(u, v) => Fresh(i, v)

RootTells(u) == tx[u].at = "tell" /\ tx[u].parent = NoTx

PointFits(i) ==
  /\ \A v \in Tx : Fresh(i, v) \/ Same(i, v)
  /\ \A u \in Tx : Above(i, u) => Takes(i, u)
  /\ \A u \in Tx : Below(i, u) \/ RootTells(u) => Same(i, u)
  /\ \A j \in i..Top : points[i].held \subseteq points[j].held

EventsTold == \A v \in Tx : <<v, "event">> \in db => <<v, "event">> \in told \/ \E u \in Tx : <<v, "event">> \in waiting[u]

(* v is neither u nor a call inside it: some calls, v among them, hold the  *)
(* call around each of theirs, and u is not among them                      *)
Upward(C) == \A u \in C : tx[u].parent \in C \cup {NoTx}
Outside(u, v) == \E C \in SUBSET Tx : v \in C /\ u \notin C /\ Upward(C)

(* Neither v threw nor a call around it *)
Stands(v) == \E C \in SUBSET Tx : v \in C /\ Upward(C) /\ \A u \in C : ~tx[u].threw

(* What a call that stands did is whole, what another did is gone *)
StandsWhole(v) == IF Stands(v) THEN Whole(v) ELSE Gone(v)

(* A rollback to a point takes what is inside its call and nothing else *)
TakesInside(i, v) == IF Outside(points[i].name, v) THEN Same(i, v) ELSE Fresh(i, v)

Nested ==
  /\ \A u, v \in Tx : Owes(u, v) => ~Outside(u, v)
  /\ \A i, j \in 1..Top : i <= j => ~Outside(points[i].name, points[j].name)

(* Which of the two it is, where Accounts and PointFits leave it open *)
Joined ==
  /\ \A v \in Tx : StandsWhole(v)
  /\ \A i \in 1..Top, v \in Tx : TakesInside(i, v)
  /\ Nested

Live ==
  /\ InLine /\ Chained
  /\ \A t \in Tx : CallFits(t) /\ MarkFits(t) /\ Accounts(t)
  /\ \A i \in 1..Top : PointFits(i)
  /\ EventsTold
  /\ Joined

ToldFits ==
  \A e \in told : tx[e[1]].plain =>
    tx[e[1]].at \in {"tell", "ended"} /\ Announced \subseteq tx[e[1]].did /\ IsTrue(e)

IInv ==
  /\ TypeOK /\ ToldFits
  /\ IF up THEN Live ELSE AllOrNothing

(* What the points are, element by element. *)
LEMMA PointTypes ==
  ASSUME points \in Seq(Point)
  PROVE  /\ Top \in Nat /\ DOMAIN points = 1..Top /\ (points = <<>> <=> Top = 0)
         /\ \A i \in 1..Top : points[i].name \in Tx /\ points[i].held \subseteq Effect
<1>1. Top \in Nat /\ DOMAIN points = 1..Top /\ \A i \in 1..Top : points[i] \in Point
  BY DEF Top
<1>2. points = <<>> <=> Top = 0
  BY EmptySeq DEF Top
<1>3. QED
  BY <1>1, <1>2 DEF Point

(* Each call under way has one point, which PointOf finds. *)
LEMMA PointFound ==
  ASSUME Chained, NEW i \in 1..Top
  PROVE  PointOf(points[i].name) = i
BY PointTypes DEF Chained, PointOf

(* A call that may go on is the last of the chain: no call inside it is under way or has yet to tell its mark. *)
Last(t) ==
  /\ Top > 0 /\ points[Top].name = t
  /\ \A u \in Tx : ~InnerTells(u)

(* The call that goes on is the last of the chain: the others wait for it. *)
LEMMA GoesOnLast ==
  ASSUME TypeOK, Live, NEW t \in Tx, tx[t].at \in Under,
         tx[t].at = "work" => Settled(Children(t))
  PROVE  Last(t) /\ PointOf(t) = Top
<1> DEFINE c == points[Top].name
<1>1. Top \in Nat /\ \A i \in 1..Top : points[i].name \in Tx
  BY PointTypes DEF Live, Chained
<1>2. PICK i \in 1..Top : points[i].name = t
  BY DEF Live, Chained, On
<1>3. i = Top
  <2> SUFFICES ASSUME i # Top PROVE FALSE
    OBVIOUS
  <2>1. i + 1 \in 1..Top /\ tx[t].at = "work"
    BY <1>1, <1>2 DEF Live, Chained
  <2>2. points[i + 1].name \in Children(t) /\ tx[points[i + 1].name].at \in Under
    BY <2>1, <1>1, <1>2 DEF Live, Chained, Children
  <2>3. QED
    BY <2>1, <2>2 DEF Settled, Under
<1>4. ASSUME NEW u \in Tx, InnerTells(u) PROVE FALSE
  <2>1. u \in Children(t) /\ tx[t].at = "work"
    BY <1>2, <1>3, <1>4 DEF Live, CallFits, Children
  <2>2. QED
    BY <2>1, <1>4 DEF Settled, InnerTells
<1>5. QED
  BY <1>1, <1>2, <1>3, <1>4, PointFound DEF Last, Live

(* What was there when a point was made is there still. *)
LEMMA HeldInDb ==
  ASSUME TypeOK, Live, NEW i \in 1..Top
  PROVE  points[i].held \subseteq db
<1>1. SUFFICES ASSUME NEW e \in points[i].held PROVE e \in db
  OBVIOUS
<1>2. points[i].held \subseteq Effect
  BY PointTypes DEF Live, Chained
<1>3. PICK v \in Tx, k \in Kind : e = <<v, k>>
  BY <1>1, <1>2 DEF Effect
<1>4. k \in Wrote(v, points[i].held)
  BY <1>1, <1>3 DEF Wrote
<1>5. Wrote(v, points[i].held) = Wrote(v, db)
  BY <1>4 DEF Live, PointFits, Fresh, Same
<1>6. QED
  BY <1>3, <1>4, <1>5 DEF Wrote

(* A call with a mark that holds something is under way or has yet to tell it. *)
LEMMA OwingFits ==
  ASSUME TypeOK, Live, NEW u \in Tx, NEW v \in Tx, Owes(u, v)
  PROVE  On(u) \/ InnerTells(u) \/ RootTells(u)
<1>1. waiting[u] # {}
  BY DEF Owes
<1>2. tx[u].at \in Under \cup {"tell"}
  BY <1>1 DEF Live, CallFits
<1>3. QED
  BY <1>2 DEF Live, Chained, InnerTells, RootTells

(* Before a step and after it, what is inside a call inside another is      *)
(* inside that one; a call is inside the one around it.                     *)
LEMMA InsideInside ==
  ASSUME NEW u \in Tx, NEW t \in Tx, NEW v \in Tx
  PROVE  /\ ~Outside(u, u) /\ ~Outside(u, u)'
         /\ ~Outside(u, t) /\ ~Outside(t, v) => ~Outside(u, v)
         /\ ~Outside(u, t)' /\ ~Outside(t, v)' => ~Outside(u, v)'
         /\ tx[v].parent = t => ~Outside(t, v)
         /\ tx'[v].parent = t => ~Outside(t, v)'
<1>1. ~Outside(u, u) /\ ~Outside(u, u)'
  BY DEF Outside
<1>2. Outside(u, v) => Outside(u, t) \/ Outside(t, v)
  BY DEF Outside
<1>3. Outside(u, v)' => Outside(u, t)' \/ Outside(t, v)'
  BY DEF Outside
<1>4. tx[v].parent = t => ~Outside(t, v)
  BY NamesAssumption DEF Outside, Upward
<1>5. tx'[v].parent = t => ~Outside(t, v)'
  BY NamesAssumption DEF Outside, Upward
<1>6. QED
  BY <1>1, <1>2, <1>3, <1>4, <1>5

(* Where no call comes to be inside another, what is inside what stays. *)
LEMMA SameTree ==
  ASSUME \A u \in Tx : tx'[u].parent = tx[u].parent
  PROVE  /\ \A u, v \in Tx : Outside(u, v)' <=> Outside(u, v)
         /\ (\A u \in Tx : tx'[u].threw = tx[u].threw) => \A v \in Tx : Stands(v)' <=> Stands(v)
<1>1. \A C \in SUBSET Tx : Upward(C)' <=> Upward(C)
  BY DEF Upward
<1>2. \A u, v \in Tx : Outside(u, v)' <=> Outside(u, v)
  BY <1>1 DEF Outside
<1>3. (\A u \in Tx : tx'[u].threw = tx[u].threw) => \A v \in Tx : Stands(v)' <=> Stands(v)
  BY <1>1 DEF Stands
<1>4. QED
  BY <1>2, <1>3

(* What becomes of a call with none inside it concerns no other. *)
LEMMA LeafMoves ==
  ASSUME TypeOK, NEW t \in Tx, Children(t) = {}, \A u \in Tx \ {t} : tx'[u] = tx[u]
  PROVE  \A v \in Tx \ {t} : /\ \A u \in Tx : Outside(u, v)' <=> Outside(u, v)
                             /\ Outside(t, v)
                             /\ Stands(v)' <=> Stands(v)
<1> SUFFICES ASSUME NEW v \in Tx \ {t}
             PROVE  /\ \A u \in Tx : Outside(u, v)' <=> Outside(u, v)
                    /\ Outside(t, v)
                    /\ Stands(v)' <=> Stands(v)
  OBVIOUS
<1>1. \A u \in Tx \ {t} : tx[u].parent # t /\ tx'[u].parent = tx[u].parent /\ tx'[u].threw = tx[u].threw
  BY DEF Children
<1>2. \A C \in SUBSET Tx : /\ C \ {t} \in SUBSET Tx /\ (v \in C => v \in C \ {t})
                           /\ Upward(C) => Upward(C \ {t}) /\ Upward(C \ {t})'
                           /\ Upward(C)' => Upward(C \ {t}) /\ Upward(C \ {t})'
  BY <1>1 DEF Upward
<1>3. ASSUME NEW u \in Tx PROVE Outside(u, v)' <=> Outside(u, v)
  <2>1. \A C \in SUBSET Tx : u \notin C => u \notin C \ {t}
    OBVIOUS
  <2>2. QED
    BY <1>2, <2>1 DEF Outside
<1>4. Outside(t, v)
  <2>1. Tx \ {t} \in SUBSET Tx /\ v \in Tx \ {t} /\ t \notin Tx \ {t} /\ Upward(Tx \ {t})
    BY <1>1 DEF Upward, TypeOK, Call
  <2>2. QED
    BY <2>1 DEF Outside
<1>5. Stands(v)' <=> Stands(v)
  <2>1. ASSUME Stands(v) PROVE Stands(v)'
    <3>1. PICK C \in SUBSET Tx : v \in C /\ Upward(C) /\ \A u \in C : ~tx[u].threw
      BY <2>1 DEF Stands
    <3>2. v \in C \ {t} /\ Upward(C \ {t})' /\ \A u \in C \ {t} : ~tx'[u].threw
      BY <3>1, <1>1, <1>2
    <3>3. QED
      BY <3>2 DEF Stands
  <2>2. ASSUME Stands(v)' PROVE Stands(v)
    <3>1. PICK C \in SUBSET Tx : v \in C /\ Upward(C)' /\ \A u \in C : ~tx'[u].threw
      BY <2>2 DEF Stands
    <3>2. v \in C \ {t} /\ Upward(C \ {t}) /\ \A u \in C \ {t} : ~tx[u].threw
      BY <3>1, <1>1, <1>2
    <3>3. QED
      BY <3>2 DEF Stands
  <2>3. QED
    BY <2>1, <2>2
<1>6. QED
  BY <1>3, <1>4, <1>5

(* A call that throws takes with it those inside it, and no other. *)
LEMMA ThrowTakes ==
  ASSUME NEW t \in Tx, tx'[t].threw, \A u \in Tx : tx'[u].parent = tx[u].parent,
         \A u \in Tx \ {t} : tx'[u] = tx[u]
  PROVE  \A v \in Tx : Stands(v)' <=> Stands(v) /\ Outside(t, v)
<1> SUFFICES ASSUME NEW v \in Tx PROVE Stands(v)' <=> Stands(v) /\ Outside(t, v)
  OBVIOUS
<1>1. \A C \in SUBSET Tx : Upward(C)' <=> Upward(C)
  BY DEF Upward
<1>2. ASSUME Stands(v)' PROVE Stands(v) /\ Outside(t, v)
  <2>1. PICK C \in SUBSET Tx : v \in C /\ Upward(C)' /\ \A u \in C : ~tx'[u].threw
    BY <1>2 DEF Stands
  <2>2. t \notin C /\ Upward(C) /\ \A u \in C : ~tx[u].threw
    BY <2>1, <1>1
  <2>3. QED
    BY <2>1, <2>2 DEF Stands, Outside
<1>3. ASSUME Stands(v), Outside(t, v) PROVE Stands(v)'
  <2>1. PICK C \in SUBSET Tx : v \in C /\ Upward(C) /\ \A u \in C : ~tx[u].threw
    BY <1>3 DEF Stands
  <2>2. PICK D \in SUBSET Tx : v \in D /\ t \notin D /\ Upward(D)
    BY <1>3 DEF Outside
  <2>3. C \cap D \in SUBSET Tx /\ v \in C \cap D /\ Upward(C \cap D) /\ \A u \in C \cap D : ~tx'[u].threw
    BY <2>1, <2>2 DEF Upward
  <2>4. QED
    BY <2>3, <1>1 DEF Stands
<1>4. QED
  BY <1>2, <1>3

(* None of the calls under way threw, nor did a call around one of them. *)
LEMMA ChainStands ==
  ASSUME TypeOK, Live, NEW i \in 1..Top
  PROVE  Stands(points[i].name)
<1> DEFINE C == {points[j].name : j \in 1..Top}
<1>1. Top \in Nat /\ (\A j \in 1..Top : points[j].name \in Tx) /\ C \in SUBSET Tx
  BY PointTypes DEF Live, Chained
<1>2. \A j \in 1..Top : tx[points[j].name].parent \in C \cup {NoTx} /\ ~tx[points[j].name].threw
  <2> SUFFICES ASSUME NEW j \in 1..Top
               PROVE  tx[points[j].name].parent \in C \cup {NoTx} /\ ~tx[points[j].name].threw
    OBVIOUS
  <2>1. tx[points[j].name].parent = IF j = 1 THEN NoTx ELSE points[j - 1].name
    BY DEF Live, Chained
  <2>2. j # 1 => j - 1 \in 1..Top
    BY <1>1
  <2>3. ~tx[points[j].name].threw
    BY <1>1 DEF Live, Chained, CallFits, Under
  <2>4. QED
    BY <2>1, <2>2, <2>3
<1>3. Upward(C) /\ points[i].name \in C /\ \A u \in C : ~tx[u].threw
  BY <1>2 DEF Upward
<1>4. QED
  BY <1>1, <1>3 DEF Stands

(* A step of the last of the chain that leaves the points alone: it may     *)
(* write a row of its own or some of what waits at its mark, and have what  *)
(* it announces wait there.                                                 *)
LEMMA LastSteps ==
  ASSUME TypeOK, ToldFits, Live, NEW t \in Tx, Last(t), tx[t].at \in Under,
         NEW a \in Under, NEW d \in SUBSET Kind, tx[t].did \subseteq d,
         d \cap Announced \in {{}, Announced},
         NEW W \in SUBSET Effect, \A e \in W : e = <<t, "row">> \/ (e \in waiting[t] /\ e[2] \in Stored),
         NEW Z \in {{}, {t} \X Announced}, Z # {} => Announced \subseteq d,
         tx' \in [Tx -> Call], \A u \in Tx \ {t} : tx'[u] = tx[u],
         tx'[t].at = a, tx'[t].did = d, tx'[t].parent = tx[t].parent, tx'[t].handed = tx[t].handed,
         tx'[t].plain = tx[t].plain, tx'[t].threw = tx[t].threw,
         db' = db \cup W, waiting' = [waiting EXCEPT ![t] = waiting[t] \cup Z],
         UNCHANGED <<points, line, told, up>>, mishaps' \in 0..MaxMishaps,
         Whole(t)',
         IsOutermost(t) /\ a \in {"events", "close", "tell"} => Waiting(t, "job") \subseteq db',
         IsOutermost(t) /\ a \in {"close", "tell"} => Waiting(t, "event") \subseteq db',
         IsOutermost(t) /\ a \in {"events", "close", "tell"} => Z = {}
  PROVE  TypeOK' /\ ToldFits' /\ Live'
<1>1. /\ Top \in Nat /\ Top > 0 /\ DOMAIN points = 1..Top /\ points \in Seq(Point)
      /\ \A i \in 1..Top : points[i].name \in Tx /\ points[i].held \subseteq Effect
  BY PointTypes DEF Live, Chained, Last
<1>2. /\ Top' = Top /\ points' = points /\ db \subseteq db' /\ waiting' \in [Tx -> SUBSET Effect]
      /\ \A u \in Tx \ {t} : waiting'[u] = waiting[u]
      /\ waiting'[t] = waiting[t] \cup Z /\ Z \subseteq Effect
  BY DEF TypeOK, Top, Effect, Announced, Kind
<1>3. TypeOK'
  BY <1>2 DEF TypeOK
<1>4. \A u \in Tx : /\ tx'[u].parent = tx[u].parent /\ tx'[u].handed = tx[u].handed
                    /\ tx'[u].plain = tx[u].plain /\ tx'[u].threw = tx[u].threw
                    /\ tx[u].did \subseteq tx'[u].did
                    /\ tx'[u].at \in Under <=> tx[u].at \in Under
                    /\ tx'[u].at # tx[u].at => u = t
  OBVIOUS
<1>5. \A u \in Tx : /\ InnerTells(u)' <=> InnerTells(u)
                    /\ RootTells(u)' <=> RootTells(u)
                    /\ Children(u)' = Children(u)
                    /\ IsOutermost(u)' <=> IsOutermost(u)
                    /\ tx[u].at = "tell" <=> tx'[u].at = "tell"
  BY <1>4 DEF InnerTells, RootTells, Children, IsOutermost, IsRoot, Under
<1>6. \A u, v \in Tx, k \in Kind :
        <<v, k>> \in waiting'[u] <=> <<v, k>> \in waiting[u] \/ (u = t /\ v = t /\ Z # {} /\ k \in Announced)
  BY <1>2
<1>7. \A u, v \in Tx : /\ u # t \/ v # t => (Owes(u, v)' <=> Owes(u, v))
                       /\ Owes(u, v) => Owes(u, v)'
  BY <1>6 DEF Owes
<1>8. \A i \in 1..Top, u \in Tx : /\ Above(i, u)' <=> Above(i, u)
                                  /\ Below(i, u)' <=> Below(i, u)
                                  /\ Above(i, t)
                                  /\ ~Below(i, t)
  BY <1>1, <1>2, <1>5 DEF Above, Below, Last, Live, Chained
<1>9. \A v \in Tx : v # t /\ ~Owes(t, v) => Wrote(v, db') = Wrote(v, db)
  BY <1>1 DEF Wrote, Owes, Effect
<1>10. \A v \in Tx : Owes(t, v) => v = t \/ tx[v].at = "ended"
  BY DEF Live, MarkFits, WaitsFor
<1>11. \A v \in Tx : v # t => (Whole(v) => Whole(v)') /\ (Gone(v) => Gone(v)')
  <2> SUFFICES ASSUME NEW v \in Tx, v # t PROVE (Whole(v) => Whole(v)') /\ (Gone(v) => Gone(v)')
    OBVIOUS
  <2>0. tx'[v] = tx[v] /\ Wrote(v, db)' = Wrote(v, db')
    BY DEF Wrote
  <2>1. Owed(v)' = Owed(v)
    BY <1>6 DEF Owed, Stored, Kind
  <2>2. Wrote(v, db) \subseteq Wrote(v, db') /\ Wrote(v, db') \subseteq Wrote(v, db) \cup Owed(v)
    BY DEF Wrote, Owed, Stored, Effect
  <2>3. Wrote(v, db') \cup Owed(v)' = Wrote(v, db) \cup Owed(v)
    BY <2>1, <2>2
  <2>4. Whole(v) => Whole(v)'
    BY <2>3, <2>0 DEF Whole
  <2>5. Gone(v) => Gone(v)'
    BY <2>0, <1>7, <1>9 DEF Gone
  <2>6. QED
    BY <2>4, <2>5
<1>12. \A i \in 1..Top, v \in Tx : /\ Fresh(i, v) => Fresh(i, v)'
                                   /\ v # t /\ ~Owes(t, v) /\ Same(i, v) => Same(i, v)'
  <2> SUFFICES ASSUME NEW i \in 1..Top, NEW v \in Tx
               PROVE  /\ Fresh(i, v) => Fresh(i, v)'
                      /\ v # t /\ ~Owes(t, v) /\ Same(i, v) => Same(i, v)'
    OBVIOUS
  <2>1. Fresh(i, v) => Fresh(i, v)'
    BY <1>2, <1>7, <1>8 DEF Fresh
  <2>2. v # t /\ ~Owes(t, v) /\ Same(i, v) => Same(i, v)'
    BY <1>2, <1>6, <1>8, <1>9 DEF Same, Stored, Kind
  <2>3. QED
    BY <2>1, <2>2
<1>13. \A i \in 1..Top : Takes(i, t) /\ Fresh(i, t)' /\ \A v \in Tx : Owes(t, v) => Fresh(i, v)'
  BY <1>8, <1>12 DEF Live, PointFits, Takes
<1>14. \A i \in 1..Top : PointFits(i)'
  <2> SUFFICES ASSUME NEW i \in 1..Top PROVE PointFits(i)'
    OBVIOUS
  <2>0. PointFits(i)
    BY DEF Live
  <2>1. \A v \in Tx : Fresh(i, v)' \/ Same(i, v)'
    BY <2>0, <1>12, <1>13 DEF PointFits
  <2>2. ASSUME NEW u \in Tx, Above(i, u)' PROVE Takes(i, u)'
    <3>1. Takes(i, u)
      BY <2>0, <2>2, <1>8 DEF PointFits
    <3>2. Fresh(i, u)' /\ \A v \in Children(u)' : Fresh(i, v)'
      BY <3>1, <1>5, <1>12 DEF Takes, Children
    <3>3. \A v \in Tx : Owes(u, v)' => Fresh(i, v)'
      BY <3>1, <1>7, <1>12, <1>13 DEF Takes
    <3>4. QED
      BY <3>2, <3>3 DEF Takes
  <2>3. ASSUME NEW u \in Tx, Below(i, u)' \/ RootTells(u)' PROVE Same(i, u)'
    <3>1. Same(i, u)
      BY <2>0, <2>3, <1>5, <1>8 DEF PointFits
    <3>2. u # t
      BY <2>3, <1>5, <1>8 DEF RootTells, Under
    <3>3. tx[u].at # "ended"
      BY <2>3, <1>1, <1>5, <1>8 DEF Below, RootTells, Live, Chained, Under
    <3>4. QED
      BY <3>1, <3>2, <3>3, <1>10, <1>12
  <2>4. \A j \in i..Top : points[i].held \subseteq points[j].held
    BY <2>0 DEF PointFits
  <2>5. QED
    BY <2>1, <2>2, <2>3, <2>4, <1>2 DEF PointFits
<1>15. ASSUME NEW u \in Tx PROVE CallFits(u)' /\ Accounts(u)'
  <2>1. CallFits(u) /\ Accounts(u) /\ MarkFits(u)
    BY DEF Live
  <2>5. /\ tx[u].parent # NoTx => tx[u].parent \in Tx
        /\ tx'[u].parent # NoTx /\ tx'[u].plain => tx'[u].handed /\ tx'[tx'[u].parent].plain
        /\ ~InnerTells(u)'
    <3>1. tx[u].parent # NoTx => tx[u].parent \in Tx
      BY DEF TypeOK, Call
    <3>2. QED
      BY <2>1, <3>1, <1>4, <1>5 DEF CallFits, Last
  <2>2. CASE u = t
    <3>0. tx'[t].at \in Under /\ ~tx'[t].threw /\ tx'[t].did = d
      BY <2>1, <2>2 DEF CallFits, Under
    <3>1. CallFits(t)'
      BY <2>2, <2>5, <3>0 DEF CallFits, Under
    <3>2. Accounts(t)'
      BY <2>1, <2>2, <1>4 DEF Accounts, CallFits, Under
    <3>3. QED
      BY <2>2, <3>1, <3>2
  <2>3. CASE u # t
    <3>1. tx[u].at \in {"idle", "queued"} => t \notin Children(u)
      BY <2>1 DEF CallFits
    <3>3. tx[u].at \in {"idle", "queued"} =>
            tx'[u].parent = NoTx /\ tx'[u].did = {} /\ tx'[u].plain /\ Children(u)' = {} /\ Gone(u)'
      BY <2>1, <2>3, <1>5, <1>11 DEF CallFits
    <3>4. tx[u].at \notin Under \cup {"tell"} => waiting'[u] = {}
      BY <2>1, <2>3, <1>2 DEF CallFits
    <3>7. CallFits(u)'
      BY <2>1, <2>3, <2>5, <3>3, <3>4 DEF CallFits
    <3>8. tx[u].threw => t \notin Children(u)
      <4>1. CASE Top = 1
        BY <1>1, <4>1, NamesAssumption DEF Live, Chained, Last, Children
      <4>2. CASE Top > 1
        <5>1. tx[t].parent = points[Top - 1].name /\ tx[points[Top - 1].name].at = "work"
          BY <4>2, <1>1 DEF Live, Chained, Last
        <5>2. QED
          BY <2>1, <5>1 DEF CallFits, Children
      <4>3. QED
        BY <4>1, <4>2, <1>1
    <3>9. Accounts(u)'
      BY <2>1, <2>3, <3>8, <1>5, <1>11 DEF Accounts, Children
    <3>10. QED
      BY <3>7, <3>9
  <2>4. QED
    BY <2>2, <2>3
<1>16. ASSUME NEW u \in Tx PROVE MarkFits(u)'
  <2>1. MarkFits(u)
    BY DEF Live
  <2>2. ASSUME NEW v \in Tx, Owes(u, v)' PROVE WaitsFor(u, v)'
    <3>1. CASE Owes(u, v)
      <4>1. WaitsFor(u, v)
        BY <2>1, <3>1 DEF MarkFits
      <4>2. {v} \X Announced \subseteq waiting'[u]
        BY <4>1, <1>2 DEF WaitsFor
      <4>3. <<v, "row">> \notin waiting'[u]
        BY <4>1, <1>2, <1>6 DEF WaitsFor, Announced, Kind
      <4>4. QED
        BY <4>1, <4>2, <4>3, <1>4, <1>10, <3>1 DEF WaitsFor, Under
    <3>2. CASE ~Owes(u, v)
      <4>1. u = t /\ v = t /\ Z = {t} \X Announced
        BY <2>2, <3>2, <1>6, <1>7 DEF Owes
      <4>2. <<v, "row">> \notin waiting'[u]
        BY <4>1, <3>2, <1>6 DEF Owes, Announced, Kind
      <4>3. Announced \subseteq d
        <5>1. <<t, "job">> \in Z
          BY <4>1 DEF Announced
        <5>2. QED
          BY <5>1
      <4>4. QED
        BY <4>1, <4>2, <4>3, <1>2 DEF WaitsFor
    <3>3. QED
      BY <3>1, <3>2
  <2>3. CASE u = t
    <3>1. IsOutermost(t) /\ a \in {"events", "close", "tell"} => waiting'[t] = waiting[t]
      BY <1>2
    <3>2. QED
      BY <2>2, <2>3, <3>1, <1>5 DEF MarkFits, Waiting
  <2>4. CASE u # t
    BY <2>1, <2>2, <2>4, <1>2, <1>5 DEF MarkFits, Waiting
  <2>5. QED
    BY <2>3, <2>4
<1>17. EventsTold'
  <2> SUFFICES ASSUME NEW v \in Tx, <<v, "event">> \in db'
               PROVE  <<v, "event">> \in told' \/ \E u \in Tx : <<v, "event">> \in waiting'[u]
    BY DEF EventsTold
  <2>1. <<v, "event">> \in db \/ <<v, "event">> \in waiting[t]
    OBVIOUS
  <2>2. QED
    BY <2>1, <1>6 DEF Live, EventsTold, Kind
<1>18. InLine'
  BY <1>4 DEF Live, InLine, Under
<1>19. Chained'
  <2>1. \A i \in 1..Top : i < Top => points[i].name # t
    BY <1>1 DEF Live, Chained, Last
  <2>2. \A u \in Tx : On(u)' <=> On(u)
    BY <1>2 DEF On
  <2>3. QED
    BY <2>1, <2>2, <1>1, <1>2, <1>4 DEF Live, Chained
<1>20. ToldFits'
  <2>1. Committed' = Committed
    BY <1>1, <1>2 DEF Committed
  <2>2. \A e \in told : tx[e[1]].plain => e[1] # t
    BY DEF ToldFits, Under
  <2>3. \A e \in told : e[1] \in Tx
    BY DEF TypeOK, Effect
  <2>4. \A v \in Tx : KeptOf(v)' = KeptOf(v)
    BY <2>1 DEF KeptOf
  <2>5. ASSUME NEW e \in told, tx'[e[1]].plain
        PROVE  tx'[e[1]].at \in {"tell", "ended"} /\ Announced \subseteq tx'[e[1]].did /\ IsTrue(e)'
    <3>1. e[1] \in Tx \ {t} /\ tx'[e[1]] = tx[e[1]]
      BY <2>2, <2>3, <2>5, <1>4
    <3>2. QED
      BY <3>1, <2>4, <2>5 DEF ToldFits, IsTrue
  <2>6. QED
    BY <2>5 DEF ToldFits
<1>21. Joined'
  <2>0. Joined /\ \A i \in 1..Top : points'[i] = points[i]
    BY <1>2 DEF Live
  <2>1. \A u, v \in Tx : (Outside(u, v)' <=> Outside(u, v)) /\ (Stands(v)' <=> Stands(v))
    BY <1>4, SameTree
  <2>2. \A v \in Tx : StandsWhole(v)'
    <3>1. Top \in 1..Top /\ points[Top].name = t
      BY <1>1 DEF Last
    <3>2. Stands(t)
      BY <3>1, ChainStands
    <3>3. QED
      BY <2>0, <2>1, <3>2, <1>11 DEF Joined, StandsWhole
  <2>3. \A i \in 1..Top, v \in Tx : TakesInside(i, v)'
    <3> SUFFICES ASSUME NEW i \in 1..Top, NEW v \in Tx PROVE TakesInside(i, v)'
      OBVIOUS
    <3>1. ~Outside(points[i].name, t) /\ (Owes(t, v) => ~Outside(t, v))
      BY <2>0, <1>1 DEF Joined, Nested, Last
    <3>2. Outside(points[i].name, v) => v # t /\ ~Owes(t, v)
      BY <3>1, <1>1, InsideInside
    <3>3. Outside(points[i].name, v) => Same(i, v)'
      BY <2>0, <3>2, <1>12 DEF Joined, TakesInside
    <3>4. ~Outside(points[i].name, v) => Fresh(i, v)'
      BY <2>0, <1>12 DEF Joined, TakesInside
    <3>5. Outside(points[i].name, v)' <=> Outside(points[i].name, v)
      BY <2>1, <1>1, <1>2
    <3>6. QED
      BY <2>0, <3>3, <3>4, <3>5 DEF TakesInside
  <2>4. Nested'
    <3>1. \A u, v \in Tx : Owes(u, v)' => ~Outside(u, v)'
      BY <2>0, <2>1, <1>7, InsideInside DEF Joined, Nested
    <3>2. QED
      BY <2>0, <2>1, <3>1, <1>1, <1>2 DEF Joined, Nested
  <2>5. QED
    BY <2>2, <2>3, <2>4, <1>2 DEF Joined
<1>22. QED
  BY <1>3, <1>14, <1>15, <1>16, <1>17, <1>18, <1>19, <1>20, <1>21, <1>2 DEF Live

(* A step of the last call that only moves it on, and may keep what waits at its mark. *)
LEMMA MovesOn ==
  ASSUME TypeOK, ToldFits, Live, NEW t \in Tx, Last(t), tx[t].at \in Under,
         NEW a \in Under, tx' = [tx EXCEPT ![t].at = a],
         NEW W, \A e \in W : e \in waiting[t] /\ e[2] \in Stored, db' = db \cup W,
         UNCHANGED <<points, line, waiting, told, up>>, mishaps' \in 0..MaxMishaps,
         IsOutermost(t) /\ a \in {"events", "close", "tell"} => Waiting(t, "job") \subseteq db',
         IsOutermost(t) /\ a \in {"close", "tell"} => Waiting(t, "event") \subseteq db'
  PROVE  TypeOK' /\ ToldFits' /\ Live'
<1>1. tx[t] \in Call /\ waiting[t] \subseteq Effect
  BY DEF TypeOK
<1>2. /\ tx' \in [Tx -> Call] /\ \A u \in Tx \ {t} : tx'[u] = tx[u]
      /\ tx'[t].at = a /\ tx'[t].did = tx[t].did /\ tx'[t].parent = tx[t].parent /\ tx'[t].handed = tx[t].handed
      /\ tx'[t].plain = tx[t].plain /\ tx'[t].threw = tx[t].threw
  BY <1>1 DEF TypeOK, Call, Under
<1>3. tx[t].did \in SUBSET Kind /\ tx[t].did \cap Announced \in {{}, Announced}
  BY <1>1 DEF Call, Live, CallFits
<1>4. Whole(t)'
  <2>1. Whole(t)
    BY DEF Live, Accounts
  <2>2. Owed(t)' = Owed(t)
    BY DEF Owed
  <2>3. Wrote(t, db) \subseteq Wrote(t, db') /\ Wrote(t, db') \subseteq Wrote(t, db) \cup Owed(t)
    BY DEF Wrote, Owed, Stored
  <2>4. Wrote(t, db') \cup Owed(t)' = Wrote(t, db) \cup Owed(t)
    BY <2>2, <2>3
  <2>5. Wrote(t, db)' = Wrote(t, db')
    BY DEF Wrote
  <2>6. QED
    BY <2>1, <2>4, <2>5, <1>2 DEF Whole
<1>5. W \in SUBSET Effect
  BY <1>1
<1>6. waiting' = [waiting EXCEPT ![t] = waiting[t] \cup {}]
  BY DEF TypeOK
<1>7. QED
  BY <1>2, <1>3, <1>4, <1>5, <1>6, LastSteps

(* And where it keeps nothing *)
LEMMA OnlyMovesOn ==
  ASSUME TypeOK, ToldFits, Live, NEW t \in Tx, Last(t), tx[t].at \in Under,
         NEW a \in Under, tx' = [tx EXCEPT ![t].at = a],
         UNCHANGED <<db, points, line, waiting, told, up>>, mishaps' \in 0..MaxMishaps,
         a \in {"jobs", "undo"} \/ (a = "close" /\ ~IsOutermost(t))
  PROVE  TypeOK' /\ ToldFits' /\ Live'
<1> DEFINE W == {e \in waiting[t] : FALSE}
<1>1. db' = db \cup W /\ \A e \in W : e \in waiting[t] /\ e[2] \in Stored
  OBVIOUS
<1>2. a \notin {"events", "tell"} /\ (a = "close" => ~IsOutermost(t))
  BY DEF Under
<1> HIDE DEF W
<1>3. QED
  BY <1>1, <1>2, MovesOn

(* A callback answers. *)
LEMMA AnswersStep ==
  ASSUME TypeOK, ToldFits, Live, NEW t \in Tx, Answers(t)
  PROVE  TypeOK' /\ ToldFits' /\ Live'
<1>1. Last(t) /\ tx[t].at \in Under /\ mishaps' \in 0..MaxMishaps
  BY GoesOnLast DEF Answers, Under, TypeOK
<1>2. PICK a \in {"jobs", "close"} : tx' = [tx EXCEPT ![t].at = a] /\ (a = "close" => ~IsOutermost(t))
  BY DEF Answers, Goes
<1>3. QED
  BY <1>1, <1>2, OnlyMovesOn DEF Answers, Under

(* A callback throws. *)
LEMMA ThrowsStep ==
  ASSUME TypeOK, ToldFits, Live, ~Overlapping, NEW t \in Tx, Throws(t)
  PROVE  TypeOK' /\ ToldFits' /\ Live'
<1>1. Last(t) /\ tx[t].at \in Under /\ mishaps' \in 0..MaxMishaps
  BY GoesOnLast DEF Throws, Under, Awaited, TypeOK
<1>2. QED
  BY <1>1, OnlyMovesOn DEF Throws, Goes, Under

(* A write of what waited, or the COMMIT, throws: the call is undone. *)
LEMMA StatementFailsStep ==
  ASSUME TypeOK, ToldFits, Live, NEW t \in Tx, StatementFails(t)
  PROVE  TypeOK' /\ ToldFits' /\ Live'
<1>1. Last(t) /\ tx[t].at \in Under /\ mishaps' \in 0..MaxMishaps
  BY GoesOnLast, CountAssumption DEF StatementFails, Under, Mishap, TypeOK
<1>2. QED
  BY <1>1, OnlyMovesOn DEF StatementFails, Goes, Under

(* The jobs that waited for the end of the call are written. *)
LEMMA SaveJobsStep ==
  ASSUME TypeOK, ToldFits, Live, NEW t \in Tx, SaveJobs(t)
  PROVE  TypeOK' /\ ToldFits' /\ Live'
<1>1. Last(t) /\ tx[t].at \in Under
  BY GoesOnLast DEF SaveJobs, Under
<1>2. /\ tx' = [tx EXCEPT ![t].at = "events"] /\ db' = db \cup Waiting(t, "job")
      /\ \A e \in Waiting(t, "job") : e \in waiting[t] /\ e[2] \in Stored
      /\ Waiting(t, "job") \subseteq db'
  BY DEF SaveJobs, Goes, Waiting, Stored
<1>3. QED
  BY <1>1, <1>2, MovesOn DEF SaveJobs, Under, TypeOK

(* The events that waited for the end of the call are written. *)
LEMMA SaveEventsStep ==
  ASSUME TypeOK, ToldFits, Live, NEW t \in Tx, SaveEvents(t)
  PROVE  TypeOK' /\ ToldFits' /\ Live'
<1>1. Last(t) /\ tx[t].at \in Under
  BY GoesOnLast DEF SaveEvents, Under
<1>2. /\ tx' = [tx EXCEPT ![t].at = "close"] /\ db' = db \cup Waiting(t, "event")
      /\ \A e \in Waiting(t, "event") : e \in waiting[t] /\ e[2] \in Stored
      /\ Waiting(t, "event") \subseteq db'
  BY DEF SaveEvents, Goes, Waiting, Stored
<1>3. IsOutermost(t) => Waiting(t, "job") \subseteq db'
  BY <1>2 DEF SaveEvents, Live, MarkFits
<1>4. QED
  BY <1>1, <1>2, <1>3, MovesOn DEF SaveEvents, Under, TypeOK

(* A callback writes its row. *)
LEMMA WritesStep ==
  ASSUME TypeOK, ToldFits, Live, ~Overlapping, NEW t \in Tx, Writes(t)
  PROVE  TypeOK' /\ ToldFits' /\ Live'
<1> DEFINE d == tx[t].did \cup {"row"}
<1>1. Last(t) /\ tx[t].at = "work" /\ "work" \in Under
  BY GoesOnLast DEF Writes, Under, Awaited
<1>2. tx[t] \in Call /\ tx[t].did \subseteq Kind
  BY DEF TypeOK, Call
<1>3. /\ tx' \in [Tx -> Call] /\ \A u \in Tx \ {t} : tx'[u] = tx[u]
      /\ tx'[t].at = "work" /\ tx'[t].did = d /\ tx'[t].parent = tx[t].parent /\ tx'[t].handed = tx[t].handed
      /\ tx'[t].plain = tx[t].plain /\ tx'[t].threw = tx[t].threw
  BY <1>1, <1>2 DEF TypeOK, Call, Writes, Kind
<1>4. d \in SUBSET Kind /\ tx[t].did \subseteq d
  BY <1>2 DEF Kind
<1>5. d \cap Announced \in {{}, Announced}
  <2>1. tx[t].did \cap Announced \in {{}, Announced}
    BY DEF Live, CallFits
  <2>2. d \cap Announced = tx[t].did \cap Announced
    BY DEF Announced
  <2>3. QED
    BY <2>1, <2>2
<1>6. Whole(t)'
  <2>1. Wrote(t, db) \cup Owed(t) = tx[t].did \ {"push"}
    BY <1>1 DEF Live, Accounts, Whole
  <2>2. Owed(t)' = Owed(t)
    BY DEF Owed, Writes
  <2>3. Wrote(t, db)' = Wrote(t, db) \cup {"row"}
    BY DEF Wrote, Writes, Kind
  <2>4. QED
    BY <2>1, <2>2, <2>3, <1>3 DEF Whole
<1>7. /\ {<<t, "row">>} \in SUBSET Effect /\ db' = db \cup {<<t, "row">>}
      /\ \A e \in {<<t, "row">>} : e = <<t, "row">> \/ (e \in waiting[t] /\ e[2] \in Stored)
  BY DEF Writes, Effect, Kind
<1>8. waiting' = [waiting EXCEPT ![t] = waiting[t] \cup {}] /\ mishaps' \in 0..MaxMishaps
  BY DEF TypeOK, Writes
<1>9. UNCHANGED <<points, line, told, up>>
  BY DEF Writes
<1> HIDE DEF d
<1>10. QED
  BY <1>1, <1>3, <1>4, <1>5, <1>6, <1>7, <1>8, <1>9, LastSteps

(* A callback emits an event: it waits in the mark. *)
LEMMA AnnouncesStep ==
  ASSUME TypeOK, ToldFits, Live, ~Overlapping, NEW t \in Tx, Announces(t)
  PROVE  TypeOK' /\ ToldFits' /\ Live'
<1> DEFINE d == tx[t].did \cup Announced
<1>1. Last(t) /\ tx[t].at = "work" /\ "work" \in Under
  BY GoesOnLast DEF Announces, Under, Awaited
<1>2. tx[t] \in Call /\ tx[t].did \subseteq Kind
  BY DEF TypeOK, Call
<1>3. /\ tx' \in [Tx -> Call] /\ \A u \in Tx \ {t} : tx'[u] = tx[u]
      /\ tx'[t].at = "work" /\ tx'[t].did = d /\ tx'[t].parent = tx[t].parent /\ tx'[t].handed = tx[t].handed
      /\ tx'[t].plain = tx[t].plain /\ tx'[t].threw = tx[t].threw
  BY <1>1, <1>2 DEF TypeOK, Call, Announces, Kind, Announced
<1>4. d \in SUBSET Kind /\ tx[t].did \subseteq d /\ Announced \subseteq d /\ d \cap Announced = Announced
  BY <1>2 DEF Kind, Announced
<1>5. Whole(t)'
  <2>1. Wrote(t, db) \cup Owed(t) = tx[t].did \ {"push"}
    BY <1>1 DEF Live, Accounts, Whole
  <2>2. Owed(t)' = Stored
    <3>1. {t} \X Announced \subseteq waiting'[t]
      BY DEF Announces, TypeOK
    <3>2. \A k \in Stored : <<t, k>> \in waiting'[t]
      BY <3>1 DEF Stored, Announced
    <3>3. QED
      BY <3>2 DEF Owed
  <2>3. Wrote(t, db)' = Wrote(t, db) /\ Owed(t) \subseteq Stored
    BY DEF Wrote, Announces, Owed
  <2>4. QED
    BY <2>1, <2>2, <2>3, <1>3 DEF Whole, Stored, Announced
<1>6. waiting' = [waiting EXCEPT ![t] = waiting[t] \cup ({t} \X Announced)] /\ mishaps' \in 0..MaxMishaps
  BY DEF TypeOK, Announces
<1>7. UNCHANGED <<points, line, told, up>> /\ db' = db \cup {}
  BY DEF Announces
<1> HIDE DEF d
<1>8. QED
  BY <1>1, <1>3, <1>4, <1>5, <1>6, <1>7, LastSteps

(* A call that begins, as the outermost or inside the last of the chain: its *)
(* point is the last, and nothing was done since.                            *)
LEMMA Begins ==
  ASSUME TypeOK, ToldFits, Live, NEW t \in Tx, tx[t].at \in {"idle", "queued"},
         \A u \in Tx : ~InnerTells(u),
         Top > 0 => tx[points[Top].name].at = "work",
         tx' \in [Tx -> Call], \A u \in Tx \ {t} : tx'[u] = tx[u],
         tx'[t].at = "work", tx'[t].did = {}, ~tx'[t].threw,
         tx'[t].parent = IF Top = 0 THEN NoTx ELSE points[Top].name,
         tx'[t].parent # NoTx /\ tx'[t].plain => tx'[t].handed /\ tx[tx'[t].parent].plain,
         points' = Append(points, [name |-> t, held |-> db]),
         UNCHANGED <<db, waiting, told, up>>, mishaps' \in 0..MaxMishaps, InLine'
  PROVE  TypeOK' /\ ToldFits' /\ Live'
<1>1. /\ Top \in Nat /\ DOMAIN points = 1..Top /\ points \in Seq(Point)
      /\ \A i \in 1..Top : points[i].name \in Tx /\ points[i].held \subseteq Effect
  BY PointTypes DEF Live, Chained
<1>2. /\ Top' = Top + 1 /\ points' \in Seq(Point) /\ DOMAIN points' = 1..(Top + 1)
      /\ \A i \in 1..Top : points'[i] = points[i]
      /\ points'[Top + 1].name = t /\ points'[Top + 1].held = db
  <2>1. [name |-> t, held |-> db] \in Point
    BY DEF Point, TypeOK
  <2>2. QED
    BY <2>1, <1>1 DEF Top
<1>0. PICK m \in Nat : m = Top + 1
  BY <1>1
<1>3. TypeOK'
  BY <1>1, <1>2 DEF TypeOK, InLine
<1>4. CallFits(t) /\ ~(tx[t].at \in Under) /\ tx[t].at # "tell"
  BY DEF Live, Under
<1>5. /\ tx[t].did = {} /\ Children(t) = {} /\ Gone(t) /\ waiting[t] = {} /\ tx[t].parent = NoTx
      /\ \A i \in 1..Top : points[i].name # t
  BY <1>1, <1>4 DEF CallFits, Live, Chained
<1>6. tx'[t].parent # t /\ tx'[t].parent \in Tx \cup {NoTx}
  BY <1>1, <1>5, NamesAssumption
<1>7. \A u \in Tx : /\ ~InnerTells(u)' /\ (RootTells(u)' <=> RootTells(u))
                    /\ Children(u)' \subseteq Children(u) \cup {t}
                    /\ t \in Children(u)' => Top > 0 /\ u = points[Top].name
                    /\ \A v \in Tx : Owes(u, v)' <=> Owes(u, v)
                    /\ (u = t \/ ~Owes(u, t)) /\ ~Owes(t, u)
  <2>1. \A u \in Tx : ~InnerTells(u)' /\ (RootTells(u)' <=> RootTells(u))
    BY <1>4, <1>5 DEF InnerTells, RootTells
  <2>2. \A u, v \in Tx : Owes(u, v)' <=> Owes(u, v)
    BY DEF Owes
  <2>3. \A u \in Tx : ~Owes(u, t) /\ ~Owes(t, u)
    BY <1>5 DEF Gone, Owes
  <2>4. \A u \in Tx : Children(u)' \subseteq Children(u) \cup {t} /\ (t \in Children(u)' => Top > 0 /\ u = points[Top].name)
    <3>1. \A u \in Tx : tx'[t].parent = u => Top > 0 /\ u = points[Top].name
      <4>1. CASE Top = 0
        BY <4>1, NamesAssumption
      <4>2. CASE Top > 0
        BY <4>2, <1>1
      <4>3. QED
        BY <4>1, <4>2, <1>1
    <3>2. QED
      BY <3>1 DEF Children
  <2>5. QED
    BY <2>1, <2>2, <2>3, <2>4
<1>8. \A i \in 1..Top, u \in Tx : /\ Above(i, u)' <=> Above(i, u) \/ u = t
                                  /\ Below(i, u)' <=> Below(i, u)
                                  /\ ~Below(i, t)
  BY <1>1, <1>2, <1>5, <1>7 DEF Above, Below
<1>9. \A u \in Tx : (Below(m, u)' <=> On(u)) /\ (Above(m, u)' <=> u = t)
  BY <1>0, <1>1, <1>2, <1>7 DEF Above, Below, On
<1>10. \A v \in Tx : Whole(v)' <=> v = t \/ Whole(v)
  <2>1. \A v \in Tx : Owed(v)' = Owed(v) /\ Wrote(v, db)' = Wrote(v, db)
    BY DEF Owed, Wrote
  <2>2. Owed(t) = {} /\ Wrote(t, db) = {}
    BY <1>5 DEF Gone, Owed, Owes, Stored, Kind
  <2>3. \A v \in Tx \ {t} : Whole(v)' <=> Whole(v)
    BY <2>1 DEF Whole
  <2>4. Whole(t)'
    BY <2>1, <2>2 DEF Whole
  <2>5. QED
    BY <2>3, <2>4
<1>11. \A v \in Tx : Gone(v)' <=> Gone(v)
  BY <1>7 DEF Gone, Wrote
<1>12. \A i \in 1..Top, v \in Tx : (Fresh(i, v) => Fresh(i, v)') /\ (Same(i, v) => Same(i, v)')
  <2> SUFFICES ASSUME NEW i \in 1..Top, NEW v \in Tx
               PROVE  (Fresh(i, v) => Fresh(i, v)') /\ (Same(i, v) => Same(i, v)')
    OBVIOUS
  <2>1. points'[i] = points[i]
    BY <1>2
  <2>2. Fresh(i, v) => Fresh(i, v)'
    BY <2>1, <1>7, <1>8 DEF Fresh, Wrote
  <2>3. Same(i, v) => Same(i, v)'
    BY <2>1, <1>8 DEF Same, Wrote
  <2>4. QED
    BY <2>2, <2>3
<1>13. \A i \in 1..Top : Fresh(i, t)'
  <2> SUFFICES ASSUME NEW i \in 1..Top PROVE Fresh(i, t)'
    OBVIOUS
  <2>1. Wrote(t, points[i].held) = {}
    BY <1>5, HeldInDb DEF Wrote, Gone
  <2>2. \A u \in Tx : ~Owes(u, t)'
    BY <1>5, <1>7 DEF Gone
  <2>3. points'[i] = points[i]
    BY <1>2
  <2>4. QED
    BY <2>1, <2>2, <2>3 DEF Fresh, Wrote
<1>14. \A i \in 1..Top : PointFits(i)'
  <2> SUFFICES ASSUME NEW i \in 1..Top PROVE PointFits(i)'
    OBVIOUS
  <2>1. PointFits(i)
    BY DEF Live
  <2>2. \A v \in Tx : Fresh(i, v)' \/ Same(i, v)'
    BY <2>1, <1>12 DEF PointFits
  <2>3. ASSUME NEW u \in Tx, Above(i, u)' PROVE Takes(i, u)'
    <3>1. CASE u = t
      <4>1. Children(t)' = {} /\ \A v \in Tx : ~Owes(t, v)'
        BY SMTT(60), <1>1, <1>5, <1>7
      <4>2. QED
        BY <3>1, <4>1, <1>13 DEF Takes
    <3>2. CASE u # t
      <4>1. Takes(i, u)
        BY <2>1, <2>3, <3>2, <1>8 DEF PointFits
      <4>2. \A v \in Children(u)' : Fresh(i, v)'
        BY <4>1, <1>7, <1>12, <1>13 DEF Takes, Children
      <4>3. QED
        BY <4>1, <4>2, <1>7, <1>12 DEF Takes
    <3>3. QED
      BY <3>1, <3>2
  <2>4. \A u \in Tx : Below(i, u)' \/ RootTells(u)' => Same(i, u)'
    BY <2>1, <1>7, <1>8, <1>12 DEF PointFits
  <2>5. \A j \in i..(Top + 1) : points'[i].held \subseteq points'[j].held
    <3>1. \A j \in i..Top : points[i].held \subseteq points[j].held
      BY <2>1 DEF PointFits
    <3>2. points[i].held \subseteq db
      BY HeldInDb
    <3>3. QED
      BY <3>1, <3>2, <1>1, <1>2
  <2>6. QED
    BY <2>2, <2>3, <2>4, <2>5, <1>2 DEF PointFits
<1>15. PointFits(m)' /\ Takes(m, t)' /\ \A v \in Tx : Same(m, v)'
  <2>1. \A v \in Tx : Same(m, v)'
    <3> SUFFICES ASSUME NEW v \in Tx PROVE Same(m, v)'
      OBVIOUS
    <3>1. points'[m].held = db'
      BY <1>0, <1>2
    <3>2. ASSUME NEW u \in Tx, NEW k \in Stored, <<v, k>> \in waiting[u] PROVE <<v, k>> \in db \/ On(u)
      <4>1. Owes(u, v)
        BY <3>2 DEF Owes, Stored, Kind
      <4>2. On(u) \/ RootTells(u)
        BY <4>1, OwingFits
      <4>3. RootTells(u) => Waiting(u, "job") \subseteq db /\ Waiting(u, "event") \subseteq db
        BY DEF RootTells, Live, MarkFits, IsOutermost, IsRoot
      <4>4. QED
        BY <3>2, <4>2, <4>3 DEF Waiting, Stored
    <3>3. QED
      BY <3>1, <3>2, <1>9 DEF Same, Wrote
  <2>2. Takes(m, t)'
    <3>1. Children(t)' = {} /\ (\A v \in Tx : ~Owes(t, v)') /\ \A u \in Tx : ~Owes(u, t)'
      BY <1>1, <1>5, <1>7 DEF Gone
    <3>2. Wrote(t, points'[m].held) = {}
      BY <1>0, <1>2, <1>5 DEF Gone
    <3>3. Fresh(m, t)'
      BY <3>1, <3>2 DEF Fresh, Wrote
    <3>4. QED
      BY <3>1, <3>3 DEF Takes
  <2>3. \A j \in m..m : points'[m].held \subseteq points'[j].held
    BY <1>0, <1>1
  <2>4. QED
    BY <2>1, <2>2, <2>3, <1>0, <1>2, <1>9 DEF PointFits
<1>16. ASSUME NEW u \in Tx PROVE CallFits(u)' /\ Accounts(u)' /\ MarkFits(u)'
  <2>1. CallFits(u) /\ Accounts(u) /\ MarkFits(u)
    BY DEF Live
  <2>2. CASE u = t
    <3>1. CallFits(t)'
      BY <1>6, <1>7 DEF CallFits, Under
    <3>2. Accounts(t)'
      BY <1>10 DEF Accounts
    <3>3. MarkFits(t)'
      BY <1>7, <1>5 DEF MarkFits, Waiting
    <3>4. QED
      BY <2>2, <3>1, <3>2, <3>3
  <2>3. CASE u # t
    <3>1. tx'[u] = tx[u] /\ (tx[u].parent = NoTx \/ tx[u].parent \in Tx)
      BY <2>3 DEF TypeOK, Call
    <3>2. tx[u].parent # NoTx /\ tx[u].plain => tx[tx[u].parent].plain /\ tx[u].parent # t
      BY <2>1, <1>5, <3>1 DEF CallFits, Children
    <3>3. tx[u].at \in {"idle", "queued"} \/ tx[u].threw => t \notin Children(u)'
      BY <2>1, <1>1, <1>7 DEF CallFits
    <3>4. tx[u].at \in {"idle", "queued"} \/ tx[u].threw => Children(u)' \subseteq Children(u)
      BY <3>3, <1>7
    <3>5. CallFits(u)'
      BY <2>1, <3>1, <3>2, <3>4, <1>7, <1>11 DEF CallFits
    <3>6. Accounts(u)'
      BY <2>1, <2>3, <3>1, <3>4, <1>10, <1>11 DEF Accounts, Children
    <3>7. MarkFits(u)'
      <4>1. ASSUME NEW v \in Tx, Owes(u, v)' PROVE WaitsFor(u, v)'
        <5>1. Owes(u, v) /\ v # t
          BY <4>1, <1>5, <1>7 DEF Gone
        <5>2. WaitsFor(u, v)
          BY <5>1, <2>1 DEF MarkFits
        <5>3. QED
          BY <5>1, <5>2, <3>1 DEF WaitsFor
      <4>2. QED
        BY <4>1, <2>1, <3>1 DEF MarkFits, IsOutermost, IsRoot, Waiting
    <3>8. QED
      BY <3>5, <3>6, <3>7
  <2>4. QED
    BY <2>2, <2>3
<1>17. EventsTold'
  BY DEF Live, EventsTold
<1>18. Chained'
  <2>1. Chained
    BY DEF Live
  <2>2. \A i, j \in 1..(Top + 1) : points'[i].name = points'[j].name => i = j
    BY <2>1, <1>1, <1>2, <1>5 DEF Chained
  <2>3. ASSUME NEW i \in 1..(Top + 1)
        PROVE  /\ tx'[points'[i].name].at \in Under
               /\ i < Top + 1 => tx'[points'[i].name].at = "work"
               /\ tx'[points'[i].name].parent = IF i = 1 THEN NoTx ELSE points'[i - 1].name
    <3>1. CASE i \in 1..Top
      <4>1. tx'[points'[i].name] = tx[points[i].name] /\ (i # 1 => points'[i - 1] = points[i - 1])
        BY <3>1, <1>1, <1>2, <1>5
      <4>2. i < Top \/ i = Top
        BY <3>1, <1>1
      <4>3. QED
        BY <2>1, <3>1, <4>1, <4>2, <1>1 DEF Chained
    <3>2. CASE i = Top + 1
      BY <3>2, <1>1, <1>2 DEF Under
    <3>3. QED
      BY <3>1, <3>2, <1>1
  <2>4. \A u \in Tx : On(u)' <=> On(u) \/ u = t
    BY <1>1, <1>2 DEF On
  <2>5. \A u \in Tx : tx'[u].at \in Under => On(u)'
    BY <2>1, <2>4 DEF Chained
  <2>6. QED
    BY <1>2, <2>2, <2>3, <2>5 DEF Chained
<1>19. ToldFits'
  <2>1. Committed' = Committed
    <3>1. (points = <<>> <=> Top = 0) /\ points' # <<>>
      BY <1>1, <1>2, PointTypes
    <3>2. points'[1].held = Committed
      BY <3>1, <1>1, <1>2 DEF Committed
    <3>3. QED
      BY <3>1, <3>2 DEF Committed
  <2>2. \A v \in Tx : KeptOf(v)' = KeptOf(v)
    BY <2>1 DEF KeptOf
  <2>3. ASSUME NEW e \in told, tx'[e[1]].plain
        PROVE  tx'[e[1]].at \in {"tell", "ended"} /\ Announced \subseteq tx'[e[1]].did /\ IsTrue(e)'
    <3>1. e[1] \in Tx
      BY DEF TypeOK, Effect
    <3>2. e[1] # t
      BY <1>4 DEF ToldFits, CallFits
    <3>3. QED
      BY <3>1, <3>2, <2>2, <2>3 DEF ToldFits, IsTrue
  <2>4. QED
    BY <2>3 DEF ToldFits
<1>20. \A i \in 1..Top' : PointFits(i)'
  BY <1>0, <1>1, <1>2, <1>14, <1>15
<1>21. Joined'
  <2>0. Joined
    BY DEF Live
  <2>1. \A v \in Tx \ {t} : /\ \A u \in Tx : Outside(u, v)' <=> Outside(u, v)
                            /\ Outside(t, v)
                            /\ Stands(v)' <=> Stands(v)
    BY <1>5, LeafMoves
  <2>2. ASSUME NEW i \in 1..Top, NEW u \in Tx, u = points[i].name PROVE ~Outside(u, t)'
    <3>1. PICK p \in Tx : p = points[Top].name /\ p # t /\ tx'[t].parent = p
      BY <1>1, <1>5
    <3>2. ~Outside(u, p)
      <4>1. Top \in 1..Top /\ i <= Top
        BY <1>1
      <4>2. QED
        BY <2>0, <2>2, <3>1, <4>1 DEF Joined, Nested
    <3>3. ~Outside(u, p)' /\ ~Outside(p, t)'
      BY <2>1, <3>1, <3>2, InsideInside
    <3>4. QED
      BY <3>3, InsideInside
  <2>3. \A v \in Tx : StandsWhole(v)'
    BY <2>0, <2>1, <1>5, <1>10, <1>11 DEF Joined, StandsWhole
  <2>4. ASSUME NEW i \in 1..Top, NEW v \in Tx PROVE TakesInside(i, v)'
    <3>1. points'[i].name = points[i].name /\ points[i].name \in Tx
      BY <1>1, <1>2
    <3>0. PICK u \in Tx : u = points[i].name
      BY <1>1
    <3>2. CASE v = t
      BY <2>2, <3>0, <3>1, <3>2, <1>13 DEF TakesInside
    <3>3. CASE v # t
      <4>1. Outside(u, v)' <=> Outside(u, v)
        BY <2>1, <3>3
      <4>2. TakesInside(i, v)
        BY <2>0 DEF Joined
      <4>3. QED
        BY <3>0, <3>1, <4>1, <4>2, <1>12 DEF TakesInside
    <3>4. QED
      BY <3>2, <3>3
  <2>5. ASSUME NEW v \in Tx PROVE TakesInside(m, v)'
    <3>1. points'[m].name = t /\ Takes(m, t)' /\ Same(m, v)'
      BY <1>0, <1>2, <1>15
    <3>2. CASE v = t
      BY <3>1, <3>2, InsideInside DEF TakesInside, Takes
    <3>3. CASE v # t
      <4>1. Outside(t, v)'
        BY <3>3, <2>1
      <4>2. QED
        BY <3>1, <4>1 DEF TakesInside
    <3>4. QED
      BY <3>2, <3>3
  <2>6. Nested'
    <3>1. \A u, v \in Tx : Owes(u, v)' => ~Outside(u, v)'
      <4> SUFFICES ASSUME NEW u \in Tx, NEW v \in Tx, Owes(u, v)' PROVE ~Outside(u, v)'
        OBVIOUS
      <4>1. Owes(u, v) /\ v # t
        BY <1>5, <1>7 DEF Gone
      <4>2. QED
        BY <4>1, <2>0, <2>1 DEF Joined, Nested
    <3>2. ASSUME NEW i \in 1..m, NEW j \in 1..m, i <= j, NEW u \in Tx, NEW v \in Tx,
                 u = points'[i].name, v = points'[j].name
          PROVE  ~Outside(u, v)'
      <4>1. CASE j \in 1..Top
        <5>1. i \in 1..Top /\ u = points[i].name /\ v = points[j].name /\ v # t
          BY <3>2, <4>1, <1>1, <1>2, <1>5
        <5>2. ~Outside(u, v)
          BY <5>1, <4>1, <3>2, <2>0 DEF Joined, Nested
        <5>3. QED
          BY <5>1, <5>2, <2>1
      <4>2. CASE j = m /\ i \in 1..Top
        BY <3>2, <4>2, <2>2, <1>0, <1>2
      <4>3. CASE j = m /\ i = m
        BY <3>2, <4>3, InsideInside
      <4>4. QED
        BY <4>1, <4>2, <4>3, <1>0, <1>1, <3>2
    <3>3. \A i \in 1..m : points'[i].name \in Tx
      BY <1>0, <1>1, <1>2
    <3>4. Top' = m
      BY <1>0, <1>2
    <3>5. QED
      BY <3>1, <3>2, <3>3, <3>4 DEF Nested
  <2>7. QED
    BY <2>3, <2>4, <2>5, <2>6, <1>0, <1>1, <1>2 DEF Joined
<1>22. QED
  BY <1>3, <1>20, <1>16, <1>17, <1>18, <1>19, <1>21 DEF Live

(* The line without its head *)
LEMMA HeadLeaves ==
  ASSUME InLine, NEW t \in Tx, line # <<>>, t = Head(line), line' = Tail(line),
         \A u \in Tx \ {t} : tx'[u] = tx[u]
  PROVE  InLine' /\ tx[t].at = "queued"
<1>1. /\ Len(line) \in Nat /\ Len(line) > 0 /\ line[1] = t
      /\ \A i \in 1..Len(line) : line[i] \in Tx
  BY EmptySeq DEF InLine
<1>2. /\ line' \in Seq(Tx) /\ Len(line') = Len(line) - 1
      /\ \A i \in 1..Len(line') : line'[i] = line[i + 1]
  BY <1>1 DEF InLine
<1>3. \A i \in 1..Len(line') : line'[i] # t /\ i + 1 \in 1..Len(line)
  BY <1>1, <1>2 DEF InLine
<1>4. QED
  BY <1>1, <1>2, <1>3 DEF InLine

(* The first in the queue begins the transaction: the one point is what was committed. *)
LEMMA BeginStep ==
  ASSUME TypeOK, ToldFits, Live, NEW t \in Tx, Begin(t)
  PROVE  TypeOK' /\ ToldFits' /\ Live'
<1>1. tx[t] \in Call /\ Call # {} /\ tx' = [tx EXCEPT ![t].at = "work"]
  BY DEF TypeOK, Begin, Goes
<1>2. /\ tx' \in [Tx -> Call] /\ \A u \in Tx \ {t} : tx'[u] = tx[u]
      /\ tx'[t].at = "work" /\ tx'[t].did = tx[t].did /\ tx'[t].parent = tx[t].parent /\ tx'[t].threw = tx[t].threw
  BY <1>1 DEF TypeOK, Call
<1>3. InLine' /\ tx[t].at = "queued"
  BY <1>2, HeadLeaves DEF Begin, Live
<1>4. tx[t].did = {} /\ ~tx[t].threw /\ tx[t].parent = NoTx
  BY <1>3, <1>1 DEF Live, CallFits, Call
<1>5. Top = 0 /\ points = <<>>
  <2>1. Top \in Nat /\ (points = <<>> <=> Top = 0) /\ \A i \in 1..Top : points[i].name \in Tx
    BY PointTypes DEF Live, Chained
  <2>2. SUFFICES ASSUME Top # 0 PROVE FALSE
    BY <2>1
  <2>3. 1 \in 1..Top
    BY <2>1, <2>2
  <2>4. tx[points[1].name].at \in Under /\ tx[points[1].name].parent = NoTx
    BY <2>3 DEF Live, Chained
  <2>5. QED
    BY <2>1, <2>3, <2>4 DEF Begin, IsRoot
<1>6. \A u \in Tx : ~InnerTells(u)
  BY <1>5 DEF Live, CallFits
<1>7. points' = Append(points, [name |-> t, held |-> db])
  BY <1>5 DEF Begin
<1>8. UNCHANGED <<db, waiting, told, up>> /\ mishaps' \in 0..MaxMishaps
  BY DEF Begin, TypeOK
<1>9. QED
  BY <1>2, <1>3, <1>4, <1>5, <1>6, <1>7, <1>8, Begins

(* A callback that waits for its inner call sets a savepoint for it. *)
LEMMA OpenStep ==
  ASSUME TypeOK, ToldFits, Live, ~Overlapping, NEW t \in Tx, NEW p \in Tx, NEW handed \in BOOLEAN,
         Open(t, p, handed)
  PROVE  TypeOK' /\ ToldFits' /\ Live'
<1>1. Last(p) /\ tx[p].at = "work" /\ tx[t].at = "idle"
  BY GoesOnLast DEF Open, Under, Awaited
<1>2. tx[p].plain \in BOOLEAN
  BY DEF TypeOK, Call
<1>3. /\ tx' \in [Tx -> Call] /\ \A u \in Tx \ {t} : tx'[u] = tx[u]
      /\ tx'[t].at = "work" /\ tx'[t].did = {} /\ tx'[t].threw = FALSE /\ tx'[t].parent = p
      /\ tx'[t].handed = handed /\ tx'[t].plain = (handed /\ tx[p].plain)
  BY <1>2 DEF TypeOK, Open, NewCall, Call
<1>4. Top > 0 /\ points[Top].name = p /\ \A u \in Tx : ~InnerTells(u)
  BY <1>1 DEF Last
<1>5. InLine'
  <2>1. InLine
    BY DEF Live
  <2>2. \A i \in 1..Len(line) : line[i] \in Tx \ {t}
    BY <2>1, <1>1 DEF InLine
  <2>3. QED
    BY <2>1, <2>2, <1>3 DEF InLine, Open
<1>6. /\ UNCHANGED <<db, waiting, told, up>> /\ mishaps' \in 0..MaxMishaps
      /\ points' = Append(points, [name |-> t, held |-> db])
  BY DEF Open, TypeOK
<1>7. tx'[t].parent = IF Top = 0 THEN NoTx ELSE points[Top].name
  BY <1>3, <1>4, PointTypes DEF Live, Chained
<1>8. QED
  BY <1>1, <1>3, <1>4, <1>5, <1>6, <1>7, Begins

(* Who is first in the line waits in it. *)
LEMMA HeadQueued ==
  ASSUME InLine, line # <<>>
  PROVE  tx[Head(line)].at = "queued"
<1>1. Len(line) \in Nat /\ Len(line) > 0 /\ Head(line) = line[1]
  BY EmptySeq DEF InLine
<1>2. QED
  BY <1>1 DEF InLine

(* A call that has not begun moves: it waits for the connection, or is refused it. *)
LEMMA NotBegun ==
  ASSUME TypeOK, ToldFits, Live, NEW t \in Tx, tx[t].at \in {"idle", "queued"},
         tx' \in [Tx -> Call], \A u \in Tx \ {t} : tx'[u] = tx[u],
         tx'[t].at \in {"queued", "ended"}, tx'[t].threw => tx'[t].at = "ended",
         tx'[t].did = tx[t].did, tx'[t].parent = tx[t].parent, tx'[t].plain = tx[t].plain, tx'[t].handed = tx[t].handed,
         UNCHANGED <<db, points, waiting, told, up>>, mishaps' \in 0..MaxMishaps, InLine'
  PROVE  TypeOK' /\ ToldFits' /\ Live'
<1>1. /\ Top \in Nat /\ DOMAIN points = 1..Top /\ Top' = Top
      /\ \A i \in 1..Top : points[i].name \in Tx
  BY PointTypes DEF Live, Chained, Top
<1>2. CallFits(t) /\ ~(tx[t].at \in Under) /\ ~(tx'[t].at \in Under) /\ tx[t].at # "tell" /\ tx'[t].at # "tell"
  BY DEF Live, Under
<1>3. tx[t].did = {} /\ Children(t) = {} /\ Gone(t) /\ waiting[t] = {} /\ tx[t].parent = NoTx /\ tx[t].plain
  BY <1>2 DEF CallFits
<1>4. TypeOK'
  BY DEF TypeOK, InLine
<1>5. \A u \in Tx : /\ InnerTells(u)' <=> InnerTells(u)
                    /\ RootTells(u)' <=> RootTells(u)
                    /\ Children(u)' = Children(u) /\ Children(u) \subseteq Tx
                    /\ IsOutermost(u)' <=> IsOutermost(u)
                    /\ tx[u].at # tx'[u].at => u = t
                    /\ tx'[u].did = tx[u].did /\ tx'[u].parent = tx[u].parent
                    /\ tx'[u].plain = tx[u].plain /\ tx'[u].handed = tx[u].handed
  BY <1>2 DEF InnerTells, RootTells, Children, IsOutermost, IsRoot
<1>6. \A u, v \in Tx : Owes(u, v)' <=> Owes(u, v)
  BY DEF Owes
<1>7. \A v \in Tx : (Whole(v)' <=> Whole(v)) /\ (Gone(v)' <=> Gone(v))
  BY <1>5, <1>6 DEF Whole, Gone, Wrote, Owed
<1>8. \A i \in 1..Top, u \in Tx : (Above(i, u)' <=> Above(i, u)) /\ (Below(i, u)' <=> Below(i, u))
  BY <1>1, <1>5 DEF Above, Below
<1>9. \A i \in 1..Top, u \in Tx : (Fresh(i, u)' <=> Fresh(i, u)) /\ (Same(i, u)' <=> Same(i, u))
  <2> SUFFICES ASSUME NEW i \in 1..Top, NEW u \in Tx
               PROVE  (Fresh(i, u)' <=> Fresh(i, u)) /\ (Same(i, u)' <=> Same(i, u))
    OBVIOUS
  <2>1. Fresh(i, u)' <=> Fresh(i, u)
    BY <1>6, <1>8 DEF Fresh, Wrote
  <2>2. Same(i, u)' <=> Same(i, u)
    BY <1>8 DEF Same, Wrote
  <2>3. QED
    BY <2>1, <2>2
<1>10. \A i \in 1..Top : PointFits(i)'
  <2> SUFFICES ASSUME NEW i \in 1..Top PROVE PointFits(i)'
    OBVIOUS
  <2>1. PointFits(i)
    BY DEF Live
  <2>2. \A u \in Tx : Takes(i, u)' <=> Takes(i, u)
    BY <1>5, <1>6, <1>9 DEF Takes
  <2>3. QED
    BY <2>1, <2>2, <1>1, <1>5, <1>8, <1>9 DEF PointFits
<1>11. ASSUME NEW u \in Tx PROVE CallFits(u)' /\ Accounts(u)' /\ MarkFits(u)'
  <2>1. CallFits(u) /\ Accounts(u) /\ MarkFits(u)
    BY DEF Live
  <2>2. \A v \in Tx : Owes(u, v)' => WaitsFor(u, v)'
    <3> SUFFICES ASSUME NEW v \in Tx, Owes(u, v)' PROVE WaitsFor(u, v)'
      OBVIOUS
    <3>1. WaitsFor(u, v) /\ v # t
      BY <2>1, <1>3, <1>6 DEF MarkFits, Gone
    <3>2. QED
      BY <3>1, <1>5 DEF WaitsFor
  <2>3. tx[u].parent = NoTx \/ tx[u].parent \in Tx
    BY DEF TypeOK, Call
  <2>4. tx'[u].parent # NoTx /\ tx'[u].plain => tx'[u].handed /\ tx'[tx'[u].parent].plain
    BY <2>1, <2>3, <1>5 DEF CallFits
  <2>5. ~InnerTells(u)' \/ (tx[u].parent # t /\ tx[u].parent \in Tx)
    BY <1>3, <1>5, <2>3 DEF InnerTells, Children
  <2>6. InnerTells(u)' => Top > 0 /\ tx'[u].parent = points[Top].name /\ tx'[tx'[u].parent].at = "work"
    BY <2>1, <2>5, <1>5 DEF CallFits
  <2>7. CASE u = t
    <3>1. CallFits(t)'
      BY <2>4, <2>6, <2>7, <1>1, <1>2, <1>3, <1>5, <1>7 DEF CallFits
    <3>2. Accounts(t)' /\ MarkFits(t)'
      BY <2>2, <2>7, <1>2, <1>3, <1>5, <1>7 DEF Accounts, MarkFits, Waiting
    <3>3. QED
      BY <2>7, <3>1, <3>2
  <2>8. CASE u # t
    <3>1. tx'[u] = tx[u]
      BY <2>8
    <3>2. CallFits(u)'
      BY <2>1, <2>4, <2>6, <3>1, <1>1, <1>5, <1>7 DEF CallFits
    <3>3. Accounts(u)'
      BY <2>1, <3>1, <1>5, <1>7 DEF Accounts
    <3>4. MarkFits(u)'
      BY <2>1, <2>2, <3>1, <1>5 DEF MarkFits, Waiting
    <3>5. QED
      BY <3>2, <3>3, <3>4
  <2>9. QED
    BY <2>7, <2>8
<1>12. EventsTold'
  BY DEF Live, EventsTold
<1>13. Chained'
  <2>1. \A i \in 1..Top : points[i].name \in Tx \ {t}
    BY <1>1, <1>2 DEF Live, Chained
  <2>2. \A u \in Tx : On(u)' <=> On(u)
    BY <1>1 DEF On
  <2>3. QED
    BY SMTT(60), <2>1, <2>2, <1>1, <1>2 DEF Live, Chained
<1>14. ToldFits'
  <2>1. \A v \in Tx : KeptOf(v)' = KeptOf(v)
    BY DEF KeptOf, Committed
  <2>2. ASSUME NEW e \in told, tx'[e[1]].plain
        PROVE  tx'[e[1]].at \in {"tell", "ended"} /\ Announced \subseteq tx'[e[1]].did /\ IsTrue(e)'
    <3>1. e[1] \in Tx
      BY DEF TypeOK, Effect
    <3>2. tx[e[1]].plain /\ e[1] # t
      BY <3>1, <2>2, <1>2, <1>3, <1>5 DEF ToldFits
    <3>3. QED
      BY <3>1, <3>2, <2>1 DEF ToldFits, IsTrue
  <2>3. QED
    BY <2>2 DEF ToldFits
<1>15. Joined'
  <2>0. Joined
    BY DEF Live
  <2>1. \A u, v \in Tx : Outside(u, v)' <=> Outside(u, v)
    BY <1>5, SameTree
  <2>2. \A v \in Tx \ {t} : Stands(v)' <=> Stands(v)
    BY <1>3, LeafMoves
  <2>3. \A v \in Tx : StandsWhole(v)'
    <3>1. Gone(t)' /\ Whole(t)'
      BY <1>3, <1>7 DEF Gone, Whole, Owed, Owes, Stored, Kind
    <3>2. QED
      BY <2>0, <2>2, <3>1, <1>7 DEF Joined, StandsWhole
  <2>4. \A i \in 1..Top, v \in Tx : TakesInside(i, v)'
    BY <2>0, <2>1, <1>1, <1>9 DEF Joined, TakesInside
  <2>5. Nested'
    BY <2>0, <2>1, <1>1, <1>6 DEF Joined, Nested
  <2>6. QED
    BY <2>3, <2>4, <2>5, <1>1 DEF Joined
<1>16. QED
  BY <1>1, <1>4, <1>10, <1>11, <1>12, <1>13, <1>14, <1>15 DEF Live

(* A call of its own joins the queue. *)
LEMMA AskStep ==
  ASSUME TypeOK, ToldFits, Live, NEW t \in Tx, Ask(t)
  PROVE  TypeOK' /\ ToldFits' /\ Live'
<1>1. tx[t] \in Call /\ tx[t].at = "idle" /\ ~tx[t].threw
  BY DEF TypeOK, Ask, Live, CallFits
<1>2. /\ tx' \in [Tx -> Call] /\ \A u \in Tx \ {t} : tx'[u] = tx[u]
      /\ tx'[t].at = "queued" /\ tx'[t].threw = tx[t].threw
      /\ tx'[t].did = tx[t].did /\ tx'[t].parent = tx[t].parent /\ tx'[t].plain = tx[t].plain /\ tx'[t].handed = tx[t].handed
  BY <1>1 DEF TypeOK, Call, Ask, Goes
<1>3. InLine'
  <2>1. /\ line \in Seq(Tx) /\ Len(line) \in Nat
        /\ \A i \in 1..Len(line) : line[i] \in Tx \ {t}
    BY <1>1 DEF Live, InLine
  <2>2. /\ line' \in Seq(Tx) /\ Len(line') = Len(line) + 1 /\ line'[Len(line) + 1] = t
        /\ \A i \in 1..Len(line) : line'[i] = line[i]
    BY <2>1 DEF Ask
  <2>3. \A i \in 1..(Len(line) + 1) : i \in 1..Len(line) \/ i = Len(line) + 1
    BY <2>1
  <2>4. \A i \in 1..(Len(line) + 1) : tx'[line'[i]].at = "queued"
    BY <2>1, <2>2, <2>3, <1>2 DEF Live, InLine
  <2>5. \A i, j \in 1..(Len(line) + 1) : line'[i] = line'[j] => i = j
    BY <2>1, <2>2, <2>3 DEF Live, InLine
  <2>6. QED
    BY <2>2, <2>4, <2>5 DEF InLine
<1>4. UNCHANGED <<db, points, waiting, told, up>> /\ mishaps' \in 0..MaxMishaps
  BY DEF Ask, TypeOK
<1>5. QED
  BY <1>1, <1>2, <1>3, <1>4, NotBegun

(* BEGIN fails: the call ends, and the queue goes on. *)
LEMMA BeginFailsStep ==
  ASSUME TypeOK, ToldFits, Live, NEW t \in Tx, BeginFails(t)
  PROVE  TypeOK' /\ ToldFits' /\ Live'
<1>1. tx[t] \in Call
  BY DEF TypeOK
<1>2. /\ tx' \in [Tx -> Call] /\ \A u \in Tx \ {t} : tx'[u] = tx[u]
      /\ tx'[t].at = "ended" /\ tx'[t].threw
      /\ tx'[t].did = tx[t].did /\ tx'[t].parent = tx[t].parent /\ tx'[t].plain = tx[t].plain /\ tx'[t].handed = tx[t].handed
  BY <1>1 DEF TypeOK, Call, BeginFails
<1>3. InLine' /\ tx[t].at = "queued"
  BY <1>2, HeadLeaves DEF BeginFails, Live
<1>4. UNCHANGED <<db, points, waiting, told, up>> /\ mishaps' \in 0..MaxMishaps
  BY CountAssumption DEF BeginFails, Mishap, TypeOK
<1>5. QED
  BY <1>2, <1>3, <1>4, NotBegun

(* The last point of the chain goes, with COMMIT, RELEASE or a rollback. *)
LEMMA LastGoes ==
  ASSUME TypeOK, Live, Top > 0, points' = Before(Top)
  PROVE  /\ Top \in Nat /\ points \in Seq(Point) /\ points' \in Seq(Point) /\ Top' = Top - 1
         /\ DOMAIN points' = 1..(Top - 1) /\ (points' = <<>> <=> Top = 1)
         /\ \A i \in 1..Top : points[i].name \in Tx /\ points[i].held \subseteq Effect
         /\ \A i \in 1..(Top - 1) : points'[i] = points[i]
<1>1. /\ Top \in Nat /\ points \in Seq(Point)
      /\ \A i \in 1..Top : points[i].name \in Tx /\ points[i].held \subseteq Effect
  BY PointTypes DEF Live, Chained
<1>2. points' \in Seq(Point) /\ Len(points') = Top - 1 /\ \A i \in 1..(Top - 1) : points'[i] = points[i]
  <2>1. /\ 1 \in 1..(Len(points) + 1) /\ Top - 1 \in (1 - 1)..Len(points)
        /\ points' = SubSeq(points, 1, Top - 1)
    BY <1>1 DEF Before, Top
  <2>2. QED
    BY <2>1, <1>1, SubSeqProperties
<1>3. points' = <<>> <=> Top = 1
  BY <1>1, <1>2, EmptySeq
<1>4. QED
  BY <1>1, <1>2, <1>3 DEF Top

(* The chain without its last call *)
LEMMA ChainedBelow ==
  ASSUME TypeOK, Live, NEW t \in Tx, Last(t), points' = Before(Top),
         \A u \in Tx \ {t} : tx'[u] = tx[u], tx'[t].at \notin Under
  PROVE  Chained'
<1>1. PICK n \in Nat : n = Top
  BY LastGoes DEF Last
<1>2. /\ n > 0 /\ points \in Seq(Point) /\ points' \in Seq(Point) /\ Top' = n - 1
      /\ \A i \in 1..n : points[i].name \in Tx
      /\ \A i \in 1..(n - 1) : points'[i] = points[i]
  BY <1>1, LastGoes DEF Last
<1>3. \A i \in 1..(n - 1) : points[i].name # t
  BY <1>1, <1>2 DEF Live, Chained, Last
<1>4. \A i, j \in 1..(n - 1) : points'[i].name = points'[j].name => i = j
  BY <1>1, <1>2 DEF Live, Chained
<1>5. ASSUME NEW i \in 1..(n - 1)
      PROVE  /\ tx'[points'[i].name].at \in Under
             /\ i < n - 1 => tx'[points'[i].name].at = "work"
             /\ tx'[points'[i].name].parent = IF i = 1 THEN NoTx ELSE points'[i - 1].name
  <2>1. /\ i \in 1..n /\ i < n /\ tx'[points'[i].name] = tx[points[i].name]
        /\ i # 1 => points'[i - 1] = points[i - 1]
    BY <1>2, <1>3
  <2>2. QED
    BY <2>1, <1>1 DEF Live, Chained
<1>6. ASSUME NEW u \in Tx, tx'[u].at \in Under PROVE On(u)'
  <2>1. u # t /\ On(u)
    BY <1>6 DEF Live, Chained
  <2>2. PICK i \in 1..n : points[i].name = u
    BY <2>1, <1>1 DEF On
  <2>3. i \in 1..(n - 1)
    BY <2>1, <2>2, <1>1, <1>2 DEF Last
  <2>4. QED
    BY <2>2, <2>3, <1>2 DEF On
<1>7. QED
  BY <1>2, <1>4, <1>5, <1>6 DEF Chained

(* COMMIT or RELEASE: what was done since the point stays. *)
LEMMA CloseStep ==
  ASSUME TypeOK, ToldFits, Live, NEW t \in Tx, Close(t)
  PROVE  TypeOK' /\ ToldFits' /\ Live'
<1>1. Last(t) /\ PointOf(t) = Top /\ tx[t].at = "close" /\ tx[t] \in Call
  BY GoesOnLast DEF Close, Under, TypeOK
<1>2. PICK n \in Nat : n = Top
  BY <1>1, PointTypes DEF Live, Chained
<1>3. n > 0 /\ points' = Before(Top) /\ tx' = [tx EXCEPT ![t].at = "tell"]
  BY <1>1, <1>2 DEF Close, Goes, Last
<1>4. /\ points \in Seq(Point) /\ points' \in Seq(Point) /\ Top' = n - 1
      /\ DOMAIN points' = 1..(n - 1) /\ (points' = <<>> <=> n = 1)
      /\ \A i \in 1..n : points[i].name \in Tx /\ points[i].held \subseteq Effect
      /\ \A i \in 1..(n - 1) : points'[i] = points[i]
  BY <1>2, <1>3, LastGoes
<1>5. /\ tx' \in [Tx -> Call] /\ \A u \in Tx \ {t} : tx'[u] = tx[u]
      /\ tx'[t].at = "tell" /\ tx'[t].threw = tx[t].threw
      /\ tx'[t].did = tx[t].did /\ tx'[t].parent = tx[t].parent /\ tx'[t].plain = tx[t].plain /\ tx'[t].handed = tx[t].handed
  BY <1>1, <1>3 DEF TypeOK, Call
<1>6. UNCHANGED <<db, line, waiting, told, up, mishaps>>
  BY DEF Close
<1>7. TypeOK'
  BY <1>4, <1>5, <1>6 DEF TypeOK
<1>8. Chained'
  BY <1>1, <1>3, <1>5, ChainedBelow DEF Under
<1>9. InLine'
  BY <1>1, <1>5, <1>6 DEF Live, InLine
<1>10. points[n].name = t /\ \A i \in 1..(n - 1) : points[i].name # t
  BY <1>1, <1>2, <1>3, <1>4 DEF Last, Live, Chained
<1>11. /\ n = 1 => tx[t].parent = NoTx
       /\ n > 1 => tx[t].parent # NoTx /\ tx[t].parent = points[n - 1].name /\ tx[points[n - 1].name].at = "work"
  <2>1. tx[t].parent = IF n = 1 THEN NoTx ELSE points[n - 1].name
    BY <1>2, <1>3, <1>10 DEF Live, Chained
  <2>2. n > 1 => points[n - 1].name \in Tx /\ tx[points[n - 1].name].at = "work"
    BY <1>2, <1>4 DEF Live, Chained
  <2>3. QED
    BY <2>1, <2>2, <1>3, NamesAssumption
<1>12. \A u \in Tx : /\ InnerTells(u)' <=> u = t /\ n > 1
                     /\ ~InnerTells(u)
                     /\ RootTells(u)' => RootTells(u) \/ (u = t /\ n = 1)
                     /\ Children(u)' = Children(u) /\ Children(u) \subseteq Tx
                     /\ IsOutermost(u)' <=> IsOutermost(u)
                     /\ tx[u].at # tx'[u].at => u = t
                     /\ tx'[u].did = tx[u].did /\ tx'[u].parent = tx[u].parent
                     /\ tx'[u].plain = tx[u].plain /\ tx'[u].handed = tx[u].handed /\ tx'[u].threw = tx[u].threw
  BY <1>1, <1>3, <1>5, <1>11 DEF InnerTells, RootTells, Children, IsOutermost, IsRoot, Last
<1>13. \A u, v \in Tx : Owes(u, v)' <=> Owes(u, v)
  BY <1>6 DEF Owes
<1>14. \A v \in Tx : (Whole(v)' <=> Whole(v)) /\ (Gone(v)' <=> Gone(v))
  BY <1>6, <1>12, <1>13 DEF Whole, Gone, Wrote, Owed
<1>15. \A i \in 1..(n - 1), u \in Tx : (Above(i, u)' <=> Above(i, u)) /\ (Below(i, u)' <=> Below(i, u))
  <2> SUFFICES ASSUME NEW i \in 1..(n - 1), NEW u \in Tx
               PROVE  (Above(i, u)' <=> Above(i, u)) /\ (Below(i, u)' <=> Below(i, u))
    OBVIOUS
  <2>1. Below(i, u)' <=> Below(i, u)
    BY <1>4 DEF Below
  <2>2. Above(i, u) <=> u = t \/ \E j \in i..(n - 1) : points[j].name = u
    BY <1>2, <1>10, <1>12 DEF Above
  <2>3. Above(i, u)' <=> u = t \/ \E j \in i..(n - 1) : points'[j].name = u
    BY <1>4, <1>12 DEF Above
  <2>4. QED
    BY SMTT(60), <2>1, <2>2, <2>3, <1>4
<1>16. \A i \in 1..(n - 1), u \in Tx : (Fresh(i, u)' <=> Fresh(i, u)) /\ (Same(i, u)' <=> Same(i, u))
  <2> SUFFICES ASSUME NEW i \in 1..(n - 1), NEW u \in Tx
               PROVE  (Fresh(i, u)' <=> Fresh(i, u)) /\ (Same(i, u)' <=> Same(i, u))
    OBVIOUS
  <2>1. points'[i] = points[i]
    BY <1>4
  <2>2. Fresh(i, u)' <=> Fresh(i, u)
    BY <2>1, <1>13, <1>15 DEF Fresh, Wrote
  <2>3. Same(i, u)' <=> Same(i, u)
    BY <2>1, <1>6, <1>15 DEF Same, Wrote
  <2>4. QED
    BY <2>2, <2>3
<1>17. \A i \in 1..(n - 1) : PointFits(i)'
  <2> SUFFICES ASSUME NEW i \in 1..(n - 1) PROVE PointFits(i)'
    OBVIOUS
  <2>1. PointFits(i)
    BY <1>2 DEF Live
  <2>2. \A u \in Tx : Takes(i, u)' <=> Takes(i, u)
    BY <1>12, <1>13, <1>16 DEF Takes
  <2>3. \A u \in Tx : Below(i, u)' \/ RootTells(u)' => Same(i, u)'
    BY <2>1, <1>12, <1>15, <1>16 DEF PointFits
  <2>4. \A j \in i..(n - 1) : points'[i].held \subseteq points'[j].held
    BY <2>1, <1>2, <1>4 DEF PointFits
  <2>5. QED
    BY <2>1, <2>2, <2>3, <2>4, <1>4, <1>15, <1>16 DEF PointFits
<1>18. ASSUME NEW u \in Tx PROVE CallFits(u)' /\ Accounts(u)' /\ MarkFits(u)'
  <2>1. CallFits(u) /\ Accounts(u) /\ MarkFits(u)
    BY DEF Live
  <2>2. tx[u].parent = NoTx \/ tx[u].parent \in Tx
    BY DEF TypeOK, Call
  <2>3. tx'[u].parent # NoTx /\ tx'[u].plain => tx'[u].handed /\ tx'[tx'[u].parent].plain
    BY <2>1, <2>2, <1>12 DEF CallFits
  <2>4. \A v \in Tx : Owes(u, v)' => WaitsFor(u, v)'
    <3> SUFFICES ASSUME NEW v \in Tx, Owes(u, v)' PROVE WaitsFor(u, v)'
      OBVIOUS
    <3>1. WaitsFor(u, v)
      BY <2>1, <1>13 DEF MarkFits
    <3>2. tx[v].at = "ended" => tx'[v].at = "ended"
      BY <1>1, <1>12
    <3>3. QED
      BY <3>1, <3>2, <1>6, <1>12 DEF WaitsFor
  <2>5. InnerTells(u)' => Top' > 0 /\ tx'[u].parent = points'[Top'].name /\ tx'[tx'[u].parent].at = "work"
    <3> SUFFICES ASSUME InnerTells(u)' PROVE Top' > 0 /\ tx'[u].parent = points'[Top'].name /\ tx'[tx'[u].parent].at = "work"
      OBVIOUS
    <3>1. u = t /\ n > 1
      BY <1>12
    <3>2. tx'[t].parent = points[n - 1].name /\ points'[n - 1] = points[n - 1] /\ points[n - 1].name # t
      BY <3>1, <1>4, <1>5, <1>10, <1>11
    <3>3. points[n - 1].name \in Tx /\ tx'[points[n - 1].name].at = "work"
      <4>1. n - 1 \in 1..n
        BY <3>1
      <4>2. QED
        BY <4>1, <3>1, <3>2, <1>4, <1>5, <1>11
    <3>4. QED
      BY <3>1, <3>2, <3>3, <1>4
  <2>6. CASE u = t
    <3>1. CallFits(t)'
      BY <2>1, <2>3, <2>5, <2>6, <1>1, <1>5 DEF CallFits
    <3>2. Accounts(t)'
      BY <2>1, <2>6, <1>1, <1>5, <1>14 DEF Accounts, Under, CallFits
    <3>3. MarkFits(t)'
      BY <2>1, <2>4, <2>6, <1>1, <1>6, <1>12 DEF MarkFits, Waiting
    <3>4. QED
      BY <2>6, <3>1, <3>2, <3>3
  <2>7. CASE u # t
    <3>1. tx'[u] = tx[u]
      BY <2>7, <1>5
    <3>2. CallFits(u)'
      BY <2>1, <2>3, <2>5, <3>1, <1>6, <1>12, <1>14 DEF CallFits
    <3>3. Accounts(u)'
      BY <2>1, <3>1, <1>12, <1>14 DEF Accounts
    <3>4. MarkFits(u)'
      BY <2>1, <2>4, <3>1, <1>6, <1>12 DEF MarkFits, Waiting
    <3>5. QED
      BY <3>2, <3>3, <3>4
  <2>8. QED
    BY <2>6, <2>7
<1>19. EventsTold'
  BY <1>6 DEF Live, EventsTold
<1>20. ToldFits'
  <2>1. ASSUME NEW e \in told, tx'[e[1]].plain
        PROVE  tx'[e[1]].at \in {"tell", "ended"} /\ Announced \subseteq tx'[e[1]].did /\ IsTrue(e)'
    <3>1. PICK v \in Tx : v = e[1]
      BY DEF TypeOK, Effect
    <3>2. /\ tx[v].at \in {"tell", "ended"} /\ Announced \subseteq tx[v].did /\ v # t
          /\ tx[v].did \ {"push"} = KeptOf(v)
      BY <2>1, <3>1, <1>1, <1>12 DEF ToldFits, IsTrue
    <3>3. points # <<>> /\ 1 \in 1..n
      BY <1>2, <1>3, <1>4, PointTypes
    <3>4. KeptOf(v) = Wrote(v, points[1].held)
      BY <3>3 DEF KeptOf, Committed, Wrote
    <3>5. KeptOf(v)' = KeptOf(v)
      <4>1. CASE n = 1
        <5>1. "job" \in Wrote(v, points[1].held)
          BY <3>2, <3>4 DEF Announced
        <5>2. Same(1, v)
          BY <5>1, <3>3, <1>2 DEF Live, PointFits, Fresh
        <5>3. Wrote(v, points[1].held) = Wrote(v, db)
          BY <5>2 DEF Same
        <5>4. KeptOf(v)' = Wrote(v, db)
          BY <4>1, <1>4, <1>6 DEF KeptOf, Committed, Wrote
        <5>5. QED
          BY <3>4, <5>3, <5>4
      <4>2. CASE n > 1
        BY <4>2, <3>3, <1>4 DEF KeptOf, Committed
      <4>3. QED
        BY <4>1, <4>2, <1>3
    <3>6. QED
      BY <3>1, <3>2, <3>5, <1>12 DEF IsTrue
  <2>2. QED
    BY <2>1, <1>6 DEF ToldFits
<1>21. Joined'
  <2>0. Joined
    BY DEF Live
  <2>1. \A u, v \in Tx : (Outside(u, v)' <=> Outside(u, v)) /\ (Stands(v)' <=> Stands(v))
    BY <1>12, SameTree
  <2>2. \A v \in Tx : StandsWhole(v)'
    BY <2>0, <2>1, <1>14 DEF Joined, StandsWhole
  <2>3. \A i \in 1..(n - 1) : i \in 1..Top /\ points'[i] = points[i] /\ points[i].name \in Tx
    BY <1>2, <1>4
  <2>4. \A i \in 1..(n - 1), v \in Tx : TakesInside(i, v)'
    BY <2>0, <2>1, <2>3, <1>16 DEF Joined, TakesInside
  <2>5. Nested'
    BY <2>0, <2>1, <2>3, <1>4, <1>13 DEF Joined, Nested
  <2>6. QED
    BY <2>2, <2>4, <2>5, <1>4 DEF Joined
<1>22. QED
  BY <1>4, <1>6, <1>7, <1>8, <1>9, <1>17, <1>18, <1>19, <1>20, <1>21 DEF Live

(* A rollback to the last point takes all of a call or nothing of it. *)
LEMMA UndoStep ==
  ASSUME TypeOK, ToldFits, Live, NEW t \in Tx, Undo(t)
  PROVE  TypeOK' /\ ToldFits' /\ Live'
<1>1. Last(t) /\ PointOf(t) = Top /\ tx[t].at = "undo" /\ tx[t] \in Call
  BY GoesOnLast DEF Undo, Under, TypeOK
<1>2. PICK n \in Nat : n = Top
  BY <1>1, PointTypes DEF Live, Chained
<1>3. n > 0 /\ points' = Before(Top) /\ db' = points[n].held /\ waiting' = [waiting EXCEPT ![t] = {}]
  BY <1>1, <1>2 DEF Undo, Last
<1>4. /\ points \in Seq(Point) /\ points' \in Seq(Point) /\ Top' = n - 1
      /\ DOMAIN points' = 1..(n - 1) /\ (points' = <<>> <=> n = 1)
      /\ \A i \in 1..n : points[i].name \in Tx /\ points[i].held \subseteq Effect
      /\ \A i \in 1..(n - 1) : points'[i] = points[i]
  BY <1>2, <1>3, LastGoes
<1>5. /\ tx' \in [Tx -> Call] /\ \A u \in Tx \ {t} : tx'[u] = tx[u]
      /\ tx'[t].at = "ended" /\ tx'[t].threw
      /\ tx'[t].did = tx[t].did /\ tx'[t].parent = tx[t].parent /\ tx'[t].plain = tx[t].plain /\ tx'[t].handed = tx[t].handed
  <2>1. tx' = [tx EXCEPT ![t].at = "ended", ![t].threw = TRUE]
    BY DEF Undo
  <2>2. QED
    BY <2>1, <1>1 DEF TypeOK, Call
<1>6. UNCHANGED <<line, told, up, mishaps>> /\ waiting'[t] = {} /\ \A u \in Tx \ {t} : waiting'[u] = waiting[u]
  BY <1>3 DEF Undo, TypeOK
<1>7. db' \subseteq db /\ db' \subseteq Effect
  BY <1>2, <1>3, <1>4, HeldInDb
<1>8. TypeOK'
  <2>1. waiting' \in [Tx -> SUBSET Effect]
    BY <1>3 DEF TypeOK
  <2>2. QED
    BY <2>1, <1>4, <1>5, <1>6, <1>7 DEF TypeOK
<1>9. Chained'
  BY <1>1, <1>3, <1>5, ChainedBelow DEF Under
<1>10. InLine'
  BY <1>1, <1>5, <1>6 DEF Live, InLine
<1>11. /\ points[n].name = t /\ \A i \in 1..(n - 1) : points[i].name # t
       /\ \A u \in Tx : ~InnerTells(u)
  BY <1>1, <1>2, <1>3, <1>4 DEF Last, Live, Chained
<1>12. \A u \in Tx : /\ ~InnerTells(u)' /\ (RootTells(u)' <=> RootTells(u)) /\ ~RootTells(t)
                     /\ Children(u)' = Children(u) /\ Children(u) \subseteq Tx
                     /\ IsOutermost(u)' <=> IsOutermost(u)
                     /\ tx[u].at # tx'[u].at => u = t
                     /\ tx'[u].did = tx[u].did /\ tx'[u].parent = tx[u].parent
                     /\ tx'[u].plain = tx[u].plain /\ tx'[u].handed = tx[u].handed
  BY <1>1, <1>5, <1>11 DEF InnerTells, RootTells, Children, IsOutermost, IsRoot
<1>13. \A u, v \in Tx : Owes(u, v)' <=> u # t /\ Owes(u, v)
  BY <1>6 DEF Owes
<1>14. n \in 1..n /\ PointFits(n)
  BY <1>2, <1>3 DEF Live
<1>15. \A u \in Tx : /\ Above(n, u) <=> u = t
                     /\ Below(n, u) <=> On(u) /\ u # t
  <2>1. \A u \in Tx : Above(n, u) <=> u = t
    BY <1>2, <1>3, <1>11 DEF Above
  <2>2. \A u \in Tx : Below(n, u) <=> On(u) /\ u # t
    BY <1>2, <1>3, <1>11 DEF Below, On
  <2>3. QED
    BY <2>1, <2>2
<1>16. \A v \in Tx : Fresh(n, v) => Gone(v)'
  <2> SUFFICES ASSUME NEW v \in Tx, Fresh(n, v) PROVE Gone(v)'
    OBVIOUS
  <2>1. Wrote(v, db)' = {}
    BY <1>3 DEF Fresh, Wrote
  <2>2. \A u \in Tx : ~Owes(u, v)'
    BY <1>13, <1>15 DEF Fresh
  <2>3. QED
    BY <2>1, <2>2 DEF Gone
<1>17. \A v \in Tx : Owes(t, v) => Fresh(n, v)
  BY <1>14, <1>15 DEF PointFits, Takes
<1>18. \A v \in Tx : ~Fresh(n, v) => /\ Same(n, v) /\ ~Owes(t, v) /\ Wrote(v, db)' = Wrote(v, db)
                                     /\ Owed(v)' = Owed(v)
  <2> SUFFICES ASSUME NEW v \in Tx, ~Fresh(n, v)
               PROVE  Same(n, v) /\ ~Owes(t, v) /\ Wrote(v, db)' = Wrote(v, db) /\ Owed(v)' = Owed(v)
    OBVIOUS
  <2>1. Same(n, v) /\ ~Owes(t, v)
    BY <1>14, <1>17 DEF PointFits
  <2>2. Wrote(v, db)' = Wrote(v, db)
    BY <2>1, <1>3 DEF Same, Wrote
  <2>3. Owed(v)' = Owed(v)
    BY <2>1, <1>6 DEF Owed, Owes, Stored, Kind
  <2>4. QED
    BY <2>1, <2>2, <2>3
<1>19. \A v \in Tx : Gone(v) => Gone(v)'
  BY <1>7, <1>13 DEF Gone, Wrote
<1>20. \A v \in Tx : (Whole(v) => Whole(v)' \/ Gone(v)') /\ (~Fresh(n, v) /\ Whole(v) => Whole(v)')
  BY <1>12, <1>16, <1>18 DEF Whole
<1>21. \A v \in Tx : Fresh(n, v) /\ Same(n, v) /\ Whole(v) /\ (\A u \in Tx : ~Owes(u, v)) => Whole(v)'
  <2> SUFFICES ASSUME NEW v \in Tx, Fresh(n, v), Same(n, v), Whole(v), \A u \in Tx : ~Owes(u, v) PROVE Whole(v)'
    OBVIOUS
  <2>1. Wrote(v, db)' = Wrote(v, db)
    BY <1>3 DEF Same, Wrote
  <2>2. Owed(v) = {} /\ Owed(v)' = {}
    BY <1>6 DEF Owed, Owes, Stored, Kind
  <2>3. QED
    BY <2>1, <2>2, <1>12 DEF Whole
<1>22. \A v \in Tx : v # t /\ (On(v) \/ RootTells(v)) => (Whole(v) => Whole(v)')
  <2> SUFFICES ASSUME NEW v \in Tx, v # t, On(v) \/ RootTells(v), Whole(v) PROVE Whole(v)'
    OBVIOUS
  <2>1. Same(n, v)
    BY <1>14, <1>15 DEF PointFits
  <2>2. tx[v].at # "ended"
    BY <1>2, <1>4 DEF On, RootTells, Live, Chained, Under
  <2>3. ~Owes(t, v)
    BY <2>2 DEF Live, MarkFits, WaitsFor
  <2>4. CASE Fresh(n, v)
    BY <2>1, <2>3, <2>4, <1>15, <1>21 DEF Fresh
  <2>5. QED
    BY <2>4, <1>20
<1>23. \A i \in 1..(n - 1), u \in Tx : /\ Above(i, u) <=> Above(i, u)' \/ u = t
                                       /\ Below(i, u)' <=> Below(i, u)
  <2> SUFFICES ASSUME NEW i \in 1..(n - 1), NEW u \in Tx
               PROVE  (Above(i, u) <=> Above(i, u)' \/ u = t) /\ (Below(i, u)' <=> Below(i, u))
    OBVIOUS
  <2>1. Below(i, u)' <=> Below(i, u)
    BY <1>4 DEF Below
  <2>2. Above(i, u) <=> u = t \/ \E j \in i..(n - 1) : points[j].name = u
    BY <1>2, <1>11 DEF Above
  <2>3. Above(i, u)' <=> \E j \in i..(n - 1) : points'[j].name = u
    BY <1>4, <1>12 DEF Above
  <2>4. QED
    BY <2>1, <2>2, <2>3, <1>4
<1>24. \A i \in 1..(n - 1), v \in Tx : (Fresh(i, v) => Fresh(i, v)') /\ (Same(i, v) => Same(i, v)')
  <2> SUFFICES ASSUME NEW i \in 1..(n - 1), NEW v \in Tx
               PROVE  (Fresh(i, v) => Fresh(i, v)') /\ (Same(i, v) => Same(i, v)')
    OBVIOUS
  <2>1. points'[i] = points[i] /\ points[i].held \subseteq db'
    <3>1. PointFits(i) /\ n \in i..Top
      BY <1>2 DEF Live
    <3>2. QED
      BY <3>1, <1>3, <1>4 DEF PointFits
  <2>2. Fresh(i, v) => Fresh(i, v)'
    BY <2>1, <1>13, <1>23 DEF Fresh, Wrote
  <2>3. ASSUME Same(i, v) PROVE Same(i, v)'
    <3>1. /\ Wrote(v, points[i].held) = Wrote(v, db)
          /\ Wrote(v, points[i].held) \subseteq Wrote(v, db')
          /\ Wrote(v, db') \subseteq Wrote(v, db)
      BY <2>1, <2>3, <1>7 DEF Same, Wrote
    <3>2. Wrote(v, points[i].held) = Wrote(v, db') /\ Wrote(v, db') = Wrote(v, db)
      BY <3>1
    <3>3. \A k \in Stored : <<v, k>> \in db => <<v, k>> \in db'
      BY <3>2 DEF Wrote, Stored, Kind
    <3>4. \A u \in Tx, k \in Stored : <<v, k>> \in waiting'[u] => <<v, k>> \in db' \/ Below(i, u)'
      BY <2>3, <3>3, <1>6, <1>23 DEF Same
    <3>5. Wrote(v, points[i].held)' = Wrote(v, db)'
      BY <3>2, <2>1 DEF Wrote
    <3>6. QED
      BY <3>4, <3>5 DEF Same
  <2>4. QED
    BY <2>2, <2>3
<1>25. \A i \in 1..(n - 1) : PointFits(i)'
  <2> SUFFICES ASSUME NEW i \in 1..(n - 1) PROVE PointFits(i)'
    OBVIOUS
  <2>1. PointFits(i)
    BY <1>2 DEF Live
  <2>2. \A u \in Tx : Takes(i, u) => Takes(i, u)'
    BY <1>12, <1>13, <1>24 DEF Takes
  <2>3. \A u \in Tx : Below(i, u)' \/ RootTells(u)' => Same(i, u)'
    BY <2>1, <1>12, <1>23, <1>24 DEF PointFits
  <2>4. \A j \in i..(n - 1) : points'[i].held \subseteq points'[j].held
    BY <2>1, <1>2, <1>4 DEF PointFits
  <2>5. QED
    BY <2>1, <2>2, <2>3, <2>4, <1>4, <1>23, <1>24 DEF PointFits
<1>26. ASSUME NEW u \in Tx PROVE CallFits(u)' /\ Accounts(u)' /\ MarkFits(u)'
  <2>1. CallFits(u) /\ Accounts(u) /\ MarkFits(u)
    BY DEF Live
  <2>2. tx[u].parent = NoTx \/ tx[u].parent \in Tx
    BY DEF TypeOK, Call
  <2>3. tx'[u].parent # NoTx /\ tx'[u].plain => tx'[u].handed /\ tx'[tx'[u].parent].plain
    BY <2>1, <2>2, <1>12 DEF CallFits
  <2>4. CASE u = t
    <3>1. CallFits(t)'
      BY <2>1, <2>3, <2>4, <1>1, <1>5, <1>6, <1>12 DEF CallFits
    <3>2. Takes(n, t)
      BY <1>14, <1>15 DEF PointFits
    <3>3. Gone(t)' /\ \A v \in Children(t)' : Gone(v)'
      BY <3>2, <1>12, <1>16 DEF Takes
    <3>4. Accounts(t)'
      BY <3>3, <1>5 DEF Accounts, Under
    <3>5. MarkFits(t)'
      BY <1>5, <1>13 DEF MarkFits
    <3>6. QED
      BY <2>4, <3>1, <3>4, <3>5
  <2>5. CASE u # t
    <3>1. tx'[u] = tx[u]
      BY <2>5, <1>5
    <3>2. CallFits(u)'
      BY <2>1, <2>3, <2>5, <3>1, <1>6, <1>12, <1>19 DEF CallFits
    <3>3. tx[u].at \in Under \cup {"tell"} => On(u) \/ RootTells(u)
      BY <1>11 DEF Live, Chained, InnerTells, RootTells
    <3>4. Accounts(u)'
      BY <2>1, <2>5, <3>1, <3>3, <1>12, <1>19, <1>20, <1>22 DEF Accounts
    <3>5. \A v \in Tx : Owes(u, v)' => WaitsFor(u, v)'
      <4> SUFFICES ASSUME NEW v \in Tx, Owes(u, v)' PROVE WaitsFor(u, v)'
        OBVIOUS
      <4>1. WaitsFor(u, v)
        BY <2>1, <1>13 DEF MarkFits
      <4>2. tx[v].at = "ended" => tx'[v].at = "ended"
        BY <1>1, <1>12
      <4>3. QED
        BY <4>1, <4>2, <2>5, <1>6, <1>12 DEF WaitsFor
    <3>6. \A e \in waiting[u] : e \in db => e \in db'
      <4> SUFFICES ASSUME NEW e \in waiting[u], e \in db PROVE e \in db'
        OBVIOUS
      <4>1. PICK v \in Tx, k \in Kind : e = <<v, k>>
        BY DEF TypeOK, Effect
      <4>2. Owes(u, v)
        BY <4>1 DEF Owes
      <4>3. ~Fresh(n, v)
        BY <4>2, <2>5, <1>15 DEF Fresh
      <4>4. Wrote(v, db)' = Wrote(v, db)
        BY <4>3, <1>18
      <4>5. QED
        BY <4>1, <4>4 DEF Wrote
    <3>7. waiting'[u] = waiting[u]
      BY <2>5, <1>6
    <3>8. MarkFits(u)'
      BY <2>1, <3>1, <3>5, <3>6, <3>7, <1>12 DEF MarkFits, Waiting
    <3>9. QED
      BY <3>2, <3>4, <3>8
  <2>6. QED
    BY <2>4, <2>5
<1>27. EventsTold'
  <2> SUFFICES ASSUME NEW v \in Tx, <<v, "event">> \in db'
               PROVE  <<v, "event">> \in told' \/ \E u \in Tx : <<v, "event">> \in waiting'[u]
    BY DEF EventsTold
  <2>1. ~Fresh(n, v)
    BY <1>3 DEF Fresh, Wrote, Kind
  <2>2. <<v, "event">> \notin waiting[t]
    BY <2>1, <1>17 DEF Owes, Kind
  <2>3. <<v, "event">> \in told \/ \E u \in Tx : <<v, "event">> \in waiting[u]
    BY <1>7 DEF Live, EventsTold
  <2>4. QED
    BY <2>2, <2>3, <1>6
<1>28. ToldFits'
  <2>1. Committed' = Committed
    <3>1. points # <<>>
      BY <1>2, <1>3, <1>4, PointTypes
    <3>2. QED
      BY <3>1, <1>3, <1>4 DEF Committed
  <2>2. \A v \in Tx : KeptOf(v)' = KeptOf(v)
    BY <2>1 DEF KeptOf
  <2>3. ASSUME NEW e \in told, tx'[e[1]].plain
        PROVE  tx'[e[1]].at \in {"tell", "ended"} /\ Announced \subseteq tx'[e[1]].did /\ IsTrue(e)'
    <3>1. PICK v \in Tx : v = e[1]
      BY DEF TypeOK, Effect
    <3>2. v # t /\ tx[v].at \in {"tell", "ended"} /\ Announced \subseteq tx[v].did /\ IsTrue(e)
      BY <2>3, <3>1, <1>1, <1>12 DEF ToldFits
    <3>3. QED
      BY <3>1, <3>2, <2>2, <1>12 DEF IsTrue
  <2>4. QED
    BY <2>3, <1>6 DEF ToldFits
<1>29. Joined'
  <2>0. Joined
    BY DEF Live
  <2>1. /\ \A u, v \in Tx : Outside(u, v)' <=> Outside(u, v)
        /\ \A v \in Tx : Stands(v)' <=> Stands(v) /\ Outside(t, v)
    BY <1>5, <1>12, SameTree, ThrowTakes
  <2>2. ASSUME NEW v \in Tx PROVE StandsWhole(v)'
    <3>1. StandsWhole(v) /\ (IF Outside(t, v) THEN Same(n, v) ELSE Fresh(n, v))
      BY <2>0, <1>2, <1>11, <1>14 DEF Joined, TakesInside
    <3>2. CASE Stands(v)'
      <4>1. Whole(v) /\ Same(n, v) /\ ~Owes(t, v)
        BY <2>0, <2>1, <3>1, <3>2 DEF StandsWhole, Joined, Nested
      <4>2. Fresh(n, v) => \A u \in Tx : ~Owes(u, v)
        BY <4>1, <1>15 DEF Fresh
      <4>3. Whole(v)'
        BY <4>1, <4>2, <1>20, <1>21
      <4>4. QED
        BY <3>2, <4>3 DEF StandsWhole
    <3>3. CASE ~Stands(v)'
      <4>1. Gone(v)'
        BY <2>1, <3>1, <3>3, <1>16, <1>19 DEF StandsWhole
      <4>2. QED
        BY <3>3, <4>1 DEF StandsWhole
    <3>4. QED
      BY <3>2, <3>3
  <2>3. \A i \in 1..(n - 1) : i \in 1..Top /\ points'[i] = points[i] /\ points[i].name \in Tx
    BY <1>2, <1>4
  <2>4. \A i \in 1..(n - 1), v \in Tx : TakesInside(i, v)'
    BY <2>0, <2>1, <2>3, <1>24 DEF Joined, TakesInside
  <2>5. Nested'
    BY <2>0, <2>1, <2>3, <1>4, <1>13 DEF Joined, Nested
  <2>6. QED
    BY <2>2, <2>4, <2>5, <1>4 DEF Joined
<1>30. QED
  BY <1>4, <1>6, <1>8, <1>9, <1>10, <1>25, <1>26, <1>27, <1>28, <1>29 DEF Live

(* A call closed tells its mark: to the call around it, which is the last   *)
(* of the chain, or to all.                                                 *)
LEMMA TellsMark ==
  ASSUME TypeOK, ToldFits, Live, NEW t \in Tx, tx[t].at = "tell", tx' = [tx EXCEPT ![t].at = "ended"],
         UNCHANGED <<db, points, line, up, mishaps>>,
         told \subseteq told', told' \subseteq Effect,
         waiting' \in [Tx -> SUBSET Effect], waiting'[t] = {},
         \A u \in Tx \ {t} : \/ waiting'[u] = waiting[u]
                             \/ /\ ~IsOutermost(t) /\ u = tx[t].parent
                                /\ waiting'[u] = waiting[u] \cup waiting[t],
         \A v \in Tx, k \in Stored : <<v, k>> \in waiting[t] => \/ <<v, k>> \in db
                                                               \/ \E u \in Tx : <<v, k>> \in waiting'[u],
         \A v \in Tx : <<v, "event">> \in waiting[t] => \/ <<v, "event">> \in told'
                                                        \/ \E u \in Tx : <<v, "event">> \in waiting'[u],
         \A e \in told' \ told : tx[e[1]].plain =>
           (e[1] = t \/ tx[e[1]].at = "ended") /\ Announced \subseteq tx[e[1]].did /\ IsTrue(e)
  PROVE  TypeOK' /\ ToldFits' /\ Live'
<1>1. tx[t] \in Call /\ CallFits(t) /\ MarkFits(t) /\ (tx[t].parent = NoTx \/ tx[t].parent \in Tx)
  BY DEF Live, TypeOK, Call
<1>2. /\ tx' \in [Tx -> Call] /\ \A u \in Tx \ {t} : tx'[u] = tx[u]
      /\ tx'[t].at = "ended" /\ tx'[t].threw = tx[t].threw
      /\ tx'[t].did = tx[t].did /\ tx'[t].parent = tx[t].parent /\ tx'[t].plain = tx[t].plain /\ tx'[t].handed = tx[t].handed
  BY <1>1 DEF TypeOK, Call
<1>3. TypeOK'
  BY <1>2 DEF TypeOK
<1>4. /\ Top \in Nat /\ DOMAIN points = 1..Top /\ Top' = Top
      /\ \A i \in 1..Top : points[i].name \in Tx \ {t}
      /\ tx[t].at \notin Under /\ tx'[t].at \notin Under
  BY <1>2, PointTypes DEF Live, Chained, Top, Under
<1>5. \A u \in Tx : /\ InnerTells(u)' <=> InnerTells(u) /\ u # t
                    /\ RootTells(u)' => RootTells(u) /\ u # t
                    /\ Children(u)' = Children(u) /\ Children(u) \subseteq Tx
                    /\ IsOutermost(u)' <=> IsOutermost(u)
                    /\ tx[u].at # tx'[u].at => u = t
                    /\ tx[u].at = "ended" => tx'[u].at = "ended"
                    /\ tx'[u].did = tx[u].did /\ tx'[u].parent = tx[u].parent
                    /\ tx'[u].plain = tx[u].plain /\ tx'[u].handed = tx[u].handed /\ tx'[u].threw = tx[u].threw
  BY <1>2 DEF InnerTells, RootTells, Children, IsOutermost, IsRoot
<1>6. ~IsOutermost(t) => InnerTells(t) /\ Top > 0 /\ tx[t].parent = points[Top].name
  BY <1>1 DEF IsOutermost, IsRoot, InnerTells, CallFits
<1>7. \A u \in Tx, v \in Tx, k \in Kind : <<v, k>> \in waiting'[u] =>
        /\ u # t
        /\ \/ <<v, k>> \in waiting[u]
           \/ <<v, k>> \in waiting[t] /\ ~IsOutermost(t) /\ u = tx[t].parent
  OBVIOUS
<1>8. \A u, v \in Tx : Owes(u, v)' =>
        /\ u # t
        /\ Owes(u, v) \/ (Owes(t, v) /\ ~IsOutermost(t) /\ u = tx[t].parent)
  BY <1>7 DEF Owes
<1>9. \A i \in 1..Top, u \in Tx : /\ Above(i, u)' <=> Above(i, u) /\ u # t
                                  /\ Below(i, u)' <=> Below(i, u)
                                  /\ ~Below(i, t)
                                  /\ InnerTells(t) => Above(i, t)
                                  /\ Top > 0 /\ u = points[Top].name => Above(i, u)
  BY <1>4, <1>5 DEF Above, Below
<1>10. \A v \in Tx : Gone(v) => Gone(v)'
  BY <1>8 DEF Gone, Wrote
<1>11. \A v \in Tx : Whole(v) => Whole(v)'
  <2> SUFFICES ASSUME NEW v \in Tx, Whole(v) PROVE Whole(v)'
    OBVIOUS
  <2>1. Owed(v)' \subseteq Owed(v)
    BY <1>7 DEF Owed, Stored, Kind
  <2>2. Owed(v) \subseteq Owed(v)' \cup Wrote(v, db)
    <3>1. \A u \in Tx \ {t} : waiting[u] \subseteq waiting'[u]
      OBVIOUS
    <3>2. ASSUME NEW k \in Stored, NEW u \in Tx, <<v, k>> \in waiting[u]
          PROVE  <<v, k>> \in db \/ \E w \in Tx : <<v, k>> \in waiting'[w]
      BY <3>1, <3>2
    <3>3. QED
      BY <3>2 DEF Owed, Wrote, Stored, Kind
  <2>3. Wrote(v, db)' = Wrote(v, db)
    BY DEF Wrote
  <2>4. Wrote(v, db) \cup Owed(v) = Wrote(v, db)' \cup Owed(v)'
    BY <2>1, <2>2, <2>3
  <2>5. QED
    BY <2>4, <1>5 DEF Whole
<1>12. \A i \in 1..Top, v \in Tx : (Fresh(i, v) => Fresh(i, v)') /\ (Same(i, v) => Same(i, v)')
  <2> SUFFICES ASSUME NEW i \in 1..Top, NEW v \in Tx
               PROVE  (Fresh(i, v) => Fresh(i, v)') /\ (Same(i, v) => Same(i, v)')
    OBVIOUS
  <2>1. Fresh(i, v) => Fresh(i, v)'
    BY <1>6, <1>8, <1>9 DEF Fresh, Wrote
  <2>2. ASSUME Same(i, v), NEW u \in Tx, NEW k \in Stored, <<v, k>> \in waiting'[u]
        PROVE  <<v, k>> \in db \/ Below(i, u)
    BY <2>2, <1>7, <1>9 DEF Same, Stored, Kind
  <2>3. Same(i, v) => Same(i, v)'
    BY <2>2, <1>9 DEF Same, Wrote
  <2>4. QED
    BY <2>1, <2>3
<1>13. \A i \in 1..Top : PointFits(i)'
  <2> SUFFICES ASSUME NEW i \in 1..Top PROVE PointFits(i)'
    OBVIOUS
  <2>1. PointFits(i)
    BY DEF Live
  <2>2. ASSUME NEW u \in Tx, Above(i, u)' PROVE Takes(i, u)'
    <3>1. Takes(i, u)
      BY <2>1, <2>2, <1>9 DEF PointFits
    <3>2. InnerTells(t) => Takes(i, t)
      BY <2>1, <1>9 DEF PointFits
    <3>3. \A v \in Tx : Owes(u, v)' => Fresh(i, v)
      BY <3>1, <3>2, <1>6, <1>8 DEF Takes
    <3>4. QED
      BY <3>1, <3>3, <1>5, <1>12 DEF Takes
  <2>3. \A u \in Tx : Below(i, u)' \/ RootTells(u)' => Same(i, u)'
    BY <2>1, <1>5, <1>9, <1>12 DEF PointFits
  <2>4. QED
    BY <2>1, <2>2, <2>3, <1>4, <1>12 DEF PointFits
<1>14. ASSUME NEW u \in Tx PROVE CallFits(u)' /\ Accounts(u)' /\ MarkFits(u)'
  <2>1. CallFits(u) /\ Accounts(u) /\ MarkFits(u)
    BY DEF Live
  <2>2. tx[u].parent = NoTx \/ tx[u].parent \in Tx
    BY DEF TypeOK, Call
  <2>3. tx'[u].parent # NoTx /\ tx'[u].plain => tx'[u].handed /\ tx'[tx'[u].parent].plain
    BY <2>1, <2>2, <1>5 DEF CallFits
  <2>4. InnerTells(u)' => Top > 0 /\ tx'[u].parent = points[Top].name /\ tx'[tx'[u].parent].at = "work"
    <3>1. InnerTells(u)' => /\ Top > 0 /\ tx'[u].parent = points[Top].name /\ tx[points[Top].name].at = "work"
                            /\ points[Top].name \in Tx \ {t}
      BY <2>1, <1>4, <1>5 DEF CallFits
    <3>2. QED
      BY <3>1, <1>2
  <2>5. \A v \in Tx : Owes(u, v)' => WaitsFor(u, v)'
    <3> SUFFICES ASSUME NEW v \in Tx, Owes(u, v)' PROVE WaitsFor(u, v)'
      OBVIOUS
    <3>1. u # t
      BY <1>8
    <3>2. /\ Owes(u, v) => WaitsFor(u, v)
          /\ Owes(t, v) => WaitsFor(t, v)
      BY <2>1, <1>1 DEF MarkFits
    <3>3. <<v, "row">> \notin waiting'[u]
      BY <3>2, <1>7 DEF Owes, WaitsFor, Kind
    <3>4. CASE Owes(u, v)
      <4>1. waiting[u] \subseteq waiting'[u]
        BY <3>1
      <4>2. QED
        BY <3>2, <3>3, <3>4, <4>1, <1>5 DEF WaitsFor
    <3>5. CASE ~Owes(u, v)
      <4>1. Owes(t, v) /\ ~IsOutermost(t) /\ u = tx[t].parent
        BY <3>5, <1>8
      <4>2. waiting[t] \subseteq waiting'[u]
        <5>1. waiting'[u] = waiting[u] \cup waiting[t] \/ waiting'[u] = waiting[u]
          BY <3>1
        <5>2. waiting'[u] # waiting[u]
          BY <3>5 DEF Owes
        <5>3. QED
          BY <5>1, <5>2
      <4>3. tx[v].plain => tx[u].plain
        BY <3>2, <4>1, <1>1, <1>6 DEF WaitsFor, CallFits, InnerTells
      <4>4. tx'[v].at = "ended"
        BY <3>2, <4>1, <1>2, <1>5 DEF WaitsFor
      <4>5. QED
        BY <3>2, <3>3, <4>1, <4>2, <4>3, <4>4, <1>5 DEF WaitsFor
    <3>6. QED
      BY <3>4, <3>5
  <2>6. CASE u = t
    <3>1. CallFits(t)'
      BY <2>1, <2>3, <2>4, <2>6, <1>2, <1>4 DEF CallFits
    <3>2. Accounts(t)'
      BY <2>1, <2>6, <1>1, <1>2, <1>11 DEF Accounts, CallFits, Under
    <3>3. MarkFits(t)'
      BY <2>5, <2>6, <1>2 DEF MarkFits
    <3>4. QED
      BY <2>6, <3>1, <3>2, <3>3
  <2>7. CASE u # t
    <3>1. tx'[u] = tx[u]
      BY <2>7, <1>2
    <3>2. waiting'[u] = waiting[u] \/ tx[u].at = "work"
      BY <2>7, <1>1, <1>6 DEF CallFits
    <3>3. CallFits(u)'
      BY <2>1, <2>3, <2>4, <3>1, <3>2, <1>4, <1>5, <1>10 DEF CallFits, Under
    <3>4. Accounts(u)'
      BY <2>1, <3>1, <1>5, <1>10, <1>11 DEF Accounts
    <3>5. MarkFits(u)'
      BY <2>1, <2>5, <3>1, <3>2, <1>5 DEF MarkFits, Waiting
    <3>6. QED
      BY <3>3, <3>4, <3>5
  <2>8. QED
    BY <2>6, <2>7
<1>15. EventsTold'
  <2> SUFFICES ASSUME NEW v \in Tx, <<v, "event">> \in db
               PROVE  <<v, "event">> \in told' \/ \E u \in Tx : <<v, "event">> \in waiting'[u]
    BY DEF EventsTold
  <2>1. <<v, "event">> \in told \/ \E u \in Tx : <<v, "event">> \in waiting[u]
    BY DEF Live, EventsTold
  <2>2. \A u \in Tx \ {t} : waiting[u] \subseteq waiting'[u]
    OBVIOUS
  <2>3. QED
    BY <2>1, <2>2
<1>16. InLine' /\ Chained'
  <2>1. \A u \in Tx : On(u)' <=> On(u)
    BY <1>4 DEF On
  <2>2. Chained'
    BY <2>1, <1>2, <1>4 DEF Live, Chained
  <2>3. InLine'
    BY <1>2 DEF Live, InLine
  <2>4. QED
    BY <2>2, <2>3
<1>17. ToldFits'
  <2>1. \A v \in Tx : KeptOf(v)' = KeptOf(v)
    BY DEF KeptOf, Committed
  <2>2. ASSUME NEW e \in told', tx'[e[1]].plain
        PROVE  tx'[e[1]].at \in {"tell", "ended"} /\ Announced \subseteq tx'[e[1]].did /\ IsTrue(e)'
    <3>1. PICK v \in Tx : v = e[1]
      BY DEF Effect
    <3>2. tx[v].at \in {"tell", "ended"} /\ Announced \subseteq tx[v].did /\ IsTrue(e)
      BY <2>2, <3>1, <1>5 DEF ToldFits
    <3>3. QED
      BY <3>1, <3>2, <2>1, <1>2, <1>5 DEF IsTrue
  <2>3. QED
    BY <2>2 DEF ToldFits
<1>18. Joined'
  <2>0. Joined
    BY DEF Live
  <2>1. \A u, v \in Tx : (Outside(u, v)' <=> Outside(u, v)) /\ (Stands(v)' <=> Stands(v))
    BY <1>5, SameTree
  <2>2. \A v \in Tx : StandsWhole(v)'
    BY <2>0, <2>1, <1>10, <1>11 DEF Joined, StandsWhole
  <2>3. \A i \in 1..Top, v \in Tx : TakesInside(i, v)'
    BY <2>0, <2>1, <1>4, <1>12 DEF Joined, TakesInside
  <2>4. \A u, v \in Tx : Owes(u, v)' => ~Outside(u, v)
    <3> SUFFICES ASSUME NEW u \in Tx, NEW v \in Tx, Owes(u, v)' PROVE ~Outside(u, v)
      OBVIOUS
    <3>1. CASE Owes(u, v)
      BY <2>0, <3>1 DEF Joined, Nested
    <3>2. CASE ~Owes(u, v)
      <4>1. Owes(t, v) /\ u = tx[t].parent
        BY <3>2, <1>8
      <4>2. ~Outside(t, v) /\ ~Outside(u, t)
        BY <2>0, <4>1, InsideInside DEF Joined, Nested
      <4>3. QED
        BY <4>2, InsideInside
    <3>3. QED
      BY <3>1, <3>2
  <2>5. Nested'
    BY <2>0, <2>1, <2>4, <1>4 DEF Joined, Nested
  <2>6. QED
    BY <2>2, <2>3, <2>5, <1>4 DEF Joined
<1>19. QED
  BY <1>3, <1>4, <1>13, <1>14, <1>15, <1>16, <1>17, <1>18 DEF Live

(* An inner call leaves to the outer one what is still to be told. *)
LEMMA MergeStep ==
  ASSUME TypeOK, ToldFits, Live, NEW t \in Tx, Merge(t)
  PROVE  TypeOK' /\ ToldFits' /\ Live'
<1> DEFINE p == tx[t].parent
<1>1. /\ tx[t].at = "tell" /\ ~IsOutermost(t) /\ tx' = [tx EXCEPT ![t].at = "ended"]
      /\ UNCHANGED <<db, points, line, told, up, mishaps>>
  BY DEF Merge, Goes
<1>2. p \in Tx /\ tx[p].at = "work" /\ p # t
  BY <1>1 DEF Live, CallFits, InnerTells, IsOutermost, IsRoot, TypeOK, Call
<1>3. waiting' = [waiting EXCEPT ![p] = waiting[p] \cup waiting[t], ![t] = {}]
  BY <1>2 DEF Merge, TypeOK
<1>4. /\ waiting' \in [Tx -> SUBSET Effect] /\ waiting'[t] = {} /\ waiting'[p] = waiting[p] \cup waiting[t]
      /\ \A u \in Tx \ {t, p} : waiting'[u] = waiting[u]
  BY <1>2, <1>3 DEF TypeOK
<1>5. \A e \in waiting[t] : \E u \in Tx : e \in waiting'[u]
  BY <1>2, <1>4
<1>6. \A u \in Tx \ {t} :
        \/ waiting'[u] = waiting[u]
        \/ ~IsOutermost(t) /\ u = tx[t].parent /\ waiting'[u] = waiting[u] \cup waiting[t]
  BY <1>1, <1>4
<1>7. told' = told /\ told' \subseteq Effect
  BY <1>1 DEF TypeOK
<1> HIDE DEF p
<1>8. QED
  BY <1>1, <1>4, <1>5, <1>6, <1>7, TellsMark

(* A plain call is told by the outermost alone, and with all it did. *)
LEMMA TellStep ==
  ASSUME TypeOK, ToldFits, Live, NEW t \in Tx, Tell(t)
  PROVE  TypeOK' /\ ToldFits' /\ Live'
<1>1. /\ tx[t].at = "tell" /\ IsOutermost(t) /\ tx' = [tx EXCEPT ![t].at = "ended"]
      /\ UNCHANGED <<db, points, line, up, mishaps>> /\ waiting' = [waiting EXCEPT ![t] = {}]
      /\ told' = told \cup Waiting(t, "push") \cup Waiting(t, "event")
  BY DEF Tell, Goes
<1>2. waiting[t] \subseteq Effect /\ MarkFits(t) /\ CallFits(t) /\ tx[t] \in Call
  BY DEF TypeOK, Live
<1>3. told \subseteq told' /\ told' \subseteq Effect /\ \A e \in told' \ told : e \in waiting[t]
  BY <1>1, <1>2 DEF TypeOK, Waiting
<1>4. /\ waiting' \in [Tx -> SUBSET Effect] /\ waiting'[t] = {}
      /\ \A u \in Tx \ {t} : waiting'[u] = waiting[u]
  BY <1>1 DEF TypeOK
<1>5. \A v \in Tx, k \in Stored : <<v, k>> \in waiting[t] => <<v, k>> \in db
  BY <1>1, <1>2 DEF MarkFits, Waiting, Stored
<1>6. \A v \in Tx : <<v, "event">> \in waiting[t] => <<v, "event">> \in told'
  BY <1>1 DEF Waiting
<1>7. ASSUME NEW e \in told' \ told, tx[e[1]].plain
      PROVE  (e[1] = t \/ tx[e[1]].at = "ended") /\ Announced \subseteq tx[e[1]].did /\ IsTrue(e)
  <2>1. PICK v \in Tx, k \in Kind : e = <<v, k>> /\ e \in waiting[t]
    BY <1>2, <1>3, <1>7 DEF Effect
  <2>2. Owes(t, v) /\ WaitsFor(t, v)
    BY <2>1, <1>2 DEF Owes, MarkFits
  <2>3. tx[t].parent = NoTx
    BY <2>1, <2>2, <1>1, <1>2, <1>7 DEF WaitsFor, CallFits, IsOutermost, IsRoot
  <2>4. \A j \in Stored : <<v, j>> \in db
    BY <2>2, <1>5 DEF WaitsFor, Stored, Announced
  <2>5. Wrote(v, db) = tx[v].did \ {"push"}
    <3>1. ~Gone(v)
      BY <2>2 DEF Gone
    <3>2. Whole(v)
      BY <2>2, <3>1, <1>1 DEF WaitsFor, Live, Accounts
    <3>3. Owed(v) \subseteq Wrote(v, db)
      BY <2>4 DEF Owed, Wrote, Stored, Kind
    <3>4. QED
      BY <3>2, <3>3 DEF Whole
  <2>6. KeptOf(v) = Wrote(v, db)
    <3>1. CASE points = <<>>
      BY <3>1 DEF KeptOf, Committed, Wrote
    <3>2. CASE points # <<>>
      <4>1. 1 \in 1..Top /\ \A j \in 1..Top : points[j].name # t
        BY <3>2, <1>1, PointTypes DEF Live, Chained, Under
      <4>2. ~Fresh(1, v)
        BY <2>2, <2>3, <4>1 DEF Fresh, Above, InnerTells
      <4>3. Wrote(v, points[1].held) = Wrote(v, db)
        BY <4>1, <4>2 DEF Live, PointFits, Same
      <4>4. QED
        BY <3>2, <4>3 DEF KeptOf, Committed, Wrote
    <3>3. QED
      BY <3>1, <3>2
  <2>7. QED
    BY <2>1, <2>2, <2>5, <2>6 DEF WaitsFor, IsTrue
<1>8. QED
  BY <1>1, <1>3, <1>4, <1>5, <1>6, <1>7, TellsMark

-----------------------------------------------------------------------------
(* What holds of calls under way and of what is told gives the properties. *)

(* With no call under way, or of a call its point leaves alone, what is      *)
(* committed is what the connection reads, and nothing waits to be written.  *)
LEMMA CommittedOf ==
  ASSUME TypeOK, Live, NEW v \in Tx, Top > 0 => Same(1, v)
  PROVE  KeptOf(v) = Wrote(v, db) /\ Owed(v) \subseteq Wrote(v, db)
<1>0. Top \in Nat /\ (points = <<>> <=> Top = 0)
  BY PointTypes DEF Live, Chained
<1>1. CASE Top = 0
  <2>1. \A u \in Tx : ~On(u) /\ ~InnerTells(u)
    BY <1>1 DEF Live, On, CallFits
  <2>2. ASSUME NEW u \in Tx, NEW k \in Stored, <<v, k>> \in waiting[u] PROVE <<v, k>> \in db
    <3>1. RootTells(u)
      BY <2>1, <2>2, OwingFits DEF Owes, Stored, Kind
    <3>2. Waiting(u, "job") \subseteq db /\ Waiting(u, "event") \subseteq db
      BY <3>1 DEF RootTells, Live, MarkFits, IsOutermost, IsRoot
    <3>3. QED
      BY <2>2, <3>2 DEF Waiting, Stored
  <2>3. Owed(v) \subseteq Wrote(v, db)
    BY <2>2 DEF Owed, Wrote, Stored, Kind
  <2>4. QED
    BY <1>0, <1>1, <2>3 DEF KeptOf, Committed, Wrote
<1>2. CASE Top > 0
  <2>1. Owed(v) \subseteq Wrote(v, db)
    BY <1>2 DEF Same, Owed, Wrote, Below, Stored, Kind
  <2>2. QED
    BY <1>0, <1>2, <2>1 DEF Same, KeptOf, Committed, Wrote
<1>3. QED
  BY <1>0, <1>1, <1>2

(* While calls are under way, what is committed is what was committed as the first began. *)
LEMMA LiveAllOrNothing ==
  ASSUME TypeOK, Live
  PROVE  AllOrNothing
<1>1. ASSUME NEW v \in Tx
      PROVE  KeptOf(v) = {} \/ (KeptOf(v) = Wrote(v, db) /\ Owed(v) \subseteq Wrote(v, db))
  <2>1. Top > 0 => 1 \in 1..Top /\ points # <<>>
    BY PointTypes DEF Live, Chained
  <2>2. CASE Top > 0 => Same(1, v)
    BY <2>2, CommittedOf
  <2>3. CASE Top > 0 /\ Fresh(1, v)
    BY <2>1, <2>3 DEF KeptOf, Committed, Fresh, Wrote
  <2>4. QED
    BY <2>1, <2>2, <2>3 DEF Live, PointFits
<1>2. \A v \in Tx : Gone(v) => KeptOf(v) = {}
  BY <1>1 DEF Gone
<1>3. \A v \in Tx : KeptOf(v) \in {{}, tx[v].did \ {"push"}}
  <2> SUFFICES ASSUME NEW v \in Tx, KeptOf(v) # {} PROVE KeptOf(v) = tx[v].did \ {"push"}
    OBVIOUS
  <2>1. ~Gone(v)
    BY <1>2
  <2>2. tx[v].at \in {"idle", "queued", "ended", "tell"} \cup Under
    BY DEF TypeOK, Call, Under
  <2>3. Whole(v)
    BY <2>1, <2>2 DEF Live, CallFits, Accounts
  <2>4. QED
    BY <2>3, <1>1 DEF Whole
<1>4. \A v \in Tx : tx[v].threw => KeptOf(v) = {} /\ \A u \in Children(v) : KeptOf(u) = {}
  BY <1>2 DEF Live, Accounts, Children
<1>5. QED
  BY <1>3, <1>4 DEF AllOrNothing

(* The three properties follow. *)
LEMMA InvariantGives ==
  ASSUME IInv
  PROVE  AllOrNothing /\ HandedTellsTruth /\ QuietMeansTold
<1>1. AllOrNothing
  BY LiveAllOrNothing DEF IInv
<1>2. HandedTellsTruth
  BY DEF IInv, ToldFits, HandedTellsTruth
<1>3. QuietMeansTold
  <2> SUFFICES ASSUME up, \A t \in Tx : tx[t].at \in {"idle", "ended"}, NEW e \in Committed, e[2] = "event"
               PROVE  e \in told
    BY DEF QuietMeansTold
  <2>1. TypeOK /\ Live
    BY DEF IInv
  <2>2. points = <<>>
    <3>1. /\ Top \in Nat /\ (points = <<>> <=> Top = 0) /\ \A i \in 1..Top : points[i].name \in Tx
      BY <2>1, PointTypes DEF Live, Chained
    <3>2. Top # 0 => tx[points[1].name].at \in Under
      BY <2>1, <3>1 DEF Live, Chained
    <3>3. QED
      BY <3>1, <3>2 DEF Under
  <2>3. PICK v \in Tx : e = <<v, "event">> /\ e \in db
    BY <2>1, <2>2 DEF Committed, TypeOK, Effect
  <2>4. \A u \in Tx : waiting[u] = {}
    BY <2>1 DEF Live, CallFits, Under
  <2>5. QED
    BY <2>1, <2>3, <2>4 DEF Live, EventsTold
<1>4. QED
  BY <1>1, <1>2, <1>3

(* A crash undoes what was not committed, and every call under way is gone. *)
LEMMA CrashStep ==
  ASSUME IInv, Crash
  PROVE  IInv'
<1>1. /\ AllOrNothing /\ TypeOK /\ ToldFits /\ Live
  BY InvariantGives DEF IInv, Crash
<1>2. points \in Seq(Point)
  BY <1>1 DEF Live, Chained
<1>3. db' = Committed /\ points' = <<>> /\ line' = <<>> /\ ~up' /\ UNCHANGED <<tx, told>> /\ mishaps' \in 0..MaxMishaps
  BY <1>1, CountAssumption DEF Crash, Mishap, TypeOK
<1>4. Committed \subseteq Effect
  <2>1. points # <<>> => 1 \in 1..Top
    BY <1>2, PointTypes
  <2>2. QED
    BY <1>1, <1>2, <2>1, PointTypes DEF Committed, TypeOK
<1>5. TypeOK'
  <2>1. up' \in BOOLEAN /\ waiting' \in [Tx -> SUBSET Effect]
    BY DEF Crash
  <2>2. QED
    BY <1>1, <1>3, <1>4, <2>1 DEF TypeOK
<1>6. \A v \in Tx : KeptOf(v)' = KeptOf(v)
  BY <1>3 DEF KeptOf, Committed
<1>7. AllOrNothing'
  BY <1>1, <1>3, <1>5, <1>6 DEF AllOrNothing, Children
<1>8. ToldFits'
  <2>1. \A e \in told : e[1] \in Tx
    BY <1>1 DEF TypeOK, Effect
  <2>2. QED
    BY <1>1, <1>3, <1>6, <2>1 DEF ToldFits, IsTrue
<1>9. QED
  BY <1>3, <1>5, <1>7, <1>8 DEF IInv

(* At first nobody has asked for anything. *)
LEMMA InitIInv ==
  ASSUME Init
  PROVE  IInv
<1>1. TypeOK
  BY CountAssumption DEF Init, TypeOK, NewCall, Call
<1>2. ToldFits
  BY DEF Init, ToldFits
<1>3. Top = 0 /\ points \in Seq(Point) /\ line \in Seq(Tx) /\ Len(line) = 0
  BY EmptySeq DEF Init, Top
<1>4. InLine /\ Chained
  BY <1>3 DEF Init, InLine, Chained, NewCall, Under
<1>5. ASSUME NEW t \in Tx PROVE CallFits(t) /\ MarkFits(t) /\ Accounts(t)
  <2>1. tx[t] = NewCall /\ waiting[t] = {} /\ db = {} /\ \A u \in Tx : ~Owes(u, t) /\ ~Owes(t, u)
    BY DEF Init, Owes
  <2>2. Children(t) = {} /\ Gone(t)
    BY <2>1, NamesAssumption DEF Init, NewCall, Children, Gone, Wrote
  <2>3. CallFits(t)
    BY <2>1, <2>2 DEF CallFits, NewCall, InnerTells, Under
  <2>4. MarkFits(t) /\ Accounts(t)
    BY <2>1, <2>2 DEF MarkFits, Accounts, NewCall, Under
  <2>5. QED
    BY <2>3, <2>4
<1>6. EventsTold
  BY DEF Init, EventsTold
<1>7. Joined
  <2>1. \A u, v \in Tx : ~Owes(u, v)
    BY DEF Init, Owes
  <2>2. \A v \in Tx : Gone(v) /\ Whole(v)
    BY <2>1 DEF Init, NewCall, Gone, Whole, Wrote, Owed
  <2>3. QED
    BY <2>1, <2>2, <1>3 DEF Joined, StandsWhole, Nested
<1>8. QED
  BY <1>1, <1>2, <1>3, <1>4, <1>5, <1>6, <1>7 DEF IInv, Live, Init

(* Every step keeps the invariant. *)
LEMMA NextIInv ==
  ASSUME ~Overlapping, IInv, [Next]_vars
  PROVE  IInv'
<1>1. CASE UNCHANGED vars
  <2>1. /\ db' = db /\ points' = points /\ line' = line /\ tx' = tx /\ waiting' = waiting /\ told' = told
        /\ up' = up /\ mishaps' = mishaps /\ Top' = Top
    BY <1>1 DEF vars, Top
  <2>2. (TypeOK' <=> TypeOK) /\ (EventsTold' <=> EventsTold) /\ (InLine' <=> InLine)
    BY <2>1 DEF TypeOK, EventsTold, InLine
  <2>3. /\ \A v \in Tx : KeptOf(v)' = KeptOf(v) /\ Children(v)' = Children(v) /\ (Gone(v)' <=> Gone(v))
        /\ \A v \in Tx : (Whole(v)' <=> Whole(v)) /\ (InnerTells(v)' <=> InnerTells(v)) /\ (On(v)' <=> On(v))
    BY <2>1 DEF KeptOf, Committed, Children, Gone, Whole, Wrote, Owed, Owes, InnerTells, On
  <2>4. (ToldFits' <=> ToldFits) /\ (AllOrNothing' <=> AllOrNothing)
    BY <2>1, <2>2, <2>3 DEF ToldFits, IsTrue, KeptOf, Committed, AllOrNothing, Children
  <2>5. Chained' <=> Chained
    BY <2>1, <2>3 DEF Chained
  <2>6. \A v \in Tx : (CallFits(v)' <=> CallFits(v)) /\ (Accounts(v)' <=> Accounts(v)) /\ (MarkFits(v)' <=> MarkFits(v))
    <3> SUFFICES ASSUME NEW v \in Tx
                 PROVE  (CallFits(v)' <=> CallFits(v)) /\ (Accounts(v)' <=> Accounts(v)) /\ (MarkFits(v)' <=> MarkFits(v))
      OBVIOUS
    <3>1. CallFits(v)' <=> CallFits(v)
      BY <2>1, <2>3 DEF CallFits
    <3>2. Children(v) \subseteq Tx
      BY DEF Children
    <3>3. Accounts(v)' <=> Accounts(v)
      BY <2>1, <2>3, <3>2 DEF Accounts
    <3>4. MarkFits(v)' <=> MarkFits(v)
      BY <2>1 DEF MarkFits, WaitsFor, Owes, IsOutermost, IsRoot, Waiting
    <3>5. QED
      BY <3>1, <3>3, <3>4
  <2>7. \A i \in 1..Top : PointFits(i)' <=> PointFits(i)
    BY <2>1 DEF PointFits, Takes, Fresh, Same, Above, Below, Owes, Wrote, InnerTells, RootTells, Children
  <2>8. Joined' <=> Joined
    <3>1. \A u, v \in Tx : (Outside(u, v)' <=> Outside(u, v)) /\ (Stands(v)' <=> Stands(v))
      BY <2>1, SameTree
    <3>2. \A v \in Tx : StandsWhole(v)' <=> StandsWhole(v)
      BY <2>3, <3>1 DEF StandsWhole
    <3>3. \A i \in 1..Top, v \in Tx : TakesInside(i, v)' <=> TakesInside(i, v)
      BY <2>1 DEF TakesInside, Outside, Upward, Same, Fresh, Above, Below, Owes, Wrote, InnerTells
    <3>4. Nested' <=> Nested
      BY <2>1 DEF Nested, Outside, Upward, Owes
    <3>5. QED
      BY <2>1, <3>2, <3>3, <3>4 DEF Joined
  <2>9. QED
    BY <2>1, <2>2, <2>4, <2>5, <2>6, <2>7, <2>8 DEF IInv, Live
<1>2. CASE Next /\ ~Crash
  <2>1. up /\ TypeOK /\ ToldFits /\ Live /\ up' = up
    BY <1>2 DEF IInv, Next, CallStep, Ask, Begin, Answers, Throws, SaveJobs, SaveEvents, Close, Undo, Merge, Tell,
                BeginFails, StatementFails, Open, Writes, Announces
  <2>2. TypeOK' /\ ToldFits' /\ Live'
    <3>1. ASSUME NEW t \in Tx, Ask(t) \/ CallStep(t) \/ BeginFails(t) \/ StatementFails(t)
          PROVE  TypeOK' /\ ToldFits' /\ Live'
      BY <2>1, <3>1, AskStep, BeginStep, AnswersStep, ThrowsStep, SaveJobsStep, SaveEventsStep, CloseStep, UndoStep,
         MergeStep, TellStep, BeginFailsStep, StatementFailsStep DEF CallStep
    <3>2. ASSUME NEW t \in Tx, NEW p \in Tx, NEW handed \in BOOLEAN, Open(t, p, handed)
          PROVE  TypeOK' /\ ToldFits' /\ Live'
      BY <2>1, <3>2, OpenStep
    <3>3. ASSUME NEW t \in Tx, Writes(t) \/ Announces(t)
          PROVE  TypeOK' /\ ToldFits' /\ Live'
      BY <2>1, <3>3, WritesStep, AnnouncesStep
    <3>4. QED
      BY <1>2, <3>1, <3>2, <3>3 DEF Next
  <2>3. QED
    BY <2>1, <2>2 DEF IInv
<1>3. CASE Crash
  BY <1>3, CrashStep
<1>4. QED
  BY <1>1, <1>2, <1>3

-----------------------------------------------------------------------------
(* What TxPromise allows is all that happens: where a callback waits for    *)
(* the calls it makes                                                       *)

(* A call that was closed, and whose work was not undone with it *)
Shut(u) == tx[u].at \in {"tell", "ended"} /\ ~tx[u].threw

(* A call is kept exactly when it and those around it were closed. *)
LEMMA KeptUp ==
  ASSUME TypeOK, NEW u \in Tx
  PROVE  u \in KeptCalls <=> Shut(u) /\ tx[u].parent \in KeptCalls \cup {NoTx}
<1>1. ASSUME u \in KeptCalls PROVE Shut(u) /\ tx[u].parent \in KeptCalls \cup {NoTx}
  <2>1. PICK C \in SUBSET Tx : ClosedTo(C) /\ u \in C
    BY <1>1 DEF KeptCalls
  <2>2. Shut(u) /\ tx[u].parent \in C \cup {NoTx}
    BY <2>1 DEF ClosedTo, Shut
  <2>3. C \subseteq KeptCalls
    BY <2>1 DEF KeptCalls
  <2>4. QED
    BY <2>2, <2>3
<1>2. ASSUME Shut(u), tx[u].parent \in KeptCalls PROVE u \in KeptCalls
  <2>1. PICK C \in SUBSET Tx : ClosedTo(C) /\ tx[u].parent \in C
    BY <1>2 DEF KeptCalls
  <2>2. C \cup {u} \in SUBSET Tx /\ ClosedTo(C \cup {u})
    BY <2>1, <1>2 DEF ClosedTo, Shut
  <2>3. QED
    BY <2>2 DEF KeptCalls
<1>3. ASSUME Shut(u), tx[u].parent = NoTx PROVE u \in KeptCalls
  <2>1. {u} \in SUBSET Tx /\ ClosedTo({u})
    BY <1>3 DEF ClosedTo, Shut
  <2>2. QED
    BY <2>1 DEF KeptCalls
<1>4. QED
  BY <1>1, <1>2, <1>3

(* The kept are calls. *)
LEMMA KeptAreCalls == KeptCalls \subseteq Tx
BY DEF KeptCalls

(* A step that closes no call, nor reopens one, keeps none. *)
LEMMA SameKept ==
  ASSUME \A u \in Tx : (Shut(u)' <=> Shut(u)) /\ (Shut(u) => tx'[u].parent = tx[u].parent)
  PROVE  KeptCalls' = KeptCalls
<1>1. \A C \in SUBSET Tx : ClosedTo(C)' <=> ClosedTo(C)
  <2> SUFFICES ASSUME NEW C \in SUBSET Tx PROVE ClosedTo(C)' <=> ClosedTo(C)
    OBVIOUS
  <2>1. ClosedTo(C) <=> \A u \in C : Shut(u) /\ tx[u].parent \in C \cup {NoTx}
    BY DEF ClosedTo, Shut
  <2>2. ClosedTo(C)' <=> \A u \in C : Shut(u)' /\ tx'[u].parent \in C \cup {NoTx}
    BY DEF ClosedTo, Shut
  <2>3. QED
    BY <2>1, <2>2
<1>2. QED
  BY <1>1 DEF KeptCalls

(* A step that only closes a call keeps those kept before. *)
LEMMA MoreKept ==
  ASSUME \A u \in Tx : (Shut(u) => Shut(u)') /\ tx'[u].parent = tx[u].parent
  PROVE  KeptCalls \subseteq KeptCalls'
<1>1. ASSUME NEW C \in SUBSET Tx, ClosedTo(C) PROVE ClosedTo(C)'
  <2>1. \A u \in C : Shut(u) /\ tx[u].parent \in C \cup {NoTx}
    BY <1>1 DEF ClosedTo, Shut
  <2>2. \A u \in C : Shut(u)' /\ tx'[u].parent \in C \cup {NoTx}
    BY <2>1
  <2>3. QED
    BY <2>2 DEF ClosedTo, Shut
<1>2. QED
  BY <1>1 DEF KeptCalls

(* Kept are the calls that were closed and stand, outside the transaction   *)
(* under way.                                                               *)
LEMMA KeptIs ==
  ASSUME TypeOK, Live, NEW v \in Tx
  PROVE  v \in KeptCalls <=>
           /\ tx[v].at \in {"tell", "ended"} /\ Stands(v)
           /\ Top > 0 => Outside(points[1].name, v)
<1>1. /\ Top \in Nat /\ \A i \in 1..Top : points[i].name \in Tx
      /\ \A i \in 1..Top : tx[points[i].name].at \in Under
  BY PointTypes DEF Live, Chained
<1>2. ASSUME v \in KeptCalls
      PROVE  tx[v].at \in {"tell", "ended"} /\ Stands(v) /\ (Top > 0 => Outside(points[1].name, v))
  <2>1. PICK C \in SUBSET Tx : ClosedTo(C) /\ v \in C
    BY <1>2 DEF KeptCalls
  <2>2. Upward(C) /\ \A u \in C : tx[u].at \in {"tell", "ended"} /\ ~tx[u].threw
    BY <2>1 DEF ClosedTo, Upward
  <2>3. Stands(v)
    BY <2>1, <2>2 DEF Stands
  <2>4. Top > 0 => points[1].name \notin C
    BY <1>1, <2>2 DEF Under
  <2>5. QED
    BY <2>1, <2>2, <2>3, <2>4 DEF Outside
<1>3. ASSUME tx[v].at \in {"tell", "ended"}, Stands(v), Top > 0 => Outside(points[1].name, v)
      PROVE  v \in KeptCalls
  <2>1. PICK C \in SUBSET Tx : v \in C /\ Upward(C) /\ \A u \in C : ~tx[u].threw
    BY <1>3 DEF Stands
  <2>2. PICK D \in SUBSET Tx : v \in D /\ Upward(D) /\ (Top > 0 => points[1].name \notin D)
    BY <1>3, <2>1 DEF Outside
  <2> DEFINE E == {u \in C \cap D : tx[u].at \notin {"idle", "queued"}}
  <2>3. Upward(C \cap D)
    BY <2>1, <2>2 DEF Upward
  <2>4. ASSUME NEW u \in E PROVE tx[u].at \in {"tell", "ended"} /\ tx[u].parent \in E \cup {NoTx}
    <3>1. u \in Tx /\ u \in C \cap D /\ tx[u].parent \in (C \cap D) \cup {NoTx}
      BY <2>3 DEF Upward
    <3>2. tx[u].parent \in Tx => tx[tx[u].parent].at \notin {"idle", "queued"}
      BY <3>1 DEF Live, CallFits, Children
    <3>3. tx[u].at \notin Under
      <4> SUFFICES ASSUME tx[u].at \in Under PROVE FALSE
        OBVIOUS
      <4>1. PICK j \in 1..Top : points[j].name = u
        BY <3>1 DEF Live, Chained, On
      <4>2. 1 \in 1..Top /\ 1 <= j
        BY <4>1, <1>1
      <4>3. ~Outside(points[1].name, u)
        BY <4>1, <4>2 DEF Live, Joined, Nested
      <4>4. Outside(points[1].name, u)
        BY <3>1, <4>2, <2>2, <1>1 DEF Outside
      <4>5. QED
        BY <4>3, <4>4
    <3>4. tx[u].at \in {"idle", "queued", "tell", "ended"} \cup Under
      BY <3>1 DEF TypeOK, Call, Under
    <3>5. QED
      BY <3>1, <3>2, <3>3, <3>4
  <2>5. E \in SUBSET Tx /\ v \in E /\ ClosedTo(E)
    BY <2>1, <2>2, <2>4, <1>3 DEF ClosedTo
  <2>6. QED
    BY <2>5 DEF KeptCalls
<1>4. QED
  BY <1>2, <1>3

(* What is committed of a call: all or nothing, and all of one that is kept. *)
LEMMA KeptWhole ==
  ASSUME TypeOK, Live, NEW v \in Tx
  PROVE  KeptOf(v) = IF v \in KeptCalls THEN tx[v].did \ {"push"} ELSE {}
<1>1. /\ Top \in Nat /\ (points = <<>> <=> Top = 0)
      /\ Top > 0 => 1 \in 1..Top /\ points[1].name \in Tx
  BY PointTypes DEF Live, Chained
<1>2. Top > 0 /\ Fresh(1, v) => KeptOf(v) = {}
  BY <1>1 DEF KeptOf, Committed, Fresh, Wrote
<1>3. Gone(v) => KeptOf(v) = {}
  <2>1. Top > 0 => Wrote(v, points[1].held) \subseteq Wrote(v, db)
    BY <1>1, HeldInDb DEF Wrote
  <2>2. KeptOf(v) = Wrote(v, IF Top = 0 THEN db ELSE points[1].held)
    BY <1>1 DEF KeptOf, Committed, Wrote
  <2>3. QED
    BY <2>1, <2>2, <1>1 DEF Gone
<1>4. CASE v \in KeptCalls
  <2>1. /\ tx[v].at \in {"tell", "ended"} /\ Whole(v)
        /\ Top > 0 => Same(1, v)
    BY <1>4, <1>1, KeptIs DEF Live, Joined, StandsWhole, TakesInside
  <2>2. KeptOf(v) = Wrote(v, db) /\ Owed(v) \subseteq Wrote(v, db)
    BY <2>1, <1>1, CommittedOf
  <2>3. QED
    BY <1>4, <2>1, <2>2 DEF Whole
<1>5. CASE v \notin KeptCalls
  <2>1. tx[v].at \in {"idle", "queued", "tell", "ended"} \cup Under
    BY DEF TypeOK, Call, Under
  <2>2. CASE tx[v].at \in {"idle", "queued"} \/ ~Stands(v)
    BY <2>2, <1>3, <1>5 DEF Live, CallFits, Joined, StandsWhole
  <2>3. CASE Stands(v) /\ tx[v].at \in {"tell", "ended"}
    <3>1. Top > 0 /\ ~Outside(points[1].name, v)
      BY <2>3, <1>5, KeptIs
    <3>2. Fresh(1, v)
      BY <3>1, <1>1 DEF Live, Joined, TakesInside
    <3>3. QED
      BY <3>1, <3>2, <1>2, <1>5
  <2>4. CASE tx[v].at \in Under
    <3>1. PICK j \in 1..Top : points[j].name = v
      BY <2>4 DEF Live, Chained, On
    <3>2. Top > 0 /\ 1 <= j
      BY <3>1, <1>1
    <3>3. ~Outside(points[1].name, v)
      BY <3>1, <3>2, <1>1 DEF Live, Joined, Nested
    <3>4. Fresh(1, v)
      BY <3>2, <3>3, <1>1 DEF Live, Joined, TakesInside
    <3>5. QED
      BY <3>2, <3>4, <1>2, <1>5
  <2>5. QED
    BY <2>1, <2>2, <2>3, <2>4
<1>6. QED
  BY <1>4, <1>5

(* What a call did, of what is stored *)
Rows(t) == {t} \X (tx[t].did \ {"push"})

(* What a reader finds is the work of the calls kept, and nothing else. *)
LEMMA StoredIsKept ==
  ASSUME TypeOK, Live
  PROVE  Committed = UNION {Rows(t) : t \in KeptCalls}
<1>1. Committed \subseteq Effect
  <2>1. points # <<>> => 1 \in 1..Top
    BY PointTypes DEF Live, Chained
  <2>2. QED
    BY <2>1, PointTypes DEF Committed, TypeOK, Live, Chained
<1>2. \A v \in Tx, k \in Kind : <<v, k>> \in Committed <=> v \in KeptCalls /\ k \in tx[v].did \ {"push"}
  BY KeptWhole DEF KeptOf
<1>3. ASSUME NEW t \in KeptCalls
      PROVE  /\ t \in Tx /\ Rows(t) = {t} \X (tx[t].did \ {"push"})
             /\ tx[t].did \subseteq Kind
  BY KeptAreCalls DEF Rows, TypeOK, Call
<1>4. ASSUME NEW e \in Committed PROVE e \in UNION {Rows(t) : t \in KeptCalls}
  <2>1. PICK v \in Tx, k \in Kind : e = <<v, k>>
    BY <1>1 DEF Effect
  <2>2. v \in KeptCalls /\ e \in Rows(v)
    BY <2>1, <1>2, <1>3
  <2>3. QED
    BY <2>2
<1>5. ASSUME NEW t \in KeptCalls, NEW e \in Rows(t) PROVE e \in Committed
  BY <1>2, <1>3
<1>6. QED
  BY <1>4, <1>5

(* What is committed follows from which calls are kept *)
KeptFits ==
  /\ KeptCalls \subseteq Tx
  /\ \A u \in Tx : u \in KeptCalls <=> Shut(u) /\ tx[u].parent \in KeptCalls \cup {NoTx}
  /\ Committed = UNION {Rows(t) : t \in KeptCalls}

LEMMA KeptAlwaysFits == ASSUME TypeOK, Live PROVE KeptFits
  BY KeptUp, KeptAreCalls, StoredIsKept DEF KeptFits

(* A step that changes no call's place, work or end leaves the promise      *)
(* alone, if what is committed and told stays.                              *)
LEMMA PromiseStutters ==
  ASSUME TypeOK,
         \A u \in Tx : /\ tx'[u].parent = tx[u].parent /\ tx'[u].did = tx[u].did
                       /\ tx'[u].threw = tx[u].threw /\ tx'[u].plain = tx[u].plain,
         KeptCalls' = KeptCalls, Committed' = Committed, told' = told
  PROVE  UNCHANGED Promise!vars
<1>1. /\ [t \in Tx |-> tx'[t].parent] = [t \in Tx |-> tx[t].parent]
      /\ [t \in Tx |-> tx'[t].did] = [t \in Tx |-> tx[t].did]
      /\ {t \in Tx : tx'[t].threw} = {t \in Tx : tx[t].threw}
  OBVIOUS
<1>2. {e \in told' : tx'[e[1]].plain} = {e \in told : tx[e[1]].plain}
  BY DEF TypeOK, Effect
<1>3. QED
  BY <1>1, <1>2 DEF Promise!vars

(* Where no call is kept more and none of those kept did more, what is      *)
(* committed stays.                                                         *)
LEMMA StoredStays ==
  ASSUME KeptFits, KeptFits', KeptCalls' = KeptCalls, \A u \in KeptCalls : tx'[u].did = tx[u].did
  PROVE  Committed' = Committed
<1>1. \A u \in KeptCalls : Rows(u)' = Rows(u)
  BY DEF Rows
<1>2. QED
  BY <1>1 DEF KeptFits

(* A call moves on, and nothing is kept, undone or told yet. *)
LEMMA MovesUnseen ==
  ASSUME TypeOK, KeptFits, KeptFits', NEW t \in Tx, NEW a, tx' = [tx EXCEPT ![t].at = a], told' = told,
         tx[t].at \in {"tell", "ended"} <=> a \in {"tell", "ended"}
  PROVE  UNCHANGED Promise!vars
<1>1. \A u \in Tx : /\ tx'[u].parent = tx[u].parent /\ tx'[u].did = tx[u].did
                    /\ tx'[u].threw = tx[u].threw /\ tx'[u].plain = tx[u].plain
                    /\ tx'[u].at \in {"tell", "ended"} <=> tx[u].at \in {"tell", "ended"}
  BY DEF TypeOK, Call
<1>2. KeptCalls' = KeptCalls
  BY <1>1, SameKept DEF Shut
<1>3. Committed' = Committed
  BY <1>1, <1>2, StoredStays DEF KeptFits
<1>4. QED
  BY <1>1, <1>2, <1>3, PromiseStutters

(* A call opened inside another joins it. *)
LEMMA OpenJoins ==
  ASSUME TypeOK, ToldFits, Live, KeptFits, KeptFits', NEW t \in Tx, NEW p \in Tx, NEW handed \in BOOLEAN,
         Open(t, p, handed)
  PROVE  Promise!Joins(t, p)
<1>1. /\ tx[t].at = "idle" /\ tx[p].at = "work" /\ tx[t] \in Call /\ tx[p] \in Call
      /\ ~tx[t].threw /\ ~tx[p].threw
      /\ tx[t].parent = NoTx /\ tx[t].did = {} /\ tx[t].plain /\ \A u \in Tx : tx[u].parent # t
  BY DEF Open, TypeOK, Live, CallFits, Children
<1>2. /\ \A u \in Tx \ {t} : tx'[u] = tx[u]
      /\ tx'[t].at = "work" /\ tx'[t].did = {} /\ tx'[t].threw = FALSE /\ tx'[t].parent = p
  BY <1>1 DEF TypeOK, Open, NewCall, Call
<1>3. t \notin KeptCalls /\ p \notin KeptCalls
  BY <1>1 DEF KeptFits, Shut
<1>4. KeptCalls' = KeptCalls
  <2>1. \A u \in Tx : (Shut(u)' <=> Shut(u)) /\ (Shut(u) => u # t)
    BY <1>1, <1>2 DEF Shut
  <2>2. QED
    BY <2>1, <1>2, SameKept
<1>5. Committed' = Committed
  BY <1>2, <1>3, <1>4, StoredStays DEF KeptFits
<1>6. {e \in told' : tx'[e[1]].plain} = {e \in told : tx[e[1]].plain}
  <2>1. \A e \in told : e[1] \in Tx /\ e[1] # t
    BY <1>1 DEF TypeOK, Effect, ToldFits
  <2>2. told' = told
    BY DEF Open
  <2>3. QED
    BY <2>1, <2>2, <1>2
<1>7. /\ [u \in Tx |-> tx'[u].parent] = [[u \in Tx |-> tx[u].parent] EXCEPT ![t] = p]
      /\ [u \in Tx |-> tx'[u].did] = [u \in Tx |-> tx[u].did]
      /\ {u \in Tx : tx'[u].threw} = {u \in Tx : tx[u].threw}
  BY <1>1, <1>2
<1>8. QED
  BY <1>1, <1>3, <1>4, <1>5, <1>6, <1>7 DEF Promise!Joins, Promise!Open

(* What a callback does is the work of a call not kept yet. *)
LEMMA WorkDoes ==
  ASSUME TypeOK, Live, KeptFits, KeptFits', NEW t \in Tx, tx[t].at = "work", NEW kinds \in SUBSET Kind,
         tx' = [tx EXCEPT ![t].did = @ \cup kinds], told' = told
  PROVE  Promise!Does(t, kinds)
<1>1. tx[t] \in Call /\ ~tx[t].threw /\ t \notin KeptCalls
  BY DEF TypeOK, Live, CallFits, KeptFits, Shut
<1>2. \A u \in Tx : /\ tx'[u].parent = tx[u].parent /\ tx'[u].at = tx[u].at
                    /\ tx'[u].threw = tx[u].threw /\ tx'[u].plain = tx[u].plain
                    /\ tx'[u].did = IF u = t THEN tx[t].did \cup kinds ELSE tx[u].did
  BY <1>1 DEF TypeOK, Call
<1>3. KeptCalls' = KeptCalls
  BY <1>2, SameKept DEF Shut
<1>4. Committed' = Committed
  BY <1>1, <1>2, <1>3, StoredStays DEF KeptFits
<1>5. {e \in told' : tx'[e[1]].plain} = {e \in told : tx[e[1]].plain}
  <2>1. \A e \in told : e[1] \in Tx
    BY DEF TypeOK, Effect
  <2>2. \A e \in told : tx'[e[1]].plain <=> tx[e[1]].plain
    BY <1>2, <2>1
  <2>3. QED
    BY <2>2
<1>6. /\ [u \in Tx |-> tx'[u].parent] = [u \in Tx |-> tx[u].parent]
      /\ [u \in Tx |-> tx'[u].did] = [[u \in Tx |-> tx[u].did] EXCEPT ![t] = @ \cup kinds]
      /\ {u \in Tx : tx'[u].threw} = {u \in Tx : tx[u].threw}
  <2>1. [u \in Tx |-> tx'[u].parent] = [u \in Tx |-> tx[u].parent]
    <3>1. \A u \in Tx : tx'[u].parent = tx[u].parent
      BY <1>2
    <3>2. QED
      BY <3>1
  <2>2. [u \in Tx |-> tx'[u].did] = [[u \in Tx |-> tx[u].did] EXCEPT ![t] = @ \cup kinds]
    <3>1. \A u \in Tx : tx'[u].did = IF u = t THEN tx[t].did \cup kinds ELSE tx[u].did
      BY <1>2
    <3>2. QED
      BY <3>1
  <2>3. {u \in Tx : tx'[u].threw} = {u \in Tx : tx[u].threw}
    BY <1>2
  <2>4. QED
    BY <2>1, <2>2, <2>3
<1>7. QED
  BY <1>1, <1>3, <1>4, <1>5, <1>6 DEF Promise!Does, Promise!Open

(* A call that throws, or could not begin, is undone before any of it is kept. *)
LEMMA ThrowUndoes ==
  ASSUME TypeOK, Live, KeptFits, KeptFits', NEW t \in Tx, tx[t].at \in {"undo", "queued"},
         tx' = [tx EXCEPT ![t].at = "ended", ![t].threw = TRUE], told' = told
  PROVE  Promise!Undoes(t)
<1>1. tx[t] \in Call /\ ~tx[t].threw /\ t \notin KeptCalls
  BY DEF TypeOK, Live, CallFits, KeptFits, Shut
<1>2. \A u \in Tx : /\ tx'[u].parent = tx[u].parent /\ tx'[u].did = tx[u].did /\ tx'[u].plain = tx[u].plain
                    /\ u # t => tx'[u] = tx[u]
                    /\ tx'[t].threw
  BY <1>1 DEF TypeOK, Call
<1>3. KeptCalls' = KeptCalls
  <2>1. \A u \in Tx : Shut(u)' <=> Shut(u)
    BY <1>2 DEF Shut
  <2>2. QED
    BY <2>1, <1>2, SameKept
<1>4. Committed' = Committed
  BY <1>2, <1>3, StoredStays DEF KeptFits
<1>5. {e \in told' : tx'[e[1]].plain} = {e \in told : tx[e[1]].plain}
  <2>1. \A e \in told : e[1] \in Tx
    BY DEF TypeOK, Effect
  <2>2. \A e \in told : tx'[e[1]].plain <=> tx[e[1]].plain
    BY <1>2, <2>1
  <2>3. QED
    BY <2>2
<1>6. /\ [u \in Tx |-> tx'[u].parent] = [u \in Tx |-> tx[u].parent]
      /\ [u \in Tx |-> tx'[u].did] = [u \in Tx |-> tx[u].did]
      /\ {u \in Tx : tx'[u].threw} = {u \in Tx : tx[u].threw} \cup {t}
  <2>1. [u \in Tx |-> tx'[u].parent] = [u \in Tx |-> tx[u].parent]
    BY <1>2
  <2>2. [u \in Tx |-> tx'[u].did] = [u \in Tx |-> tx[u].did]
    BY <1>2
  <2>3. \A u \in Tx : tx'[u].threw <=> tx[u].threw \/ u = t
    BY <1>2, ZenonT(60)
  <2>4. {u \in Tx : tx'[u].threw} = {u \in Tx : tx[u].threw} \cup {t}
    BY <2>3
  <2>5. QED
    BY <2>1, <2>2, <2>4
<1>7. QED
  BY <1>1, <1>3, <1>4, <1>5, <1>6 DEF Promise!Undoes, Promise!Open

(* COMMIT keeps the outermost call and, at once, all inside it that was not *)
(* undone; a RELEASE keeps nothing.                                         *)
LEMMA CloseKeeps ==
  ASSUME TypeOK, Live, Live', KeptFits, KeptFits', NEW t \in Tx, Close(t)
  PROVE  Promise!Keep(KeptCalls' \ KeptCalls)
<1> DEFINE S == KeptCalls' \ KeptCalls
<1>1. tx[t].at = "close" /\ PointOf(t) = Top /\ Last(t) /\ tx[t] \in Call
  BY GoesOnLast DEF Close, Under, TypeOK
<1>2. /\ Top \in Nat /\ Top > 0 /\ points[Top].name = t
      /\ \A i \in 1..Top : points[i].name \in Tx
  BY <1>1, PointTypes DEF Live, Chained, Last
<1>3. tx' = [tx EXCEPT ![t].at = "tell"] /\ points' = Before(Top) /\ told' = told
  BY <1>1, <1>2 DEF Close, Goes
<1>4. \A u \in Tx : /\ tx'[u].parent = tx[u].parent /\ tx'[u].did = tx[u].did
                    /\ tx'[u].threw = tx[u].threw /\ tx'[u].plain = tx[u].plain
                    /\ u # t => tx'[u] = tx[u]
                    /\ tx'[t].at = "tell"
  BY <1>1, <1>3 DEF TypeOK, Call
<1>5. \A u \in Tx : (Shut(u) => Shut(u)') /\ (u # t => (Shut(u)' <=> Shut(u)))
  BY <1>1, <1>4 DEF Shut
<1>6. KeptCalls \subseteq KeptCalls'
  BY <1>4, <1>5, MoreKept
<1>7. ASSUME S # {} PROVE Top = 1 /\ tx[t].parent = NoTx
  <2>1. SUFFICES ASSUME Top # 1 PROVE FALSE
    BY <1>2 DEF Live, Chained
  <2>2. PICK p \in Tx : tx[t].parent = p /\ tx[p].at = "work"
    <3>1. Top \in 1..Top /\ Top - 1 \in 1..Top /\ Top - 1 < Top
      BY <2>1, <1>2
    <3>2. QED
      BY <2>1, <3>1, <1>2 DEF Live, Chained
  <2>3. ~Shut(p)'
    BY <2>2, <1>1, <1>4 DEF Shut
  <2>4. ASSUME NEW C \in SUBSET Tx, ClosedTo(C)' PROVE C \subseteq KeptCalls
    <3>1. \A u \in C : Shut(u)' /\ tx[u].parent \in C \cup {NoTx}
      BY <2>4, <1>4 DEF ClosedTo, Shut
    <3>2. t \notin C
      BY <2>2, <2>3, <3>1, NamesAssumption
    <3>3. ClosedTo(C)
      BY <3>1, <3>2, <1>5 DEF ClosedTo, Shut
    <3>4. QED
      BY <3>3 DEF KeptCalls
  <2>5. KeptCalls' \subseteq KeptCalls
    BY <2>4 DEF KeptCalls
  <2>6. QED
    BY <1>7, <2>5
<1>8. ASSUME NEW u \in S
      PROVE  u \in Tx /\ u \notin KeptCalls /\ ~tx[u].threw /\ tx[u].parent \in S \cup {NoTx}
  <2>1. u \in Tx /\ u \notin KeptCalls /\ Shut(u)' /\ tx[u].parent \in KeptCalls' \cup {NoTx}
    BY <1>4 DEF KeptFits
  <2>2. u # t => tx[u].parent \notin KeptCalls
    BY <2>1, <1>5 DEF KeptFits
  <2>3. tx[t].parent \notin KeptCalls
    BY <1>7, NamesAssumption DEF KeptFits
  <2>4. QED
    BY <2>1, <2>2, <2>3, <1>4 DEF Shut
<1>9. ASSUME NEW u \in Tx, tx[u].parent \in S PROVE u \in S \/ tx[u].threw
  <2>1. tx[u].parent \in Tx /\ tx[u].parent # NoTx /\ tx[u].parent \in KeptCalls' /\ tx[u].parent \notin KeptCalls
    BY <1>9, NamesAssumption DEF KeptFits
  <2>2. u \notin KeptCalls /\ u # t
    BY <2>1, <1>7, <1>9 DEF KeptFits
  <2>3. tx[u].at \notin Under
    <3>1. \A i \in 1..Top : points[i].name = t
      BY <1>2, <1>7, <1>9
    <3>2. QED
      BY <2>2, <3>1 DEF Live, Chained, On
  <2>4. tx[u].at \in {"tell", "ended"}
    BY <2>1, <2>3 DEF TypeOK, Call, Under, Live, CallFits
  <2>5. ~tx[u].threw => Shut(u)'
    BY <2>4, <1>5 DEF Shut
  <2>6. QED
    BY <2>1, <2>2, <2>5, <1>4 DEF KeptFits
<1>10. KeptCalls' = KeptCalls \cup S
  BY <1>6
<1>11. Committed' = Committed \cup UNION {Rows(u) : u \in S}
  <2>1. \A u \in Tx : Rows(u)' = Rows(u)
    BY <1>4 DEF Rows
  <2>2. Committed' = UNION {Rows(u) : u \in KeptCalls'}
    BY <2>1 DEF KeptFits
  <2>3. Committed = UNION {Rows(u) : u \in KeptCalls}
    BY DEF KeptFits
  <2>4. QED
    BY <2>2, <2>3, <1>10
<1>12. UNION {Promise!Work(u) : u \in S} = UNION {Rows(u) : u \in S}
  BY <1>8 DEF Promise!Work, Rows
<1>13. {e \in told' : tx'[e[1]].plain} = {e \in told : tx[e[1]].plain}
  BY <1>3, <1>4 DEF TypeOK, Effect
<1>14. /\ [u \in Tx |-> tx'[u].parent] = [u \in Tx |-> tx[u].parent]
       /\ [u \in Tx |-> tx'[u].did] = [u \in Tx |-> tx[u].did]
       /\ {u \in Tx : tx'[u].threw} = {u \in Tx : tx[u].threw}
  BY <1>4
<1> HIDE DEF S
<1>15. Promise!Keep(S)
  BY <1>8, <1>9, <1>10, <1>11, <1>12, <1>13, <1>14 DEF Promise!Keep, Promise!Open
<1>16. QED
  BY <1>15 DEF S

(* What the outermost tells, of the calls on a ctx they were handed, is     *)
(* theirs and kept.                                                         *)
LEMMA TellTells ==
  ASSUME TypeOK, TypeOK', ToldFits', KeptFits, KeptFits', NEW t \in Tx, Tell(t)
  PROVE  \E E \in SUBSET Promise!Announced : Promise!Tell(E)
<1>0. PICK E \in SUBSET Effect : E = {e \in told' \ told : tx[e[1]].plain}
  BY DEF TypeOK
<1>1. /\ tx[t].at = "tell" /\ tx' = [tx EXCEPT ![t].at = "ended"]
      /\ told' = told \cup Waiting(t, "push") \cup Waiting(t, "event")
  BY DEF Tell, Goes
<1>2. \A u \in Tx : /\ tx'[u].parent = tx[u].parent /\ tx'[u].did = tx[u].did
                    /\ tx'[u].threw = tx[u].threw /\ tx'[u].plain = tx[u].plain
                    /\ tx'[u].at \in {"tell", "ended"} <=> tx[u].at \in {"tell", "ended"}
  BY <1>1 DEF TypeOK, Call
<1>3. KeptCalls' = KeptCalls
  BY <1>2, SameKept DEF Shut
<1>4. Committed' = Committed
  BY <1>2, <1>3, StoredStays DEF KeptFits
<1>5. ASSUME NEW e \in E PROVE e \in Promise!Announced
  <2>1. PICK v \in Tx, k \in {"event", "push"} : e = <<v, k>> /\ tx[v].plain /\ e \in told'
    BY <1>0, <1>1 DEF TypeOK, Effect, Waiting
  <2>2. Announced \subseteq tx[v].did /\ "event" \in KeptOf(v)'
    BY <2>1, <1>2 DEF ToldFits, IsTrue, Announced
  <2>3. <<v, "event">> \in Committed
    BY <2>2, <1>4 DEF KeptOf
  <2>4. v \in KeptCalls
    BY <2>3 DEF KeptFits, Rows
  <2>5. k \in tx[v].did \cap {"event", "push"}
    BY <2>1, <2>2 DEF Announced
  <2>6. e \in {v} \X ([u \in Tx |-> tx[u].did][v] \cap {"event", "push"})
    BY <2>1, <2>5
  <2>7. QED
    BY <2>4, <2>6 DEF Promise!Announced
<1>6. {e \in told' : tx'[e[1]].plain} = {e \in told : tx[e[1]].plain} \cup E
  <2>1. \A e \in told' : e[1] \in Tx
    BY DEF TypeOK, Effect
  <2>2. QED
    BY <2>1, <1>0, <1>1, <1>2
<1>7. /\ [u \in Tx |-> tx'[u].parent] = [u \in Tx |-> tx[u].parent]
      /\ [u \in Tx |-> tx'[u].did] = [u \in Tx |-> tx[u].did]
      /\ {u \in Tx : tx'[u].threw} = {u \in Tx : tx[u].threw}
  BY <1>2
<1>8. Promise!Tell(E)
  BY <1>3, <1>4, <1>6, <1>7 DEF Promise!Tell
<1>9. QED
  BY <1>5, <1>8

(* A crash leaves what was committed, and no more is kept. *)
LEMMA CrashUnseen ==
  ASSUME TypeOK, Crash
  PROVE  UNCHANGED Promise!vars
<1>1. tx' = tx /\ told' = told /\ Committed' = Committed
  BY DEF Crash, Committed
<1>2. KeptCalls' = KeptCalls
  BY <1>1, SameKept DEF Shut
<1>3. QED
  BY <1>1, <1>2, PromiseStutters

(* Every step is a step of TxPromise, or leaves it alone. *)
LEMMA PromiseStep ==
  ASSUME ~Overlapping, IInv, IInv', up => KeptFits, up' => KeptFits', Next
  PROVE  Promise!Next \/ UNCHANGED Promise!vars
<1>1. CASE Crash
  BY <1>1, CrashUnseen DEF IInv
<1>2. CASE ~Crash
  <2>1. /\ TypeOK /\ ToldFits /\ Live /\ KeptFits
        /\ TypeOK' /\ ToldFits' /\ Live' /\ KeptFits'
    <3>1. up /\ up' = up
      BY <1>2 DEF Next, CallStep, Ask, Begin, Answers, Throws, SaveJobs, SaveEvents, Close, Undo, Merge, Tell,
                  BeginFails, StatementFails, Open, Writes, Announces
    <3>2. QED
      BY <3>1 DEF IInv
  <2>2. ASSUME NEW t \in Tx, Ask(t) \/ BeginFails(t) \/ StatementFails(t)
        PROVE  Promise!Undoes(t) \/ UNCHANGED Promise!vars
    <3>1. CASE Ask(t)
      BY <2>1, <3>1, MovesUnseen DEF Ask, Goes
    <3>2. CASE BeginFails(t)
      <4>1. tx[t].at = "queued"
        BY <2>1, <3>2, HeadQueued DEF BeginFails, Live
      <4>2. QED
        BY <2>1, <3>2, <4>1, ThrowUndoes DEF BeginFails
    <3>3. CASE StatementFails(t)
      BY <2>1, <3>3, MovesUnseen DEF StatementFails, Goes
    <3>4. QED
      BY <2>2, <3>1, <3>2, <3>3
  <2>3. ASSUME NEW t \in Tx, CallStep(t) PROVE Promise!Next \/ UNCHANGED Promise!vars
    <3>1. CASE Begin(t)
      <4>1. tx[t].at = "queued"
        BY <2>1, <3>1, HeadQueued DEF Begin, Live
      <4>2. QED
        BY <2>1, <3>1, <4>1, MovesUnseen DEF Begin, Goes
    <3>2. CASE Answers(t)
      BY <2>1, <3>2, MovesUnseen DEF Answers, Goes
    <3>3. CASE Throws(t) \/ SaveJobs(t) \/ SaveEvents(t) \/ Merge(t)
      BY <2>1, <3>3, MovesUnseen DEF Throws, SaveJobs, SaveEvents, Merge, Goes
    <3>4. CASE Close(t)
      <4>1. KeptCalls' \ KeptCalls \in SUBSET Tx
        BY <2>1 DEF KeptFits
      <4>2. QED
        BY <2>1, <3>4, <4>1, CloseKeeps DEF Promise!Next
    <3>5. CASE Undo(t)
      BY <2>1, <3>5, ThrowUndoes DEF Undo, Promise!Next
    <3>6. CASE Tell(t)
      BY <2>1, <3>6, TellTells DEF Promise!Next
    <3>7. QED
      BY <2>3, <3>1, <3>2, <3>3, <3>4, <3>5, <3>6 DEF CallStep
  <2>4. ASSUME NEW t \in Tx, NEW p \in Tx, NEW handed \in BOOLEAN, Open(t, p, handed) PROVE Promise!Next
    BY <2>1, <2>4, OpenJoins DEF Promise!Next
  <2>5. ASSUME NEW t \in Tx, Writes(t) \/ Announces(t) PROVE Promise!Next
    <3>1. CASE Writes(t)
      <4>1. {"row"} \in SUBSET Kind
        BY DEF Kind
      <4>2. Promise!Does(t, {"row"})
        BY <2>1, <3>1, <4>1, WorkDoes DEF Writes
      <4>3. QED
        BY <4>1, <4>2 DEF Promise!Next, Promise!Kind, Kind
    <3>2. CASE Announces(t)
      <4>1. Announced \in SUBSET Kind
        BY DEF Kind, Announced
      <4>2. Promise!Does(t, Announced)
        BY <2>1, <3>2, <4>1, WorkDoes DEF Announces
      <4>3. QED
        BY <4>1, <4>2 DEF Promise!Next, Promise!Kind, Kind
    <3>3. QED
      BY <2>5, <3>1, <3>2
  <2>6. QED
    BY <1>2, <2>2, <2>3, <2>4, <2>5 DEF Next, Promise!Next
<1>3. QED
  BY <1>1, <1>2

-----------------------------------------------------------------------------
(* The theorems: where a callback waits for the calls it makes *)

(* What holds at every step of every call: see IInv. *)
THEOREM Invariance ==
  ASSUME ~Overlapping
  PROVE  Spec => []IInv
<1>1. Init => IInv
  BY InitIInv
<1>2. IInv /\ [Next]_vars => IInv'
  BY NextIInv
<1>3. QED
  BY <1>1, <1>2, PTL DEF Spec

(* A call's rows, events and jobs are committed together or not at all,     *)
(* however calls nest, fail or crash, and one that threw leaves nothing     *)
(* (tx of context.ts over the savepoints of store.ts).                      *)
THEOREM CommitsWhole ==
  ASSUME ~Overlapping
  PROVE  Spec => []AllOrNothing
<1>1. IInv => AllOrNothing
  BY InvariantGives
<1>2. QED
  BY <1>1, Invariance, PTL

(* What a call on the ctx it was handed told is committed, to the last row. *)
THEOREM TellsWhatIsKept ==
  ASSUME ~Overlapping
  PROVE  Spec => []HandedTellsTruth
<1>1. IInv => HandedTellsTruth
  BY InvariantGives
<1>2. QED
  BY <1>1, Invariance, PTL

(* No committed event is left untold once every call has ended.             *)
THEOREM LeavesNoneUntold ==
  ASSUME ~Overlapping
  PROVE  Spec => []QuietMeansTold
<1>1. IInv => QuietMeansTold
  BY InvariantGives
<1>2. QED
  BY <1>1, Invariance, PTL

(* A call inside another joins it: to whoever calls it, ctx.tx behaves as   *)
(* TxPromise says, however calls nest, fail or crash.                       *)
THEOREM JoinsAround ==
  ASSUME ~Overlapping
  PROVE  Spec => JoinsAsPromised
<1>1. Init => Promise!Init
  <2> SUFFICES ASSUME Init PROVE Promise!Init
    OBVIOUS
  <2>1. \A u \in Tx : tx[u] = NewCall
    BY DEF Init
  <2>2. KeptCalls = {}
    BY <2>1 DEF KeptCalls, ClosedTo, NewCall
  <2>3. Committed = {} /\ told = {}
    BY DEF Init, Committed
  <2>4. QED
    BY <2>1, <2>2, <2>3 DEF Promise!Init, NewCall
<1>2. IInv => (up => KeptFits)
  BY KeptAlwaysFits DEF IInv
<1>3. IInv /\ IInv' /\ (up => KeptFits) /\ (up => KeptFits)' /\ [Next]_vars => [Promise!Next]_(Promise!vars)
  <2> SUFFICES ASSUME IInv, IInv', up => KeptFits, up' => KeptFits', [Next]_vars
               PROVE  Promise!Next \/ UNCHANGED Promise!vars
    OBVIOUS
  <2>1. CASE Next
    BY <2>1, PromiseStep
  <2>2. CASE UNCHANGED vars
    <3>1. tx' = tx /\ told' = told /\ Committed' = Committed
      BY <2>2 DEF vars, Committed
    <3>2. KeptCalls' = KeptCalls
      BY <3>1, SameKept DEF Shut
    <3>3. QED
      BY <3>1, <3>2, PromiseStutters DEF IInv
  <2>3. QED
    BY <2>1, <2>2
<1>4. QED
  BY <1>1, <1>2, <1>3, Invariance, PTL DEF Spec, JoinsAsPromised, Promise!Spec
=============================================================================
