--------------------------- MODULE StartupProofs ----------------------------
(***************************************************************************)
(* What is proved about Startup for any processes, versions, plugins and   *)
(* bounds: the order plugins are placed in, that what a plugin names is up *)
(* whenever it is, that the database takes the steps of a boot whole, that *)
(* an entry leaves by its own stop, that the schema stands, and that steps *)
(* added to a pipeline stay beside their anchors.                          *)
(***************************************************************************)
EXTENDS Startup, FiniteSetTheorems, SequenceTheorems, WellFoundedInduction, TLAPS

-----------------------------------------------------------------------------
(* Counting up, and functions defined by counting up *)

(* Numbers have a first one. *)
LEMMA First == ASSUME NEW S \in SUBSET Nat, S # {} PROVE \E s \in S : \A u \in S : s <= u
<1>1. PICK s \in S : \A u \in S : <<u, s>> \notin OpToRel(<, Nat)
  BY NatLessThanWellFounded, WFMin
<1>2. \A u \in S : ~(u < s)
  BY <1>1 DEF OpToRel
<1>3. QED
  BY <1>2

(* What holds of 0, and of i if of i - 1, holds up to n. *)
LEMMA UpTo ==
  ASSUME NEW n \in Nat, NEW S, 0 \in S, \A i \in 1..n : i - 1 \in S => i \in S
  PROVE  \A i \in 0..n : i \in S
<1> DEFINE T == {i \in 0..n : i \notin S}
<1>1. SUFFICES ASSUME T # {} PROVE FALSE
  OBVIOUS
<1>2. PICK i \in T : \A j \in T : i <= j
  <2>1. T \in SUBSET Nat
    OBVIOUS
  <2> HIDE DEF T
  <2>2. QED
    BY <1>1, <2>1, First
<1>3. i \in 1..n /\ i - 1 \in 0..n
  BY <1>2
<1>4. i - 1 \in S
  BY <1>2, <1>3
<1>5. QED
  BY <1>2, <1>3, <1>4

\* what starts with b and goes on as G says, up to n
GoingOn(n, T, b, G) == {f \in [0..n -> T] : f[0] = b /\ \A i \in 1..n : f[i] = G[<<f[i - 1], i>>]}

(* A function that says how to go on gives one that goes on up to n. *)
LEMMA GoesOn ==
  ASSUME NEW n \in Nat, NEW T, NEW b \in T, NEW G \in [T \X (1..n) -> T]
  PROVE  GoingOn(n, T, b, G) # {}
<1> DEFINE Is(f, k) == f \in [0..k -> T] /\ f[0] = b /\ \A i \in 1..k : f[i] = G[<<f[i - 1], i>>]
           S == {k \in 0..n : \E f : Is(f, k)}
<1>1. 0 \in S
  <2>1. Is([i \in 0..0 |-> b], 0)
    OBVIOUS
  <2> HIDE DEF Is
  <2>2. QED
    BY <2>1
<1>2. ASSUME NEW k \in 1..n, k - 1 \in S PROVE k \in S
  <2>1. PICK f : Is(f, k - 1)
    BY <1>2
  <2> DEFINE g == [i \in 0..k |-> IF i < k THEN f[i] ELSE G[<<f[k - 1], k>>]]
  <2>2. f \in [0..(k - 1) -> T] /\ k - 1 \in 0..(k - 1) /\ f[k - 1] \in T /\ <<f[k - 1], k>> \in T \X (1..n)
    BY <2>1
  <2>3. g \in [0..k -> T]
    BY <2>2
  <2>4. g[0] = b
    BY <2>1
  <2>5. ASSUME NEW i \in 1..k PROVE g[i] = G[<<g[i - 1], i>>]
    <3>1. CASE i < k
      BY <2>1, <3>1
    <3>2. CASE i = k
      <4>1. g[k] = G[<<f[k - 1], k>>] /\ g[k - 1] = f[k - 1]
        BY <2>2
      <4>2. QED
        BY <3>2, <4>1
    <3>3. QED
      BY <3>1, <3>2
  <2>6. Is(g, k)
    BY <2>3, <2>4, <2>5
  <2> HIDE DEF Is
  <2>7. QED
    BY <2>6
<1> HIDE DEF S
<1>3. n \in S
  BY <1>1, <1>2, UpTo
<1>4. QED
  BY <1>3 DEF S, GoingOn

-----------------------------------------------------------------------------
(* Gather *)

\* g is what F gives for the elements of s, one after the other, up to each place
Gathers(B, s, F, g) ==
  /\ g \in [0..Len(s) -> Seq(B)] /\ g[0] = <<>>
  /\ \A i \in 1..Len(s) : g[i] = g[i - 1] \o F[s[i]]

(* That is what is gathered. *)
LEMMA GatheredSteps ==
  ASSUME NEW B, NEW s, Len(s) \in Nat, NEW F, \A i \in 1..Len(s) : F[s[i]] \in Seq(B)
  PROVE  Gathers(B, s, F, Gathered(s, F))
<1>0. PICK n \in Nat : n = Len(s)
  OBVIOUS
<1>t. PICK T : T = Seq(B)
  OBVIOUS
<1>1. PICK G : G = [x \in T \X (1..n) |-> x[1] \o F[s[x[2]]]]
  OBVIOUS
<1>2. G \in [T \X (1..n) -> T]
  <2>1. \A x \in T \X (1..n) : x[1] \o F[s[x[2]]] \in T
    BY <1>0, <1>t, ConcatProperties
  <2>2. QED
    BY <1>1, <2>1
<1>b. PICK b \in T : b = <<>>
  BY <1>t, EmptySeq
<1>3. PICK f : f \in GoingOn(n, T, b, G)
  BY <1>2, GoesOn
<1>4. f \in [0..n -> T] /\ f[0] = b /\ \A i \in 1..n : f[i] = G[<<f[i - 1], i>>]
  BY <1>3 DEF GoingOn
<1>5. ASSUME NEW i \in 1..n PROVE i - 1 \in 0..n /\ i \in 0..n /\ i # 0 /\ f[i] = f[i - 1] \o F[s[i]]
  <2>1. i - 1 \in 0..n /\ i \in 0..n /\ i # 0
    OBVIOUS
  <2>2. <<f[i - 1], i>> \in T \X (1..n)
    BY <1>4, <2>1
  <2>3. G[<<f[i - 1], i>>] = f[i - 1] \o F[s[i]]
    BY <1>1, <2>2
  <2>4. QED
    BY <1>4, <2>1, <2>3
<1> DEFINE Is(h) == h = [i \in 0..n |-> IF i = 0 THEN <<>> ELSE h[i - 1] \o F[s[i]]]
<1>6. Is(f)
  <2>1. f = [i \in 0..n |-> f[i]]
    BY <1>4
  <2>2. ASSUME NEW i \in 0..n PROVE f[i] = IF i = 0 THEN <<>> ELSE f[i - 1] \o F[s[i]]
    <3>1. CASE i = 0
      BY <1>b, <1>4, <3>1
    <3>2. CASE i # 0
      <4>1. i \in 1..n
        BY <3>2
      <4>2. f[i] = f[i - 1] \o F[s[i]]
        BY <1>5, <4>1
      <4>3. QED
        BY <3>2, <4>2
    <3>3. QED
      BY <3>1, <3>2
  <2>3. QED
    BY <2>1, <2>2
<1>7. Gathered(s, F) = CHOOSE h : Is(h)
  BY <1>0 DEF Gathered
<1> HIDE DEF Is
<1>8. Is(Gathered(s, F))
  BY <1>6, <1>7
<1>9. PICK g : g = Gathered(s, F)
  OBVIOUS
<1>10. g = [i \in 0..n |-> IF i = 0 THEN <<>> ELSE g[i - 1] \o F[s[i]]]
  BY <1>8, <1>9 DEF Is
<1>11. g[0] = <<>> /\ \A i \in 1..n : g[i] = g[i - 1] \o F[s[i]]
  <2>1. 0 \in 0..n
    OBVIOUS
  <2>2. g[0] = <<>>
    BY <1>10, <2>1
  <2>3. ASSUME NEW i \in 1..n PROVE g[i] = g[i - 1] \o F[s[i]]
    BY <1>5, <1>10
  <2>4. QED
    BY <2>2, <2>3
<1> DEFINE S == {i \in 0..n : g[i] = f[i]}
<1>12. 0 \in S
  BY <1>b, <1>4, <1>11
<1>13. ASSUME NEW i \in 1..n, i - 1 \in S PROVE i \in S
  <2>1. g[i] = g[i - 1] \o F[s[i]] /\ g[i - 1] = f[i - 1]
    BY <1>11, <1>13
  <2>2. f[i] = f[i - 1] \o F[s[i]] /\ i \in 0..n
    BY <1>5
  <2>3. QED
    BY <2>1, <2>2
<1> HIDE DEF S
<1>14. \A i \in 0..n : i \in S
  BY <1>12, <1>13, UpTo
<1>15. \A i \in 0..n : g[i] = f[i]
  BY <1>14 DEF S
<1>16. g = f
  <2>1. g = [i \in 0..n |-> g[i]]
    BY <1>10
  <2>2. f = [i \in 0..n |-> f[i]]
    BY <1>4
  <2>3. QED
    BY <1>15, <2>1, <2>2
<1>17. QED
  BY <1>0, <1>t, <1>4, <1>9, <1>11, <1>16 DEF Gathers

\* s names x
Has(s, x) == \E j \in 1..Len(s) : s[j] = x

\* whatever one of s depends on, of those it is given with, comes before it
Follows(app, s) == \A i \in 1..Len(s) : \A m \in Needs(app, s[i]) : \E j \in 1..(i - 1) : s[j] = m

(* One sequence after another names what either does, and keeps the order if *)
(* both do.                                                                  *)
LEMMA OneAfterAnother ==
  ASSUME NEW B, NEW a \in Seq(B), NEW b \in Seq(B), NEW app
  PROVE  /\ a \o b \in Seq(B)
         /\ \A x : Has(a, x) \/ Has(b, x) => Has(a \o b, x)
         /\ Follows(app, a) /\ Follows(app, b) => Follows(app, a \o b)
<1>1. /\ a \o b \in Seq(B) /\ Len(a \o b) = Len(a) + Len(b) /\ Len(a) \in Nat /\ Len(b) \in Nat
      /\ \A i \in 1..(Len(a) + Len(b)) : (a \o b)[i] = IF i <= Len(a) THEN a[i] ELSE b[i - Len(a)]
  BY ConcatProperties, LenProperties
<1>2. PICK c : c = a \o b
  OBVIOUS
<1>3. \A i \in 1..Len(a) : i \in 1..Len(c) /\ c[i] = a[i]
  BY <1>1, <1>2
<1>4. \A i \in 1..Len(b) : Len(a) + i \in 1..Len(c) /\ c[Len(a) + i] = b[i]
  BY <1>1, <1>2
<1>5. ASSUME NEW x, Has(a, x) \/ Has(b, x) PROVE Has(c, x)
  BY <1>3, <1>4, <1>5 DEF Has
<1>6. ASSUME Follows(app, a), Follows(app, b) PROVE Follows(app, c)
  <2>1. SUFFICES ASSUME NEW i \in 1..Len(c), NEW m \in Needs(app, c[i]) PROVE \E j \in 1..(i - 1) : c[j] = m
    BY DEF Follows
  <2>2. CASE i <= Len(a)
    <3>1. i \in 1..Len(a) /\ c[i] = a[i]
      BY <1>1, <1>3, <2>2
    <3>2. PICK j \in 1..(i - 1) : a[j] = m
      BY <1>6, <2>1, <3>1 DEF Follows
    <3>3. j \in 1..Len(a)
      BY <1>1, <3>1, <3>2
    <3>4. QED
      BY <1>3, <3>2, <3>3
  <2>3. CASE ~(i <= Len(a))
    <3>1. PICK k \in 1..Len(b) : i = Len(a) + k
      <4>1. i - Len(a) \in 1..Len(b) /\ i = Len(a) + (i - Len(a))
        BY <1>1, <1>2, <2>3
      <4>2. QED
        BY <4>1
    <3>2. c[i] = b[k]
      BY <1>4, <3>1
    <3>3. PICK j \in 1..(k - 1) : b[j] = m
      BY <1>6, <2>1, <3>2 DEF Follows
    <3>4. j \in 1..Len(b) /\ Len(a) + j \in 1..(i - 1)
      BY <1>1, <3>1, <3>3
    <3>5. QED
      BY <1>4, <3>3, <3>4
  <2>4. QED
    BY <2>2, <2>3
<1>7. QED
  BY <1>1, <1>2, <1>5, <1>6

(* What is gathered is a sequence of what is gathered from. *)
LEMMA GatherIsSequence ==
  ASSUME NEW B, NEW s, Len(s) \in Nat, NEW F, \A i \in 1..Len(s) : F[s[i]] \in Seq(B)
  PROVE  Gather(s, F) \in Seq(B)
<1>1. Gathers(B, s, F, Gathered(s, F))
  BY GatheredSteps
<1>2. Len(s) \in 0..Len(s)
  OBVIOUS
<1>3. QED
  BY <1>1, <1>2 DEF Gather, Gathers

(* It names all that each of them does, and keeps the order if each does. *)
LEMMA GatherFollows ==
  ASSUME NEW B, NEW s, Len(s) \in Nat, NEW F, \A i \in 1..Len(s) : F[s[i]] \in Seq(B),
         NEW app, \A i \in 1..Len(s) : Follows(app, F[s[i]])
  PROVE  /\ Follows(app, Gather(s, F))
         /\ \A i \in 1..Len(s) : \A x : Has(F[s[i]], x) => Has(Gather(s, F), x)
<1>1. PICK n \in Nat : n = Len(s)
  OBVIOUS
<1>2. PICK g : g = Gathered(s, F)
  OBVIOUS
<1>3. /\ g \in [0..n -> Seq(B)] /\ g[0] = <<>>
      /\ \A i \in 1..n : g[i] = g[i - 1] \o F[s[i]]
  <2>1. Gathers(B, s, F, Gathered(s, F))
    BY GatheredSteps
  <2>2. QED
    BY <1>1, <1>2, <2>1 DEF Gathers
<1> DEFINE Fine(i) == Follows(app, g[i]) /\ \A k \in 1..i : \A x : Has(F[s[k]], x) => Has(g[i], x)
           S == {i \in 0..n : Fine(i)}
<1>4. 0 \in S
  BY <1>3 DEF Follows
<1>5. ASSUME NEW i \in 1..n, i - 1 \in S PROVE i \in S
  <2>0. i \in 0..n /\ i - 1 \in 0..n /\ i \in 1..Len(s)
    BY <1>1
  <2>1. g[i - 1] \in Seq(B) /\ F[s[i]] \in Seq(B) /\ Follows(app, F[s[i]])
    BY <1>3, <2>0
  <2>2. Fine(i - 1) /\ g[i] = g[i - 1] \o F[s[i]]
    BY <1>3, <1>5
  <2>3. Follows(app, g[i]) /\ \A x : Has(g[i - 1], x) \/ Has(F[s[i]], x) => Has(g[i], x)
    <3> HIDE DEF Fine
    <3>1. Follows(app, g[i - 1])
      BY <2>2 DEF Fine
    <3>2. PICK a \in Seq(B) : a = g[i - 1]
      BY <2>1
    <3>3. PICK b \in Seq(B) : b = F[s[i]]
      BY <2>1
    <3>4. /\ \A x : Has(a, x) \/ Has(b, x) => Has(a \o b, x)
          /\ Follows(app, a) /\ Follows(app, b) => Follows(app, a \o b)
      BY OneAfterAnother
    <3>5. Follows(app, b)
      BY <2>1, <3>3
    <3>6. Follows(app, a)
      BY <3>1, <3>2
    <3>7. g[i] = a \o b
      BY <2>2, <3>2, <3>3
    <3>8. QED
      BY <3>2, <3>3, <3>4, <3>5, <3>6, <3>7
  <2>4. ASSUME NEW k \in 1..i, NEW x, Has(F[s[k]], x) PROVE Has(g[i], x)
    <3>1. CASE k = i
      BY <2>3, <2>4, <3>1
    <3>2. CASE k # i
      <4>1. k \in 1..(i - 1)
        BY <2>0, <3>2
      <4>2. QED
        BY <2>2, <2>3, <2>4, <4>1
    <3>3. QED
      BY <3>1, <3>2
  <2>5. QED
    BY <2>0, <2>3, <2>4
<1> HIDE DEF S
<1>6. \A i \in 0..n : i \in S
  BY <1>4, <1>5, UpTo
<1>7. n \in S /\ g[n] = Gather(s, F)
  BY <1>1, <1>2, <1>6 DEF Gather
<1>8. Fine(n)
  BY <1>7 DEF S
<1>9. QED
  BY <1>1, <1>7, <1>8

-----------------------------------------------------------------------------
(* Once *)

\* g is s without what it repeats, up to each place
Unrepeats(N, s, g) ==
  /\ g \in [0..Len(s) -> Seq(N)] /\ g[0] = <<>>
  /\ \A i \in 1..Len(s) : g[i] = IF s[i] \in Range(g[i - 1]) THEN g[i - 1] ELSE Append(g[i - 1], s[i])

(* That is what Unrepeated gives. *)
LEMMA UnrepeatedSteps ==
  ASSUME NEW N, NEW s \in Seq(N)
  PROVE  Unrepeats(N, s, Unrepeated(s))
<1>0. PICK n \in Nat : n = Len(s)
  BY LenProperties
<1>t. PICK T : T = Seq(N)
  OBVIOUS
<1>1. PICK G : G = [x \in T \X (1..n) |-> IF s[x[2]] \in Range(x[1]) THEN x[1] ELSE Append(x[1], s[x[2]])]
  OBVIOUS
<1>2. G \in [T \X (1..n) -> T]
  <2>1. ASSUME NEW x \in T \X (1..n)
        PROVE  (IF s[x[2]] \in Range(x[1]) THEN x[1] ELSE Append(x[1], s[x[2]])) \in T
    <3>1. x[1] \in Seq(N) /\ x[2] \in 1..Len(s)
      BY <1>0, <1>t
    <3>2. s[x[2]] \in N
      BY <3>1, ElementOfSeq
    <3>3. Append(x[1], s[x[2]]) \in Seq(N)
      BY <3>1, <3>2, AppendProperties
    <3>4. QED
      BY <1>t, <3>1, <3>3
  <2>2. QED
    BY <1>1, <2>1
<1>b. PICK b \in T : b = <<>>
  BY <1>t, EmptySeq
<1>3. PICK f : f \in GoingOn(n, T, b, G)
  BY <1>2, GoesOn
<1>4. f \in [0..n -> T] /\ f[0] = b /\ \A i \in 1..n : f[i] = G[<<f[i - 1], i>>]
  BY <1>3 DEF GoingOn
<1> DEFINE Onward(g, i) == IF s[i] \in Range(g) THEN g ELSE Append(g, s[i])
<1>5. ASSUME NEW i \in 1..n PROVE i - 1 \in 0..n /\ i \in 0..n /\ i # 0 /\ f[i] = Onward(f[i - 1], i)
  <2>1. i - 1 \in 0..n /\ i \in 0..n /\ i # 0
    OBVIOUS
  <2>2. <<f[i - 1], i>> \in T \X (1..n)
    BY <1>4, <2>1
  <2>3. G[<<f[i - 1], i>>] = Onward(f[i - 1], i)
    BY <1>1, <2>2
  <2>4. QED
    BY <1>4, <2>1, <2>3
<1> DEFINE Is(h) == h = [i \in 0..n |-> IF i = 0 THEN <<>> ELSE Onward(h[i - 1], i)]
<1>7. Unrepeated(s) = CHOOSE h : Is(h)
  BY <1>0 DEF Unrepeated
<1> HIDE DEF Onward
<1>6. Is(f)
  <2>1. f = [i \in 0..n |-> f[i]]
    BY <1>4
  <2>2. ASSUME NEW i \in 0..n PROVE f[i] = IF i = 0 THEN <<>> ELSE Onward(f[i - 1], i)
    <3>1. CASE i = 0
      BY <1>b, <1>4, <3>1
    <3>2. CASE i # 0
      <4>1. i \in 1..n
        BY <3>2
      <4>2. f[i] = Onward(f[i - 1], i)
        BY <1>5, <4>1
      <4>3. QED
        BY <3>2, <4>2
    <3>3. QED
      BY <3>1, <3>2
  <2>3. QED
    BY <2>1, <2>2
<1> HIDE DEF Is
<1>8. Is(Unrepeated(s))
  BY <1>6, <1>7
<1>9. PICK g : g = Unrepeated(s)
  OBVIOUS
<1>10. g = [i \in 0..n |-> IF i = 0 THEN <<>> ELSE Onward(g[i - 1], i)]
  BY <1>8, <1>9 DEF Is
<1>11. g[0] = <<>> /\ \A i \in 1..n : g[i] = Onward(g[i - 1], i)
  <2>1. 0 \in 0..n
    OBVIOUS
  <2>2. g[0] = <<>>
    BY <1>10, <2>1
  <2>3. ASSUME NEW i \in 1..n PROVE g[i] = Onward(g[i - 1], i)
    BY <1>5, <1>10
  <2>4. QED
    BY <2>2, <2>3
<1> DEFINE S == {i \in 0..n : g[i] = f[i]}
<1>12. 0 \in S
  BY <1>b, <1>4, <1>11
<1>13. ASSUME NEW i \in 1..n, i - 1 \in S PROVE i \in S
  <2>1. g[i] = Onward(g[i - 1], i) /\ g[i - 1] = f[i - 1]
    BY <1>11, <1>13
  <2>2. f[i] = Onward(f[i - 1], i) /\ i \in 0..n
    BY <1>5
  <2>3. QED
    BY <2>1, <2>2
<1> HIDE DEF S
<1>14. \A i \in 0..n : i \in S
  BY <1>12, <1>13, UpTo
<1>15. \A i \in 0..n : g[i] = f[i]
  BY <1>14 DEF S
<1>16. g = f
  <2>1. g = [i \in 0..n |-> g[i]]
    BY <1>10
  <2>2. f = [i \in 0..n |-> f[i]]
    BY <1>4
  <2>3. QED
    BY <1>15, <2>1, <2>2
<1>17. QED
  BY <1>0, <1>t, <1>4, <1>9, <1>11, <1>16 DEF Unrepeats, Onward

(* Once is a sequence of the same. *)
LEMMA OnceIsSequence ==
  ASSUME NEW N, NEW s \in Seq(N)
  PROVE  Once(s) \in Seq(N)
<1>1. Unrepeats(N, s, Unrepeated(s))
  BY UnrepeatedSteps
<1>2. Len(s) \in 0..Len(s)
  BY LenProperties
<1>3. QED
  BY <1>1, <1>2 DEF Once, Unrepeats

\* s names nothing twice
Alone(s) == \A i, j \in 1..Len(s) : s[i] = s[j] => i = j

(* It names the same, each of them once, and keeps the order s is in. *)
LEMMA OnceFollows ==
  ASSUME NEW N, NEW s \in Seq(N), NEW app, Follows(app, s)
  PROVE  /\ Follows(app, Once(s)) /\ Alone(Once(s))
         /\ \A x : Has(s, x) => Has(Once(s), x)
<1>1. PICK n \in Nat : n = Len(s)
  BY LenProperties
<1>2. PICK g : g = Unrepeated(s)
  OBVIOUS
<1>3. /\ g \in [0..n -> Seq(N)] /\ g[0] = <<>>
      /\ \A i \in 1..n : g[i] = IF s[i] \in Range(g[i - 1]) THEN g[i - 1] ELSE Append(g[i - 1], s[i])
  <2>1. Unrepeats(N, s, Unrepeated(s))
    BY UnrepeatedSteps
  <2>2. QED
    BY <1>1, <1>2, <2>1 DEF Unrepeats
<1> DEFINE Fine(i) == /\ Follows(app, g[i]) /\ Alone(g[i])
                      /\ \A k \in 1..i : Has(g[i], s[k])
           S == {i \in 0..n : Fine(i)}
<1>4. 0 \in S
  BY <1>3 DEF Follows, Alone
<1>5. ASSUME NEW i \in 1..n, i - 1 \in S PROVE i \in S
  <2>0. i \in 0..n /\ i - 1 \in 0..n /\ i \in 1..Len(s) /\ s[i] \in N
    BY <1>1, ElementOfSeq
  <2>1. PICK a \in Seq(N) : a = g[i - 1]
    BY <1>3, <2>0
  <2>2. /\ Follows(app, a) /\ Alone(a) /\ \A k \in 1..(i - 1) : Has(a, s[k])
        /\ g[i] = IF s[i] \in Range(a) THEN a ELSE Append(a, s[i])
    BY <1>3, <1>5, <2>1
  <2>3. Len(a) \in Nat /\ DOMAIN a = 1..Len(a)
    BY LenProperties
  <2>4. CASE s[i] \in Range(a)
    <3>1. Has(a, s[i])
      BY <2>3, <2>4 DEF Range, Has
    <3>2. \A k \in 1..i : Has(a, s[k])
      BY <2>0, <2>2, <3>1
    <3>3. g[i] = a
      BY <2>2, <2>4
    <3>4. QED
      BY <2>0, <2>2, <3>2, <3>3
  <2>5. CASE s[i] \notin Range(a)
    <3>1. PICK b : b = Append(a, s[i])
      OBVIOUS
    <3>2. /\ Len(b) = Len(a) + 1
          /\ \A j \in 1..Len(a) : b[j] = a[j]
          /\ b[Len(a) + 1] = s[i]
      BY <2>0, <2>3, <3>1, AppendProperties
    <3>3. \A j \in 1..Len(a) : a[j] # s[i]
      BY <2>3, <2>5 DEF Range
    <3>4. Alone(b)
      <4>1. SUFFICES ASSUME NEW j \in 1..Len(b), NEW k \in 1..Len(b), b[j] = b[k] PROVE j = k
        BY DEF Alone
      <4>2. j \in 1..Len(a) \/ j = Len(a) + 1
        BY <2>3, <3>2
      <4>3. k \in 1..Len(a) \/ k = Len(a) + 1
        BY <2>3, <3>2
      <4>4. QED
        BY <2>2, <3>2, <3>3, <4>1, <4>2, <4>3 DEF Alone
    <3>5. \A k \in 1..i : Has(b, s[k])
      <4>1. \A x : Has(a, x) => Has(b, x)
        BY <2>3, <3>2 DEF Has
      <4>2. Has(b, s[i])
        <5>1. Len(a) + 1 \in 1..Len(b)
          BY <2>3, <3>2
        <5>2. QED
          BY <3>2, <5>1 DEF Has
      <4>3. QED
        BY <2>0, <2>2, <4>1, <4>2
    <3>6. Follows(app, b)
      <4>1. SUFFICES ASSUME NEW j \in 1..Len(b), NEW m \in Needs(app, b[j]) PROVE \E k \in 1..(j - 1) : b[k] = m
        BY DEF Follows
      <4>2. CASE j \in 1..Len(a)
        <5>1. PICK k \in 1..(j - 1) : a[k] = m
          BY <2>2, <3>2, <4>1, <4>2 DEF Follows
        <5>2. k \in 1..Len(a)
          BY <2>3, <4>2
        <5>3. QED
          BY <3>2, <5>1, <5>2
      <4>3. CASE j = Len(a) + 1
        <5>1. PICK k \in 1..(i - 1) : s[k] = m
          BY <2>0, <3>2, <4>1, <4>3 DEF Follows
        <5>2. Has(a, m)
          BY <2>2, <5>1
        <5>3. PICK l \in 1..Len(a) : a[l] = m
          BY <5>2 DEF Has
        <5>4. QED
          BY <2>3, <3>2, <4>3, <5>3
      <4>4. QED
        BY <2>3, <3>2, <4>2, <4>3
    <3>7. g[i] = b
      BY <2>2, <2>5, <3>1
    <3>8. QED
      BY <2>0, <3>4, <3>5, <3>6, <3>7
  <2>6. QED
    BY <2>4, <2>5
<1> HIDE DEF S
<1>6. \A i \in 0..n : i \in S
  BY <1>4, <1>5, UpTo
<1>7. n \in S /\ g[n] = Once(s)
  BY <1>1, <1>2, <1>6 DEF Once
<1>8. Fine(n)
  BY <1>7 DEF S
<1>9. ASSUME NEW x, Has(s, x) PROVE Has(Once(s), x)
  BY <1>1, <1>7, <1>8, <1>9 DEF Has
<1>10. QED
  BY <1>7, <1>8, <1>9

-----------------------------------------------------------------------------
(* Ascending *)

\* the elements of U, smallest first
Sorted(U) ==
  {s \in [1..Cardinality(U) -> U] : Range(s) = U /\ \A i, j \in DOMAIN s : i < j => s[i] < s[j]}

(* Finitely many numbers can be sorted. *)
LEMMA SortedExists ==
  ASSUME NEW W \in SUBSET Nat, IsFiniteSet(W)
  PROVE  Sorted(W) # {}
<1>1. PICK n \in Nat : n = Cardinality(W)
  BY FS_CardinalityType
<1> DEFINE S == {k \in 0..n : \A U \in SUBSET W : Cardinality(U) = k => Sorted(U) # {}}
<1>2. 0 \in S
  <2>1. ASSUME NEW U \in SUBSET W, Cardinality(U) = 0 PROVE Sorted(U) # {}
    <3>1. IsFiniteSet(U)
      BY FS_Subset
    <3>2. U = {}
      BY <2>1, <3>1, FS_EmptySet
    <3>3. PICK s : s = [i \in 1..0 |-> 0]
      OBVIOUS
    <3>4. s \in [1..Cardinality(U) -> U] /\ Range(s) = U /\ DOMAIN s = {}
      BY <2>1, <3>2, <3>3 DEF Range
    <3>5. QED
      BY <3>4 DEF Sorted
  <2>2. QED
    BY <2>1
<1>3. ASSUME NEW k \in 1..n, k - 1 \in S PROVE k \in S
  <2>1. ASSUME NEW U \in SUBSET W, Cardinality(U) = k PROVE Sorted(U) # {}
    <3>1. IsFiniteSet(U) /\ U \in SUBSET Nat
      BY FS_Subset
    <3>2. U # {}
      BY <2>1, FS_EmptySet
    <3>3. PICK u \in U : \A v \in U : u <= v
      BY <3>1, <3>2, First
    <3>4. PICK V : V = U \ {u}
      OBVIOUS
    <3>5. Cardinality(V) = k - 1 /\ V \in SUBSET W
      <4>1. Cardinality(U \ {u}) = Cardinality(U) - 1
        BY <3>1, FS_RemoveElement
      <4>2. QED
        BY <2>1, <3>4, <4>1
    <3>6. PICK s : s \in Sorted(V)
      BY <1>3, <3>5
    <3>7. /\ s \in [1..(k - 1) -> V] /\ Range(s) = V
          /\ \A i, j \in 1..(k - 1) : i < j => s[i] < s[j]
      BY <3>5, <3>6 DEF Sorted
    <3>8. PICK t : t = [i \in 1..k |-> IF i = 1 THEN u ELSE s[i - 1]]
      OBVIOUS
    <3>9. t[1] = u /\ \A i \in 2..k : i - 1 \in 1..(k - 1) /\ t[i] = s[i - 1]
      BY <3>8
    <3>10. t \in [1..k -> U]
      <4>1. \A i \in 1..k : t[i] \in U
        <5>1. ASSUME NEW i \in 1..k PROVE t[i] \in U
          <6>1. CASE i = 1
            BY <3>9, <6>1
          <6>2. CASE i # 1
            <7>1. i \in 2..k
              BY <6>2
            <7>2. QED
              BY <3>4, <3>7, <3>9, <7>1
          <6>3. QED
            BY <6>1, <6>2
        <5>2. QED
          BY <5>1
      <4>2. QED
        BY <3>8, <4>1
    <3>11. Range(t) = U
      <4>1. ASSUME NEW v \in U PROVE \E i \in 1..k : t[i] = v
        <5>1. CASE v = u
          BY <3>9, <5>1
        <5>2. CASE v # u
          <6>1. PICK i \in 1..(k - 1) : s[i] = v
            BY <3>4, <3>7, <5>2 DEF Range
          <6>2. i + 1 \in 2..k /\ t[i + 1] = s[i]
            BY <3>9, <6>1
          <6>3. QED
            BY <6>1, <6>2
        <5>3. QED
          BY <5>1, <5>2
      <4>2. QED
        BY <3>10, <4>1 DEF Range
    <3>12. ASSUME NEW i \in 1..k, NEW j \in 1..k, i < j PROVE t[i] < t[j]
      <4>1. j \in 2..k
        BY <3>12
      <4>2. j - 1 \in 1..(k - 1) /\ t[j] = s[j - 1] /\ s[j - 1] \in V
        BY <3>7, <3>9, <4>1
      <4>3. CASE i = 1
        <5>1. t[j] \in U /\ t[j] # u
          BY <3>4, <4>2
        <5>2. u \in Nat /\ t[j] \in Nat /\ u <= t[j]
          BY <3>1, <3>3, <5>1
        <5>3. u < t[j]
          BY <5>1, <5>2
        <5>4. t[i] = u
          BY <3>9, <4>3
        <5>5. QED
          BY <5>3, <5>4
      <4>4. CASE i # 1
        <5>1. i \in 2..k
          BY <4>4
        <5>2. i - 1 \in 1..(k - 1) /\ t[i] = s[i - 1] /\ i - 1 < j - 1
          BY <3>9, <3>12, <5>1
        <5>3. s[i - 1] < s[j - 1]
          BY <3>7, <4>2, <5>2
        <5>4. QED
          BY <4>2, <5>2, <5>3
      <4>5. QED
        BY <4>3, <4>4
    <3>13. t \in Sorted(U)
      BY <2>1, <3>10, <3>11, <3>12 DEF Sorted
    <3>14. QED
      BY <3>13
  <2>2. k \in 0..n
    OBVIOUS
  <2>3. QED
    BY <2>1, <2>2
<1> HIDE DEF S
<1>4. \A k \in 0..n : k \in S
  BY <1>2, <1>3, UpTo
<1>5. n \in S
  BY <1>4
<1>6. QED
  BY <1>1, <1>5 DEF S

(* Sorted, they are a sequence that names them all. *)
LEMMA AscendingNames ==
  ASSUME NEW W \in SUBSET Nat, IsFiniteSet(W)
  PROVE  Ascending(W) \in Seq(W) /\ \A x \in W : Has(Ascending(W), x)
<1>1. PICK s : s \in Sorted(W)
  BY SortedExists
<1>2. Ascending(W) \in Sorted(W)
  BY <1>1 DEF Ascending, Sorted
<1>3. Cardinality(W) \in Nat
  BY FS_CardinalityType
<1>4. PICK t : t = Ascending(W)
  OBVIOUS
<1>5. t \in [1..Cardinality(W) -> W] /\ Range(t) = W
  BY <1>2, <1>4 DEF Sorted
<1>6. t \in Seq(W) /\ Len(t) = Cardinality(W)
  BY <1>3, <1>5, SeqDef, LenProperties
<1>7. \A x \in W : Has(t, x)
  BY <1>5, <1>6 DEF Has, Range
<1>8. QED
  BY <1>4, <1>6, <1>7

-----------------------------------------------------------------------------
(* The walk *)

\* plugins are numbered, finitely many
Numbered(app) == Names(app) \in SUBSET Nat /\ IsFiniteSet(Names(app))

\* what one plugin puts in place, walked into from `open` as w goes on
WalkStep(app, w, n, open) ==
  IF n \in open THEN <<>> ELSE Append(Gather(Ascending(Needs(app, n)), w[open \cup {n}]), n)

(* It is a sequence of plugins, given that those walked into next are. *)
LEMMA WalkStepIsSequence ==
  ASSUME NEW app, Numbered(app), NEW n \in Names(app), NEW open \in SUBSET Names(app), NEW w,
         n \notin open => \A m \in Names(app) : w[open \cup {n}][m] \in Seq(Names(app))
  PROVE  WalkStep(app, w, n, open) \in Seq(Names(app))
<1>1. PICK N : N = Names(app)
  OBVIOUS
<1>2. CASE n \in open
  BY <1>2, EmptySeq DEF WalkStep
<1>3. CASE n \notin open
  <2>1. PICK W : W = Needs(app, n)
    OBVIOUS
  <2>2. W \in SUBSET N /\ W \in SUBSET Nat /\ IsFiniteSet(W)
    BY <1>1, <2>1, FS_Subset DEF Numbered, Needs
  <2>3. PICK s : s = Ascending(W)
    OBVIOUS
  <2>4. s \in Seq(W)
    BY <2>2, <2>3, AscendingNames
  <2>5. PICK F : F = w[open \cup {n}]
    OBVIOUS
  <2>6. Len(s) \in Nat /\ \A i \in 1..Len(s) : F[s[i]] \in Seq(N)
    <3>1. Len(s) \in Nat
      BY <2>4, LenProperties
    <3>2. ASSUME NEW i \in 1..Len(s) PROVE F[s[i]] \in Seq(N)
      <4>1. s[i] \in W
        BY <2>4, ElementOfSeq
      <4>2. QED
        BY <1>1, <1>3, <2>2, <2>5, <4>1
    <3>3. QED
      BY <3>1, <3>2
  <2>7. Gather(s, F) \in Seq(N)
    BY <2>6, GatherIsSequence
  <2>8. Append(Gather(s, F), n) \in Seq(N)
    BY <1>1, <2>7, AppendProperties
  <2>9. QED
    BY <1>1, <1>3, <2>1, <2>3, <2>5, <2>8 DEF WalkStep
<1>4. QED
  BY <1>2, <1>3

(* It depends on w only where it is walked into next. *)
LEMMA WalkStepAlike ==
  ASSUME NEW app, NEW n, NEW open, NEW w, NEW v, n \notin open => w[open \cup {n}] = v[open \cup {n}]
  PROVE  WalkStep(app, w, n, open) = WalkStep(app, v, n, open)
BY DEF WalkStep

\* how many plugins are left to walk into
LeftOf(app, open) == Cardinality(Names(app) \ open)

(* Each plugin walked into leaves one less. *)
LEMMA OneLess ==
  ASSUME NEW app, Numbered(app), NEW n \in Names(app), NEW open \in SUBSET Names(app)
  PROVE  /\ LeftOf(app, open) \in 0..Cardinality(Names(app)) /\ Cardinality(Names(app)) \in Nat
         /\ open \cup {n} \in SUBSET Names(app)
         /\ n \notin open => LeftOf(app, open) # 0 /\ LeftOf(app, open \cup {n}) = LeftOf(app, open) - 1
<1>1. PICK N : N = Names(app) /\ IsFiniteSet(N)
  BY DEF Numbered
<1>2. PICK L : L = N \ open
  OBVIOUS
<1>3. L \in SUBSET N
  BY <1>2
<1>4. IsFiniteSet(L) /\ Cardinality(L) <= Cardinality(N)
  BY <1>1, <1>3, FS_Subset
<1>5. Cardinality(L) \in Nat /\ Cardinality(N) \in Nat
  BY <1>1, <1>4, FS_CardinalityType
<1>6. LeftOf(app, open) = Cardinality(L)
  BY <1>1, <1>2 DEF LeftOf
<1>7. ASSUME n \notin open
      PROVE  LeftOf(app, open) # 0 /\ LeftOf(app, open \cup {n}) = LeftOf(app, open) - 1
  <2>1. n \in L /\ N \ (open \cup {n}) = L \ {n}
    BY <1>1, <1>2, <1>7
  <2>2. Cardinality(L \ {n}) = Cardinality(L) - 1
    BY <1>4, <2>1, FS_RemoveElement
  <2>3. Cardinality(L) # 0
    BY <1>4, <2>1, FS_EmptySet
  <2>4. LeftOf(app, open \cup {n}) = Cardinality(L \ {n})
    BY <1>1, <2>1 DEF LeftOf
  <2>5. QED
    BY <1>6, <2>2, <2>3, <2>4
<1>8. QED
  BY <1>1, <1>4, <1>5, <1>6, <1>7

\* w is walked as the code does where at most k plugins are left
WalksFrom(app, w, k) ==
  \A open \in SUBSET Names(app) : \A n \in Names(app) :
    LeftOf(app, open) <= k => w[open][n] = WalkStep(app, w, n, open)

\* all that walks may be
Ways(app) == [SUBSET Names(app) -> [Names(app) -> Seq(Names(app))]]

(* There is such a walk, however many are left. *)
LEMMA WalkExists ==
  ASSUME NEW app, Numbered(app), NEW k \in 0..Cardinality(Names(app))
  PROVE  \E w \in Ways(app) : WalksFrom(app, w, k)
<1> DEFINE Upto == Cardinality(Names(app))
           S == {i \in 0..Upto : \E w \in Ways(app) : WalksFrom(app, w, i)}
<1>0. Upto \in Nat
  BY FS_CardinalityType DEF Numbered
<1>1. 0 \in S
  <2>1. PICK w : w = [open \in SUBSET Names(app) |-> [n \in Names(app) |-> <<>>]]
    OBVIOUS
  <2>2. <<>> \in Seq(Names(app))
    BY EmptySeq
  <2>3. w \in Ways(app)
    BY <2>1, <2>2 DEF Ways
  <2>4. ASSUME NEW open \in SUBSET Names(app), NEW n \in Names(app), LeftOf(app, open) <= 0
        PROVE  w[open][n] = WalkStep(app, w, n, open)
    <3>1. n \in open
      <4>1. LeftOf(app, open) \in 0..Upto /\ (n \notin open => LeftOf(app, open) # 0)
        BY OneLess
      <4>2. QED
        BY <1>0, <2>4, <4>1
    <3>2. w[open][n] = <<>>
      BY <2>1
    <3>3. QED
      BY <3>1, <3>2 DEF WalkStep
  <2>5. WalksFrom(app, w, 0)
    BY <2>4 DEF WalksFrom
  <2>6. QED
    BY <1>0, <2>3, <2>5
<1>2. ASSUME NEW i \in 1..Upto, i - 1 \in S PROVE i \in S
  <2>1. PICK w \in Ways(app) : WalksFrom(app, w, i - 1)
    BY <1>2
  <2>2. PICK v : v = [open \in SUBSET Names(app) |-> [n \in Names(app) |-> WalkStep(app, w, n, open)]]
    OBVIOUS
  <2>3. \A open \in SUBSET Names(app) : \A n \in Names(app) : v[open][n] = WalkStep(app, w, n, open)
    BY <2>2
  <2>4. ASSUME NEW open \in SUBSET Names(app), NEW n \in Names(app)
        PROVE  WalkStep(app, w, n, open) \in Seq(Names(app))
    <3>1. open \cup {n} \in SUBSET Names(app)
      OBVIOUS
    <3>2. \A m \in Names(app) : w[open \cup {n}][m] \in Seq(Names(app))
      BY <3>1 DEF Ways
    <3>3. QED
      BY <3>2, WalkStepIsSequence
  <2>5. v \in Ways(app)
    BY <2>2, <2>4 DEF Ways
  <2>6. ASSUME NEW open \in SUBSET Names(app), LeftOf(app, open) <= i - 1
        PROVE  v[open] = w[open]
    <3>1. \A n \in Names(app) : v[open][n] = w[open][n]
      BY <2>1, <2>3, <2>6 DEF WalksFrom
    <3>2. v[open] \in [Names(app) -> Seq(Names(app))] /\ w[open] \in [Names(app) -> Seq(Names(app))]
      BY <2>1, <2>5 DEF Ways
    <3>3. QED
      BY <3>1, <3>2
  <2>7. ASSUME NEW open \in SUBSET Names(app), NEW n \in Names(app), LeftOf(app, open) <= i
        PROVE  v[open][n] = WalkStep(app, v, n, open)
    <3>1. ASSUME n \notin open PROVE w[open \cup {n}] = v[open \cup {n}]
      <4>1. /\ LeftOf(app, open) \in 0..Upto /\ open \cup {n} \in SUBSET Names(app)
            /\ LeftOf(app, open \cup {n}) = LeftOf(app, open) - 1
        BY <3>1, OneLess
      <4>2. LeftOf(app, open \cup {n}) <= i - 1
        BY <1>0, <2>7, <4>1
      <4>3. QED
        BY <2>6, <4>1, <4>2
    <3>2. WalkStep(app, w, n, open) = WalkStep(app, v, n, open)
      BY <3>1, WalkStepAlike
    <3>3. QED
      BY <2>3, <3>2
  <2>8. WalksFrom(app, v, i)
    BY <2>7 DEF WalksFrom
  <2>9. i \in 0..Upto
    BY <1>0
  <2>10. QED
    BY <2>5, <2>8, <2>9
<1> HIDE DEF S
<1>3. \A i \in 0..Upto : i \in S
  BY <1>0, <1>1, <1>2, UpTo
<1>4. QED
  BY <1>3 DEF S

(* The walk goes as the code does. *)
LEMMA WalkGoes ==
  ASSUME NEW app, Numbered(app), NEW open \in SUBSET Names(app), NEW n \in Names(app)
  PROVE  Walk(app)[open][n] = WalkStep(app, Walk(app), n, open)
<1> DEFINE Is(h) ==
      h = [o \in SUBSET Names(app) |->
             [x \in Names(app) |->
                IF x \in o THEN <<>> ELSE Append(Gather(Ascending(Needs(app, x)), h[o \cup {x}]), x)]]
<1>1. Cardinality(Names(app)) \in Nat
  BY FS_CardinalityType DEF Numbered
<1>2. PICK w \in Ways(app) : WalksFrom(app, w, Cardinality(Names(app)))
  BY <1>1, WalkExists
<1>3. \A o \in SUBSET Names(app) : \A x \in Names(app) : w[o][x] = WalkStep(app, w, x, o)
  <2>1. ASSUME NEW o \in SUBSET Names(app), NEW x \in Names(app) PROVE LeftOf(app, o) <= Cardinality(Names(app))
    <3>1. LeftOf(app, o) \in 0..Cardinality(Names(app))
      BY OneLess
    <3>2. QED
      BY <1>1, <3>1
  <2>2. QED
    BY <1>2, <2>1 DEF WalksFrom
<1>4. Is(w)
  <2>1. w = [o \in SUBSET Names(app) |-> [x \in Names(app) |-> WalkStep(app, w, x, o)]]
    <3>1. w = [o \in SUBSET Names(app) |-> w[o]]
      BY <1>2 DEF Ways
    <3>2. ASSUME NEW o \in SUBSET Names(app) PROVE w[o] = [x \in Names(app) |-> WalkStep(app, w, x, o)]
      <4>1. w[o] = [x \in Names(app) |-> w[o][x]]
        BY <1>2 DEF Ways
      <4>2. QED
        BY <1>3, <4>1
    <3>3. QED
      BY <3>1, <3>2
  <2>2. QED
    BY <2>1 DEF WalkStep
<1>5. Walk(app) = CHOOSE h : Is(h)
  BY DEF Walk
<1> HIDE DEF Is
<1>6. Is(Walk(app))
  BY <1>4, <1>5
<1>7. PICK h : h = Walk(app)
  OBVIOUS
<1>8. h = [o \in SUBSET Names(app) |-> [x \in Names(app) |-> WalkStep(app, h, x, o)]]
  BY <1>6, <1>7 DEF Is, WalkStep
<1>9. h[open] = [x \in Names(app) |-> WalkStep(app, h, x, open)]
  BY <1>8
<1>10. h[open][n] = WalkStep(app, h, n, open)
  BY <1>9
<1>11. QED
  BY <1>7, <1>10

(* From wherever it goes, it puts a sequence of plugins in place. *)
LEMMA WalkIsSequence ==
  ASSUME NEW app, Numbered(app), NEW open \in SUBSET Names(app), NEW n \in Names(app)
  PROVE  Walk(app)[open][n] \in Seq(Names(app))
<1> DEFINE Upto == Cardinality(Names(app))
           S == {i \in 0..Upto : \A o \in SUBSET Names(app) : \A x \in Names(app) :
                                   LeftOf(app, o) <= i => Walk(app)[o][x] \in Seq(Names(app))}
<1>0. Upto \in Nat
  BY FS_CardinalityType DEF Numbered
<1>1. 0 \in S
  <2>1. ASSUME NEW o \in SUBSET Names(app), NEW x \in Names(app), LeftOf(app, o) <= 0
        PROVE  Walk(app)[o][x] \in Seq(Names(app))
    <3>1. x \in o
      <4>1. LeftOf(app, o) \in 0..Upto /\ (x \notin o => LeftOf(app, o) # 0)
        BY OneLess
      <4>2. QED
        BY <1>0, <2>1, <4>1
    <3>2. Walk(app)[o][x] = WalkStep(app, Walk(app), x, o)
      BY WalkGoes
    <3>3. QED
      BY <3>1, <3>2, WalkStepIsSequence
  <2>2. QED
    BY <1>0, <2>1
<1>2. ASSUME NEW i \in 1..Upto, i - 1 \in S PROVE i \in S
  <2>1. ASSUME NEW o \in SUBSET Names(app), NEW x \in Names(app), LeftOf(app, o) <= i
        PROVE  Walk(app)[o][x] \in Seq(Names(app))
    <3>1. ASSUME x \notin o PROVE \A m \in Names(app) : Walk(app)[o \cup {x}][m] \in Seq(Names(app))
      <4>1. /\ LeftOf(app, o) \in 0..Upto /\ o \cup {x} \in SUBSET Names(app)
            /\ LeftOf(app, o \cup {x}) = LeftOf(app, o) - 1
        BY <3>1, OneLess
      <4>2. LeftOf(app, o \cup {x}) <= i - 1
        BY <1>0, <2>1, <4>1
      <4>3. QED
        BY <1>2, <4>1, <4>2
    <3>2. Walk(app)[o][x] = WalkStep(app, Walk(app), x, o)
      BY WalkGoes
    <3>3. QED
      BY <3>1, <3>2, WalkStepIsSequence
  <2>2. i \in 0..Upto
    BY <1>0
  <2>3. QED
    BY <2>1, <2>2
<1> HIDE DEF S
<1>3. \A i \in 0..Upto : i \in S
  BY <1>0, <1>1, <1>2, UpTo
<1>4. LeftOf(app, open) \in 0..Upto
  BY OneLess
<1>5. LeftOf(app, open) \in S
  BY <1>3, <1>4
<1>6. LeftOf(app, open) <= LeftOf(app, open)
  BY <1>4
<1>7. QED
  BY <1>5, <1>6 DEF S

-----------------------------------------------------------------------------
(* Below *)

\* nothing in C depends on a plugin outside it
Closed(app, C) == C \in SUBSET Names(app) /\ \A y \in C : Needs(app, y) \subseteq C

\* what n depends on, and what that depends on in turn
Below(app, n) == {x \in Names(app) : \A C : Closed(app, C) /\ Needs(app, n) \subseteq C => x \in C}

(* It is closed, it holds what n depends on, and nothing smaller does. *)
LEMMA BelowIsLeast ==
  ASSUME NEW app, NEW n
  PROVE  /\ Closed(app, Below(app, n)) /\ Needs(app, n) \subseteq Below(app, n)
         /\ \A C : Closed(app, C) /\ Needs(app, n) \subseteq C => Below(app, n) \subseteq C
<1>1. Needs(app, n) \subseteq Below(app, n)
  BY DEF Below, Needs
<1>2. ASSUME NEW y \in Below(app, n), NEW x \in Needs(app, y) PROVE x \in Below(app, n)
  <2>1. x \in Names(app)
    BY DEF Needs
  <2>2. ASSUME NEW C, Closed(app, C), Needs(app, n) \subseteq C PROVE x \in C
    <3>1. y \in C
      BY <2>2 DEF Below
    <3>2. QED
      BY <2>2, <3>1 DEF Closed
  <2>3. QED
    BY <2>1, <2>2 DEF Below
<1>3. Below(app, n) \in SUBSET Names(app)
  BY DEF Below
<1>4. Closed(app, Below(app, n))
  BY <1>2, <1>3 DEF Closed
<1>5. \A C : Closed(app, C) /\ Needs(app, n) \subseteq C => Below(app, n) \subseteq C
  BY DEF Below
<1>6. QED
  BY <1>1, <1>4, <1>5

(* What is below what is below n is below n. *)
LEMMA BelowBelow ==
  ASSUME NEW app, NEW n, NEW m \in Below(app, n)
  PROVE  Below(app, m) \subseteq Below(app, n)
<1>1. Closed(app, Below(app, n))
  BY BelowIsLeast
<1>2. Needs(app, m) \subseteq Below(app, n)
  BY <1>1 DEF Closed
<1>3. QED
  BY <1>1, <1>2, BelowIsLeast

(* Where no loop is, no plugin is below itself. *)
LEMMA NotBelowItself ==
  ASSUME NEW app, NoCycle(app), NEW n \in Names(app)
  PROVE  n \notin Below(app, n)
<1> DEFINE S == {x \in Names(app) : x \in Below(app, x)}
<1>1. SUFFICES ASSUME S # {} PROVE FALSE
  OBVIOUS
<1>2. PICK x \in S : Needs(app, x) \cap S = {}
  BY <1>1 DEF NoCycle
<1>3. x \in Names(app) /\ x \in Below(app, x)
  BY <1>2
<1>4. ASSUME NEW m \in Needs(app, x) PROVE m \in Below(app, x) /\ m \in Names(app) /\ m \notin Below(app, m)
  <2>1. m \in Below(app, x)
    BY BelowIsLeast
  <2>2. m \in Names(app)
    BY DEF Needs
  <2>3. QED
    BY <1>2, <2>1, <2>2
<1> DEFINE C == {y \in Names(app) : \E m \in Needs(app, x) : y = m \/ y \in Below(app, m)}
<1>5. Needs(app, x) \subseteq C
  BY <1>4
<1>6. Closed(app, C)
  <2>1. ASSUME NEW y \in C, NEW z \in Needs(app, y) PROVE z \in C
    <3>1. z \in Names(app)
      BY DEF Needs
    <3>2. PICK m \in Needs(app, x) : y = m \/ y \in Below(app, m)
      OBVIOUS
    <3>3. z \in Below(app, m)
      <4>1. CASE y = m
        BY <4>1, BelowIsLeast
      <4>2. CASE y \in Below(app, m)
        <5>1. Closed(app, Below(app, m))
          BY BelowIsLeast
        <5>2. QED
          BY <4>2, <5>1 DEF Closed
      <4>3. QED
        BY <3>2, <4>1, <4>2
    <3>4. QED
      BY <3>1, <3>3
  <2>2. QED
    BY <2>1 DEF Closed
<1>7. x \in C
  <2> HIDE DEF C
  <2>1. Below(app, x) \subseteq C
    BY <1>5, <1>6, BelowIsLeast
  <2>2. QED
    BY <1>3, <2>1
<1>8. PICK m \in Needs(app, x) : x = m \/ x \in Below(app, m)
  BY <1>7
<1>9. CASE x = m
  BY <1>3, <1>4, <1>9
<1>10. CASE x \in Below(app, m)
  <2>1. Below(app, x) \subseteq Below(app, m)
    BY <1>10, BelowBelow
  <2>2. m \in Below(app, m)
    BY <1>4, <2>1
  <2>3. QED
    BY <1>4, <2>2
<1>11. QED
  BY <1>8, <1>9, <1>10

-----------------------------------------------------------------------------
(* The order *)

\* nothing is walked into again: neither n nor what is below it
Apart(app, n, open) == n \notin open /\ Below(app, n) \cap open = {}

\* n is put in place, after all it depends on
WellPlaced(app, n, open) ==
  LET s == Walk(app)[open][n] IN s \in Seq(Names(app)) /\ Follows(app, s) /\ Has(s, n)

(* A plugin walked into apart from those open is put in place after what it *)
(* depends on.                                                              *)
LEMMA WalkFollows ==
  ASSUME NEW app, Numbered(app), NoCycle(app),
         NEW n \in Names(app), NEW open \in SUBSET Names(app), Apart(app, n, open)
  PROVE  WellPlaced(app, n, open)
<1> DEFINE S == {x \in Names(app) : \E o \in SUBSET Names(app) : Apart(app, x, o) /\ ~WellPlaced(app, x, o)}
<1>1. SUFFICES ASSUME S # {} PROVE FALSE
  OBVIOUS
<1>2. PICK x \in S : Needs(app, x) \cap S = {}
  <2>1. S \in SUBSET Names(app)
    OBVIOUS
  <2> HIDE DEF S
  <2>2. QED
    BY <1>1, <2>1 DEF NoCycle
<1>3. PICK o \in SUBSET Names(app) : Apart(app, x, o) /\ ~WellPlaced(app, x, o)
  OBVIOUS
<1>4. x \in Names(app) /\ x \notin o /\ o \cup {x} \in SUBSET Names(app)
  BY <1>3 DEF Apart
<1>5. ASSUME NEW m \in Needs(app, x) PROVE WellPlaced(app, m, o \cup {x})
  <2>1. m \in Names(app) /\ m \notin S
    BY <1>2 DEF Needs
  <2>2. m \in Below(app, x)
    BY BelowIsLeast
  <2>3. Below(app, m) \subseteq Below(app, x)
    BY <2>2, BelowBelow
  <2>4. x \notin Below(app, x)
    BY <1>4, NotBelowItself
  <2>5. Apart(app, m, o \cup {x})
    BY <1>3, <2>2, <2>3, <2>4 DEF Apart
  <2>6. QED
    BY <1>4, <2>1, <2>5
<1> HIDE DEF S
<1>6. PICK W : W = Needs(app, x)
  OBVIOUS
<1>7. W \in SUBSET Names(app) /\ W \in SUBSET Nat /\ IsFiniteSet(W)
  BY <1>6, FS_Subset DEF Numbered, Needs
<1>8. PICK s : s = Ascending(W)
  OBVIOUS
<1>9. s \in Seq(W) /\ \A m \in W : Has(s, m)
  BY <1>7, <1>8, AscendingNames
<1>10. PICK F : F = Walk(app)[o \cup {x}]
  OBVIOUS
<1>11. /\ Len(s) \in Nat
       /\ \A i \in 1..Len(s) : F[s[i]] \in Seq(Names(app)) /\ Follows(app, F[s[i]]) /\ Has(F[s[i]], s[i])
  <2>1. Len(s) \in Nat
    BY <1>9, LenProperties
  <2>2. ASSUME NEW i \in 1..Len(s)
        PROVE  F[s[i]] \in Seq(Names(app)) /\ Follows(app, F[s[i]]) /\ Has(F[s[i]], s[i])
    <3>1. s[i] \in Needs(app, x)
      BY <1>6, <1>9, ElementOfSeq
    <3>2. WellPlaced(app, s[i], o \cup {x})
      BY <1>5, <3>1
    <3>3. QED
      BY <1>10, <3>2 DEF WellPlaced
  <2>3. QED
    BY <2>1, <2>2
<1>12. PICK g : g = Gather(s, F)
  OBVIOUS
<1>13. g \in Seq(Names(app))
  <2>1. \A i \in 1..Len(s) : F[s[i]] \in Seq(Names(app))
    BY <1>11
  <2>2. Gather(s, F) \in Seq(Names(app))
    BY <1>11, <2>1, GatherIsSequence
  <2>3. QED
    BY <1>12, <2>2
<1>14. Follows(app, g) /\ \A m \in W : Has(g, m)
  <2>1. /\ \A i \in 1..Len(s) : F[s[i]] \in Seq(Names(app))
        /\ \A i \in 1..Len(s) : Follows(app, F[s[i]])
    BY <1>11
  <2>2. /\ Follows(app, Gather(s, F))
        /\ \A i \in 1..Len(s) : \A y : Has(F[s[i]], y) => Has(Gather(s, F), y)
    BY <1>11, <2>1, GatherFollows
  <2>3. ASSUME NEW m \in W PROVE Has(g, m)
    <3>1. PICK i \in 1..Len(s) : s[i] = m
      BY <1>9 DEF Has
    <3>2. Has(F[s[i]], m)
      BY <1>11, <3>1
    <3>3. QED
      BY <1>12, <2>2, <3>2
  <2>4. QED
    BY <1>12, <2>2, <2>3
<1>15. PICK t : t = Append(g, x)
  OBVIOUS
<1>16. /\ t \in Seq(Names(app)) /\ Len(t) = Len(g) + 1 /\ Len(g) \in Nat
       /\ \A j \in 1..Len(g) : t[j] = g[j]
       /\ t[Len(g) + 1] = x
  BY <1>4, <1>13, <1>15, AppendProperties, LenProperties
<1>17. Has(t, x)
  <2>1. Len(g) + 1 \in 1..Len(t)
    BY <1>16
  <2>2. QED
    BY <1>16, <2>1 DEF Has
<1>18. Follows(app, t)
  <2>1. SUFFICES ASSUME NEW j \in 1..Len(t), NEW m \in Needs(app, t[j]) PROVE \E k \in 1..(j - 1) : t[k] = m
    BY DEF Follows
  <2>2. CASE j \in 1..Len(g)
    <3>1. PICK k \in 1..(j - 1) : g[k] = m
      BY <1>14, <1>16, <2>1, <2>2 DEF Follows
    <3>2. k \in 1..Len(g)
      BY <1>16, <2>2
    <3>3. QED
      BY <1>16, <3>1, <3>2
  <2>3. CASE j = Len(g) + 1
    <3>1. m \in W
      BY <1>6, <1>16, <2>1, <2>3
    <3>2. PICK k \in 1..Len(g) : g[k] = m
      BY <1>14, <3>1 DEF Has
    <3>3. QED
      BY <1>16, <2>3, <3>2
  <2>4. QED
    BY <1>16, <2>2, <2>3
<1>19. Walk(app)[o][x] = t
  <2>1. Walk(app)[o][x] = WalkStep(app, Walk(app), x, o)
    BY <1>4, WalkGoes
  <2>2. QED
    BY <1>4, <1>6, <1>8, <1>10, <1>12, <1>15, <2>1 DEF WalkStep
<1>20. WellPlaced(app, x, o)
  BY <1>16, <1>17, <1>18, <1>19 DEF WellPlaced
<1>21. QED
  BY <1>3, <1>20

(* The order of the plugins is a sequence of them. *)
LEMMA OrderIsSequence ==
  ASSUME NEW app, Numbered(app)
  PROVE  InOrder(app) \in Seq(Names(app))
<1>1. PICK N : N = Names(app) /\ N \in SUBSET Nat /\ IsFiniteSet(N)
  BY DEF Numbered
<1>2. PICK s : s = Ascending(N)
  OBVIOUS
<1>3. s \in Seq(N)
  BY <1>1, <1>2, AscendingNames
<1>4. PICK F : F = Walk(app)[{}]
  OBVIOUS
<1>5. Len(s) \in Nat /\ \A i \in 1..Len(s) : F[s[i]] \in Seq(N)
  <2>1. \A m \in N : F[m] \in Seq(N)
    BY <1>1, <1>4, WalkIsSequence
  <2>2. QED
    BY <1>3, <2>1, LenProperties, ElementOfSeq
<1>6. PICK g : g = Gather(s, F)
  OBVIOUS
<1>7. g \in Seq(N)
  BY <1>5, <1>6, GatherIsSequence
<1>8. Once(g) \in Seq(N)
  BY <1>7, OnceIsSequence
<1>9. QED
  BY <1>1, <1>2, <1>4, <1>6, <1>8 DEF InOrder

(* Where no loop is, every plugin has one place in it, after all that it *)
(* depends on.                                                           *)
LEMMA OrderFollows ==
  ASSUME NEW app, Numbered(app), NoCycle(app)
  PROVE  Follows(app, InOrder(app)) /\ Alone(InOrder(app)) /\ \A n \in Names(app) : Has(InOrder(app), n)
<1>1. PICK N : N = Names(app) /\ N \in SUBSET Nat /\ IsFiniteSet(N)
  BY DEF Numbered
<1>2. PICK s : s = Ascending(N)
  OBVIOUS
<1>3. s \in Seq(N) /\ \A n \in N : Has(s, n)
  BY <1>1, <1>2, AscendingNames
<1>4. PICK F : F = Walk(app)[{}]
  OBVIOUS
<1>5. ASSUME NEW n \in N PROVE F[n] \in Seq(N) /\ Follows(app, F[n]) /\ Has(F[n], n)
  <2>1. Apart(app, n, {})
    BY DEF Apart
  <2>2. WellPlaced(app, n, {})
    BY <1>1, <2>1, WalkFollows
  <2>3. QED
    BY <1>1, <1>4, <2>2 DEF WellPlaced
<1>6. Len(s) \in Nat /\ \A i \in 1..Len(s) : s[i] \in N
  BY <1>3, LenProperties, ElementOfSeq
<1>7. PICK g : g = Gather(s, F)
  OBVIOUS
<1>8. g \in Seq(N)
  <2>1. \A i \in 1..Len(s) : F[s[i]] \in Seq(N)
    BY <1>5, <1>6
  <2>2. Gather(s, F) \in Seq(N)
    BY <1>6, <2>1, GatherIsSequence
  <2>3. QED
    BY <1>7, <2>2
<1>9. Follows(app, g) /\ \A n \in N : Has(g, n)
  <2>1. /\ \A i \in 1..Len(s) : F[s[i]] \in Seq(N)
        /\ \A i \in 1..Len(s) : Follows(app, F[s[i]])
    BY <1>5, <1>6
  <2>2. /\ Follows(app, Gather(s, F))
        /\ \A i \in 1..Len(s) : \A y : Has(F[s[i]], y) => Has(Gather(s, F), y)
    BY <1>6, <2>1, GatherFollows
  <2>3. ASSUME NEW n \in N PROVE Has(g, n)
    <3>1. PICK i \in 1..Len(s) : s[i] = n
      BY <1>3 DEF Has
    <3>2. QED
      BY <1>5, <1>7, <2>2, <3>1
  <2>4. QED
    BY <1>7, <2>2, <2>3
<1>10. Follows(app, Once(g)) /\ Alone(Once(g)) /\ \A x : Has(g, x) => Has(Once(g), x)
  BY <1>8, <1>9, OnceFollows
<1>11. QED
  BY <1>1, <1>2, <1>4, <1>7, <1>9, <1>10 DEF InOrder

-----------------------------------------------------------------------------
(* What each version declares *)

AllSteps == UNION {Range(Steps[c]) : c \in Code}
Plugins == UNION {Names(Declares[c]) : c \in Code}

(* The plugins of a version have an order; where the kernel may start, each *)
(* has one place in it, after what it depends on.                           *)
LEMMA Ordered ==
  ASSUME NEW c \in Code
  PROVE  /\ Order[c] \in Seq(Names(Declares[c]))
         /\ MayStart[c] => /\ Follows(Declares[c], Order[c]) /\ Alone(Order[c])
                           /\ \A n \in Names(Declares[c]) : Has(Order[c], n)
<1>1. PICK app : app = Declares[c]
  OBVIOUS
<1>2. Numbered(app)
  BY <1>1, DeclaresAssumption DEF Numbered
<1>3. Order[c] = InOrder(app)
  BY <1>1 DEF Order
<1>4. InOrder(app) \in Seq(Names(app))
  BY <1>2, OrderIsSequence
<1>5. ASSUME MayStart[c]
      PROVE  Follows(app, InOrder(app)) /\ Alone(InOrder(app)) /\ \A n \in Names(app) : Has(InOrder(app), n)
  <2>1. NoCycle(app)
    BY <1>1, <1>5 DEF MayStart, Stands
  <2>2. QED
    BY <1>2, <2>1, OrderFollows
<1>6. QED
  BY <1>1, <1>3, <1>4, <1>5

(* Its migrations are a sequence of steps. *)
LEMMA Stepped ==
  ASSUME NEW c \in Code
  PROVE  Steps[c] \in Seq(AllSteps) /\ Range(Steps[c]) \subseteq AllSteps
<1>1. PICK app : app = Declares[c]
  OBVIOUS
<1>2. PICK s : s = Order[c]
  OBVIOUS
<1>3. PICK B : B = UNION {Range(d.migrations) : d \in Defs(app)}
  OBVIOUS
<1>4. PICK F : F = [n \in Names(app) |-> Def(app, n).migrations]
  OBVIOUS
<1>5. ASSUME NEW n \in Names(app) PROVE F[n] \in Seq(B)
  <2>1. Def(app, n) \in Defs(app)
    BY DEF Def, Names
  <2>2. PICK d \in Defs(app) : d = Def(app, n)
    BY <2>1
  <2>3. d.migrations \in Seq(Range(d.migrations))
    BY <1>1, DeclaresAssumption
  <2>4. Range(d.migrations) \subseteq B
    BY <1>3
  <2>5. d.migrations \in Seq(B)
    BY <2>3, <2>4, SeqMonotonic
  <2>6. QED
    BY <1>4, <2>2, <2>5
<1>6. s \in Seq(Names(app))
  BY <1>1, <1>2, Ordered
<1>7. Len(s) \in Nat /\ \A i \in 1..Len(s) : F[s[i]] \in Seq(B)
  BY <1>5, <1>6, LenProperties, ElementOfSeq
<1>8. Gather(s, F) \in Seq(B)
  BY <1>7, GatherIsSequence
<1>9. Steps[c] = Gather(s, F)
  BY <1>1, <1>2, <1>4 DEF Steps, Migrations, Order
<1>10. PICK t : t = Steps[c]
  OBVIOUS
<1>11. t \in [1..Len(t) -> B] /\ Len(t) \in Nat
  BY <1>8, <1>9, <1>10, LenProperties
<1>12. Range(t) \subseteq AllSteps
  BY <1>10 DEF AllSteps
<1>13. t \in [1..Len(t) -> AllSteps]
  BY <1>11, <1>12 DEF Range
<1>14. t \in Seq(AllSteps)
  BY <1>11, <1>13, SeqDef
<1>15. QED
  BY <1>10, <1>12, <1>14

-----------------------------------------------------------------------------
(* The invariant *)

Lives == [Proc -> [at : At, boots : Nat, starts : Nat, adds : Nat, up : SUBSET Plugins]]
Ledgers == [Proc -> [seen : SUBSET AllSteps, left : Seq(AllSteps), ran : Seq(AllSteps)]]

Typed ==
  /\ code \in Deployed /\ code \in [Proc -> Code]
  /\ life \in Lives /\ tx \in Ledgers /\ log \in Seq(AllSteps)
  /\ lists = [p \in Proc |-> lists[p]] /\ stops = [p \in Proc |-> stops[p]]

\* the plugins in the first i places
Places(p, i) == {Order[code[p]][j] : j \in 1..i}

\* up are the first of the order, and the kernel found nothing wrong; something
\* is left to set up, or to tear down
UpFits(p) ==
  /\ \E i \in 0..Len(Order[code[p]]) : life[p].up = Places(p, i)
  /\ life[p].up # {} \/ life[p].at = "setting up" => MayStart[code[p]]
  /\ life[p].at = "setting up" => life[p].up # Range(Order[code[p]])
  /\ life[p].at = "tearing down" => life[p].up # {}

\* the bounds, and what a process that never started holds
CountsFit(p) ==
  /\ life[p].boots <= MaxBoots[p] /\ life[p].starts <= MaxStarts /\ life[p].adds <= MaxAdds[p]
  /\ DOMAIN lists[p] \subseteq Registered(code[p])
  /\ life[p].starts = 0 => DOMAIN lists[p] = {}
  /\ \A c \in stops[p] : c.n \in 1..life[p].adds

\* what ran of a version after each of its steps, of those a ledger lacks
Ran(c, seen) == Gathered(Steps[c], [step \in Range(Steps[c]) |-> IF step \in seen THEN <<>> ELSE <<step>>])

\* the first i steps are behind
Behind(p, i) ==
  LET steps == Steps[code[p]]
  IN /\ tx[p].ran = Ran(code[p], tx[p].seen)[i]
     /\ Len(tx[p].left) = Len(steps) - i
     /\ \A j \in 1..Len(tx[p].left) : tx[p].left[j] = steps[i + j]

TxFits(p) ==
  /\ tx[p] # NoTx => life[p].at = "migrating"
  /\ life[p].at = "migrating" =>
       /\ tx[p].seen = Range(log)
       /\ \E i \in 0..Len(Steps[code[p]]) : Behind(p, i)
       /\ \A q \in Proc : life[q].at = "migrating" => q = p

IInv == Typed /\ \A p \in Proc : UpFits(p) /\ CountsFit(p) /\ TxFits(p)

(* Nothing has happened yet. *)
LEMMA InitIInv == Init => IInv
<1>1. SUFFICES ASSUME Init PROVE IInv
  OBVIOUS
<1>2. Typed
  <2>1. code \in [Proc -> Code]
    BY <1>1, StartupAssumption DEF Init
  <2>2. log \in Seq(AllSteps)
    BY <1>1, EmptySeq DEF Init
  <2>3. NoLife \in [at : At, boots : Nat, starts : Nat, adds : Nat, up : SUBSET Plugins]
    BY DEF NoLife, At
  <2>4. NoTx \in [seen : SUBSET AllSteps, left : Seq(AllSteps), ran : Seq(AllSteps)]
    BY EmptySeq DEF NoTx
  <2>5. life \in Lives /\ tx \in Ledgers
    BY <1>1, <2>3, <2>4 DEF Init, Lives, Ledgers
  <2>6. lists = [p \in Proc |-> lists[p]] /\ stops = [p \in Proc |-> stops[p]]
    BY <1>1 DEF Init
  <2>7. QED
    BY <1>1, <2>1, <2>2, <2>5, <2>6 DEF Typed, Init
<1>3. ASSUME NEW p \in Proc PROVE UpFits(p) /\ CountsFit(p) /\ TxFits(p)
  <2>1. life[p] = NoLife /\ tx[p] = NoTx /\ lists[p] = <<>> /\ stops[p] = {}
    BY <1>1 DEF Init
  <2>2. code[p] \in Code
    BY <1>2 DEF Typed
  <2>3. Len(Order[code[p]]) \in Nat
    BY <2>2, Ordered, LenProperties
  <2>4. UpFits(p)
    <3>1. Places(p, 0) = {} /\ 0 \in 0..Len(Order[code[p]])
      BY <2>3 DEF Places
    <3>2. QED
      BY <2>1, <3>1 DEF UpFits, NoLife
  <2>5. CountsFit(p)
    BY <2>1, StartupAssumption DEF CountsFit, NoLife
  <2>6. TxFits(p)
    BY <2>1 DEF TxFits, NoLife
  <2>7. QED
    BY <2>4, <2>5, <2>6
<1>4. QED
  BY <1>2, <1>3 DEF IInv

(* What a step leaves alone goes on to fit. *)
LEMMA OthersFit ==
  ASSUME IInv, code' = code, NEW p \in Proc, UpFits(p)', CountsFit(p)',
         \A q \in Proc \ {p} : life'[q] = life[q] /\ lists'[q] = lists[q] /\ stops'[q] = stops[q]
  PROVE  \A q \in Proc : UpFits(q)' /\ CountsFit(q)'
<1>1. SUFFICES ASSUME NEW q \in Proc, q # p PROVE UpFits(q)' /\ CountsFit(q)'
  OBVIOUS
<1>2. UpFits(q) /\ CountsFit(q)
  BY DEF IInv
<1>3. life'[q] = life[q] /\ lists'[q] = lists[q] /\ stops'[q] = stops[q]
  BY <1>1
<1>4. UpFits(q)'
  <2>1. \A i : Places(q, i)' = Places(q, i)
    BY DEF Places
  <2>2. PICK i \in 0..Len(Order[code[q]]) : life[q].up = Places(q, i)
    BY <1>2 DEF UpFits
  <2>3. \E k \in 0..Len(Order[code'[q]]) : life'[q].up = Places(q, k)'
    BY <1>3, <2>1, <2>2
  <2>4. QED
    BY <1>2, <1>3, <2>3 DEF UpFits
<1>5. CountsFit(q)'
  BY <1>2, <1>3 DEF CountsFit
<1>6. QED
  BY <1>4, <1>5

(* A step that neither begins nor ends a migration leaves them as they are. *)
LEMMA TxStays ==
  ASSUME IInv, code' = code, log' = log, tx' = tx,
         \A q \in Proc : life'[q].at = "migrating" <=> life[q].at = "migrating"
  PROVE  \A q \in Proc : TxFits(q)'
<1>1. SUFFICES ASSUME NEW q \in Proc PROVE TxFits(q)'
  OBVIOUS
<1>2. TxFits(q)
  BY DEF IInv
<1>3. \A i : Behind(q, i) => Behind(q, i)'
  BY DEF Behind
<1>4. tx'[q] # NoTx => life'[q].at = "migrating"
  BY <1>2 DEF TxFits
<1>5. ASSUME life'[q].at = "migrating"
      PROVE  /\ tx'[q].seen = Range(log')
             /\ \E i \in 0..Len(Steps[code'[q]]) : Behind(q, i)'
             /\ \A r \in Proc : life'[r].at = "migrating" => r = q
  BY <1>2, <1>3, <1>5 DEF TxFits
<1>6. QED
  BY <1>4, <1>5 DEF TxFits

(* Nor does one that ends p's migration, if it has one, whatever it wrote. *)
LEMMA TxLeaves ==
  ASSUME IInv, code' = code, NEW p \in Proc, tx'[p] = NoTx, life'[p].at # "migrating",
         \A q \in Proc \ {p} : life'[q] = life[q] /\ tx'[q] = tx[q],
         log' = log \/ life[p].at = "migrating"
  PROVE  \A q \in Proc : TxFits(q)'
<1>1. SUFFICES ASSUME NEW q \in Proc PROVE TxFits(q)'
  OBVIOUS
<1>2. CASE q = p
  BY <1>2 DEF TxFits
<1>3. CASE q # p
  <2>1. TxFits(q) /\ life'[q] = life[q] /\ tx'[q] = tx[q]
    BY <1>3 DEF IInv
  <2>2. \A i : Behind(q, i) => Behind(q, i)'
    BY <2>1 DEF Behind
  <2>3. tx'[q] # NoTx => life'[q].at = "migrating"
    BY <2>1 DEF TxFits
  <2>4. ASSUME life'[q].at = "migrating"
        PROVE  /\ tx'[q].seen = Range(log')
               /\ \E i \in 0..Len(Steps[code'[q]]) : Behind(q, i)'
               /\ \A r \in Proc : life'[r].at = "migrating" => r = q
    <3>1. /\ tx[q].seen = Range(log) /\ \E i \in 0..Len(Steps[code[q]]) : Behind(q, i)
          /\ \A r \in Proc : life[r].at = "migrating" => r = q
      BY <2>1, <2>4 DEF TxFits
    <3>2. log' = log
      BY <1>3, <3>1
    <3>3. \A r \in Proc : life'[r].at = "migrating" => r = q
      BY <3>1
    <3>4. QED
      BY <2>1, <2>2, <3>1, <3>2, <3>3
  <2>5. QED
    BY <2>3, <2>4 DEF TxFits
<1>4. QED
  BY <1>2, <1>3

(* The first that is not up is the next of the order. *)
LEMMA AwaitedIsNext ==
  ASSUME NEW p \in Proc, code[p] \in Code, MayStart[code[p]],
         NEW i \in 0..Len(Order[code[p]]), life[p].up = Places(p, i), life[p].up # Range(Order[code[p]])
  PROVE  /\ i + 1 \in 0..Len(Order[code[p]]) /\ Awaited(p) = Order[code[p]][i + 1]
         /\ life[p].up \cup {Awaited(p)} = Places(p, i + 1)
<1>1. PICK s : s = Order[code[p]]
  OBVIOUS
<1>2. /\ Len(s) \in Nat /\ DOMAIN s = 1..Len(s) /\ i \in 0..Len(s)
      /\ \A j, k \in 1..Len(s) : s[j] = s[k] => j = k
  <2>1. s \in Seq(Names(Declares[code[p]])) /\ Alone(s)
    BY <1>1, Ordered
  <2>2. QED
    BY <1>1, <2>1, LenProperties DEF Alone
<1>3. PICK up : up = life[p].up
  OBVIOUS
<1>4. up = {s[j] : j \in 1..i} /\ up # {s[j] : j \in 1..Len(s)}
  BY <1>1, <1>2, <1>3 DEF Places, Range
<1>5. i + 1 \in 1..Len(s)
  BY <1>2, <1>4
<1>6. \A j \in 1..Len(s) : s[j] \in up <=> j <= i
  BY <1>2, <1>4
<1> DEFINE Is(k) == s[k] \notin up /\ \A j \in 1..(k - 1) : s[j] \in up
<1>7. Is(i + 1)
  BY <1>2, <1>5, <1>6
<1>8. \A k \in 1..Len(s) : Is(k) => k = i + 1
  <2>1. ASSUME NEW k \in 1..Len(s), Is(k), k # i + 1 PROVE FALSE
    <3>1. ~(k <= i)
      BY <1>6, <2>1
    <3>2. i + 1 \in 1..(k - 1)
      BY <1>2, <2>1, <3>1
    <3>3. s[i + 1] \in up
      BY <2>1, <3>2
    <3>4. QED
      BY <1>2, <1>5, <1>6, <3>3
  <2>2. QED
    BY <2>1
<1>9. Awaited(p) = s[CHOOSE k \in 1..Len(s) : Is(k)]
  BY <1>1, <1>2, <1>3 DEF Awaited
<1> HIDE DEF Is
<1>10. Awaited(p) = s[i + 1]
  BY <1>5, <1>7, <1>8, <1>9
<1>11. up \cup {s[i + 1]} = {s[j] : j \in 1..(i + 1)}
  <2>1. \A j \in 1..(i + 1) : j \in 1..i \/ j = i + 1
    BY <1>2
  <2>2. \A j \in 1..i : j \in 1..(i + 1)
    BY <1>2
  <2>3. i + 1 \in 1..(i + 1)
    BY <1>2
  <2>4. QED
    BY <1>4, <2>1, <2>2, <2>3
<1>12. QED
  BY <1>1, <1>2, <1>3, <1>5, <1>10, <1>11 DEF Places

(* The last that is up is the last of those set up. *)
LEMMA NextDownIsLast ==
  ASSUME NEW p \in Proc, code[p] \in Code, MayStart[code[p]],
         NEW i \in 0..Len(Order[code[p]]), life[p].up = Places(p, i), life[p].up # {}
  PROVE  i - 1 \in 0..Len(Order[code[p]]) /\ life[p].up \ {NextDown(p)} = Places(p, i - 1)
<1>1. PICK s : s = Order[code[p]]
  OBVIOUS
<1>2. /\ Len(s) \in Nat /\ DOMAIN s = 1..Len(s) /\ i \in 0..Len(s)
      /\ \A j, k \in 1..Len(s) : s[j] = s[k] => j = k
  <2>1. s \in Seq(Names(Declares[code[p]])) /\ Alone(s)
    BY <1>1, Ordered
  <2>2. QED
    BY <1>1, <2>1, LenProperties DEF Alone
<1>3. PICK up : up = life[p].up
  OBVIOUS
<1>4. up = {s[j] : j \in 1..i} /\ up # {}
  BY <1>1, <1>3 DEF Places
<1>5. i \in 1..Len(s) /\ i - 1 \in 0..Len(s)
  BY <1>2, <1>4
<1>6. \A j \in 1..Len(s) : s[j] \in up <=> j <= i
  BY <1>2, <1>4
<1> DEFINE Is(k) == s[k] \in up /\ \A j \in 1..Len(s) : j > k => s[j] \notin up
<1>7. Is(i)
  BY <1>2, <1>5, <1>6
<1>8. \A k \in 1..Len(s) : Is(k) => k = i
  <2>1. ASSUME NEW k \in 1..Len(s), Is(k), k # i PROVE FALSE
    <3>1. k <= i
      BY <1>6, <2>1
    <3>2. i > k
      BY <1>5, <2>1, <3>1
    <3>3. s[i] \notin up
      BY <1>5, <2>1, <3>2
    <3>4. QED
      BY <1>2, <1>5, <1>6, <3>3
  <2>2. QED
    BY <2>1
<1>9. NextDown(p) = s[CHOOSE k \in 1..Len(s) : Is(k)]
  BY <1>1, <1>2, <1>3 DEF NextDown
<1> HIDE DEF Is
<1>10. NextDown(p) = s[i]
  BY <1>5, <1>7, <1>8, <1>9
<1>11. up \ {s[i]} = {s[j] : j \in 1..(i - 1)}
  <2>1. \A j \in 1..i : j \in 1..(i - 1) \/ j = i
    BY <1>2
  <2>2. \A j \in 1..(i - 1) : j \in 1..i /\ s[j] # s[i]
    <3>1. \A j \in 1..(i - 1) : j \in 1..i /\ j \in 1..Len(s) /\ j # i
      BY <1>2
    <3>2. QED
      BY <1>2, <1>5, <3>1
  <2>3. QED
    BY <1>4, <2>1, <2>2
<1>12. QED
  BY ZenonT(60), <1>1, <1>3, <1>5, <1>10, <1>11 DEF Places

(* A step that only moves p on, neither into a migration nor out of one. *)
LEMMA MovesOn ==
  ASSUME IInv, NEW p \in Proc, UNCHANGED <<code, log, tx, lists, stops>>,
         NEW l \in [at : At, boots : Nat, starts : Nat, adds : Nat, up : SUBSET Plugins],
         life' = [life EXCEPT ![p] = l],
         life[p].at # "migrating", l.at # "migrating", UpFits(p)',
         l.boots <= MaxBoots[p], l.starts = life[p].starts, l.adds = life[p].adds
  PROVE  IInv'
<1>1. life \in Lives /\ Typed
  BY DEF IInv, Typed
<1>2. life'[p] = l /\ \A q \in Proc \ {p} : life'[q] = life[q]
  BY <1>1 DEF Lives
<1>3. Typed'
  <2>1. life' \in Lives
    BY <1>1 DEF Lives
  <2>2. QED
    BY <1>1, <2>1 DEF Typed
<1>4. CountsFit(p)'
  <2>1. CountsFit(p)
    BY DEF IInv
  <2>2. QED
    BY <1>2, <2>1 DEF CountsFit
<1>5. \A q \in Proc : UpFits(q)' /\ CountsFit(q)'
  BY <1>2, <1>4, OthersFit
<1>6. \A q \in Proc : TxFits(q)'
  <2>1. \A q \in Proc : life'[q].at = "migrating" <=> life[q].at = "migrating"
    BY <1>2
  <2>2. QED
    BY <2>1, TxStays
<1>7. QED
  BY <1>3, <1>5, <1>6 DEF IInv

(* What a process is, as the invariant has it. *)
LEMMA OfProcess ==
  ASSUME IInv, NEW p \in Proc
  PROVE  /\ code[p] \in Code
         /\ life \in Lives /\ life[p] \in [at : At, boots : Nat, starts : Nat, adds : Nat, up : SUBSET Plugins]
         /\ UpFits(p) /\ CountsFit(p) /\ TxFits(p)
         /\ Order[code[p]] \in Seq(Names(Declares[code[p]])) /\ Len(Order[code[p]]) \in Nat
         /\ Range(Order[code[p]]) \subseteq Plugins
         /\ Range(Order[code[p]]) = {Order[code[p]][j] : j \in 1..Len(Order[code[p]])}
<1>1. code[p] \in Code /\ life \in Lives
  BY DEF IInv, Typed
<1>2. UpFits(p) /\ CountsFit(p) /\ TxFits(p)
  BY DEF IInv
<1>3. life[p] \in [at : At, boots : Nat, starts : Nat, adds : Nat, up : SUBSET Plugins]
  BY <1>1 DEF Lives
<1>4. PICK s : s = Order[code[p]]
  OBVIOUS
<1>5. PICK N : N = Names(Declares[code[p]])
  OBVIOUS
<1>6. s \in Seq(N)
  BY <1>1, <1>4, <1>5, Ordered
<1>7. Len(s) \in Nat /\ DOMAIN s = 1..Len(s) /\ s \in [1..Len(s) -> N]
  BY <1>6, LenProperties
<1>8. N \subseteq Plugins
  BY <1>1, <1>5 DEF Plugins
<1>9. Range(s) \subseteq Plugins /\ Range(s) = {s[j] : j \in 1..Len(s)}
  BY <1>7, <1>8 DEF Range
<1>10. QED
  BY <1>1, <1>2, <1>3, <1>4, <1>5, <1>6, <1>7, <1>9

(* How far p is up stays so where nothing that says so changes. *)
LEMMA UpStays ==
  ASSUME IInv, NEW p \in Proc, code' = code, life'[p].up = life[p].up,
         life'[p].at = "setting up" => MayStart[code[p]] /\ life[p].up # Range(Order[code[p]]),
         life'[p].at = "tearing down" => life[p].up # {}
  PROVE  UpFits(p)'
<1>1. UpFits(p)
  BY OfProcess
<1>2. \A i : Places(p, i)' = Places(p, i)
  BY DEF Places
<1>3. PICK i \in 0..Len(Order[code[p]]) : life[p].up = Places(p, i)
  BY <1>1 DEF UpFits
<1>4. \E k \in 0..Len(Order[code'[p]]) : life'[p].up = Places(p, k)'
  BY <1>2, <1>3
<1>5. QED
  BY <1>1, <1>4 DEF UpFits

(* start() begins: refused, or waiting for the lock. *)
LEMMA BootIInv == ASSUME IInv, NEW p \in Proc, Boot(p) PROVE IInv'
<1>1. /\ life[p] \in [at : At, boots : Nat, starts : Nat, adds : Nat, up : SUBSET Plugins] /\ life \in Lives
  BY OfProcess
<1>2. PICK at : at = IF MayBoot[code[p]] THEN "waiting" ELSE "refused"
  OBVIOUS
<1>3. at \in {"waiting", "refused"}
  BY <1>2
<1>4. PICK l : l = [life[p] EXCEPT !.at = at, !.boots = @ + 1]
  OBVIOUS
<1>5. /\ l \in [at : At, boots : Nat, starts : Nat, adds : Nat, up : SUBSET Plugins]
      /\ l.at = at /\ l.boots = life[p].boots + 1 /\ l.starts = life[p].starts /\ l.adds = life[p].adds
      /\ l.up = life[p].up
  <2>1. at \in At
    BY <1>3 DEF At
  <2>2. life[p].boots + 1 \in Nat
    BY <1>1
  <2>3. QED
    BY <1>1, <1>4, <2>1, <2>2
<1>6. life' = [life EXCEPT ![p] = l]
  BY <1>1, <1>2, <1>4 DEF Boot, Lives
<1>7. life'[p] = l
  BY <1>1, <1>6 DEF Lives
<1>8. UpFits(p)'
  BY <1>3, <1>5, <1>7, UpStays DEF Boot
<1>9. l.boots <= MaxBoots[p]
  BY <1>1, <1>5, StartupAssumption DEF Boot
<1>10. QED
  BY <1>3, <1>5, <1>6, <1>8, <1>9, MovesOn DEF Boot

(* SQLite waited long enough. *)
LEMMA GivesUpIInv == ASSUME IInv, NEW p \in Proc, GivesUp(p) PROVE IInv'
<1>1. /\ life[p] \in [at : At, boots : Nat, starts : Nat, adds : Nat, up : SUBSET Plugins] /\ life \in Lives
      /\ CountsFit(p)
  BY OfProcess
<1>2. PICK at : at = "refused"
  OBVIOUS
<1>3. at = "refused"
  BY <1>2 DEF GivesUp, TearingDown
<1>4. PICK l : l = [life[p] EXCEPT !.at = at]
  OBVIOUS
<1>5. /\ l \in [at : At, boots : Nat, starts : Nat, adds : Nat, up : SUBSET Plugins]
      /\ l.at = at /\ l.boots = life[p].boots /\ l.starts = life[p].starts /\ l.adds = life[p].adds
      /\ l.up = life[p].up
  BY <1>1, <1>3, <1>4 DEF At
<1>6. life' = [life EXCEPT ![p] = l]
  BY <1>1, <1>2, <1>4 DEF GivesUp, Goes, Lives
<1>7. life'[p] = l
  BY <1>1, <1>6 DEF Lives
<1>8. UpFits(p)'
  BY <1>3, <1>5, <1>7, UpStays DEF GivesUp
<1>9. l.boots <= MaxBoots[p]
  BY <1>1, <1>5 DEF CountsFit
<1>10. QED
  BY <1>3, <1>5, <1>6, <1>8, <1>9, MovesOn DEF GivesUp

(* A setup throws: the start failed. *)
LEMMA SetupThrowsIInv == ASSUME IInv, NEW p \in Proc, SetupThrows(p) PROVE IInv'
<1>1. /\ life[p] \in [at : At, boots : Nat, starts : Nat, adds : Nat, up : SUBSET Plugins] /\ life \in Lives
      /\ CountsFit(p)
  BY OfProcess
<1>2. PICK at : at = "failed"
  OBVIOUS
<1>3. at = "failed"
  BY <1>2 DEF SetupThrows, TearingDown
<1>4. PICK l : l = [life[p] EXCEPT !.at = at]
  OBVIOUS
<1>5. /\ l \in [at : At, boots : Nat, starts : Nat, adds : Nat, up : SUBSET Plugins]
      /\ l.at = at /\ l.boots = life[p].boots /\ l.starts = life[p].starts /\ l.adds = life[p].adds
      /\ l.up = life[p].up
  BY <1>1, <1>3, <1>4 DEF At
<1>6. life' = [life EXCEPT ![p] = l]
  BY <1>1, <1>2, <1>4 DEF SetupThrows, Goes, Lives
<1>7. life'[p] = l
  BY <1>1, <1>6 DEF Lives
<1>8. UpFits(p)'
  BY <1>3, <1>5, <1>7, UpStays DEF SetupThrows
<1>9. l.boots <= MaxBoots[p]
  BY <1>1, <1>5 DEF CountsFit
<1>10. QED
  BY <1>3, <1>5, <1>6, <1>8, <1>9, MovesOn DEF SetupThrows

(* stop() begins. *)
LEMMA StopIInv == ASSUME IInv, NEW p \in Proc, Stop(p) PROVE IInv'
<1>1. /\ life[p] \in [at : At, boots : Nat, starts : Nat, adds : Nat, up : SUBSET Plugins] /\ life \in Lives
      /\ CountsFit(p)
  BY OfProcess
<1>2. PICK at : at = TearingDown(life[p].up)
  OBVIOUS
<1>3. at \in {"stopped", "tearing down"} /\ (at = "tearing down" => life[p].up # {})
  BY <1>2 DEF Stop, TearingDown
<1>4. PICK l : l = [life[p] EXCEPT !.at = at]
  OBVIOUS
<1>5. /\ l \in [at : At, boots : Nat, starts : Nat, adds : Nat, up : SUBSET Plugins]
      /\ l.at = at /\ l.boots = life[p].boots /\ l.starts = life[p].starts /\ l.adds = life[p].adds
      /\ l.up = life[p].up
  BY <1>1, <1>3, <1>4 DEF At
<1>6. life' = [life EXCEPT ![p] = l]
  BY <1>1, <1>2, <1>4 DEF Stop, Goes, Lives
<1>7. life'[p] = l
  BY <1>1, <1>6 DEF Lives
<1>8. UpFits(p)'
  BY <1>3, <1>5, <1>7, UpStays DEF Stop
<1>9. l.boots <= MaxBoots[p]
  BY <1>1, <1>5 DEF CountsFit
<1>10. QED
  BY <1>3, <1>5, <1>6, <1>8, <1>9, MovesOn DEF Stop

(* The next plugin is set up. *)
LEMMA SetUpIInv == ASSUME IInv, NEW p \in Proc, SetUp(p) PROVE IInv'
<1>1. /\ life[p] \in [at : At, boots : Nat, starts : Nat, adds : Nat, up : SUBSET Plugins] /\ life \in Lives
      /\ CountsFit(p) /\ UpFits(p) /\ code[p] \in Code
      /\ Range(Order[code[p]]) \subseteq Plugins /\ Len(Order[code[p]]) \in Nat
      /\ Range(Order[code[p]]) = {Order[code[p]][j] : j \in 1..Len(Order[code[p]])}
  BY OfProcess
<1>2. MayStart[code[p]] /\ life[p].up # Range(Order[code[p]])
  BY <1>1 DEF UpFits, SetUp
<1>3. PICK i \in 0..Len(Order[code[p]]) : life[p].up = Places(p, i)
  BY <1>1 DEF UpFits
<1>4. /\ i + 1 \in 0..Len(Order[code[p]]) /\ life[p].up \cup {Awaited(p)} = Places(p, i + 1)
  BY <1>1, <1>2, <1>3, AwaitedIsNext
<1>5. PICK up : up = life[p].up \cup {Awaited(p)}
  OBVIOUS
<1>6. up \subseteq Range(Order[code[p]])
  <2>1. \A j \in 1..(i + 1) : j \in 1..Len(Order[code[p]])
    BY <1>1, <1>4
  <2>2. QED
    BY <1>1, <1>4, <1>5, <2>1 DEF Places
<1>7. PICK at : at = SettingUp(p, up)
  OBVIOUS
<1>8. at \in {"running", "setting up"} /\ (at = "setting up" => up # Range(Order[code[p]]))
  BY <1>7 DEF SettingUp
<1>9. PICK l : l = [life[p] EXCEPT !.up = up, !.at = at]
  OBVIOUS
<1>10. /\ l \in [at : At, boots : Nat, starts : Nat, adds : Nat, up : SUBSET Plugins]
       /\ l.at = at /\ l.boots = life[p].boots /\ l.starts = life[p].starts /\ l.adds = life[p].adds
       /\ l.up = up
  BY <1>1, <1>6, <1>8, <1>9 DEF At
<1>11. life' = [life EXCEPT ![p] = l] /\ code' = code
  BY <1>1, <1>5, <1>7, <1>9 DEF SetUp, Lives
<1>12. life'[p] = l
  BY <1>1, <1>11 DEF Lives
<1>13. UpFits(p)'
  <2>1. Places(p, i + 1)' = Places(p, i + 1)
    BY <1>11 DEF Places
  <2>2. \E k \in 0..Len(Order[code'[p]]) : life'[p].up = Places(p, k)'
    BY <1>4, <1>5, <1>10, <1>11, <1>12, <2>1
  <2>3. QED
    BY <1>2, <1>8, <1>10, <1>11, <1>12, <2>2 DEF UpFits
<1>14. l.boots <= MaxBoots[p]
  BY <1>1, <1>10 DEF CountsFit
<1>15. QED
  BY <1>8, <1>10, <1>11, <1>13, <1>14, MovesOn DEF SetUp

(* The last plugin that is up is torn down. *)
LEMMA TearDownIInv == ASSUME IInv, NEW p \in Proc, TearDown(p) PROVE IInv'
<1>1. /\ life[p] \in [at : At, boots : Nat, starts : Nat, adds : Nat, up : SUBSET Plugins] /\ life \in Lives
      /\ CountsFit(p) /\ UpFits(p) /\ code[p] \in Code
  BY OfProcess
<1>2. life[p].up # {} /\ MayStart[code[p]]
  BY <1>1 DEF UpFits, TearDown
<1>3. PICK i \in 0..Len(Order[code[p]]) : life[p].up = Places(p, i)
  BY <1>1 DEF UpFits
<1>4. i - 1 \in 0..Len(Order[code[p]]) /\ life[p].up \ {NextDown(p)} = Places(p, i - 1)
  BY <1>1, <1>2, <1>3, NextDownIsLast
<1>5. PICK up : up = life[p].up \ {NextDown(p)}
  OBVIOUS
<1>6. PICK at : at = TearingDown(up)
  OBVIOUS
<1>7. at \in {"stopped", "tearing down"} /\ (at = "tearing down" => up # {})
  BY <1>6 DEF TearingDown
<1>8. PICK l : l = [life[p] EXCEPT !.up = up, !.at = at]
  OBVIOUS
<1>9. /\ l \in [at : At, boots : Nat, starts : Nat, adds : Nat, up : SUBSET Plugins]
      /\ l.at = at /\ l.boots = life[p].boots /\ l.starts = life[p].starts /\ l.adds = life[p].adds
      /\ l.up = up
  BY <1>1, <1>5, <1>7, <1>8 DEF At
<1>10. life' = [life EXCEPT ![p] = l] /\ code' = code
  BY <1>1, <1>5, <1>6, <1>8 DEF TearDown, Lives
<1>11. life'[p] = l
  BY <1>1, <1>10 DEF Lives
<1>12. UpFits(p)'
  <2>1. Places(p, i - 1)' = Places(p, i - 1)
    BY <1>10 DEF Places
  <2>2. \E k \in 0..Len(Order[code'[p]]) : life'[p].up = Places(p, k)'
    BY <1>4, <1>5, <1>9, <1>10, <1>11, <2>1
  <2>3. QED
    BY <1>2, <1>7, <1>9, <1>10, <1>11, <2>2 DEF UpFits
<1>13. l.boots <= MaxBoots[p]
  BY <1>1, <1>9 DEF CountsFit
<1>14. QED
  BY <1>7, <1>9, <1>10, <1>12, <1>13, MovesOn DEF TearDown

(* The kernel starts: what it places, it holds. *)
LEMMA StartKernelIInv == ASSUME IInv, NEW p \in Proc, StartKernel(p) PROVE IInv'
<1>1. /\ life[p] \in [at : At, boots : Nat, starts : Nat, adds : Nat, up : SUBSET Plugins] /\ life \in Lives
      /\ CountsFit(p) /\ code[p] \in Code /\ Typed
  BY OfProcess DEF IInv
<1>2. PICK at : at = IF MayStart[code[p]] THEN SettingUp(p, life[p].up) ELSE "failed"
  OBVIOUS
<1>3. /\ at \in {"running", "setting up", "failed"}
      /\ at = "setting up" => MayStart[code[p]] /\ life[p].up # Range(Order[code[p]])
  BY <1>2 DEF SettingUp
<1>4. PICK l : l = [life[p] EXCEPT !.starts = @ + 1, !.at = at]
  OBVIOUS
<1>5. /\ l \in [at : At, boots : Nat, starts : Nat, adds : Nat, up : SUBSET Plugins]
      /\ l.at = at /\ l.boots = life[p].boots /\ l.starts = life[p].starts + 1 /\ l.adds = life[p].adds
      /\ l.up = life[p].up
  <2>1. at \in At
    BY <1>3 DEF At
  <2>2. life[p].starts + 1 \in Nat
    BY <1>1
  <2>3. QED
    BY <1>1, <1>4, <2>1, <2>2
<1>6. life' = [life EXCEPT ![p] = l] /\ code' = code /\ log' = log /\ tx' = tx /\ stops' = stops
  BY <1>1, <1>2, <1>4 DEF StartKernel, Lives
<1>7. life'[p] = l /\ \A q \in Proc \ {p} : life'[q] = life[q]
  BY <1>1, <1>6 DEF Lives
<1>8. PICK held : held = IF MayStart[code[p]] THEN PlacedFor[code[p]] ELSE lists[p]
  OBVIOUS
<1>9. lists' = [lists EXCEPT ![p] = held]
  BY <1>8 DEF StartKernel
<1>10. lists'[p] = held /\ \A q \in Proc \ {p} : lists'[q] = lists[q]
  BY <1>1, <1>9 DEF Typed
<1>11. DOMAIN held \subseteq Registered(code[p])
  <2>1. MayStart[code[p]] => PlacedFor[code[p]] = [r \in Registered(code[p]) |-> Placed(code[p], r).held]
    BY <1>1 DEF PlacedFor
  <2>2. QED
    BY <1>1, <1>8, <2>1 DEF CountsFit
<1>12. Typed'
  <2>1. life' \in Lives
    BY <1>1, <1>5, <1>6 DEF Lives
  <2>2. lists' = [q \in Proc |-> lists'[q]]
    BY <1>1, <1>9 DEF Typed
  <2>3. QED
    BY <1>1, <1>6, <2>1, <2>2 DEF Typed
<1>13. UpFits(p)'
  BY <1>3, <1>5, <1>6, <1>7, UpStays
<1>14. CountsFit(p)'
  <2>1. l.starts <= MaxStarts /\ l.starts # 0
    BY <1>1, <1>5, StartupAssumption DEF StartKernel
  <2>2. QED
    BY <1>1, <1>5, <1>6, <1>7, <1>10, <1>11, <2>1 DEF CountsFit
<1>15. \A q \in Proc : UpFits(q)' /\ CountsFit(q)'
  <2>1. \A q \in Proc \ {p} : life'[q] = life[q] /\ lists'[q] = lists[q] /\ stops'[q] = stops[q]
    BY <1>6, <1>7, <1>10
  <2>2. QED
    BY <1>6, <1>13, <1>14, <2>1, OthersFit
<1>16. \A q \in Proc : TxFits(q)'
  <2>1. \A q \in Proc : life'[q].at = "migrating" <=> life[q].at = "migrating"
    BY <1>3, <1>5, <1>7 DEF StartKernel
  <2>2. QED
    BY <1>6, <2>1, TxStays
<1>17. QED
  BY <1>12, <1>15, <1>16 DEF IInv

(* What an add changes of the registries. *)
LEMMA SetAdds ==
  ASSUME NEW p \in Proc, Set(p)
  PROVE  \E n, e, r :
           /\ lists' = [lists EXCEPT ![p][r] = With(@, n, e, life[p].adds + 1)]
           /\ stops' = [stops EXCEPT ![p] = @ \cup {[registry |-> r, key |-> e.key, n |-> life[p].adds + 1]}]
BY ZenonT(60) DEF Set

(* A plugin adds an entry. *)
LEMMA SetIInv == ASSUME IInv, NEW p \in Proc, Set(p) PROVE IInv'
<1>1. /\ life[p] \in [at : At, boots : Nat, starts : Nat, adds : Nat, up : SUBSET Plugins] /\ life \in Lives
      /\ UpFits(p) /\ CountsFit(p) /\ Typed
  BY OfProcess DEF IInv
<1>2. PICK n, e, r :
        /\ lists' = [lists EXCEPT ![p][r] = With(@, n, e, life[p].adds + 1)]
        /\ stops' = [stops EXCEPT ![p] = @ \cup {[registry |-> r, key |-> e.key, n |-> life[p].adds + 1]}]
  BY SetAdds
<1>3. PICK l : l = [life[p] EXCEPT !.adds = @ + 1]
  OBVIOUS
<1>4. /\ l \in [at : At, boots : Nat, starts : Nat, adds : Nat, up : SUBSET Plugins]
      /\ l.at = life[p].at /\ l.boots = life[p].boots /\ l.starts = life[p].starts
      /\ l.adds = life[p].adds + 1 /\ l.up = life[p].up
  BY <1>1, <1>3
<1>5. /\ life' = [life EXCEPT ![p] = l] /\ code' = code /\ log' = log /\ tx' = tx
      /\ life[p].adds < MaxAdds[p]
  BY <1>1, <1>3 DEF Set, Lives
<1>6. life'[p] = l /\ \A q \in Proc \ {p} : life'[q] = life[q]
  BY <1>1, <1>5 DEF Lives
<1>7. /\ lists' = [q \in Proc |-> lists'[q]] /\ DOMAIN lists'[p] = DOMAIN lists[p]
      /\ \A q \in Proc \ {p} : lists'[q] = lists[q]
  <2>1. PICK held : held = [lists[p] EXCEPT ![r] = With(@, n, e, life[p].adds + 1)]
    OBVIOUS
  <2>2. lists' = [lists EXCEPT ![p] = held]
    BY <1>2, <2>1
  <2>3. DOMAIN held = DOMAIN lists[p]
    BY <2>1
  <2>4. QED
    BY <1>1, <2>2, <2>3 DEF Typed
<1>8. PICK add : add = [registry |-> r, key |-> e.key, n |-> life[p].adds + 1]
  OBVIOUS
<1>9. /\ stops' = [q \in Proc |-> stops'[q]] /\ stops'[p] = stops[p] \cup {add}
      /\ \A q \in Proc \ {p} : stops'[q] = stops[q]
  BY <1>1, <1>2, <1>8 DEF Typed
<1>10. Typed'
  <2>1. life' \in Lives
    BY <1>1, <1>4, <1>5 DEF Lives
  <2>2. QED
    BY <1>1, <1>5, <1>7, <1>9, <2>1 DEF Typed
<1>11. UpFits(p)'
  BY <1>1, <1>4, <1>5, <1>6, UpStays DEF UpFits
<1>12. CountsFit(p)'
  <2>1. l.adds <= MaxAdds[p]
    BY <1>1, <1>4, <1>5, StartupAssumption
  <2>2. \A c \in stops'[p] : c.n \in 1..l.adds
    <3>1. add.n = life[p].adds + 1
      BY <1>8
    <3>2. \A c \in stops[p] : c.n \in 1..life[p].adds
      BY <1>1 DEF CountsFit
    <3>3. QED
      BY <1>1, <1>4, <1>9, <3>1, <3>2
  <2>3. QED
    BY <1>1, <1>4, <1>5, <1>6, <1>7, <2>1, <2>2 DEF CountsFit
<1>13. \A q \in Proc : UpFits(q)' /\ CountsFit(q)'
  <2>1. \A q \in Proc \ {p} : life'[q] = life[q] /\ lists'[q] = lists[q] /\ stops'[q] = stops[q]
    BY <1>6, <1>7, <1>9
  <2>2. QED
    BY <1>5, <1>11, <1>12, <2>1, OthersFit
<1>14. \A q \in Proc : TxFits(q)'
  <2>1. \A q \in Proc : life'[q].at = "migrating" <=> life[q].at = "migrating"
    BY <1>4, <1>6
  <2>2. QED
    BY <1>5, <2>1, TxStays
<1>15. QED
  BY <1>10, <1>13, <1>14 DEF IInv

(* The stop of an add is called. *)
LEMMA CallStopIInv == ASSUME IInv, NEW p \in Proc, CallStop(p) PROVE IInv'
<1>1. Typed /\ UpFits(p) /\ CountsFit(p)
  BY OfProcess DEF IInv
<1>2. PICK c \in stops[p] :
        /\ lists' = [lists EXCEPT ![p][c.registry] = Stopped(@, c.key, c.n)]
        /\ stops' = [stops EXCEPT ![p] = @ \ {c}]
        /\ UNCHANGED <<code, life, log, tx>>
  BY DEF CallStop
<1>3. /\ lists' = [q \in Proc |-> lists'[q]] /\ DOMAIN lists'[p] = DOMAIN lists[p]
      /\ \A q \in Proc \ {p} : lists'[q] = lists[q]
  <2>1. PICK held : held = [lists[p] EXCEPT ![c.registry] = Stopped(@, c.key, c.n)]
    OBVIOUS
  <2>2. lists' = [lists EXCEPT ![p] = held]
    BY <1>2, <2>1
  <2>3. DOMAIN held = DOMAIN lists[p]
    BY <2>1
  <2>4. QED
    BY <1>1, <2>2, <2>3 DEF Typed
<1>4. /\ stops' = [q \in Proc |-> stops'[q]] /\ stops'[p] \subseteq stops[p]
      /\ \A q \in Proc \ {p} : stops'[q] = stops[q]
  BY <1>1, <1>2 DEF Typed
<1>5. Typed'
  BY <1>1, <1>2, <1>3, <1>4 DEF Typed
<1>6. UpFits(p)'
  BY <1>1, <1>2, UpStays DEF UpFits
<1>7. CountsFit(p)'
  BY <1>1, <1>2, <1>3, <1>4 DEF CountsFit
<1>8. \A q \in Proc : UpFits(q)' /\ CountsFit(q)'
  <2>1. \A q \in Proc \ {p} : life'[q] = life[q] /\ lists'[q] = lists[q] /\ stops'[q] = stops[q]
    BY <1>2, <1>3, <1>4
  <2>2. QED
    BY <1>2, <1>6, <1>7, <2>1, OthersFit
<1>9. \A q \in Proc : TxFits(q)'
  BY <1>2, TxStays
<1>10. QED
  BY <1>5, <1>8, <1>9 DEF IInv

(* A process dies. *)
LEMMA CrashIInv == ASSUME IInv, NEW p \in Proc, Crash(p) PROVE IInv'
<1>1. /\ life[p] \in [at : At, boots : Nat, starts : Nat, adds : Nat, up : SUBSET Plugins] /\ life \in Lives
      /\ CountsFit(p) /\ code[p] \in Code /\ Typed /\ Len(Order[code[p]]) \in Nat
  BY OfProcess DEF IInv
<1>2. PICK l : l = [NoLife EXCEPT !.boots = life[p].boots]
  OBVIOUS
<1>3. /\ l \in [at : At, boots : Nat, starts : Nat, adds : Nat, up : SUBSET Plugins]
      /\ l.at = "off" /\ l.boots = life[p].boots /\ l.starts = 0 /\ l.adds = 0 /\ l.up = {}
  BY <1>1, <1>2 DEF NoLife, At
<1>4. /\ life' = [life EXCEPT ![p] = l] /\ code' = code /\ log' = log
      /\ tx' = [tx EXCEPT ![p] = NoTx] /\ lists' = [lists EXCEPT ![p] = <<>>]
      /\ stops' = [stops EXCEPT ![p] = {}]
  BY <1>2 DEF Crash
<1>5. /\ life'[p] = l /\ tx'[p] = NoTx /\ lists'[p] = <<>> /\ stops'[p] = {}
      /\ \A q \in Proc \ {p} : /\ life'[q] = life[q] /\ tx'[q] = tx[q]
                              /\ lists'[q] = lists[q] /\ stops'[q] = stops[q]
  BY <1>1, <1>4 DEF Lives, Ledgers, Typed
<1>6. Typed'
  <2>1. life' \in Lives
    BY <1>1, <1>3, <1>4 DEF Lives
  <2>2. NoTx \in [seen : SUBSET AllSteps, left : Seq(AllSteps), ran : Seq(AllSteps)]
    BY EmptySeq DEF NoTx
  <2>3. tx' \in Ledgers
    BY <1>1, <1>4, <2>2 DEF Ledgers, Typed
  <2>4. lists' = [q \in Proc |-> lists'[q]] /\ stops' = [q \in Proc |-> stops'[q]]
    BY <1>1, <1>4 DEF Typed
  <2>5. QED
    BY <1>1, <1>4, <2>1, <2>3, <2>4 DEF Typed
<1>7. UpFits(p)'
  <2>1. Places(p, 0)' = {} /\ 0 \in 0..Len(Order[code'[p]])
    BY <1>1, <1>4 DEF Places
  <2>2. QED
    BY <1>3, <1>5, <2>1 DEF UpFits
<1>8. CountsFit(p)'
  BY <1>1, <1>3, <1>5, StartupAssumption DEF CountsFit
<1>9. \A q \in Proc : UpFits(q)' /\ CountsFit(q)'
  BY <1>4, <1>5, <1>7, <1>8, OthersFit
<1>10. \A q \in Proc : TxFits(q)'
  BY <1>3, <1>4, <1>5, TxLeaves
<1>11. QED
  BY <1>6, <1>9, <1>10 DEF IInv

\* step by step, those that are missing run
RanFits(c, seen) ==
  /\ Ran(c, seen)[0] = <<>>
  /\ \A i \in 1..Len(Steps[c]) :
       Ran(c, seen)[i] = Ran(c, seen)[i - 1] \o (IF Steps[c][i] \in seen THEN <<>> ELSE <<Steps[c][i]>>)
  /\ \A i \in 0..Len(Steps[c]) : Ran(c, seen)[i] \in Seq(AllSteps)
  /\ Missing(c, seen) = Ran(c, seen)[Len(Steps[c])]

(* That is what ran of a version after each of its steps. *)
LEMMA RanSteps == ASSUME NEW c \in Code, NEW seen PROVE RanFits(c, seen)
<1>1. PICK s : s = Steps[c]
  OBVIOUS
<1>2. PICK F : F = [step \in Range(s) |-> IF step \in seen THEN <<>> ELSE <<step>>]
  OBVIOUS
<1>3. s \in Seq(AllSteps) /\ Range(s) \subseteq AllSteps /\ Len(s) \in Nat /\ DOMAIN s = 1..Len(s)
  BY <1>1, Stepped, LenProperties
<1>4. \A i \in 1..Len(s) : s[i] \in AllSteps /\ F[s[i]] = IF s[i] \in seen THEN <<>> ELSE <<s[i]>>
  BY <1>2, <1>3 DEF Range
<1>5. \A i \in 1..Len(s) : F[s[i]] \in Seq(AllSteps)
  <2>1. \A x \in AllSteps : <<x>> \in Seq(AllSteps)
    OBVIOUS
  <2>2. <<>> \in Seq(AllSteps)
    BY EmptySeq
  <2>3. QED
    BY <1>4, <2>1, <2>2
<1>6. PICK g : g = Gathered(s, F)
  OBVIOUS
<1>7. Gathers(AllSteps, s, F, g)
  BY <1>3, <1>5, <1>6, GatheredSteps
<1>8. g \in [0..Len(s) -> Seq(AllSteps)] /\ g[0] = <<>> /\ \A i \in 1..Len(s) : g[i] = g[i - 1] \o F[s[i]]
  BY <1>7 DEF Gathers
<1>9. g = Ran(c, seen)
  BY <1>1, <1>2, <1>6 DEF Ran
<1>10. Missing(c, seen) = g[Len(s)]
  BY <1>1, <1>2, <1>6 DEF Missing, Gather
<1>11. \A i \in 1..Len(s) : g[i] = g[i - 1] \o (IF s[i] \in seen THEN <<>> ELSE <<s[i]>>)
  BY <1>4, <1>8
<1>12. QED
  BY <1>1, <1>8, <1>9, <1>10, <1>11 DEF RanFits

(* A process gets the lock, and reads the ledger. *)
LEMMA LockIInv == ASSUME IInv, NEW p \in Proc, Lock(p) PROVE IInv'
<1>1. /\ life[p] \in [at : At, boots : Nat, starts : Nat, adds : Nat, up : SUBSET Plugins] /\ life \in Lives
      /\ UpFits(p) /\ CountsFit(p) /\ code[p] \in Code /\ Typed
  BY OfProcess DEF IInv
<1>2. PICK l : l = [life[p] EXCEPT !.at = "migrating"]
  OBVIOUS
<1>3. /\ l \in [at : At, boots : Nat, starts : Nat, adds : Nat, up : SUBSET Plugins]
      /\ l.at = "migrating" /\ l.boots = life[p].boots /\ l.starts = life[p].starts /\ l.adds = life[p].adds
      /\ l.up = life[p].up
  <2>1. "migrating" \in At
    BY DEF At
  <2>2. QED
    BY <1>1, <1>2, <2>1
<1>4. PICK t : t = [seen |-> Seen, left |-> Steps[code[p]], ran |-> <<>>]
  OBVIOUS
<1>5. /\ life' = [life EXCEPT ![p] = l] /\ code' = code /\ log' = log /\ lists' = lists /\ stops' = stops
      /\ tx' = [tx EXCEPT ![p] = t] /\ \A q \in Proc : life[q].at # "migrating"
  BY <1>1, <1>2, <1>4 DEF Lock, Goes, Locked, Lives
<1>6. /\ life'[p] = l /\ tx'[p] = t
      /\ \A q \in Proc \ {p} : life'[q] = life[q] /\ tx'[q] = tx[q]
  BY <1>1, <1>5 DEF Lives, Ledgers, Typed
<1>7. t.seen = Range(log) /\ Range(log) \in SUBSET AllSteps
  <2>1. log \in [1..Len(log) -> AllSteps]
    BY <1>1, LenProperties DEF Typed
  <2>2. QED
    BY <1>4, <2>1 DEF Seen, Range
<1>8. Typed'
  <2>1. life' \in Lives
    BY <1>1, <1>3, <1>5 DEF Lives
  <2>2. Steps[code[p]] \in Seq(AllSteps) /\ <<>> \in Seq(AllSteps)
    BY <1>1, Stepped, EmptySeq
  <2>3. t \in [seen : SUBSET AllSteps, left : Seq(AllSteps), ran : Seq(AllSteps)]
    BY <1>4, <1>7, <2>2 DEF Seen
  <2>4. tx' \in Ledgers
    BY <1>1, <1>5, <2>3 DEF Ledgers, Typed
  <2>5. QED
    BY <1>1, <1>5, <2>1, <2>4 DEF Typed
<1>9. UpFits(p)'
  BY <1>3, <1>5, <1>6, UpStays
<1>10. CountsFit(p)'
  BY <1>1, <1>3, <1>5, <1>6 DEF CountsFit
<1>11. \A q \in Proc : UpFits(q)' /\ CountsFit(q)'
  BY <1>5, <1>6, <1>9, <1>10, OthersFit
<1>12. Behind(p, 0)' /\ 0 \in 0..Len(Steps[code'[p]])
  <2>1. PICK s : s = Steps[code[p]]
    OBVIOUS
  <2>2. Len(s) \in Nat
    BY <1>1, <2>1, Stepped, LenProperties
  <2>3. tx'[p].ran = Ran(code[p], tx'[p].seen)[0]
    <3>1. PICK c \in Code : c = code[p]
      BY <1>1
    <3>2. PICK seen : seen = tx'[p].seen
      OBVIOUS
    <3>3. RanFits(c, seen)
      BY RanSteps
    <3>4. tx'[p].ran = <<>>
      BY <1>4, <1>6
    <3>5. QED
      BY <3>1, <3>2, <3>3, <3>4 DEF RanFits
  <2>4. tx'[p].left = s
    BY <1>4, <1>6, <2>1
  <2>5. \A j \in 1..Len(s) : s[j] = s[0 + j]
    BY <2>2
  <2>6. Len(s) = Len(s) - 0
    BY <2>2
  <2>7. QED
    BY <1>5, <2>1, <2>2, <2>3, <2>4, <2>5, <2>6 DEF Behind
<1>13. ASSUME NEW q \in Proc PROVE TxFits(q)'
  <2>1. CASE q = p
    <3>1. life'[p].at = "migrating" /\ tx'[p].seen = Range(log')
      BY <1>3, <1>5, <1>6, <1>7
    <3>2. \A r \in Proc : life'[r].at = "migrating" => r = p
      BY <1>5, <1>6
    <3>3. \E i \in 0..Len(Steps[code'[p]]) : Behind(p, i)'
      BY <1>12
    <3>4. QED
      BY <2>1, <3>1, <3>2, <3>3 DEF TxFits
  <2>2. CASE q # p
    <3>1. TxFits(q) /\ life[q].at # "migrating" /\ life'[q] = life[q] /\ tx'[q] = tx[q]
      BY <1>5, <1>6, <2>2 DEF IInv
    <3>2. QED
      BY <3>1 DEF TxFits
  <2>3. QED
    BY <2>1, <2>2
<1>14. QED
  BY <1>8, <1>11, <1>13 DEF IInv

(* A step is known when the ledger holds it, as it is, or it was edited. *)
LEMMA KnownIsSeen ==
  ASSUME IInv, NEW p \in Proc, life[p].at = "migrating",
         NEW step \in Range(Steps[code[p]]), ~Edited(p, step)
  PROVE  Known(p, step) <=> step \in tx[p].seen
<1>1. code[p] \in Code /\ tx[p].seen \subseteq AllSteps
  BY DEF IInv, Typed, Ledgers
<1>2. ASSUME step \in tx[p].seen PROVE Known(p, step)
  BY <1>2 DEF Known, Same
<1>3. ASSUME Known(p, step) PROVE step \in tx[p].seen
  <2>1. PICK s \in tx[p].seen : Same(s, step)
    BY <1>3 DEF Known
  <2>2. s.hash = step.hash
    BY <2>1 DEF Edited
  <2>3. PICK c \in Code : s \in Range(Steps[c])
    BY <1>1 DEF AllSteps
  <2>4. s = step
    BY <1>1, <2>1, <2>2, <2>3, HashAssumption
  <2>5. QED
    BY <2>4
<1>4. QED
  BY <1>2, <1>3

(* A step is passed over, or runs. *)
LEMMA MigrateIInv == ASSUME IInv, NEW p \in Proc, Migrate(p) PROVE IInv'
<1>1. /\ life[p] \in [at : At, boots : Nat, starts : Nat, adds : Nat, up : SUBSET Plugins] /\ life \in Lives
      /\ UpFits(p) /\ CountsFit(p) /\ TxFits(p) /\ code[p] \in Code /\ Typed
  BY OfProcess DEF IInv
<1>2. PICK left : left = tx[p].left
  OBVIOUS
<1>3. PICK step : step = Head(left)
  OBVIOUS
<1>4. PICK ran : ran = IF Known(p, step) THEN tx[p].ran ELSE Append(tx[p].ran, step)
  OBVIOUS
<1>5. PICK t : t = [tx[p] EXCEPT !.left = Tail(left), !.ran = ran]
  OBVIOUS
<1>6. tx[p] \in [seen : SUBSET AllSteps, left : Seq(AllSteps), ran : Seq(AllSteps)]
  BY <1>1 DEF Typed, Ledgers
<1>7. /\ life[p].at = "migrating" /\ left # <<>> /\ ~Edited(p, step) /\ tx' = [tx EXCEPT ![p] = t]
      /\ UNCHANGED <<code, life, log, lists, stops>>
  BY <1>1, <1>2, <1>3, <1>4, <1>5 DEF Migrate, Typed, Ledgers
<1>8. left \in Seq(AllSteps) /\ Len(left) \in Nat /\ Len(left) # 0
  BY <1>2, <1>6, <1>7, EmptySeq
<1>9. /\ step = left[1] /\ step \in AllSteps
      /\ Tail(left) \in Seq(AllSteps) /\ Len(Tail(left)) = Len(left) - 1
      /\ \A j \in 1..(Len(left) - 1) : Tail(left)[j] = left[j + 1]
  BY <1>3, <1>7, <1>8, HeadTailProperties, ElementOfSeq
<1>10. ran \in Seq(AllSteps)
  BY <1>4, <1>6, <1>9, AppendProperties
<1>11. /\ t \in [seen : SUBSET AllSteps, left : Seq(AllSteps), ran : Seq(AllSteps)]
       /\ t.seen = tx[p].seen /\ t.left = Tail(left) /\ t.ran = ran
  BY <1>5, <1>6, <1>9, <1>10
<1>12. tx'[p] = t /\ \A q \in Proc \ {p} : tx'[q] = tx[q]
  BY <1>1, <1>7 DEF Typed, Ledgers
<1>13. Typed'
  <2>1. tx' \in Ledgers
    BY <1>1, <1>7, <1>11 DEF Typed, Ledgers
  <2>2. QED
    BY <1>1, <1>7, <2>1 DEF Typed
<1>14. \A q \in Proc : UpFits(q)' /\ CountsFit(q)'
  <2>1. UpFits(p)'
    BY <1>1, <1>7, UpStays DEF UpFits
  <2>2. CountsFit(p)'
    BY <1>1, <1>7 DEF CountsFit
  <2>3. QED
    BY <1>7, <2>1, <2>2, OthersFit
<1>15. PICK i \in 0..Len(Steps[code[p]]) : Behind(p, i)
  BY <1>1, <1>7 DEF TxFits
<1>16. PICK s : s = Steps[code[p]]
  OBVIOUS
<1>17. Len(s) \in Nat /\ DOMAIN s = 1..Len(s) /\ s \in Seq(AllSteps)
  BY <1>1, <1>16, Stepped, LenProperties
<1>18. /\ tx[p].ran = Ran(code[p], tx[p].seen)[i] /\ Len(left) = Len(s) - i
       /\ \A j \in 1..Len(left) : left[j] = s[i + j]
  BY <1>2, <1>15, <1>16 DEF Behind
<1>19. i + 1 \in 1..Len(s) /\ step = s[i + 1] /\ step \in Range(s)
  <2>1. i \in Nat /\ i + 1 \in 1..Len(s) /\ 1 \in 1..Len(left)
    BY <1>8, <1>16, <1>17, <1>18
  <2>2. step = s[i + 1]
    BY <1>9, <1>18, <2>1
  <2>3. QED
    BY <1>17, <2>1, <2>2 DEF Range
<1>20. Behind(p, i + 1)'
  <2>1. Known(p, step) <=> step \in tx[p].seen
    BY <1>7, <1>16, <1>19, KnownIsSeen
  <2>2. Ran(code[p], tx[p].seen)[i + 1] = tx[p].ran \o (IF step \in tx[p].seen THEN <<>> ELSE <<step>>)
    <3>1. PICK c \in Code : c = code[p]
      BY <1>1
    <3>2. PICK seen : seen = tx[p].seen
      OBVIOUS
    <3>3. RanFits(c, seen)
      BY RanSteps
    <3>4. (i + 1) - 1 = i /\ i + 1 \in 1..Len(Steps[c]) /\ Steps[c][i + 1] = step
      BY <1>16, <1>17, <1>19, <3>1
    <3>5. Ran(c, seen)[i + 1] = Ran(c, seen)[i] \o (IF step \in seen THEN <<>> ELSE <<step>>)
      BY <3>3, <3>4 DEF RanFits
    <3>6. QED
      BY <1>18, <3>1, <3>2, <3>5
  <2>3. ran = Ran(code[p], tx[p].seen)[i + 1]
    <3>1. tx[p].ran \o <<>> = tx[p].ran
      BY <1>6, ConcatEmptySeq
    <3>2. Append(tx[p].ran, step) = tx[p].ran \o <<step>>
      BY <1>6, <1>9, AppendIsConcat
    <3>3. QED
      BY <1>4, <2>1, <2>2, <3>1, <3>2
  <2>4. Len(Tail(left)) = Len(s) - (i + 1)
    BY <1>9, <1>17, <1>16, <1>18
  <2>5. ASSUME NEW j \in 1..Len(Tail(left)) PROVE Tail(left)[j] = s[(i + 1) + j]
    <3>1. j \in 1..(Len(left) - 1) /\ j + 1 \in 1..Len(left) /\ i + (j + 1) = (i + 1) + j
      BY <1>8, <1>9, <1>16, <1>17
    <3>2. QED
      BY <1>9, <1>18, <3>1
  <2>6. tx'[p].left = Tail(left) /\ tx'[p].ran = ran /\ tx'[p].seen = tx[p].seen /\ code'[p] = code[p]
    BY <1>7, <1>11, <1>12
  <2>7. tx'[p].ran = Ran(code'[p], tx'[p].seen)[i + 1]
    BY <2>3, <2>6
  <2>8. /\ Len(tx'[p].left) = Len(Steps[code'[p]]) - (i + 1)
        /\ \A j \in 1..Len(tx'[p].left) : tx'[p].left[j] = Steps[code'[p]][(i + 1) + j]
    BY <1>16, <2>4, <2>5, <2>6
  <2>9. QED
    BY <2>7, <2>8 DEF Behind
<1>21. ASSUME NEW q \in Proc PROVE TxFits(q)'
  <2>1. CASE q = p
    <3>1. life'[p].at = "migrating" /\ tx'[p].seen = Range(log')
      BY <1>1, <1>7, <1>11, <1>12 DEF TxFits
    <3>2. \A r \in Proc : life'[r].at = "migrating" => r = p
      BY <1>1, <1>7 DEF TxFits
    <3>3. i + 1 \in 0..Len(Steps[code'[p]])
      BY <1>7, <1>16, <1>17, <1>19
    <3>4. QED
      BY <1>20, <2>1, <3>1, <3>2, <3>3 DEF TxFits
  <2>2. CASE q # p
    <3>1. TxFits(q) /\ life[q].at # "migrating" /\ life'[q] = life[q] /\ tx'[q] = tx[q]
      BY <1>1, <1>7, <1>12, <2>2 DEF IInv, TxFits
    <3>2. QED
      BY <3>1 DEF TxFits
  <2>3. QED
    BY <2>1, <2>2
<1>22. QED
  BY <1>13, <1>14, <1>21 DEF IInv

(* A migration ends, whatever of it is kept. *)
LEMMA EndsIInv ==
  ASSUME IInv, NEW p \in Proc, life[p].at = "migrating", NEW kept \in Seq(AllSteps),
         NEW at \in {"refused", "migrated"}, Ends(p, kept, at)
  PROVE  IInv'
<1>1. /\ life[p] \in [at : At, boots : Nat, starts : Nat, adds : Nat, up : SUBSET Plugins] /\ life \in Lives
      /\ UpFits(p) /\ CountsFit(p) /\ Typed
  BY OfProcess DEF IInv
<1>2. PICK l : l = [life[p] EXCEPT !.at = at]
  OBVIOUS
<1>3. /\ l \in [at : At, boots : Nat, starts : Nat, adds : Nat, up : SUBSET Plugins]
      /\ l.at = at /\ l.boots = life[p].boots /\ l.starts = life[p].starts /\ l.adds = life[p].adds
      /\ l.up = life[p].up
  <2>1. at \in At
    BY DEF At
  <2>2. QED
    BY <1>1, <1>2, <2>1
<1>4. /\ life' = [life EXCEPT ![p] = l] /\ code' = code /\ log' = log \o kept
      /\ lists' = lists /\ stops' = stops /\ tx' = [tx EXCEPT ![p] = NoTx]
  BY <1>1, <1>2 DEF Ends, Goes, Lives
<1>5. /\ life'[p] = l /\ tx'[p] = NoTx
      /\ \A q \in Proc \ {p} : life'[q] = life[q] /\ tx'[q] = tx[q]
  BY <1>1, <1>4 DEF Lives, Ledgers, Typed
<1>6. Typed'
  <2>1. life' \in Lives
    BY <1>1, <1>3, <1>4 DEF Lives
  <2>2. NoTx \in [seen : SUBSET AllSteps, left : Seq(AllSteps), ran : Seq(AllSteps)]
    BY EmptySeq DEF NoTx
  <2>3. tx' \in Ledgers
    BY <1>1, <1>4, <2>2 DEF Ledgers, Typed
  <2>4. log \o kept \in Seq(AllSteps)
    BY <1>1, ConcatProperties DEF Typed
  <2>5. QED
    BY <1>1, <1>4, <2>1, <2>3, <2>4 DEF Typed
<1>7. UpFits(p)'
  BY <1>1, <1>3, <1>4, <1>5, UpStays DEF UpFits
<1>8. CountsFit(p)'
  BY <1>1, <1>3, <1>4, <1>5 DEF CountsFit
<1>9. \A q \in Proc : UpFits(q)' /\ CountsFit(q)'
  BY <1>4, <1>5, <1>7, <1>8, OthersFit
<1>10. \A q \in Proc : TxFits(q)'
  BY <1>3, <1>4, <1>5, TxLeaves
<1>11. QED
  BY <1>6, <1>9, <1>10 DEF IInv

(* A step fails: nothing is kept. *)
LEMMA MigrationFailsIInv == ASSUME IInv, NEW p \in Proc, MigrationFails(p) PROVE IInv'
<1>1. life[p].at = "migrating" /\ Ends(p, <<>>, "refused")
  BY DEF MigrationFails, KeptOfFailed
<1>2. <<>> \in Seq(AllSteps)
  BY EmptySeq
<1>3. QED
  BY <1>1, <1>2, EndsIInv

(* No step is left: what ran is committed. *)
LEMMA CommitIInv == ASSUME IInv, NEW p \in Proc, Commit(p) PROVE IInv'
<1>1. life[p].at = "migrating" /\ Ends(p, tx[p].ran, "migrated")
  BY DEF Commit
<1>2. tx[p].ran \in Seq(AllSteps)
  BY DEF IInv, Typed, Ledgers
<1>3. QED
  BY <1>1, <1>2, EndsIInv

(* A step that changes nothing keeps it. *)
LEMMA StutterIInv == ASSUME IInv, UNCHANGED vars PROVE IInv'
<1>1. UNCHANGED <<code, life, log, tx, lists, stops>>
  BY DEF vars
<1>2. Typed'
  BY <1>1 DEF IInv, Typed
<1>3. ASSUME NEW p \in Proc PROVE UpFits(p)' /\ CountsFit(p)'
  <2>1. UpFits(p) /\ CountsFit(p)
    BY DEF IInv
  <2>2. UpFits(p)'
    BY <1>1, <2>1, UpStays DEF UpFits
  <2>3. CountsFit(p)'
    BY <1>1, <2>1 DEF CountsFit
  <2>4. QED
    BY <2>2, <2>3
<1>4. \A q \in Proc : TxFits(q)'
  BY <1>1, TxStays
<1>5. QED
  BY <1>2, <1>3, <1>4 DEF IInv

(* Every step keeps it. *)
LEMMA NextIInv == IInv /\ [Next]_vars => IInv'
<1>1. SUFFICES ASSUME IInv, [Next]_vars PROVE IInv'
  OBVIOUS
<1>2. CASE UNCHANGED vars
  BY <1>1, <1>2, StutterIInv
<1>3. ASSUME NEW p \in Proc,
             \/ Boot(p) \/ Lock(p) \/ GivesUp(p) \/ Migrate(p) \/ MigrationFails(p) \/ Commit(p)
             \/ StartKernel(p) \/ SetUp(p) \/ SetupThrows(p) \/ Stop(p) \/ TearDown(p)
             \/ Set(p) \/ CallStop(p) \/ Crash(p)
      PROVE  IInv'
  BY <1>1, <1>3, BootIInv, LockIInv, GivesUpIInv, MigrateIInv, MigrationFailsIInv, CommitIInv, StartKernelIInv,
     SetUpIInv, SetupThrowsIInv, StopIInv, TearDownIInv, SetIInv, CallStopIInv, CrashIInv
<1>4. QED
  BY <1>1, <1>2, <1>3 DEF Next

(* The invariant holds of every behaviour. *)
THEOREM Invariant == Spec => []IInv
<1>1. IInv /\ [Next]_vars => IInv'
  BY NextIInv
<1>2. QED
  BY <1>1, InitIInv, PTL DEF Spec

-----------------------------------------------------------------------------
(* What it names is up *)

(* What a plugin names, it depends on, where the kernel found nothing wrong. *)
LEMMA ReachesNeeds ==
  ASSUME NEW c \in Code, MayStart[c], NEW n \in Names(Declares[c])
  PROVE  Reaches(c, n) \subseteq Needs(Declares[c], n)
<1>1. PICK app : app = Declares[c]
  OBVIOUS
<1>2. Stands(app)
  BY <1>1 DEF MayStart
<1>3. PICK d \in Defs(app) : d = Def(app, n) /\ d.name = n
  <2>1. \E e \in Defs(app) : e.name = n
    BY <1>1 DEF Names
  <2>2. QED
    BY <2>1 DEF Def
<1>4. ReachesDeclared(app, d)
  BY <1>2 DEF Stands
<1>5. d.needs \subseteq Names(app) /\ \A x \in Asks(d) \cup DOMAIN d.adds : x.of \in d.needs \cup {n}
  BY <1>3, <1>4 DEF ReachesDeclared
<1>6. Needs(app, n) = d.needs
  BY <1>3, <1>5 DEF Needs
<1>7. Reaches(c, n) = (d.needs \cup {x.of : x \in Asks(d) \cup DOMAIN d.adds}) \ {n}
  BY <1>1, <1>3 DEF Reaches
<1>8. \A y \in Reaches(c, n) : y \in d.needs
  <2>1. ASSUME NEW y \in Reaches(c, n), y \notin d.needs PROVE FALSE
    <3>1. y # n /\ \E x \in Asks(d) \cup DOMAIN d.adds : y = x.of
      BY <1>7, <2>1
    <3>2. y \in d.needs \cup {n}
      BY <1>5, <3>1
    <3>3. QED
      BY <2>1, <3>1, <3>2
  <2>2. QED
    BY <2>1
<1>9. QED
  BY <1>1, <1>6, <1>8

(* The invariant says so. *)
LEMMA IInvNames == ASSUME IInv PROVE WhatItNamesIsUp
<1>1. TypeOK
  <2>1. code \in Deployed
    BY DEF IInv, Typed
  <2>2. ASSUME NEW p \in Proc
        PROVE  /\ life[p].at \in At /\ life[p].up \subseteq Range(Order[code[p]])
               /\ life[p].boots <= MaxBoots[p] /\ life[p].starts <= MaxStarts /\ life[p].adds <= MaxAdds[p]
               /\ tx[p] # NoTx => life[p].at = "migrating"
               /\ DOMAIN lists[p] \subseteq Registered(code[p])
               /\ \A c \in stops[p] : c.n \in 1..life[p].adds
    <3>1. /\ life[p] \in [at : At, boots : Nat, starts : Nat, adds : Nat, up : SUBSET Plugins]
          /\ UpFits(p) /\ CountsFit(p) /\ TxFits(p) /\ Len(Order[code[p]]) \in Nat
          /\ Range(Order[code[p]]) = {Order[code[p]][j] : j \in 1..Len(Order[code[p]])}
      BY OfProcess
    <3>2. PICK i \in 0..Len(Order[code[p]]) : life[p].up = Places(p, i)
      BY <3>1 DEF UpFits
    <3>3. \A j \in 1..i : j \in 1..Len(Order[code[p]])
      BY <3>1
    <3>4. life[p].up \subseteq Range(Order[code[p]])
      BY <3>1, <3>2, <3>3 DEF Places
    <3>5. QED
      BY <3>1, <3>4 DEF CountsFit, TxFits
  <2>3. QED
    BY <2>1, <2>2 DEF TypeOK
<1>2. ASSUME NEW p \in Proc, NEW n \in life[p].up, NEW m \in Reaches(code[p], n) PROVE m \in life[p].up
  <2>1. UpFits(p) /\ code[p] \in Code
    BY OfProcess
  <2>2. MayStart[code[p]]
    BY <2>1 DEF UpFits
  <2>3. PICK i \in 0..Len(Order[code[p]]) : life[p].up = Places(p, i)
    BY <2>1 DEF UpFits
  <2>4. PICK s : s = Order[code[p]]
    OBVIOUS
  <2>5. s \in Seq(Names(Declares[code[p]])) /\ Follows(Declares[code[p]], s)
    BY <2>1, <2>2, <2>4, Ordered
  <2>6. Len(s) \in Nat
    BY <2>5, LenProperties
  <2>7. PICK j \in 1..i : n = s[j]
    BY <2>3, <2>4 DEF Places
  <2>8. j \in 1..Len(s)
    BY <2>4, <2>6
  <2>9. n \in Names(Declares[code[p]])
    BY <2>5, <2>7, <2>8, ElementOfSeq
  <2>10. m \in Needs(Declares[code[p]], s[j])
    BY <2>1, <2>2, <2>7, <2>9, ReachesNeeds
  <2>11. PICK k \in 1..(j - 1) : s[k] = m
    BY <2>5, <2>8, <2>10 DEF Follows
  <2>12. k \in 1..i
    BY <2>4, <2>6
  <2>13. QED
    BY <2>3, <2>4, <2>11, <2>12 DEF Places
<1>3. QED
  BY <1>1, <1>2 DEF WhatItNamesIsUp

(* In every reachable state, whatever a plugin that is up names is up as well, *)
(* as it was when its setup ran and until its teardown has.                    *)
THEOREM NamedIsUp == Spec => []WhatItNamesIsUp
<1>1. IInv => WhatItNamesIsUp
  BY IInvNames
<1>2. QED
  BY <1>1, Invariant, PTL

-----------------------------------------------------------------------------
(* A boot migrates whole *)

(* Whoever commits adds all that was missing. *)
LEMMA CommitWhole ==
  ASSUME IInv, NEW p \in Proc, Commit(p)
  PROVE  log' = log \o Missing(code[p], Range(log))
<1>1. /\ life[p].at = "migrating" /\ tx[p].left = <<>> /\ log' = log \o tx[p].ran /\ code[p] \in Code
  BY OfProcess DEF Commit, Ends
<1>2. tx[p].seen = Range(log) /\ \E i \in 0..Len(Steps[code[p]]) : Behind(p, i)
  BY <1>1 DEF IInv, TxFits
<1>3. PICK i \in 0..Len(Steps[code[p]]) : Behind(p, i)
  BY <1>2
<1>4. PICK c \in Code : c = code[p]
  BY <1>1
<1>5. PICK seen : seen = Range(log)
  OBVIOUS
<1>6. RanFits(c, seen)
  BY RanSteps
<1>7. Len(Steps[c]) \in Nat
  BY Stepped, LenProperties
<1>8. Len(tx[p].left) = 0
  BY <1>1
<1>9. i = Len(Steps[c])
  BY <1>3, <1>4, <1>7, <1>8 DEF Behind
<1>10. tx[p].ran = Ran(c, seen)[Len(Steps[c])]
  BY <1>2, <1>3, <1>4, <1>5, <1>9 DEF Behind
<1>11. tx[p].ran = Missing(c, seen)
  BY <1>6, <1>10 DEF RanFits
<1>12. QED
  BY <1>1, <1>4, <1>5, <1>11

(* The database takes all the steps a boot found missing, or none. *)
THEOREM TakenWhole == Spec => MigratesWhole
<1> DEFINE Whole == log' # log => \E p \in Proc : log' = log \o Missing(code[p], Range(log))
<1>1. IInv /\ [Next]_vars => [Whole]_vars
  <2>1. SUFFICES ASSUME IInv, Next, log' # log PROVE Whole
    BY DEF vars
  <2>2. log \in Seq(AllSteps)
    BY <2>1 DEF IInv, Typed
  <2>3. PICK p \in Proc : Commit(p) \/ MigrationFails(p)
    BY <2>1 DEF Next, Boot, Lock, GivesUp, Migrate, StartKernel, SetUp, SetupThrows, Stop, TearDown, Set, CallStop,
       Crash
  <2>4. CASE Commit(p)
    BY <2>1, <2>4, CommitWhole
  <2>5. CASE MigrationFails(p)
    <3>1. log' = log \o <<>>
      BY <2>5 DEF MigrationFails, KeptOfFailed, Ends
    <3>2. log \o <<>> = log
      BY <2>2, ConcatEmptySeq
    <3>3. QED
      BY <2>1, <3>1, <3>2
  <2>6. QED
    BY <2>3, <2>4, <2>5
<1>2. QED
  BY <1>1, Invariant, PTL DEF Spec, MigratesWhole

-----------------------------------------------------------------------------
(* An entry leaves by its own stop *)

\* what the property says of one process in one step
Leaves(p) ==
  life'[p].starts = life[p].starts =>
    \A r \in DOMAIN lists[p] : \A k \in DOMAIN lists[p][r] :
      k \notin DOMAIN lists'[p][r] => \E c \in stops[p] \ stops'[p] : c.n = lists[p][r][k].n

(* Of the process that moves, each of its steps. *)
LEMMA LeavesByStep ==
  ASSUME IInv, NEW p \in Proc, NEW q \in Proc,
         \/ Boot(q) \/ Lock(q) \/ GivesUp(q) \/ Migrate(q) \/ MigrationFails(q) \/ Commit(q)
         \/ StartKernel(q) \/ SetUp(q) \/ SetupThrows(q) \/ Stop(q) \/ TearDown(q)
         \/ Set(q) \/ CallStop(q) \/ Crash(q)
  PROVE  Leaves(p)
<1>1. /\ life[p] \in [at : At, boots : Nat, starts : Nat, adds : Nat, up : SUBSET Plugins] /\ life \in Lives
      /\ CountsFit(p) /\ Typed
  BY OfProcess DEF IInv
<1>2. CASE lists' = lists
  BY <1>2 DEF Leaves
<1>3. CASE StartKernel(q)
  <2>1. CASE q = p
    <3>1. life'[p].starts = life[p].starts + 1
      BY <1>1, <1>3, <2>1 DEF StartKernel, Lives
    <3>2. QED
      BY <1>1, <3>1 DEF Leaves
  <2>2. CASE q # p
    <3>1. lists'[p] = lists[p]
      BY <1>1, <1>3, <2>2 DEF StartKernel, Typed
    <3>2. QED
      BY <3>1 DEF Leaves
  <2>3. QED
    BY <2>1, <2>2
<1>4. CASE Set(q)
  <2>1. PICK n, e, r :
          /\ lists' = [lists EXCEPT ![q][r] = With(@, n, e, life[q].adds + 1)]
          /\ stops' = [stops EXCEPT ![q] = @ \cup {[registry |-> r, key |-> e.key, n |-> life[q].adds + 1]}]
    BY <1>4, SetAdds
  <2>2. PICK new : new = With(lists[q][r], n, e, life[q].adds + 1)
    OBVIOUS
  <2>3. DOMAIN lists[q][r] \subseteq DOMAIN new
    BY <2>2 DEF With
  <2>4. lists' = [lists EXCEPT ![q] = [lists[q] EXCEPT ![r] = new]]
    BY <2>1, <2>2
  <2>5. ASSUME NEW x \in DOMAIN lists[p], NEW k \in DOMAIN lists[p][x] PROVE k \in DOMAIN lists'[p][x]
    <3>1. CASE q = p /\ x = r
      BY <1>1, <2>3, <2>4, <3>1 DEF Typed
    <3>2. CASE ~(q = p /\ x = r)
      <4>1. lists'[p][x] = lists[p][x]
        BY <1>1, <2>4, <3>2 DEF Typed
      <4>2. QED
        BY <4>1
    <3>3. QED
      BY <3>1, <3>2
  <2>6. QED
    BY <2>5 DEF Leaves
<1>5. CASE CallStop(q)
  <2>1. PICK c \in stops[q] :
          /\ lists' = [lists EXCEPT ![q][c.registry] = Stopped(@, c.key, c.n)]
          /\ stops' = [stops EXCEPT ![q] = @ \ {c}]
    BY <1>5 DEF CallStop
  <2>2. PICK new : new = Stopped(lists[q][c.registry], c.key, c.n)
    OBVIOUS
  <2>3. lists' = [lists EXCEPT ![q] = [lists[q] EXCEPT ![c.registry] = new]]
    BY <2>1, <2>2
  <2>4. ASSUME NEW x \in DOMAIN lists[p], NEW k \in DOMAIN lists[p][x], k \notin DOMAIN lists'[p][x]
        PROVE  \E s \in stops[p] \ stops'[p] : s.n = lists[p][x][k].n
    <3>1. q = p /\ x = c.registry
      <4>1. SUFFICES ASSUME ~(q = p /\ x = c.registry) PROVE FALSE
        OBVIOUS
      <4>2. lists'[p][x] = lists[p][x]
        BY <1>1, <2>3, <4>1 DEF Typed
      <4>3. QED
        BY <2>4, <4>2
    <3>2. lists'[p][x] = new
      BY <1>1, <2>3, <3>1 DEF Typed
    <3>3. k \notin DOMAIN Stopped(lists[p][x], c.key, c.n)
      BY <2>2, <2>4, <3>1, <3>2
    <3>4. k = c.key /\ lists[p][x][k].n = c.n
      BY <2>4, <3>3 DEF Stopped, Without
    <3>5. c \in stops[p] \ stops'[p]
      BY <1>1, <2>1, <3>1 DEF Typed
    <3>6. QED
      BY <3>4, <3>5
  <2>5. QED
    BY <2>4 DEF Leaves
<1>6. CASE Crash(q)
  <2>1. CASE q = p
    <3>1. life'[p].starts = 0
      BY <1>1, <1>6, <2>1 DEF Crash, NoLife, Lives
    <3>2. QED
      BY <1>1, <3>1 DEF Leaves, CountsFit
  <2>2. CASE q # p
    <3>1. lists'[p] = lists[p]
      BY <1>1, <1>6, <2>2 DEF Crash, Typed
    <3>2. QED
      BY <3>1 DEF Leaves
  <2>3. QED
    BY <2>1, <2>2
<1>7. QED
  BY <1>2, <1>3, <1>4, <1>5, <1>6
     DEF Boot, Lock, GivesUp, Migrate, MigrationFails, Commit, Ends, SetUp, SetupThrows, Stop, TearDown

(* The stop of an add takes out that add and no other. *)
THEOREM OnlyItsOwnStop == Spec => LeavesByItsOwnStop
<1>1. IInv /\ [Next]_vars => [\A p \in Proc : Leaves(p)]_vars
  <2>1. SUFFICES ASSUME IInv, Next, NEW p \in Proc PROVE Leaves(p)
    BY DEF vars
  <2>2. QED
    BY <2>1, LeavesByStep DEF Next
<1>2. QED
  BY <1>1, Invariant, PTL DEF Spec, LeavesByItsOwnStop, Leaves

-----------------------------------------------------------------------------
(* The schema is applied *)

\* nothing that depends on anything
NoApp == [given |-> <<>>]

(* So any sequence is in order. *)
LEMMA NoAppFollows == ASSUME NEW s PROVE Follows(NoApp, s)
<1>1. Range(<<>>) = {}
  BY DEF Range
<1>2. Names(NoApp) = {}
  BY <1>1 DEF NoApp, Names, Defs
<1>3. QED
  BY <1>2 DEF Follows, Needs

(* Loop or not, the order names every plugin. *)
LEMMA OrderNames ==
  ASSUME NEW app, Numbered(app)
  PROVE  \A n \in Names(app) : Has(InOrder(app), n)
<1>1. PICK N : N = Names(app) /\ N \in SUBSET Nat /\ IsFiniteSet(N)
  BY DEF Numbered
<1>2. PICK s : s = Ascending(N)
  OBVIOUS
<1>3. s \in Seq(N) /\ \A n \in N : Has(s, n)
  BY <1>1, <1>2, AscendingNames
<1>4. PICK F : F = Walk(app)[{}]
  OBVIOUS
<1>5. ASSUME NEW n \in N PROVE F[n] \in Seq(N) /\ Has(F[n], n)
  <2>1. F[n] \in Seq(N)
    BY <1>1, <1>4, WalkIsSequence
  <2>2. F[n] = WalkStep(app, Walk(app), n, {})
    BY <1>1, <1>4, WalkGoes
  <2>3. \A m \in Names(app) : Walk(app)[{} \cup {n}][m] \in Seq(Names(app))
    <3>1. {} \cup {n} \in SUBSET Names(app)
      BY <1>1
    <3>2. QED
      BY <3>1, WalkIsSequence
  <2>4. PICK W : W = Needs(app, n)
    OBVIOUS
  <2>5. W \in SUBSET N /\ W \in SUBSET Nat /\ IsFiniteSet(W)
    BY <1>1, <2>4, FS_Subset DEF Needs
  <2>6. PICK a : a = Ascending(W)
    OBVIOUS
  <2>7. a \in Seq(W)
    BY <2>5, <2>6, AscendingNames
  <2>8. PICK G : G = Walk(app)[{} \cup {n}]
    OBVIOUS
  <2>9. Len(a) \in Nat /\ \A i \in 1..Len(a) : G[a[i]] \in Seq(N)
    BY <1>1, <2>3, <2>5, <2>7, <2>8, LenProperties, ElementOfSeq
  <2>10. PICK g : g = Gather(a, G)
    OBVIOUS
  <2>11. g \in Seq(N)
    BY <2>9, <2>10, GatherIsSequence
  <2>12. F[n] = Append(g, n)
    BY <2>2, <2>4, <2>6, <2>8, <2>10 DEF WalkStep
  <2>13. Len(F[n]) = Len(g) + 1 /\ F[n][Len(g) + 1] = n /\ Len(g) \in Nat
    BY <2>11, <2>12, AppendProperties, LenProperties
  <2>14. Len(g) + 1 \in 1..Len(F[n])
    BY <2>13
  <2>15. QED
    BY <2>1, <2>13, <2>14 DEF Has
<1>6. Len(s) \in Nat /\ \A i \in 1..Len(s) : s[i] \in N
  BY <1>3, LenProperties, ElementOfSeq
<1>7. PICK g : g = Gather(s, F)
  OBVIOUS
<1>8. \A i \in 1..Len(s) : F[s[i]] \in Seq(N)
  BY <1>5, <1>6
<1>9. g \in Seq(N)
  <2>1. Gather(s, F) \in Seq(N)
    BY <1>6, <1>8, GatherIsSequence
  <2>2. QED
    BY <1>7, <2>1
<1>10. \A n \in N : Has(g, n)
  <2>1. PICK none : none = NoApp
    OBVIOUS
  <2>2. \A i \in 1..Len(s) : Follows(none, F[s[i]])
    BY <2>1, NoAppFollows
  <2>3. \A i \in 1..Len(s) : \A y : Has(F[s[i]], y) => Has(Gather(s, F), y)
    BY <1>6, <1>8, <2>2, GatherFollows
  <2>4. ASSUME NEW n \in N PROVE Has(g, n)
    <3>1. PICK i \in 1..Len(s) : s[i] = n
      BY <1>3 DEF Has
    <3>2. QED
      BY <1>5, <1>7, <2>3, <3>1
  <2>5. QED
    BY <2>4
<1>11. \A x : Has(g, x) => Has(Once(g), x)
  <2>1. PICK none : none = NoApp
    OBVIOUS
  <2>2. Follows(none, g)
    BY <2>1, NoAppFollows
  <2>3. QED
    BY <1>9, <2>2, OnceFollows
<1>12. QED
  BY <1>1, <1>2, <1>4, <1>7, <1>10, <1>11 DEF InOrder

(* The migrations of every plugin are among the steps of its version. *)
LEMMA EveryMigration ==
  ASSUME NEW c \in Code, NEW d \in Defs(Declares[c]), d = Def(Declares[c], d.name), NEW i \in DOMAIN d.migrations
  PROVE  d.migrations[i] \in Range(Steps[c])
<1>1. PICK app : app = Declares[c]
  OBVIOUS
<1>2. PICK s : s = Order[c]
  OBVIOUS
<1>3. PICK B : B = UNION {Range(e.migrations) : e \in Defs(app)}
  OBVIOUS
<1>4. PICK F : F = [n \in Names(app) |-> Def(app, n).migrations]
  OBVIOUS
<1>5. ASSUME NEW n \in Names(app) PROVE F[n] \in Seq(B)
  <2>1. PICK e \in Defs(app) : e = Def(app, n)
    <3>1. Def(app, n) \in Defs(app)
      BY DEF Def, Names
    <3>2. QED
      BY <3>1
  <2>2. e.migrations \in Seq(Range(e.migrations)) /\ Range(e.migrations) \subseteq B
    BY <1>1, <1>3, DeclaresAssumption
  <2>3. e.migrations \in Seq(B)
    BY <2>2, SeqMonotonic
  <2>4. QED
    BY <1>4, <2>1, <2>3
<1>6. s \in Seq(Names(app)) /\ Len(s) \in Nat
  BY <1>1, <1>2, Ordered, LenProperties
<1>7. \A j \in 1..Len(s) : F[s[j]] \in Seq(B)
  BY <1>5, <1>6, ElementOfSeq
<1>8. PICK g : g = Gather(s, F)
  OBVIOUS
<1>9. g \in Seq(B)
  BY <1>6, <1>7, <1>8, GatherIsSequence
<1>10. Steps[c] = g
  BY <1>1, <1>2, <1>4, <1>8 DEF Steps, Migrations, Order
<1>11. \A j \in 1..Len(s) : \A y : Has(F[s[j]], y) => Has(g, y)
  <2>1. PICK none : none = NoApp
    OBVIOUS
  <2>2. \A j \in 1..Len(s) : Follows(none, F[s[j]])
    BY <2>1, NoAppFollows
  <2>3. \A j \in 1..Len(s) : \A y : Has(F[s[j]], y) => Has(Gather(s, F), y)
    BY <1>6, <1>7, <2>2, GatherFollows
  <2>4. QED
    BY <1>8, <2>3
<1>12. d.name \in Names(app)
  BY <1>1 DEF Names
<1>13. PICK j \in 1..Len(s) : s[j] = d.name
  <2>1. Numbered(app)
    BY <1>1, DeclaresAssumption DEF Numbered
  <2>2. Has(s, d.name)
    BY <1>1, <1>2, <1>12, <2>1, OrderNames DEF Order
  <2>3. QED
    BY <2>2 DEF Has
<1>14. F[s[j]] = d.migrations
  BY <1>1, <1>4, <1>12, <1>13
<1>15. i \in 1..Len(d.migrations)
  BY DeclaresAssumption, LenProperties
<1>16. Has(g, d.migrations[i])
  <2>1. Has(F[s[j]], d.migrations[i])
    BY <1>14, <1>15 DEF Has
  <2>2. QED
    BY <1>11, <2>1
<1>17. DOMAIN g = 1..Len(g)
  BY <1>9, LenProperties
<1>18. QED
  BY <1>10, <1>16, <1>17 DEF Has, Range

\* how far p got, and what that says of its version and of the database
Applied(p) ==
  /\ life[p].at \notin {"off", "refused"} => MayBoot[code[p]]
  /\ life[p].at \notin {"off", "refused", "waiting", "migrating"} => Range(Steps[code[p]]) \subseteq Range(log)
  /\ life[p].at \in {"setting up", "running"} => MayStart[code[p]]

(* Step by step, whatever the ledger lacked has run. *)
LEMMA RanNames ==
  ASSUME NEW c \in Code, NEW seen
  PROVE  \A i \in 0..Len(Steps[c]) : \A j \in 1..i : Steps[c][j] \in seen \/ Has(Ran(c, seen)[i], Steps[c][j])
<1>1. RanFits(c, seen)
  BY RanSteps
<1>2. PICK s : s = Steps[c]
  OBVIOUS
<1>3. s \in Seq(AllSteps) /\ DOMAIN s = 1..Len(s)
  BY <1>2, Stepped, LenProperties
<1>4. PICK n \in Nat : n = Len(s)
  BY <1>3, LenProperties
<1>5. PICK g : g = Ran(c, seen)
  OBVIOUS
<1>6. /\ g[0] = <<>> /\ \A i \in 0..n : g[i] \in Seq(AllSteps)
      /\ \A i \in 1..n : g[i] = g[i - 1] \o (IF s[i] \in seen THEN <<>> ELSE <<s[i]>>)
      /\ Missing(c, seen) = g[n]
  BY <1>1, <1>2, <1>4, <1>5 DEF RanFits
<1> DEFINE Fine(i) == \A j \in 1..i : s[j] \in seen \/ Has(g[i], s[j])
           S == {i \in 0..n : Fine(i)}
<1>7. 0 \in S
  OBVIOUS
<1>8. ASSUME NEW i \in 1..n, i - 1 \in S PROVE i \in S
  <2>1. i \in 0..n /\ i - 1 \in 0..n /\ i \in 1..Len(s)
    BY <1>4
  <2>2. PICK a \in Seq(AllSteps) : a = g[i - 1]
    BY <1>6, <2>1
  <2>3. PICK b : b = IF s[i] \in seen THEN <<>> ELSE <<s[i]>>
    OBVIOUS
  <2>4. b \in Seq(AllSteps)
    <3>1. s[i] \in AllSteps
      BY <1>3, <2>1, ElementOfSeq
    <3>2. <<s[i]>> \in Seq(AllSteps) /\ <<>> \in Seq(AllSteps)
      BY <3>1, EmptySeq
    <3>3. QED
      BY <2>3, <3>2
  <2>5. g[i] = a \o b
    BY <1>6, <2>2, <2>3
  <2>6. \A x : Has(a, x) \/ Has(b, x) => Has(g[i], x)
    <3>1. PICK none : none = NoApp
      OBVIOUS
    <3>2. \A x : Has(a, x) \/ Has(b, x) => Has(a \o b, x)
      BY <2>4, OneAfterAnother
    <3>3. QED
      BY <2>5, <3>2
  <2>7. s[i] \in seen \/ Has(b, s[i])
    <3>1. s[i] \notin seen => b = <<s[i]>>
      BY <2>3
    <3>2. Len(<<s[i]>>) = 1 /\ <<s[i]>>[1] = s[i]
      OBVIOUS
    <3>3. QED
      BY <3>1, <3>2 DEF Has
  <2>8. ASSUME NEW j \in 1..i PROVE s[j] \in seen \/ Has(g[i], s[j])
    <3>1. CASE j = i
      BY <2>6, <2>7, <3>1
    <3>2. CASE j # i
      <4>1. j \in 1..(i - 1)
        BY <2>1, <3>2
      <4>2. s[j] \in seen \/ Has(a, s[j])
        BY <1>8, <2>2, <4>1
      <4>3. QED
        BY <2>6, <4>2
    <3>3. QED
      BY <3>1, <3>2
  <2>9. QED
    BY <2>1, <2>8
<1> HIDE DEF S
<1>9. \A i \in 0..n : i \in S
  BY <1>7, <1>8, UpTo
<1>10. \A i \in 0..n : Fine(i)
  BY <1>9 DEF S
<1>11. QED
  BY <1>2, <1>4, <1>5, <1>10

(* Whatever it lacked has run once a boot is through. *)
LEMMA AllRan ==
  ASSUME NEW c \in Code, NEW seen
  PROVE  Range(Steps[c]) \subseteq seen \cup Range(Missing(c, seen))
<1>1. RanFits(c, seen)
  BY RanSteps
<1>2. PICK s : s = Steps[c]
  OBVIOUS
<1>3. s \in Seq(AllSteps) /\ DOMAIN s = 1..Len(s) /\ Len(s) \in Nat
  BY <1>2, Stepped, LenProperties
<1>4. PICK g : g = Missing(c, seen)
  OBVIOUS
<1>5. g = Ran(c, seen)[Len(s)] /\ g \in Seq(AllSteps)
  BY <1>1, <1>2, <1>3, <1>4 DEF RanFits
<1>6. DOMAIN g = 1..Len(g)
  BY <1>5, LenProperties
<1>7. \A j \in 1..Len(s) : s[j] \in seen \/ Has(g, s[j])
  BY <1>2, <1>3, <1>5, RanNames
<1>8. QED
  BY <1>2, <1>3, <1>4, <1>6, <1>7 DEF Has, Range

(* The log only grows. *)
LEMMA LogGrows ==
  ASSUME NEW a \in Seq(AllSteps), NEW b \in Seq(AllSteps)
  PROVE  Range(a) \subseteq Range(a \o b) /\ Range(b) \subseteq Range(a \o b)
<1>1. PICK c : c = a \o b
  OBVIOUS
<1>2. c \in Seq(AllSteps) /\ \A x : Has(a, x) \/ Has(b, x) => Has(c, x)
  BY <1>1, OneAfterAnother
<1>3. DOMAIN a = 1..Len(a) /\ DOMAIN b = 1..Len(b) /\ DOMAIN c = 1..Len(c)
  BY <1>2, LenProperties
<1>4. QED
  BY <1>1, <1>2, <1>3 DEF Has, Range

(* Every step keeps what is applied so. *)
LEMMA NextApplied ==
  ASSUME IInv, \A p \in Proc : Applied(p), [Next]_vars
  PROVE  \A p \in Proc : Applied(p)'
<1>1. CASE UNCHANGED vars
  BY <1>1 DEF vars, Applied
<1>2. ASSUME NEW q \in Proc,
             \/ Boot(q) \/ Lock(q) \/ GivesUp(q) \/ Migrate(q) \/ MigrationFails(q) \/ Commit(q)
             \/ StartKernel(q) \/ SetUp(q) \/ SetupThrows(q) \/ Stop(q) \/ TearDown(q)
             \/ Set(q) \/ CallStop(q) \/ Crash(q),
             NEW p \in Proc
      PROVE  Applied(p)'
  <2>1. /\ life \in Lives /\ Typed /\ code[p] \in Code /\ UpFits(p) /\ Applied(p)
        /\ life[p] \in [at : At, boots : Nat, starts : Nat, adds : Nat, up : SUBSET Plugins]
    BY OfProcess DEF IInv
  <2>2. code' = code
    BY <1>2 DEF Boot, Lock, GivesUp, Migrate, MigrationFails, Commit, Ends, StartKernel, SetUp, SetupThrows, Stop,
       TearDown, Set, CallStop, Crash
  <2>3. Range(log) \subseteq Range(log')
    <3>1. CASE MigrationFails(q) \/ Commit(q)
      <4>1. PICK kept \in Seq(AllSteps) : log' = log \o kept
        <5>1. <<>> \in Seq(AllSteps) /\ tx[q].ran \in Seq(AllSteps)
          BY <2>1, EmptySeq DEF Typed, Ledgers
        <5>2. QED
          BY <3>1, <5>1 DEF MigrationFails, KeptOfFailed, Commit, Ends
      <4>2. log \in Seq(AllSteps)
        BY <2>1 DEF Typed
      <4>3. QED
        BY <4>1, <4>2, LogGrows
    <3>2. CASE ~(MigrationFails(q) \/ Commit(q))
      <4>1. log' = log
        BY <1>2, <3>2 DEF Boot, Lock, GivesUp, Migrate, StartKernel, SetUp, SetupThrows, Stop, TearDown, Set, CallStop,
           Crash
      <4>2. QED
        BY <4>1
    <3>3. QED
      BY <3>1, <3>2
  <2>4. CASE life'[p].at = life[p].at
    BY <2>1, <2>2, <2>3, <2>4 DEF Applied
  <2>5. CASE life'[p].at # life[p].at
    <3>1. q = p
      BY <1>2, <2>1, <2>5
         DEF Boot, Lock, GivesUp, Migrate, MigrationFails, Commit, Ends, Goes, StartKernel, SetUp, SetupThrows, Stop,
             TearDown, Set, CallStop, Crash, Lives
    <3>2. CASE Boot(p)
      <4>1. life'[p].at = IF MayBoot[code[p]] THEN "waiting" ELSE "refused"
        BY <2>1, <3>2 DEF Boot, Lives
      <4>2. QED
        BY <2>2, <4>1 DEF Applied
    <3>3. CASE Lock(p)
      <4>1. life[p].at = "waiting" /\ life'[p].at = "migrating"
        BY <2>1, <3>3 DEF Lock, Goes, Lives
      <4>2. QED
        BY <2>1, <2>2, <4>1 DEF Applied
    <3>4. CASE GivesUp(p) \/ MigrationFails(p) \/ Crash(p)
      <4>1. life'[p].at \in {"refused", "off"}
        BY <2>1, <3>4 DEF GivesUp, MigrationFails, Ends, Goes, Crash, NoLife, Lives
      <4>2. QED
        BY <4>1 DEF Applied
    <3>5. CASE Commit(p)
      <4>1. life[p].at = "migrating" /\ life'[p].at = "migrated"
        BY <2>1, <3>5 DEF Commit, Ends, Goes, Lives
      <4>2. log' = log \o Missing(code[p], Range(log))
        BY <3>5, CommitWhole
      <4>3. PICK c \in Code : c = code[p]
        BY <2>1
      <4>4. PICK seen : seen = Range(log)
        OBVIOUS
      <4>5. RanFits(c, seen) /\ Len(Steps[c]) \in Nat
        BY RanSteps, Stepped, LenProperties
      <4>6. Missing(c, seen) \in Seq(AllSteps)
        BY <4>5 DEF RanFits
      <4>7. Range(Steps[c]) \subseteq seen \cup Range(Missing(c, seen))
        BY AllRan
      <4>8. Range(Missing(c, seen)) \subseteq Range(log')
        BY <2>1, <4>2, <4>3, <4>4, <4>6, LogGrows DEF Typed
      <4>9. Range(Steps[code'[p]]) \subseteq Range(log')
        BY <2>2, <2>3, <4>3, <4>4, <4>7, <4>8
      <4>10. QED
        BY <2>1, <2>2, <4>1, <4>9 DEF Applied
    <3>6. CASE StartKernel(p)
      <4>1. /\ life[p].at \in {"migrated", "stopped"}
            /\ life'[p].at = IF MayStart[code[p]] THEN SettingUp(p, life[p].up) ELSE "failed"
        BY <2>1, <3>6 DEF StartKernel, Lives
      <4>2. QED
        BY <2>1, <2>2, <2>3, <4>1 DEF Applied, SettingUp
    <3>7. CASE SetUp(p)
      <4>1. life[p].at = "setting up" /\ life'[p].at \in {"setting up", "running"}
        BY <2>1, <3>7 DEF SetUp, SettingUp, Lives
      <4>2. QED
        BY <2>1, <2>2, <2>3, <4>1 DEF Applied
    <3>8. CASE SetupThrows(p) \/ Stop(p) \/ TearDown(p)
      <4>1. /\ life[p].at \in {"setting up", "running", "tearing down"}
            /\ life'[p].at \in {"failed", "stopped", "tearing down"}
        <5>1. CASE SetupThrows(p)
          BY <2>1, <5>1 DEF SetupThrows, Goes, Lives
        <5>2. CASE Stop(p)
          BY <2>1, <5>2 DEF Stop, Goes, TearingDown, Lives
        <5>3. CASE TearDown(p)
          <6>1. PICK up : up = life[p].up \ {NextDown(p)}
            OBVIOUS
          <6>2. life[p].at = "tearing down" /\ life'[p].at = TearingDown(up)
            BY <2>1, <5>3, <6>1 DEF TearDown, Lives
          <6>3. QED
            BY <6>2 DEF TearingDown
        <5>4. QED
          BY <3>8, <5>1, <5>2, <5>3
      <4>2. QED
        BY <2>1, <2>2, <2>3, <4>1 DEF Applied
    <3>9. CASE Migrate(p) \/ Set(p) \/ CallStop(p)
      BY ZenonT(60), <2>1, <2>5, <3>9 DEF Migrate, Set, CallStop, Lives
    <3>10. QED
      BY <1>2, <3>1, <3>2, <3>3, <3>4, <3>5, <3>6, <3>7, <3>8, <3>9
  <2>6. QED
    BY <2>4, <2>5
<1>3. QED
  BY <1>1, <1>2 DEF Next

(* A version that may start finds its tables in what its steps create. *)
LEMMA TablesCreated ==
  ASSUME NEW c \in Code, MayBoot[c], MayStart[c], NEW d \in Defs(Declares[c]), NEW t \in d.tables
  PROVE  \E step \in Range(Steps[c]) : t \in step.creates
<1>1. PICK app : app = Declares[c]
  OBVIOUS
<1>2. Migrated(app) /\ NoneTakenTwice(app)
  BY <1>1 DEF MayBoot, Boots, MayStart, Stands
<1>3. PICK e \in Defs(app) : t \in Creates(e)
  BY <1>1, <1>2 DEF Migrated
<1>4. PICK i \in DOMAIN e.migrations : t \in e.migrations[i].creates
  BY <1>3 DEF Creates
<1>5. e = Def(app, e.name)
  <2>1. \A f \in Defs(app) : f.name = e.name => f = e
    BY <1>2 DEF NoneTakenTwice, Defs, Range
  <2>2. QED
    BY <2>1 DEF Def
<1>6. e.migrations[i] \in Range(Steps[c])
  BY <1>1, <1>5, EveryMigration
<1>7. QED
  BY <1>4, <1>6

(* Nobody booted at first. *)
LEMMA InitApplied == Init => \A p \in Proc : Applied(p)
<1>1. SUFFICES ASSUME Init, NEW p \in Proc PROVE Applied(p)
  OBVIOUS
<1>2. life[p].at = "off"
  BY <1>1 DEF Init, NoLife
<1>3. QED
  BY <1>2 DEF Applied

(* How far everyone got gives the property. *)
LEMMA AppliedGives == ASSUME IInv, \A p \in Proc : Applied(p) PROVE SchemaApplied
<1>1. SUFFICES ASSUME NEW p \in Proc
               PROVE  /\ life[p].at \in {"migrated", "setting up", "running"} =>
                           Range(Steps[code[p]]) \subseteq Range(log)
                      /\ life[p].at \in {"setting up", "running"} =>
                           \A d \in Defs(Declares[code[p]]) :
                             d.tables \subseteq UNION {log[i].creates : i \in DOMAIN log}
  BY DEF SchemaApplied
<1>2. Applied(p) /\ code[p] \in Code
  BY OfProcess
<1>3. ASSUME life[p].at \in {"setting up", "running"}, NEW d \in Defs(Declares[code[p]]), NEW t \in d.tables
      PROVE  \E i \in DOMAIN log : t \in log[i].creates
  <2>1. MayBoot[code[p]] /\ MayStart[code[p]] /\ Range(Steps[code[p]]) \subseteq Range(log)
    BY <1>2, <1>3 DEF Applied
  <2>2. PICK step \in Range(Steps[code[p]]) : t \in step.creates
    BY <1>2, <1>3, <2>1, TablesCreated
  <2>3. step \in Range(log)
    BY <2>1
  <2>4. QED
    BY <2>2, <2>3 DEF Range
<1>4. QED
  BY <1>2, <1>3 DEF Applied

(* In every reachable state a process that has migrated finds its steps in *)
(* the database, and one that sets up or runs finds its tables.            *)
THEOREM Applies == Spec => []SchemaApplied
<1>1. Init => \A p \in Proc : Applied(p)
  BY InitApplied
<1>2. IInv /\ (\A p \in Proc : Applied(p)) /\ [Next]_vars => (\A p \in Proc : Applied(p))'
  BY NextApplied
<1>3. IInv /\ (\A p \in Proc : Applied(p)) => SchemaApplied
  BY AppliedGives
<1>4. QED
  BY <1>1, <1>2, <1>3, Invariant, PTL DEF Spec

-----------------------------------------------------------------------------
(* Tables are created before they are read *)

\* one of `seen`, or one of s up to k, creates t
CreatedBy(t, seen, s, k) == (\E x \in seen : t \in x.creates) \/ \E j \in 1..k : t \in s[j].creates

\* whatever a step of s reads, one of `seen`, one before it or itself creates
ReadsAfter(seen, s) == \A k \in 1..Len(s) : \A t \in s[k].reads : CreatedBy(t, seen, s, k)

(* So is what is read in one sequence after another, if the second may count *)
(* on the first.                                                             *)
LEMMA ReadsOn ==
  ASSUME NEW B, NEW seen, NEW a \in Seq(B), NEW b \in Seq(B),
         ReadsAfter(seen, a), ReadsAfter(seen \cup Range(a), b)
  PROVE  ReadsAfter(seen, a \o b)
<1>1. /\ Len(a \o b) = Len(a) + Len(b) /\ Len(a) \in Nat /\ Len(b) \in Nat
      /\ \A i \in 1..(Len(a) + Len(b)) : (a \o b)[i] = IF i <= Len(a) THEN a[i] ELSE b[i - Len(a)]
  BY ConcatProperties, LenProperties
<1>2. PICK c : c = a \o b
  OBVIOUS
<1>3. \A i \in 1..Len(a) : c[i] = a[i]
  BY <1>1, <1>2
<1>4. \A i \in 1..Len(b) : c[Len(a) + i] = b[i]
  BY <1>1, <1>2
<1>5. SUFFICES ASSUME NEW k \in 1..Len(c), NEW t \in c[k].reads PROVE CreatedBy(t, seen, c, k)
  BY <1>2 DEF ReadsAfter
<1>6. CASE k <= Len(a)
  <2>1. k \in 1..Len(a) /\ c[k] = a[k] /\ \A j \in 1..k : c[j] = a[j]
    BY <1>1, <1>3, <1>5, <1>6
  <2>2. CreatedBy(t, seen, a, k)
    BY <1>5, <2>1 DEF ReadsAfter
  <2>3. QED
    BY <2>1, <2>2 DEF CreatedBy
<1>7. CASE ~(k <= Len(a))
  <2>1. PICK i \in 1..Len(b) : k = Len(a) + i
    <3>1. k - Len(a) \in 1..Len(b) /\ k = Len(a) + (k - Len(a))
      BY <1>1, <1>2, <1>5, <1>7
    <3>2. QED
      BY <3>1
  <2>2. CreatedBy(t, seen \cup Range(a), b, i)
    BY <1>4, <1>5, <2>1 DEF ReadsAfter
  <2>3. CASE \E x \in seen : t \in x.creates
    BY <2>3 DEF CreatedBy
  <2>4. CASE \E x \in Range(a) : t \in x.creates
    <3>1. PICK j \in 1..Len(a) : t \in a[j].creates
      BY <2>4, LenProperties DEF Range
    <3>2. j \in 1..k /\ c[j] = a[j]
      BY <1>1, <1>3, <2>1, <3>1
    <3>3. QED
      BY <3>1, <3>2 DEF CreatedBy
  <2>5. CASE \E j \in 1..i : t \in b[j].creates
    <3>1. PICK j \in 1..i : t \in b[j].creates
      BY <2>5
    <3>2. j \in 1..Len(b) /\ Len(a) + j \in 1..k
      BY <1>1, <2>1, <3>1
    <3>3. c[Len(a) + j] = b[j]
      BY <1>4, <3>2
    <3>4. QED
      BY <3>1, <3>2, <3>3 DEF CreatedBy
  <2>6. QED
    BY <2>2, <2>3, <2>4, <2>5 DEF CreatedBy
<1>8. QED
  BY <1>6, <1>7

(* A boot that applies only what it lacks finds the tables of the others in *)
(* the database.                                                            *)
LEMMA MissingReads ==
  ASSUME NEW c \in Code, NEW seen, ReadsAfter({}, Steps[c])
  PROVE  ReadsAfter(seen, Missing(c, seen))
<1>1. RanFits(c, seen)
  BY RanSteps
<1>2. PICK s : s = Steps[c]
  OBVIOUS
<1>3. s \in Seq(AllSteps)
  BY <1>2, Stepped
<1>4. PICK n \in Nat : n = Len(s)
  BY <1>3, LenProperties
<1>5. PICK g : g = Ran(c, seen)
  OBVIOUS
<1>6. /\ g[0] = <<>> /\ \A i \in 0..n : g[i] \in Seq(AllSteps)
      /\ \A i \in 1..n : g[i] = g[i - 1] \o (IF s[i] \in seen THEN <<>> ELSE <<s[i]>>)
      /\ Missing(c, seen) = g[n]
  BY <1>1, <1>2, <1>4, <1>5 DEF RanFits
<1>7. \A i \in 0..n : \A j \in 1..i : s[j] \in seen \/ Has(g[i], s[j])
  BY <1>2, <1>4, <1>5, RanNames
<1> DEFINE S == {i \in 0..n : ReadsAfter(seen, g[i])}
<1>8. 0 \in S
  BY <1>6 DEF ReadsAfter
<1>9. ASSUME NEW i \in 1..n, i - 1 \in S PROVE i \in S
  <2>1. i \in 0..n /\ i - 1 \in 0..n /\ i \in 1..Len(s)
    BY <1>4
  <2>2. PICK a \in Seq(AllSteps) : a = g[i - 1]
    BY <1>6, <2>1
  <2>3. ReadsAfter(seen, a)
    BY <1>9, <2>2
  <2>4. CASE s[i] \in seen
    <3>1. g[i] = a
      BY <1>6, <2>2, <2>4, ConcatEmptySeq
    <3>2. QED
      BY <2>1, <2>3, <3>1
  <2>5. CASE s[i] \notin seen
    <3>1. PICK b : b = <<s[i]>>
      OBVIOUS
    <3>2. b \in Seq(AllSteps) /\ Len(b) = 1 /\ b[1] = s[i]
      BY <1>3, <2>1, <3>1, ElementOfSeq
    <3>3. ReadsAfter(seen \cup Range(a), b)
      <4>0. PICK all : all = seen \cup Range(a)
        OBVIOUS
      <4>1. SUFFICES ASSUME NEW t \in s[i].reads PROVE CreatedBy(t, all, b, 1)
        <5>1. SUFFICES ASSUME NEW k \in 1..Len(b), NEW t \in b[k].reads PROVE CreatedBy(t, all, b, k)
          BY <4>0 DEF ReadsAfter
        <5>2. k = 1
          BY <3>2, <5>1
        <5>3. QED
          BY <3>2, <4>1, <5>1, <5>2
      <4>2. PICK j \in 1..i : t \in s[j].creates
        BY <1>2, <2>1, <4>1 DEF ReadsAfter, CreatedBy
      <4>3. CASE j = i
        BY <3>2, <4>2, <4>3 DEF CreatedBy
      <4>4. CASE j # i
        <5>1. j \in 1..(i - 1)
          BY <2>1, <4>4
        <5>2. s[j] \in seen \/ Has(a, s[j])
          BY <1>7, <2>1, <2>2, <5>1
        <5>3. Has(a, s[j]) => s[j] \in Range(a)
          BY LenProperties DEF Has, Range
        <5>4. QED
          BY <4>0, <4>2, <5>2, <5>3 DEF CreatedBy
      <4>5. QED
        BY <4>3, <4>4
    <3>4. ReadsAfter(seen, a \o b)
      BY <2>3, <3>2, <3>3, ReadsOn
    <3>5. QED
      BY <1>6, <2>1, <2>2, <2>5, <3>1, <3>4
  <2>6. QED
    BY <2>4, <2>5
<1> HIDE DEF S
<1>10. \A i \in 0..n : i \in S
  BY <1>8, <1>9, UpTo
<1>11. QED
  BY <1>6, <1>10 DEF S

\* each plugin's own migrations create what they read, or another plugin does
WritesInOrder(app) ==
  \A d \in Defs(app) : \A i \in DOMAIN d.migrations : \A t \in d.migrations[i].reads :
    \/ \E j \in 1..i : t \in d.migrations[j].creates
    \/ \E e \in Defs(app) : e.name # d.name /\ t \in Creates(e)

(* Where no loop is and each plugin's own migrations are in order, what     *)
(* start() checks of them puts every step after those whose tables it reads *)
(* (migrationChecks.ts, order.ts).                                          *)
THEOREM StepsInOrder ==
  ASSUME NEW c \in Code, MayBoot[c],
         NoneTakenTwice(Declares[c]), NoCycle(Declares[c]), WritesInOrder(Declares[c])
  PROVE  ReadsAfter({}, Steps[c])
<1>1. PICK app : app = Declares[c]
  OBVIOUS
<1>2. PICK s : s = Order[c]
  OBVIOUS
<1>3. PICK B : B = UNION {Range(e.migrations) : e \in Defs(app)}
  OBVIOUS
<1>4. PICK F : F = [n \in Names(app) |-> Def(app, n).migrations]
  OBVIOUS
<1>5. ASSUME NEW d \in Defs(app)
      PROVE  /\ d.name \in Names(app) /\ Def(app, d.name) = d /\ F[d.name] = d.migrations
             /\ d.migrations \in Seq(B) /\ DOMAIN d.migrations = 1..Len(d.migrations)
  <2>1. d.name \in Names(app)
    BY DEF Names
  <2>2. \A f \in Defs(app) : f.name = d.name => f = d
    BY <1>1 DEF NoneTakenTwice, Defs, Range
  <2>3. Def(app, d.name) = d
    BY <2>2 DEF Def
  <2>4. d.migrations \in Seq(Range(d.migrations)) /\ Range(d.migrations) \subseteq B
    BY <1>1, <1>3, DeclaresAssumption
  <2>5. d.migrations \in Seq(B)
    BY <2>4, SeqMonotonic
  <2>6. QED
    BY <1>4, <2>1, <2>3, <2>5, LenProperties
<1>6. s \in Seq(Names(app)) /\ Len(s) \in Nat /\ Follows(app, s)
  <2>1. Numbered(app)
    BY <1>1, DeclaresAssumption DEF Numbered
  <2>2. QED
    BY <1>1, <1>2, <2>1, Ordered, OrderFollows, LenProperties DEF Order
<1>7. ASSUME NEW i \in 1..Len(s) PROVE \E d \in Defs(app) : d.name = s[i] /\ F[s[i]] = d.migrations
  <2>1. PICK d \in Defs(app) : d.name = s[i]
    BY <1>6, ElementOfSeq DEF Names
  <2>2. QED
    BY <1>5, <2>1
<1>8. \A i \in 1..Len(s) : F[s[i]] \in Seq(B)
  BY <1>5, <1>7
<1>9. PICK n \in Nat : n = Len(s)
  BY <1>6
<1>10. PICK g : g = Gathered(s, F)
  OBVIOUS
<1>11. /\ g[0] = <<>> /\ \A i \in 0..n : g[i] \in Seq(B)
       /\ \A i \in 1..n : g[i] = g[i - 1] \o F[s[i]]
  <2>1. Gathers(B, s, F, g)
    BY <1>6, <1>8, <1>10, GatheredSteps
  <2>2. QED
    BY <1>9, <2>1 DEF Gathers
<1>12. Steps[c] = g[n]
  BY <1>1, <1>2, <1>4, <1>9, <1>10 DEF Steps, Migrations, Order, Gather
<1> DEFINE Fine(i) == ReadsAfter({}, g[i]) /\ \A j \in 1..i : \A x : Has(F[s[j]], x) => Has(g[i], x)
           S == {i \in 0..n : Fine(i)}
<1>13. 0 \in S
  BY <1>11 DEF ReadsAfter
<1>14. ASSUME NEW i \in 1..n, i - 1 \in S PROVE i \in S
  <2>1. i \in 0..n /\ i - 1 \in 0..n /\ i \in 1..Len(s)
    BY <1>9
  <2>2. PICK a \in Seq(B) : a = g[i - 1]
    BY <1>11, <2>1
  <2>3. PICK d \in Defs(app) : d.name = s[i] /\ F[s[i]] = d.migrations
    BY <1>7, <2>1
  <2>4. PICK b \in Seq(B) : b = d.migrations
    BY <1>5
  <2>5. g[i] = a \o b
    BY <1>11, <2>2, <2>3, <2>4
  <2>6. ReadsAfter({}, a) /\ \A j \in 1..(i - 1) : \A x : Has(F[s[j]], x) => Has(a, x)
    BY <1>14, <2>2
  <2>7. ReadsAfter(Range(a), b)
    <3>1. SUFFICES ASSUME NEW k \in 1..Len(b), NEW t \in b[k].reads PROVE CreatedBy(t, Range(a), b, k)
      BY DEF ReadsAfter
    <3>2. k \in DOMAIN d.migrations /\ t \in d.migrations[k].reads
      BY <1>5, <2>4, <3>1
    <3>3. CASE \E j \in 1..k : t \in d.migrations[j].creates
      BY <2>4, <3>3 DEF CreatedBy
    <3>4. CASE \E e \in Defs(app) : e.name # d.name /\ t \in Creates(e)
      <4>1. PICK e \in Defs(app) : e.name # d.name /\ t \in Creates(e)
        BY <3>4
      <4>2. t \in Reads(d)
        BY <3>2 DEF Reads
      <4>3. e.name \in d.needs
        <5>1. Migrated(app)
          BY <1>1 DEF MayBoot, Boots
        <5>2. QED
          BY <4>1, <4>2, <5>1 DEF Migrated
      <4>4. e.name \in Needs(app, s[i])
        BY <1>5, <2>3, <4>1, <4>3 DEF Needs
      <4>5. PICK j \in 1..(i - 1) : s[j] = e.name
        BY <1>6, <2>1, <4>4 DEF Follows
      <4>6. F[s[j]] = e.migrations
        BY <1>5, <4>1, <4>5
      <4>7. PICK m \in DOMAIN e.migrations : t \in e.migrations[m].creates
        BY <4>1 DEF Creates
      <4>8. Has(e.migrations, e.migrations[m])
        BY <1>5, <4>1, <4>7 DEF Has
      <4>9. Has(a, e.migrations[m])
        BY <2>6, <4>5, <4>6, <4>8
      <4>10. e.migrations[m] \in Range(a)
        BY <4>9, LenProperties DEF Has, Range
      <4>11. QED
        BY <4>7, <4>10 DEF CreatedBy
    <3>5. QED
      BY <1>1, <3>2, <3>3, <3>4 DEF WritesInOrder
  <2>8. ReadsAfter({}, a \o b)
    <3>1. {} \cup Range(a) = Range(a)
      OBVIOUS
    <3>2. QED
      BY <2>6, <2>7, <3>1, ReadsOn
  <2>9. \A x : Has(a, x) \/ Has(b, x) => Has(a \o b, x)
    <3>1. PICK none : none = NoApp
      OBVIOUS
    <3>2. QED
      BY OneAfterAnother
  <2>10. ASSUME NEW j \in 1..i, NEW x, Has(F[s[j]], x) PROVE Has(g[i], x)
    <3>1. CASE j = i
      BY <2>3, <2>4, <2>5, <2>9, <2>10, <3>1
    <3>2. CASE j # i
      <4>1. j \in 1..(i - 1)
        BY <2>1, <3>2
      <4>2. QED
        BY <2>5, <2>6, <2>9, <2>10, <4>1
    <3>3. QED
      BY <3>1, <3>2
  <2>11. QED
    BY <2>1, <2>5, <2>8, <2>10
<1> HIDE DEF S
<1>15. \A i \in 0..n : i \in S
  BY <1>13, <1>14, UpTo
<1>16. n \in S
  BY <1>9, <1>15
<1>17. QED
  BY <1>12, <1>16 DEF S

(* In every reachable state, where each version that boots has its steps in *)
(* order, the schema of whoever runs is applied, and no step ever ran       *)
(* before the one that creates a table it reads, whatever other versions    *)
(* applied before, between and after (migrate.ts).                          *)
THEOREM SchemaHolds ==
  ASSUME \A c \in Code : MayBoot[c] => ReadsAfter({}, Steps[c])
  PROVE  Spec => []SchemaStands
<1> DEFINE Inv == (\A p \in Proc : Applied(p)) /\ ReadsAfter({}, log)
<1>1. Init => Inv
  <2>1. Init => \A p \in Proc : Applied(p)
    BY InitApplied
  <2>2. Init => ReadsAfter({}, log)
    BY DEF Init, ReadsAfter
  <2>3. QED
    BY <2>1, <2>2
<1>2. IInv /\ Inv /\ [Next]_vars => Inv'
  <2>1. SUFFICES ASSUME IInv, Inv, [Next]_vars PROVE ReadsAfter({}, log')
    BY NextApplied DEF ReadsAfter, CreatedBy
  <2>2. log \in Seq(AllSteps) /\ Range(log) = {} \cup Range(log)
    BY <2>1 DEF IInv, Typed
  <2>3. CASE log' = log
    BY <2>1, <2>3
  <2>4. CASE log' # log
    <3>1. PICK p \in Proc : Commit(p) \/ MigrationFails(p)
      BY <2>1, <2>4 DEF Next, Boot, Lock, GivesUp, Migrate, StartKernel, SetUp, SetupThrows, Stop, TearDown, Set,
         CallStop, Crash, vars
    <3>2. CASE MigrationFails(p)
      <4>1. log' = log \o <<>>
        BY <3>2 DEF MigrationFails, KeptOfFailed, Ends
      <4>2. QED
        BY <2>2, <2>4, <4>1, ConcatEmptySeq
    <3>3. CASE Commit(p)
      <4>1. PICK c \in Code : c = code[p]
        BY <2>1, OfProcess
      <4>2. MayBoot[c]
        BY <2>1, <3>3, <4>1 DEF Commit, Applied
      <4>3. PICK m : m = Missing(c, Range(log))
        OBVIOUS
      <4>4. ReadsAfter(Range(log), m)
        BY <4>2, <4>3, MissingReads
      <4>5. m \in Seq(AllSteps)
        <5>1. PICK seen : seen = Range(log)
          OBVIOUS
        <5>2. RanFits(c, seen) /\ Len(Steps[c]) \in Nat
          BY RanSteps, Stepped, LenProperties
        <5>3. Missing(c, seen) \in Seq(AllSteps)
          BY <5>2 DEF RanFits
        <5>4. QED
          BY <4>3, <5>1, <5>3
      <4>6. log' = log \o m
        BY <2>1, <3>3, <4>1, <4>3, CommitWhole
      <4>7. QED
        BY <2>1, <2>2, <4>4, <4>5, <4>6, ReadsOn
    <3>4. QED
      BY <3>1, <3>2, <3>3
  <2>5. QED
    BY <2>3, <2>4
<1>3. IInv /\ Inv => SchemaStands
  <2>1. SUFFICES ASSUME IInv, Inv, NEW i \in DOMAIN log, NEW t \in log[i].reads
                 PROVE  SchemaApplied /\ \E j \in 1..i : t \in log[j].creates
    <3>1. IInv /\ Inv => SchemaApplied
      BY AppliedGives
    <3>2. QED
      BY <2>1, <3>1 DEF SchemaStands
  <2>2. i \in 1..Len(log)
    BY <2>1, LenProperties DEF IInv, Typed
  <2>3. CreatedBy(t, {}, log, i)
    BY <2>1, <2>2 DEF ReadsAfter
  <2>4. QED
    BY <2>1, <2>3, AppliedGives DEF CreatedBy
<1>4. QED
  BY <1>1, <1>2, <1>3, Invariant, PTL DEF Spec

-----------------------------------------------------------------------------
(* Steps stay beside their anchors *)

(* Sorted, nothing is named twice. *)
LEMMA AscendingAlone ==
  ASSUME NEW W \in SUBSET Nat, IsFiniteSet(W)
  PROVE  Alone(Ascending(W))
<1>1. PICK s : s \in Sorted(W)
  BY SortedExists
<1>2. Ascending(W) \in Sorted(W)
  BY <1>1 DEF Ascending, Sorted
<1>3. Cardinality(W) \in Nat
  BY FS_CardinalityType
<1>4. PICK t : t = Ascending(W)
  OBVIOUS
<1>5. t \in [1..Cardinality(W) -> W] /\ \A i, j \in DOMAIN t : i < j => t[i] < t[j]
  BY <1>2, <1>4 DEF Sorted
<1>6. t \in Seq(W) /\ Len(t) = Cardinality(W)
  BY <1>3, <1>5, SeqDef, LenProperties
<1>7. ASSUME NEW i \in 1..Len(t), NEW j \in 1..Len(t), t[i] = t[j] PROVE i = j
  <2>1. t[i] \in Nat /\ t[j] \in Nat
    BY <1>5, <1>6
  <2>2. ~(i < j) /\ ~(j < i)
    BY <1>5, <1>6, <1>7, <2>1
  <2>3. QED
    BY <1>3, <1>6, <2>2
<1>8. QED
  BY <1>4, <1>7 DEF Alone

(* What is gathered of sequences that share nothing names nothing twice, and *)
(* nothing that none of them names.                                          *)
LEMMA GatherAlone ==
  ASSUME NEW B, NEW s, Len(s) \in Nat, NEW F, \A i \in 1..Len(s) : F[s[i]] \in Seq(B),
         \A i \in 1..Len(s) : Alone(F[s[i]]),
         \A i, j \in 1..Len(s) : \A x : Has(F[s[i]], x) /\ Has(F[s[j]], x) => i = j
  PROVE  /\ Alone(Gather(s, F))
         /\ \A x : Has(Gather(s, F), x) => \E i \in 1..Len(s) : Has(F[s[i]], x)
<1>1. PICK n \in Nat : n = Len(s)
  OBVIOUS
<1>2. PICK g : g = Gathered(s, F)
  OBVIOUS
<1>3. /\ g \in [0..n -> Seq(B)] /\ g[0] = <<>>
      /\ \A i \in 1..n : g[i] = g[i - 1] \o F[s[i]]
  <2>1. Gathers(B, s, F, Gathered(s, F))
    BY GatheredSteps
  <2>2. QED
    BY <1>1, <1>2, <2>1 DEF Gathers
<1> DEFINE Fine(i) == Alone(g[i]) /\ \A x : Has(g[i], x) => \E k \in 1..i : Has(F[s[k]], x)
           S == {i \in 0..n : Fine(i)}
<1>4. 0 \in S
  <2>1. Len(g[0]) = 0
    BY <1>3
  <2>2. QED
    BY <2>1 DEF Alone, Has
<1>5. ASSUME NEW i \in 1..n, i - 1 \in S PROVE i \in S
  <2>0. i \in 0..n /\ i - 1 \in 0..n /\ i \in 1..Len(s)
    BY <1>1
  <2>1. PICK a \in Seq(B) : a = g[i - 1]
    BY <1>3, <2>0
  <2>2. PICK b \in Seq(B) : b = F[s[i]]
    BY <2>0
  <2>3. PICK c : c = a \o b
    OBVIOUS
  <2>4. /\ Len(c) = Len(a) + Len(b) /\ Len(a) \in Nat /\ Len(b) \in Nat
        /\ \A j \in 1..(Len(a) + Len(b)) : c[j] = IF j <= Len(a) THEN a[j] ELSE b[j - Len(a)]
    BY <2>3, ConcatProperties, LenProperties
  <2>5. Fine(i - 1) /\ g[i] = c
    BY <1>3, <1>5, <2>1, <2>2, <2>3
  <2>6. Alone(a) /\ Alone(b) /\ \A x : Has(a, x) => \E k \in 1..(i - 1) : Has(F[s[k]], x)
    BY <2>0, <2>1, <2>2, <2>5
  <2>7. \A x : ~(Has(a, x) /\ Has(b, x))
    <3>1. SUFFICES ASSUME NEW x, Has(a, x), Has(b, x) PROVE FALSE
      OBVIOUS
    <3>2. PICK k \in 1..(i - 1) : Has(F[s[k]], x)
      BY <2>6, <3>1
    <3>3. k \in 1..Len(s) /\ k # i
      BY <2>0, <3>2
    <3>4. QED
      BY <2>0, <2>2, <3>1, <3>2, <3>3
  <2>8. ASSUME NEW j \in 1..Len(c)
        PROVE  \/ j \in 1..Len(a) /\ c[j] = a[j] /\ Has(a, c[j])
               \/ j - Len(a) \in 1..Len(b) /\ c[j] = b[j - Len(a)] /\ Has(b, c[j])
    BY <2>4 DEF Has
  <2>9. ASSUME NEW j \in 1..Len(c), NEW k \in 1..Len(c), c[j] = c[k] PROVE j = k
    <3>1. CASE j \in 1..Len(a) /\ c[j] = a[j] /\ Has(a, c[j])
      <4>1. k \in 1..Len(a) /\ c[k] = a[k]
        BY <2>7, <2>8, <2>9, <3>1
      <4>2. QED
        BY <2>6, <2>9, <3>1, <4>1 DEF Alone
    <3>2. CASE j - Len(a) \in 1..Len(b) /\ c[j] = b[j - Len(a)] /\ Has(b, c[j])
      <4>1. k - Len(a) \in 1..Len(b) /\ c[k] = b[k - Len(a)]
        BY <2>7, <2>8, <2>9, <3>2
      <4>2. j - Len(a) = k - Len(a)
        BY <2>6, <2>9, <3>2, <4>1 DEF Alone
      <4>3. QED
        BY <2>4, <4>2
    <3>3. QED
      BY <2>8, <3>1, <3>2
  <2>10. ASSUME NEW x, Has(c, x) PROVE \E k \in 1..i : Has(F[s[k]], x)
    <3>1. PICK j \in 1..Len(c) : c[j] = x
      BY <2>10 DEF Has
    <3>2. Has(a, x) \/ Has(b, x)
      BY <2>8, <3>1
    <3>3. CASE Has(a, x)
      <4>1. PICK k \in 1..(i - 1) : Has(F[s[k]], x)
        BY <2>6, <3>3
      <4>2. k \in 1..i
        BY <2>0
      <4>3. QED
        BY <4>1, <4>2
    <3>4. CASE Has(b, x)
      <4>1. i \in 1..i
        BY <2>0
      <4>2. QED
        BY <2>2, <3>4, <4>1
    <3>5. QED
      BY <3>2, <3>3, <3>4
  <2>11. Alone(c)
    BY <2>9 DEF Alone
  <2>12. Fine(i)
    BY <2>5, <2>10, <2>11
  <2>13. QED
    BY <2>0, <2>12
<1> HIDE DEF S
<1>6. \A i \in 0..n : i \in S
  BY <1>4, <1>5, UpTo
<1>7. n \in S /\ g[n] = Gather(s, F)
  BY <1>1, <1>2, <1>6 DEF Gather
<1>8. Fine(n)
  BY <1>7 DEF S
<1>9. QED
  BY <1>1, <1>7, <1>8

\* a list of steps with ids of their own, which are numbers
StepList(steps, A) ==
  /\ steps \in Seq(A)
  /\ \A i \in 1..Len(steps) : steps[i].id \in Nat
  /\ \A i, j \in 1..Len(steps) : steps[i].id = steps[j].id => i = j

(* By their ids they are the same steps, each of them once. *)
LEMMA ByIdSteps ==
  ASSUME NEW A, NEW steps, StepList(steps, A)
  PROVE  /\ ById(steps) \in Seq(A)
         /\ \A i, j \in 1..Len(ById(steps)) : ById(steps)[i].id = ById(steps)[j].id => i = j
         /\ \A x : Has(ById(steps), x) <=> Has(steps, x)
<1>1. PICK n \in Nat : n = Len(steps)
  BY LenProperties DEF StepList
<1>2. steps \in [1..n -> A] /\ DOMAIN steps = 1..n
  BY <1>1, LenProperties DEF StepList
<1>3. PICK W : W = {steps[i].id : i \in DOMAIN steps}
  OBVIOUS
<1>4. W \in SUBSET Nat
  BY <1>1, <1>2, <1>3 DEF StepList
<1>5. IsFiniteSet(W)
  <2>1. IsFiniteSet(1..n)
    BY FS_Interval
  <2>2. PICK f : f = [i \in 1..n |-> steps[i].id]
    OBVIOUS
  <2>3. f \in Surjection(1..n, W)
    BY <1>2, <1>3, <2>2 DEF Surjection
  <2>4. QED
    BY <2>1, <2>3, FS_Surjection
<1>6. PICK ids : ids = Ascending(W)
  OBVIOUS
<1>7. ids \in Seq(W) /\ Alone(ids) /\ \A x \in W : Has(ids, x)
  BY <1>4, <1>5, <1>6, AscendingNames, AscendingAlone
<1>8. Len(ids) \in Nat /\ ids \in [1..Len(ids) -> W] /\ DOMAIN ids = 1..Len(ids)
  BY <1>7, LenProperties
<1>9. PICK t : t = ById(steps)
  OBVIOUS
<1>10. t = [i \in 1..Len(ids) |-> CHOOSE step \in Range(steps) : step.id = ids[i]]
  BY <1>3, <1>6, <1>8, <1>9 DEF ById
<1>11. ASSUME NEW i \in 1..Len(ids) PROVE t[i] \in Range(steps) /\ t[i].id = ids[i]
  <2>1. PICK j \in 1..n : steps[j].id = ids[i]
    BY <1>2, <1>3, <1>8
  <2>2. steps[j] \in Range(steps)
    BY <1>2 DEF Range
  <2>3. t[i] = CHOOSE step \in Range(steps) : step.id = ids[i]
    BY <1>10
  <2>4. QED
    BY <2>1, <2>2, <2>3
<1>12. Range(steps) \subseteq A /\ \A x : x \in Range(steps) <=> Has(steps, x)
  BY <1>1, <1>2 DEF Range, Has
<1>13. t \in [1..Len(ids) -> A]
  BY <1>10, <1>11, <1>12
<1>14. t \in Seq(A) /\ Len(t) = Len(ids)
  BY <1>8, <1>13, SeqDef, LenProperties
<1>15. ASSUME NEW i \in 1..Len(t), NEW j \in 1..Len(t), t[i].id = t[j].id PROVE i = j
  BY <1>7, <1>11, <1>14, <1>15 DEF Alone
<1>16. ASSUME NEW x, Has(t, x) PROVE Has(steps, x)
  BY <1>11, <1>12, <1>14, <1>16 DEF Has
<1>17. ASSUME NEW x, Has(steps, x) PROVE Has(t, x)
  <2>1. PICK j \in 1..n : steps[j] = x
    BY <1>1, <1>17 DEF Has
  <2>2. x.id \in W
    BY <1>2, <1>3, <2>1
  <2>3. PICK i \in 1..Len(ids) : ids[i] = x.id
    BY <1>7, <2>2 DEF Has
  <2>4. t[i] \in Range(steps) /\ t[i].id = x.id
    BY <1>11, <2>3
  <2>5. PICK k \in 1..n : steps[k] = t[i]
    BY <1>2, <2>4 DEF Range
  <2>6. k = j
    BY <1>1, <2>1, <2>4, <2>5 DEF StepList
  <2>7. t[i] = x
    BY <2>1, <2>5, <2>6
  <2>8. QED
    BY <1>14, <2>7 DEF Has
<1>18. QED
  BY <1>9, <1>14, <1>15, <1>16, <1>17

\* the steps plugins add to k have lists and ids that resolve() takes
Addable(app, k) ==
  /\ Numbered(app) /\ \A d \in Defs(app) : Def(app, d.name) = d
  /\ \A d \in Defs(app) : StepList(StepsOf(d, k), StepsAdded(app, k))
  /\ IdsOnce(app, k)

(* Sorted by plugin and id they are all the steps added, each of them once. *)
LEMMA AddedSteps ==
  ASSUME NEW app, NEW k, Addable(app, k)
  PROVE  /\ Added(app, k) \in Seq(StepsAdded(app, k)) /\ Alone(Added(app, k))
         /\ \A x \in StepsAdded(app, k) : Has(Added(app, k), x)
<1>1. PICK A : A = StepsAdded(app, k)
  OBVIOUS
<1>2. PICK N : N = Names(app) /\ N \in SUBSET Nat /\ IsFiniteSet(N)
  BY DEF Addable, Numbered
<1>3. PICK s : s = Ascending(N)
  OBVIOUS
<1>4. s \in Seq(N) /\ Alone(s) /\ (\A n \in N : Has(s, n)) /\ Len(s) \in Nat
  BY <1>2, <1>3, AscendingNames, AscendingAlone, LenProperties
<1>5. PICK F : F = [n \in N |-> ById(StepsOf(Def(app, n), k))]
  OBVIOUS
<1>6. ASSUME NEW d \in Defs(app)
      PROVE  /\ d.name \in N /\ F[d.name] \in Seq(A)
             /\ \A i, j \in 1..Len(F[d.name]) : F[d.name][i].id = F[d.name][j].id => i = j
             /\ \A x : Has(F[d.name], x) <=> Has(StepsOf(d, k), x)
  <2>1. d.name \in N
    BY <1>2 DEF Names
  <2>2. PICK steps : steps = StepsOf(d, k)
    OBVIOUS
  <2>3. StepList(steps, A)
    BY <1>1, <2>2 DEF Addable
  <2>4. F[d.name] = ById(steps)
    <3>1. Def(app, d.name) = d
      BY DEF Addable
    <3>2. QED
      BY <1>5, <2>1, <2>2, <3>1
  <2>5. QED
    BY <2>1, <2>2, <2>3, <2>4, ByIdSteps
<1>7. ASSUME NEW n \in N PROVE \E d \in Defs(app) : d.name = n
  BY <1>2 DEF Names
<1>8. ASSUME NEW i \in 1..Len(s) PROVE s[i] \in N
  BY <1>4, ElementOfSeq
<1>9. ASSUME NEW i \in 1..Len(s) PROVE F[s[i]] \in Seq(A) /\ Alone(F[s[i]])
  <2>1. PICK d \in Defs(app) : d.name = s[i]
    BY <1>7, <1>8
  <2>2. QED
    BY <1>6, <2>1 DEF Alone
<1>10. ASSUME NEW d \in Defs(app), NEW e \in Defs(app), NEW x, Has(StepsOf(d, k), x), Has(StepsOf(e, k), x)
       PROVE  d = e
  <2>1. PICK i \in 1..Len(StepsOf(d, k)), j \in 1..Len(StepsOf(e, k)) :
          StepsOf(d, k)[i] = x /\ StepsOf(e, k)[j] = x
    BY <1>10 DEF Has
  <2>2. StepsOf(d, k) \in Seq(A) /\ StepsOf(e, k) \in Seq(A)
    BY <1>1 DEF Addable, StepList
  <2>3. i \in DOMAIN StepsOf(d, k) /\ j \in DOMAIN StepsOf(e, k)
    BY <2>1, <2>2, LenProperties
  <2>4. QED
    BY <2>1, <2>3 DEF Addable, IdsOnce
<1>11. ASSUME NEW i \in 1..Len(s), NEW j \in 1..Len(s), NEW x, Has(F[s[i]], x), Has(F[s[j]], x)
       PROVE  i = j
  <2>1. PICK d \in Defs(app), e \in Defs(app) : d.name = s[i] /\ e.name = s[j]
    BY <1>7, <1>8
  <2>2. d = e
    BY <1>6, <1>10, <1>11, <2>1
  <2>3. s[i] = s[j]
    BY <2>1, <2>2
  <2>4. QED
    BY <1>4, <2>3 DEF Alone
<1>12. PICK t : t = Gather(s, F)
  OBVIOUS
<1>13. t = Added(app, k)
  BY <1>2, <1>3, <1>5, <1>12 DEF Added
<1>14. t \in Seq(A)
  BY <1>4, <1>9, <1>12, GatherIsSequence
<1>15. Alone(t)
  BY <1>4, <1>9, <1>11, <1>12, GatherAlone
<1>16. ASSUME NEW x \in A PROVE Has(t, x)
  <2>1. PICK d \in Defs(app) : x \in Range(StepsOf(d, k))
    BY <1>1 DEF StepsAdded
  <2>2. Has(StepsOf(d, k), x)
    <3>1. StepsOf(d, k) \in Seq(A)
      BY <1>1 DEF Addable, StepList
    <3>2. QED
      BY <2>1, <3>1, LenProperties DEF Has, Range
  <2>3. PICK i \in 1..Len(s) : s[i] = d.name
    BY <1>4, <1>6 DEF Has
  <2>4. Has(F[s[i]], x)
    BY <1>6, <2>2, <2>3
  <2>5. PICK none : none = NoApp
    OBVIOUS
  <2>6. \A j \in 1..Len(s) : Follows(none, F[s[j]])
    BY <2>5, NoAppFollows
  <2>7. \A j \in 1..Len(s) : \A y : Has(F[s[j]], y) => Has(Gather(s, F), y)
    BY <1>4, <1>9, <2>6, GatherFollows
  <2>8. QED
    BY <1>12, <2>4, <2>7
<1>17. QED
  BY <1>1, <1>13, <1>14, <1>15, <1>16

\* what placing the steps A among the ids I may hold
Placings(I, A) == [placed : Seq(I), tails : [I -> I], left : Seq(A)]

\* the steps A beside the ids D a pipeline declares, all of them among I
Steppable(D, I, A) ==
  /\ D \subseteq I
  /\ \A a \in A : a.id \in I /\ a.id \notin D /\ a.anchor \in I /\ a.side \in {"before", "after"}
  /\ \A a, b \in A : a.id = b.id => a = b

(* An id that is there has a first place. *)
LEMMA HasPlace ==
  ASSUME NEW I, NEW s \in Seq(I), NEW x, x \in Range(s)
  PROVE  PlaceOf(s, x) \in 1..Len(s) /\ s[PlaceOf(s, x)] = x
<1>1. DOMAIN s = 1..Len(s) /\ Len(s) \in Nat
  BY LenProperties
<1>2. PICK P : P = {i \in 1..Len(s) : s[i] = x}
  OBVIOUS
<1>3. P \in SUBSET Nat /\ P # {}
  BY <1>1, <1>2 DEF Range
<1>4. PICK i \in P : \A j \in P : i <= j
  BY <1>3, First
<1>5. i \in DOMAIN s /\ s[i] = x /\ \A j \in 1..(i - 1) : s[j] # x
  <2>1. i \in 1..Len(s) /\ s[i] = x
    BY <1>2
  <2>2. ASSUME NEW j \in 1..(i - 1), s[j] = x PROVE FALSE
    <3>1. j \in P
      BY <1>1, <1>2, <2>1, <2>2
    <3>2. QED
      BY <1>4, <2>1, <3>1
  <2>3. QED
    BY <1>1, <2>1, <2>2
<1>6. QED
  BY <1>1, <1>5 DEF PlaceOf

(* Put in at m, e is at m: what was before stays, the rest moves on by one. *)
LEMMA Inserted ==
  ASSUME NEW I, NEW s \in Seq(I), NEW m \in 1..(Len(s) + 1), NEW e \in I
  PROVE  /\ InsertAt(s, m, e) \in Seq(I) /\ Len(InsertAt(s, m, e)) = Len(s) + 1
         /\ \A i \in 1..(Len(s) + 1) :
              InsertAt(s, m, e)[i] = IF i < m THEN s[i] ELSE IF i = m THEN e ELSE s[i - 1]
<1>1. PICK n \in Nat : n = Len(s)
  BY LenProperties
<1>2. s \in [1..n -> I]
  BY <1>1, LenProperties
<1>3. PICK a : a = SubSeq(s, 1, m - 1)
  OBVIOUS
<1>4. PICK b : b = SubSeq(s, m, n)
  OBVIOUS
<1>5. a \in Seq(I) /\ Len(a) = m - 1 /\ \A i \in 1..(m - 1) : a[i] = s[i]
  <2>1. m - 1 \in 0..n /\ 1 \in 1..(n + 1)
    BY <1>1
  <2>2. \A i \in 1..(m - 1) : s[i] \in I
    BY <1>1, <1>2
  <2>3. QED
    BY <1>1, <1>3, <2>1, <2>2, SubSeqProperties
<1>6. b \in Seq(I) /\ Len(b) = n + 1 - m /\ \A i \in 1..(n + 1 - m) : b[i] = s[m + i - 1]
  <2>1. \A i \in m..n : s[i] \in I
    BY <1>1, <1>2
  <2>2. QED
    BY <1>1, <1>4, <2>1, SubSeqProperties
<1>7. PICK c : c = a \o <<e>>
  OBVIOUS
<1>8. <<e>> \in Seq(I) /\ Len(<<e>>) = 1 /\ <<e>>[1] = e
  OBVIOUS
<1>9. c \in Seq(I) /\ Len(c) = m /\ \A i \in 1..m : c[i] = IF i < m THEN s[i] ELSE e
  <2>1. /\ c \in Seq(I) /\ Len(c) = Len(a) + 1
        /\ \A i \in 1..(Len(a) + 1) : c[i] = IF i <= Len(a) THEN a[i] ELSE <<e>>[i - Len(a)]
    BY <1>5, <1>7, <1>8, ConcatProperties
  <2>2. QED
    BY <1>1, <1>5, <1>8, <2>1
<1>10. PICK t : t = c \o b
  OBVIOUS
<1>11. /\ t \in Seq(I) /\ Len(t) = n + 1
       /\ \A i \in 1..(n + 1) : t[i] = IF i <= m THEN c[i] ELSE b[i - m]
  <2>1. /\ t \in Seq(I) /\ Len(t) = Len(c) + Len(b)
        /\ \A i \in 1..(Len(c) + Len(b)) : t[i] = IF i <= Len(c) THEN c[i] ELSE b[i - Len(c)]
    BY <1>6, <1>9, <1>10, ConcatProperties
  <2>2. Len(c) = m /\ Len(b) = n + 1 - m /\ m + (n + 1 - m) = n + 1
    BY <1>1, <1>6, <1>9
  <2>3. QED
    BY <2>1, <2>2
<1>12. ASSUME NEW i \in 1..(n + 1) PROVE t[i] = IF i < m THEN s[i] ELSE IF i = m THEN e ELSE s[i - 1]
  <2>1. CASE i <= m
    BY <1>1, <1>9, <1>11, <2>1
  <2>2. CASE ~(i <= m)
    <3>1. i - m \in 1..(n + 1 - m) /\ m + (i - m) - 1 = i - 1
      BY <1>1, <2>2
    <3>2. b[i - m] = s[m + (i - m) - 1]
      BY <1>6, <3>1
    <3>3. t[i] = b[i - m]
      BY <1>11, <2>2
    <3>4. ~(i < m) /\ i # m
      BY <1>1, <2>2
    <3>5. QED
      BY <3>1, <3>2, <3>3, <3>4
  <2>3. QED
    BY <2>1, <2>2
<1>13. t = InsertAt(s, m, e)
  BY <1>1, <1>3, <1>4, <1>7, <1>10 DEF InsertAt
<1>14. QED
  BY <1>1, <1>11, <1>12, <1>13

\* u comes before v in s, with nothing of D between
Clear(D, s, u, v) ==
  \E i, j \in 1..Len(s) : s[i] = u /\ s[j] = v /\ i < j /\ \A l \in (i + 1)..(j - 1) : s[l] \notin D

(* A new id that is not of D leaves clear what was clear. *)
LEMMA StaysClear ==
  ASSUME NEW I, NEW D, NEW s \in Seq(I), NEW m \in 1..(Len(s) + 1), NEW e \in I, e \notin D,
         NEW u, NEW v, Clear(D, s, u, v)
  PROVE  Clear(D, InsertAt(s, m, e), u, v)
<1>1. PICK n \in Nat : n = Len(s)
  BY LenProperties
<1>2. PICK t : t = InsertAt(s, m, e)
  OBVIOUS
<1>3. Len(t) = n + 1 /\ \A i \in 1..(n + 1) : t[i] = IF i < m THEN s[i] ELSE IF i = m THEN e ELSE s[i - 1]
  <2>1. /\ InsertAt(s, m, e) \in Seq(I) /\ Len(InsertAt(s, m, e)) = Len(s) + 1
        /\ \A i \in 1..(Len(s) + 1) :
             InsertAt(s, m, e)[i] = IF i < m THEN s[i] ELSE IF i = m THEN e ELSE s[i - 1]
    BY Inserted
  <2>2. QED
    BY <1>1, <1>2, <2>1
<1>4. PICK i \in 1..n, j \in 1..n : s[i] = u /\ s[j] = v /\ i < j /\ \A l \in (i + 1)..(j - 1) : s[l] \notin D
  BY <1>1 DEF Clear
<1> DEFINE On(x) == IF x < m THEN x ELSE x + 1
<1>5. On(i) \in 1..(n + 1) /\ On(j) \in 1..(n + 1) /\ On(i) < On(j) /\ t[On(i)] = u /\ t[On(j)] = v
  BY <1>1, <1>3, <1>4
<1>6. ASSUME NEW l \in (On(i) + 1)..(On(j) - 1) PROVE t[l] \notin D
  <2>0. l \in 1..(n + 1)
    BY <1>1, <1>5
  <2>1. CASE l < m
    <3>1. l \in (i + 1)..(j - 1)
      BY <1>1, <1>6, <2>1
    <3>2. t[l] = s[l]
      BY <1>3, <2>0, <2>1
    <3>3. QED
      BY <1>4, <3>1, <3>2
  <2>2. CASE l = m
    BY <1>3, <2>0, <2>2
  <2>3. CASE m < l
    <3>1. l - 1 \in (i + 1)..(j - 1)
      BY <1>1, <1>6, <2>3
    <3>2. t[l] = s[l - 1]
      BY <1>1, <1>3, <2>0, <2>3
    <3>3. QED
      BY <1>4, <3>1, <3>2
  <2>4. QED
    BY <1>1, <2>0, <2>1, <2>2, <2>3
<1> HIDE DEF On
<1>7. QED
  BY <1>2, <1>3, <1>5, <1>6 DEF Clear

\* where a is put in, beside the one at `at`
PutAt(a, at) == IF a.side = "before" THEN at ELSE at + 1

(* A step is left for the next round, or put in beside what it is to be beside. *)
LEMMA PutFits ==
  ASSUME NEW D, NEW I, NEW A, Steppable(D, I, A), NEW to \in Placings(I, A), NEW a \in A
  PROVE  /\ Put(to, a) \in Placings(I, A) /\ Beside(to, a) \in I
         /\ \/ /\ Put(to, a).placed = to.placed /\ Put(to, a).tails = to.tails
               /\ Put(to, a).left = Append(to.left, a)
            \/ /\ Put(to, a).left = to.left
               /\ \E at \in 1..Len(to.placed) : /\ to.placed[at] = Beside(to, a)
                                               /\ Put(to, a).placed = InsertAt(to.placed, PutAt(a, at), a.id)
               /\ Put(to, a).tails = [to.tails EXCEPT ![a.anchor] = IF a.side = "after" THEN a.id ELSE @]
<1>1. a.id \in I /\ a.anchor \in I /\ a.side \in {"before", "after"}
  BY DEF Steppable
<1>2. /\ to.placed \in Seq(I) /\ to.tails \in [I -> I] /\ to.left \in Seq(A)
      /\ to = [placed |-> to.placed, tails |-> to.tails, left |-> to.left]
  BY DEF Placings
<1>3. PICK x : x = Beside(to, a)
  OBVIOUS
<1>4. x \in I
  BY <1>1, <1>2, <1>3 DEF Beside
<1>5. PICK r : r = Put(to, a)
  OBVIOUS
<1>6. CASE x \notin Range(to.placed)
  <2>1. r = [to EXCEPT !.left = Append(@, a)]
    BY <1>3, <1>5, <1>6 DEF Put
  <2>2. r = [placed |-> to.placed, tails |-> to.tails, left |-> Append(to.left, a)]
    BY <1>2, <2>1
  <2>3. Append(to.left, a) \in Seq(A)
    BY <1>2, AppendProperties
  <2>4. r \in Placings(I, A)
    BY <1>2, <2>2, <2>3 DEF Placings
  <2>5. QED
    BY <1>3, <1>4, <1>5, <2>2, <2>4
<1>7. CASE x \in Range(to.placed)
  <2>1. PICK at : at = PlaceOf(to.placed, x)
    OBVIOUS
  <2>2. at \in 1..Len(to.placed) /\ to.placed[at] = x
    BY <1>2, <1>7, <2>1, HasPlace
  <2>3. r = [to EXCEPT !.placed = InsertAt(@, IF a.side = "before" THEN at ELSE at + 1, a.id),
                       !.tails[a.anchor] = IF a.side = "after" THEN a.id ELSE @]
    BY <1>3, <1>5, <1>7, <2>1 DEF Put
  <2>4. PICK placed : placed = InsertAt(to.placed, PutAt(a, at), a.id)
    OBVIOUS
  <2>5. PICK tails : tails = [to.tails EXCEPT ![a.anchor] = IF a.side = "after" THEN a.id ELSE @]
    OBVIOUS
  <2>6. r = [placed |-> placed, tails |-> tails, left |-> to.left]
    BY <1>2, <2>3, <2>4, <2>5 DEF PutAt
  <2>7. placed \in Seq(I)
    <3>1. PutAt(a, at) \in 1..(Len(to.placed) + 1)
      BY <1>2, <2>2, LenProperties DEF PutAt
    <3>2. QED
      BY <1>1, <1>2, <2>4, <3>1, Inserted
  <2>8. tails \in [I -> I]
    BY <1>1, <1>2, <2>5
  <2>9. r \in Placings(I, A)
    BY <1>2, <2>6, <2>7, <2>8 DEF Placings
  <2>10. r.left = to.left /\ r.placed = placed /\ r.tails = tails
    BY <2>6
  <2>11. QED
    BY <1>3, <1>4, <1>5, <2>2, <2>4, <2>5, <2>9, <2>10
<1>8. QED
  BY <1>6, <1>7

\* steps placed are beside their anchors, and tails beside what they are tails of
WellPut(D, I, A, to) ==
  /\ Alone(to.placed)
  /\ \A a \in A : Has(to.placed, a.id) =>
       IF a.side = "before" THEN Clear(D, to.placed, a.id, a.anchor) ELSE Clear(D, to.placed, a.anchor, a.id)
  /\ \A x \in I : to.tails[x] = x \/ (to.tails[x] \notin D /\ Clear(D, to.placed, x, to.tails[x]))

(* Putting one more step in keeps it so. *)
LEMMA PutStaysWell ==
  ASSUME NEW D, NEW I, NEW A, Steppable(D, I, A), NEW to \in Placings(I, A), NEW a \in A,
         WellPut(D, I, A, to), ~Has(to.placed, a.id)
  PROVE  /\ WellPut(D, I, A, Put(to, a))
         /\ \/ Put(to, a).placed = to.placed /\ Put(to, a).left = Append(to.left, a)
            \/ /\ Put(to, a).left = to.left
               /\ \A x : Has(Put(to, a).placed, x) <=> Has(to.placed, x) \/ x = a.id
<1>1. /\ a.id \in I /\ a.id \notin D /\ a.anchor \in I /\ a.side \in {"before", "after"}
      /\ \A b \in A : b.id = a.id => b = a
  BY DEF Steppable
<1>2. PICK r : r = Put(to, a)
  OBVIOUS
<1>3. PICK s \in Seq(I) : s = to.placed
  BY DEF Placings
<1>4. PICK n \in Nat : n = Len(s)
  BY LenProperties
<1>5. to.tails \in [I -> I]
  BY DEF Placings
<1>6. CASE r.placed = to.placed /\ r.tails = to.tails /\ r.left = Append(to.left, a)
  BY <1>2, <1>6 DEF WellPut
<1>7. CASE /\ r.left = to.left
           /\ \E at \in 1..Len(s) : s[at] = Beside(to, a) /\ r.placed = InsertAt(s, PutAt(a, at), a.id)
           /\ r.tails = [to.tails EXCEPT ![a.anchor] = IF a.side = "after" THEN a.id ELSE @]
  <2>1. PICK at \in 1..n : s[at] = Beside(to, a) /\ r.placed = InsertAt(s, PutAt(a, at), a.id)
    BY <1>4, <1>7
  <2>2. PICK m : m = PutAt(a, at)
    OBVIOUS
  <2>3. m \in 1..(Len(s) + 1) /\ m \in 1..(n + 1)
    BY <1>4, <2>2 DEF PutAt
  <2>4. PICK t : t = r.placed
    OBVIOUS
  <2>5. t = InsertAt(s, m, a.id)
    BY <2>1, <2>2, <2>4
  <2>6. /\ t \in Seq(I) /\ Len(t) = n + 1
        /\ \A i \in 1..(n + 1) : t[i] = IF i < m THEN s[i] ELSE IF i = m THEN a.id ELSE s[i - 1]
    <3>0. PICK e \in I : e = a.id
      BY <1>1
    <3>1. /\ InsertAt(s, m, e) \in Seq(I) /\ Len(InsertAt(s, m, e)) = Len(s) + 1
          /\ \A i \in 1..(Len(s) + 1) :
               InsertAt(s, m, e)[i] = IF i < m THEN s[i] ELSE IF i = m THEN e ELSE s[i - 1]
      BY <2>3, Inserted
    <3>2. t = InsertAt(s, m, e)
      BY <2>5, <3>0
    <3>3. QED
      BY <1>4, <3>0, <3>1, <3>2
  <2>7. ASSUME NEW u, NEW v, Clear(D, s, u, v) PROVE Clear(D, t, u, v)
    <3>1. Clear(D, InsertAt(s, m, a.id), u, v)
      BY <1>1, <2>3, <2>7, StaysClear
    <3>2. QED
      BY <2>5, <3>1
  <2>8. \A i \in 1..n : s[i] # a.id
    BY <1>3, <1>4 DEF Has
  <2>9. \A x : Has(t, x) <=> Has(s, x) \/ x = a.id
    <3>1. ASSUME NEW x, Has(t, x) PROVE Has(s, x) \/ x = a.id
      <4>1. PICK i \in 1..(n + 1) : t[i] = x
        BY <2>6, <3>1 DEF Has
      <4>2. CASE i < m
        <5>1. i \in 1..n /\ s[i] = x
          BY <2>3, <2>6, <4>1, <4>2
        <5>2. QED
          BY <1>4, <5>1 DEF Has
      <4>3. CASE i = m
        BY <2>6, <4>1, <4>3
      <4>4. CASE m < i
        <5>1. i - 1 \in 1..n /\ s[i - 1] = x
          BY <2>3, <2>6, <4>1, <4>4
        <5>2. QED
          BY <1>4, <5>1 DEF Has
      <4>5. QED
        BY <2>3, <4>2, <4>3, <4>4
    <3>2. ASSUME NEW x, Has(s, x) PROVE Has(t, x)
      <4>1. PICK i \in 1..n : s[i] = x
        BY <1>4, <3>2 DEF Has
      <4>2. CASE i < m
        <5>1. i \in 1..(n + 1) /\ t[i] = x
          BY <2>3, <2>6, <4>1, <4>2
        <5>2. QED
          BY <2>6, <5>1 DEF Has
      <4>3. CASE ~(i < m)
        <5>1. i + 1 \in 1..(n + 1) /\ t[i + 1] = x
          BY <2>3, <2>6, <4>1, <4>3
        <5>2. QED
          BY <2>6, <5>1 DEF Has
      <4>4. QED
        BY <4>2, <4>3
    <3>3. Has(t, a.id)
      BY <2>3, <2>6 DEF Has
    <3>4. QED
      BY <3>1, <3>2, <3>3
  <2>10. Alone(t)
    <3>1. Alone(s)
      BY <1>3 DEF WellPut
    <3>2. ASSUME NEW i \in 1..(n + 1), NEW j \in 1..(n + 1), t[i] = t[j] PROVE i = j
      <4> DEFINE From(x) == IF x < m THEN x ELSE x - 1
      <4>1. ASSUME NEW x \in 1..(n + 1), x # m PROVE From(x) \in 1..n /\ t[x] = s[From(x)] /\ t[x] # a.id
        <5>1. From(x) \in 1..n /\ t[x] = s[From(x)]
          BY <2>3, <2>6, <4>1
        <5>2. QED
          BY <2>8, <5>1
      <4>2. t[m] = a.id
        BY <2>3, <2>6
      <4>3. CASE i = m \/ j = m
        BY <3>2, <4>1, <4>2, <4>3
      <4>4. CASE i # m /\ j # m
        <5>1. From(i) = From(j)
          <6> HIDE DEF From
          <6>1. From(i) \in 1..n /\ t[i] = s[From(i)]
            BY <4>1, <4>4
          <6>2. From(j) \in 1..n /\ t[j] = s[From(j)]
            BY <4>1, <4>4
          <6>3. s[From(i)] = s[From(j)]
            BY <3>2, <6>1, <6>2
          <6>4. QED
            BY <1>4, <3>1, <6>1, <6>2, <6>3 DEF Alone
        <5>2. QED
          BY <2>3, <4>4, <5>1
      <4>5. QED
        BY <4>3, <4>4
    <3>3. QED
      BY <2>6, <3>2 DEF Alone
  <2>11. IF a.side = "before" THEN Clear(D, t, a.id, a.anchor) ELSE Clear(D, t, a.anchor, a.id)
    <3>1. CASE a.side = "before"
      <4>1. s[at] = a.anchor /\ m = at
        BY <2>1, <2>2, <3>1 DEF Beside, PutAt
      <4>2. t[at] = a.id /\ t[at + 1] = a.anchor /\ at \in 1..(n + 1) /\ at + 1 \in 1..(n + 1)
        BY <2>3, <2>6, <4>1
      <4>3. (at + 1)..((at + 1) - 1) = {}
        OBVIOUS
      <4>4. QED
        BY <2>6, <3>1, <4>2, <4>3 DEF Clear
    <3>2. CASE a.side # "before"
      <4>1. a.side = "after" /\ s[at] = to.tails[a.anchor] /\ m = at + 1
        BY <1>1, <2>1, <2>2, <3>2 DEF Beside, PutAt
      <4>2. t[at + 1] = a.id /\ t[at] = s[at] /\ at \in 1..(n + 1) /\ at + 1 \in 1..(n + 1)
        BY <2>3, <2>6, <4>1
      <4>3. CASE to.tails[a.anchor] = a.anchor
        <5>1. (at + 1)..((at + 1) - 1) = {}
          OBVIOUS
        <5>2. QED
          BY <2>6, <3>2, <4>1, <4>2, <4>3, <5>1 DEF Clear
      <4>4. CASE to.tails[a.anchor] # a.anchor
        <5>1. s[at] \notin D /\ Clear(D, s, a.anchor, s[at])
          BY <1>1, <1>3, <4>1, <4>4 DEF WellPut
        <5>2. PICK i \in 1..n, j \in 1..n :
                s[i] = a.anchor /\ s[j] = s[at] /\ i < j /\ \A l \in (i + 1)..(j - 1) : s[l] \notin D
          BY <1>4, <5>1 DEF Clear
        <5>3. j = at
          <6>1. Alone(s)
            BY <1>3 DEF WellPut
          <6>2. QED
            BY <1>4, <5>2, <6>1 DEF Alone
        <5>4. i \in 1..(n + 1) /\ t[i] = a.anchor /\ i < at + 1
          BY <2>3, <2>6, <4>1, <5>2, <5>3
        <5>5. ASSUME NEW l \in (i + 1)..((at + 1) - 1) PROVE t[l] \notin D
          <6>1. l \in 1..(n + 1) /\ l < m /\ t[l] = s[l]
            BY <2>3, <2>6, <4>1, <5>2
          <6>2. CASE l = at
            BY <5>1, <6>1, <6>2
          <6>3. CASE l # at
            <7>1. l \in (i + 1)..(j - 1)
              BY <5>2, <5>3, <6>3
            <7>2. QED
              BY <5>2, <6>1, <7>1
          <6>4. QED
            BY <6>2, <6>3
        <5>6. QED
          BY <2>6, <3>2, <4>2, <5>4, <5>5 DEF Clear
      <4>5. QED
        BY <4>3, <4>4
    <3>3. QED
      BY <3>1, <3>2
  <2>12. ASSUME NEW b \in A, Has(t, b.id)
         PROVE  IF b.side = "before" THEN Clear(D, t, b.id, b.anchor) ELSE Clear(D, t, b.anchor, b.id)
    <3>1. CASE b.id = a.id
      BY <1>1, <2>11, <3>1
    <3>2. CASE b.id # a.id
      <4>1. Has(s, b.id)
        BY <2>9, <2>12, <3>2
      <4>2. IF b.side = "before" THEN Clear(D, s, b.id, b.anchor) ELSE Clear(D, s, b.anchor, b.id)
        BY <1>3, <4>1 DEF WellPut
      <4>3. QED
        BY <2>7, <4>2
    <3>3. QED
      BY <3>1, <3>2
  <2>13. ASSUME NEW x \in I PROVE r.tails[x] = x \/ (r.tails[x] \notin D /\ Clear(D, t, x, r.tails[x]))
    <3>1. CASE x = a.anchor /\ a.side = "after"
      <4>1. r.tails[x] = a.id
        BY <1>1, <1>5, <1>7, <3>1
      <4>2. Clear(D, t, x, a.id)
        BY <2>11, <3>1
      <4>3. QED
        BY <1>1, <4>1, <4>2
    <3>2. CASE ~(x = a.anchor /\ a.side = "after")
      <4>1. r.tails[x] = to.tails[x]
        BY <1>1, <1>5, <1>7, <3>2
      <4>2. to.tails[x] = x \/ (to.tails[x] \notin D /\ Clear(D, s, x, to.tails[x]))
        BY <1>3 DEF WellPut
      <4>3. QED
        BY <2>7, <4>1, <4>2
    <3>3. QED
      BY <3>1, <3>2
  <2>14. WellPut(D, I, A, r)
    BY <2>4, <2>10, <2>12, <2>13 DEF WellPut
  <2>15. QED
    BY <1>2, <1>3, <1>7, <2>4, <2>9, <2>14
<1>8. QED
  <2>1. \/ /\ Put(to, a).placed = to.placed /\ Put(to, a).tails = to.tails
           /\ Put(to, a).left = Append(to.left, a)
        \/ /\ Put(to, a).left = to.left
           /\ \E at \in 1..Len(to.placed) : /\ to.placed[at] = Beside(to, a)
                                           /\ Put(to, a).placed = InsertAt(to.placed, PutAt(a, at), a.id)
           /\ Put(to, a).tails = [to.tails EXCEPT ![a.anchor] = IF a.side = "after" THEN a.id ELSE @]
    BY PutFits
  <2>2. QED
    BY <1>2, <1>3, <1>6, <1>7, <2>1

\* r is `to` with its steps put in or left, one after the other
RoundOf(I, A, to, r) ==
  /\ r \in [0..Len(to.left) -> Placings(I, A)] /\ r[0] = [to EXCEPT !.left = <<>>]
  /\ \A i \in 1..Len(to.left) : r[i] = Put(r[i - 1], to.left[i])

(* That is what Round gives. *)
LEMMA RoundSteps ==
  ASSUME NEW D, NEW I, NEW A, Steppable(D, I, A), NEW to \in Placings(I, A)
  PROVE  RoundOf(I, A, to, Round(to))
<1>1. PICK w \in Seq(A) : w = to.left
  BY DEF Placings
<1>2. PICK n \in Nat : n = Len(w)
  BY LenProperties
<1>3. PICK T : T = Placings(I, A)
  OBVIOUS
<1>4. \A i \in 1..n : w[i] \in A
  BY <1>2, ElementOfSeq
<1>5. \A st \in T : \A a \in A : Put(st, a) \in T
  BY <1>3, PutFits
<1>6. PICK b : b = [to EXCEPT !.left = <<>>]
  OBVIOUS
<1>7. b \in T
  <2>1. <<>> \in Seq(A)
    BY EmptySeq
  <2>2. QED
    BY <1>3, <1>6, <2>1 DEF Placings
<1>8. PICK G : G = [x \in T \X (1..n) |-> Put(x[1], w[x[2]])]
  OBVIOUS
<1>9. G \in [T \X (1..n) -> T]
  <2>1. \A x \in T \X (1..n) : Put(x[1], w[x[2]]) \in T
    BY <1>4, <1>5
  <2>2. QED
    BY <1>8, <2>1
<1>10. PICK f : f \in GoingOn(n, T, b, G)
  BY <1>7, <1>9, GoesOn
<1>11. f \in [0..n -> T] /\ f[0] = b /\ \A i \in 1..n : f[i] = G[<<f[i - 1], i>>]
  BY <1>10 DEF GoingOn
<1> DEFINE Is(h) == h = [i \in 0..n |-> IF i = 0 THEN b ELSE Put(h[i - 1], w[i])]
<1>12. Round(to) = CHOOSE h : Is(h)
  BY <1>1, <1>2, <1>6 DEF Round
<1>13. Is(f)
  <2>1. f = [i \in 0..n |-> f[i]]
    BY <1>11
  <2>2. ASSUME NEW i \in 0..n PROVE f[i] = IF i = 0 THEN b ELSE Put(f[i - 1], w[i])
    <3>1. CASE i = 0
      BY <1>11, <3>1
    <3>2. CASE i # 0
      <4>1. i \in 1..n /\ i - 1 \in 0..n
        BY <3>2
      <4>2. <<f[i - 1], i>> \in T \X (1..n)
        BY <1>11, <4>1
      <4>3. G[<<f[i - 1], i>>] = Put(f[i - 1], w[i])
        BY <1>8, <4>2
      <4>4. QED
        BY <1>11, <3>2, <4>1, <4>3
    <3>3. QED
      BY <3>1, <3>2
  <2>3. QED
    BY <2>1, <2>2
<1> HIDE DEF Is
<1>14. Is(Round(to))
  BY <1>12, <1>13
<1>15. PICK r : r = Round(to)
  OBVIOUS
<1>16. r = [i \in 0..n |-> IF i = 0 THEN b ELSE Put(r[i - 1], w[i])]
  BY <1>14, <1>15 DEF Is
<1>17. r[0] = b
  BY <1>16
<1>18. ASSUME NEW i \in 1..n PROVE r[i] = Put(r[i - 1], w[i])
  BY <1>16
<1> DEFINE S == {i \in 0..n : r[i] \in T}
<1>19. 0 \in S
  BY <1>7, <1>17
<1>20. ASSUME NEW i \in 1..n, i - 1 \in S PROVE i \in S
  <2>1. r[i] \in T
    BY <1>4, <1>5, <1>18, <1>20
  <2>2. QED
    BY <2>1
<1> HIDE DEF S
<1>21. \A i \in 0..n : i \in S
  BY <1>19, <1>20, UpTo
<1>22. r \in [0..n -> T]
  <2>1. \A i \in 0..n : r[i] \in T
    BY <1>21 DEF S
  <2>2. QED
    BY <1>16, <2>1
<1>23. QED
  BY <1>1, <1>2, <1>3, <1>6, <1>15, <1>17, <1>18, <1>22 DEF RoundOf

\* between two rounds: what is placed is well placed, and a step is placed or waits
RoundsFit(D, I, A, to) ==
  /\ to \in Placings(I, A) /\ WellPut(D, I, A, to) /\ Alone(to.left)
  /\ \A a \in A : /\ Has(to.placed, a.id) \/ Has(to.left, a)
                  /\ Has(to.left, a) => ~Has(to.placed, a.id)

\* within a round over w, with the first i behind: a step is placed, waits for
\* the next, or is still to come
RoundFits(D, I, A, w, i, to) ==
  /\ to \in Placings(I, A) /\ WellPut(D, I, A, to) /\ Alone(to.left)
  /\ \A a \in A : /\ Has(to.placed, a.id) \/ Has(to.left, a) \/ \E j \in (i + 1)..Len(w) : w[j] = a
                  /\ Has(to.left, a) => ~Has(to.placed, a.id) /\ \A j \in (i + 1)..Len(w) : w[j] # a
  /\ \A j \in (i + 1)..Len(w) : ~Has(to.placed, w[j].id)

(* A step of a round keeps that. *)
LEMMA PutGoesOn ==
  ASSUME NEW D, NEW I, NEW A, Steppable(D, I, A), NEW w \in Seq(A), Alone(w), NEW i \in 1..Len(w),
         NEW to, RoundFits(D, I, A, w, i - 1, to)
  PROVE  RoundFits(D, I, A, w, i, Put(to, w[i]))
<1>1. PICK a \in A : a = w[i]
  BY ElementOfSeq
<1>2. PICK n \in Nat : n = Len(w)
  BY LenProperties
<1>3. i \in ((i - 1) + 1)..Len(w) /\ \A j : j \in ((i - 1) + 1)..Len(w) <=> j = i \/ j \in (i + 1)..Len(w)
  BY <1>2
<1>4. /\ to \in Placings(I, A) /\ WellPut(D, I, A, to) /\ Alone(to.left)
      /\ \A b \in A :
           /\ Has(to.placed, b.id) \/ Has(to.left, b) \/ b = a \/ \E j \in (i + 1)..Len(w) : w[j] = b
           /\ Has(to.left, b) => ~Has(to.placed, b.id) /\ b # a /\ \A j \in (i + 1)..Len(w) : w[j] # b
      /\ ~Has(to.placed, a.id) /\ \A j \in (i + 1)..Len(w) : ~Has(to.placed, w[j].id)
  <2>1. to \in Placings(I, A) /\ WellPut(D, I, A, to) /\ Alone(to.left)
    BY DEF RoundFits
  <2>2. ASSUME NEW b \in A
        PROVE  /\ Has(to.placed, b.id) \/ Has(to.left, b) \/ \E j \in ((i - 1) + 1)..Len(w) : w[j] = b
               /\ Has(to.left, b) => ~Has(to.placed, b.id) /\ \A j \in ((i - 1) + 1)..Len(w) : w[j] # b
    BY DEF RoundFits
  <2>3. \A j \in ((i - 1) + 1)..Len(w) : ~Has(to.placed, w[j].id)
    BY DEF RoundFits
  <2>4. ASSUME NEW b \in A
        PROVE  /\ Has(to.placed, b.id) \/ Has(to.left, b) \/ b = a \/ \E j \in (i + 1)..Len(w) : w[j] = b
               /\ Has(to.left, b) => ~Has(to.placed, b.id) /\ b # a /\ \A j \in (i + 1)..Len(w) : w[j] # b
    BY <1>1, <1>3, <2>2
  <2>5. ~Has(to.placed, a.id) /\ \A j \in (i + 1)..Len(w) : ~Has(to.placed, w[j].id)
    BY <1>1, <1>3, <2>3
  <2>6. QED
    BY <2>1, <2>4, <2>5
<1>5. PICK r : r = Put(to, a)
  OBVIOUS
<1>6. /\ r \in Placings(I, A) /\ WellPut(D, I, A, r)
      /\ \/ r.placed = to.placed /\ r.left = Append(to.left, a)
         \/ r.left = to.left /\ \A x : Has(r.placed, x) <=> Has(to.placed, x) \/ x = a.id
  <2>1. to \in Placings(I, A) /\ WellPut(D, I, A, to) /\ ~Has(to.placed, a.id)
    BY <1>4
  <2>2. Put(to, a) \in Placings(I, A)
    BY <2>1, PutFits
  <2>3. /\ WellPut(D, I, A, Put(to, a))
        /\ \/ Put(to, a).placed = to.placed /\ Put(to, a).left = Append(to.left, a)
           \/ /\ Put(to, a).left = to.left
              /\ \A x : Has(Put(to, a).placed, x) <=> Has(to.placed, x) \/ x = a.id
    BY <2>1, PutStaysWell
  <2>4. QED
    BY <1>5, <2>2, <2>3
<1>7. ASSUME NEW j \in (i + 1)..Len(w) PROVE w[j] \in A /\ w[j] # a /\ w[j].id # a.id
  <2>1. j \in 1..Len(w) /\ j # i
    BY <1>2
  <2>2. w[j] \in A /\ w[j] # a
    BY <1>1, <2>1, ElementOfSeq DEF Alone
  <2>3. QED
    BY <2>2 DEF Steppable
<1>8. ASSUME r.placed = to.placed, r.left = Append(to.left, a) PROVE RoundFits(D, I, A, w, i, r)
  <2>1. PICK l \in Seq(A) : l = to.left
    BY <1>4 DEF Placings
  <2>2. Len(l) \in Nat
    BY <2>1, LenProperties
  <2>3. Len(r.left) = Len(l) + 1 /\ r.left[Len(l) + 1] = a /\ \A j \in 1..Len(l) : r.left[j] = l[j]
    BY <1>8, <2>1, AppendProperties
  <2>4. \A x : Has(r.left, x) <=> Has(to.left, x) \/ x = a
    <3>1. ASSUME NEW x, Has(r.left, x) PROVE Has(l, x) \/ x = a
      <4>1. PICK j \in 1..(Len(l) + 1) : r.left[j] = x
        BY <2>3, <3>1 DEF Has
      <4>2. j \in 1..Len(l) \/ j = Len(l) + 1
        BY <2>2
      <4>3. QED
        BY <2>3, <4>1, <4>2 DEF Has
    <3>2. ASSUME NEW x, Has(l, x) PROVE Has(r.left, x)
      <4>1. PICK j \in 1..Len(l) : l[j] = x
        BY <3>2 DEF Has
      <4>2. j \in 1..Len(r.left) /\ r.left[j] = x
        BY <2>2, <2>3, <4>1
      <4>3. QED
        BY <4>2 DEF Has
    <3>3. Has(r.left, a)
      <4>1. Len(l) + 1 \in 1..Len(r.left)
        BY <2>2, <2>3
      <4>2. QED
        BY <2>3, <4>1 DEF Has
    <3>4. QED
      BY <2>1, <3>1, <3>2, <3>3
  <2>5. Alone(r.left)
    <3>1. ~Has(l, a)
      BY <1>4, <2>1
    <3>2. \A j \in 1..Len(l) : l[j] # a
      BY <3>1 DEF Has
    <3>3. \A j, k \in 1..Len(l) : l[j] = l[k] => j = k
      BY <1>4, <2>1 DEF Alone
    <3>4. \A j \in 1..Len(r.left) : j \in 1..Len(l) \/ j = Len(l) + 1
      BY <2>2, <2>3
    <3>5. QED
      BY <2>2, <2>3, <3>2, <3>3, <3>4 DEF Alone
  <2>6. ASSUME NEW b \in A
        PROVE  /\ Has(r.placed, b.id) \/ Has(r.left, b) \/ \E j \in (i + 1)..Len(w) : w[j] = b
               /\ Has(r.left, b) => ~Has(r.placed, b.id) /\ \A j \in (i + 1)..Len(w) : w[j] # b
    BY <1>4, <1>7, <1>8, <2>4
  <2>7. QED
    BY <1>4, <1>6, <1>8, <2>5, <2>6 DEF RoundFits
<1>9. ASSUME r.left = to.left, \A x : Has(r.placed, x) <=> Has(to.placed, x) \/ x = a.id
      PROVE  RoundFits(D, I, A, w, i, r)
  <2>1. \A b \in A : b.id = a.id => b = a
    BY DEF Steppable
  <2>2. ASSUME NEW b \in A
        PROVE  /\ Has(r.placed, b.id) \/ Has(r.left, b) \/ \E j \in (i + 1)..Len(w) : w[j] = b
               /\ Has(r.left, b) => ~Has(r.placed, b.id) /\ \A j \in (i + 1)..Len(w) : w[j] # b
    BY <1>4, <1>9, <2>1
  <2>3. \A j \in (i + 1)..Len(w) : ~Has(r.placed, w[j].id)
    BY <1>4, <1>7, <1>9
  <2>4. QED
    BY <1>4, <1>6, <1>9, <2>2, <2>3 DEF RoundFits
<1>10. QED
  BY <1>1, <1>5, <1>6, <1>8, <1>9

(* So a whole round keeps what holds between rounds. *)
LEMMA RoundStays ==
  ASSUME NEW D, NEW I, NEW A, Steppable(D, I, A), NEW to, RoundsFit(D, I, A, to)
  PROVE  RoundsFit(D, I, A, Round(to)[Len(to.left)])
<1>1. to \in Placings(I, A)
  BY DEF RoundsFit
<1>2. PICK w \in Seq(A) : w = to.left
  BY <1>1 DEF Placings
<1>3. PICK n \in Nat : n = Len(w)
  BY LenProperties
<1>4. PICK r : r = Round(to)
  OBVIOUS
<1>5. r[0] = [to EXCEPT !.left = <<>>] /\ \A i \in 1..n : r[i] = Put(r[i - 1], w[i])
  <2>1. RoundOf(I, A, to, Round(to))
    BY <1>1, RoundSteps
  <2>2. QED
    BY <1>2, <1>3, <1>4, <2>1 DEF RoundOf
<1>6. Alone(w) /\ \A i \in 1..n : w[i] \in A
  BY <1>2, <1>3, ElementOfSeq DEF RoundsFit
<1> DEFINE S == {i \in 0..n : RoundFits(D, I, A, w, i, r[i])}
<1>7. 0 \in S
  <2>1. PICK b : b = r[0]
    OBVIOUS
  <2>2. b.placed = to.placed /\ b.tails = to.tails /\ b.left = <<>> /\ b \in Placings(I, A)
    <3>1. <<>> \in Seq(A)
      BY EmptySeq
    <3>2. QED
      BY <1>1, <1>5, <2>1, <3>1 DEF Placings
  <2>3. Len(b.left) = 0 /\ Alone(b.left) /\ \A x : ~Has(b.left, x)
    BY <2>2 DEF Alone, Has
  <2>4. WellPut(D, I, A, b)
    BY <2>2 DEF RoundsFit, WellPut
  <2>5. ASSUME NEW a \in A PROVE Has(to.placed, a.id) \/ \E j \in (0 + 1)..Len(w) : w[j] = a
    <3>1. Has(to.placed, a.id) \/ Has(w, a)
      BY <1>2 DEF RoundsFit
    <3>2. 0 + 1 = 1
      OBVIOUS
    <3>3. QED
      BY <3>1, <3>2 DEF Has
  <2>6. \A j \in (0 + 1)..Len(w) : ~Has(to.placed, w[j].id)
    <3>1. ASSUME NEW j \in (0 + 1)..Len(w) PROVE ~Has(to.placed, w[j].id)
      <4>1. j \in 1..Len(w) /\ w[j] \in A
        BY <1>3, <1>6
      <4>2. Has(to.left, w[j])
        BY <1>2, <4>1 DEF Has
      <4>3. QED
        BY <4>1, <4>2 DEF RoundsFit
    <3>2. QED
      BY <3>1
  <2>7. RoundFits(D, I, A, w, 0, b)
    BY <2>2, <2>3, <2>4, <2>5, <2>6 DEF RoundFits
  <2>8. QED
    BY <1>3, <2>1, <2>7
<1>8. ASSUME NEW i \in 1..n, i - 1 \in S PROVE i \in S
  <2>1. RoundFits(D, I, A, w, i - 1, r[i - 1]) /\ i \in 1..Len(w)
    BY <1>3, <1>8
  <2>2. RoundFits(D, I, A, w, i, Put(r[i - 1], w[i]))
    BY <1>6, <2>1, PutGoesOn
  <2>3. RoundFits(D, I, A, w, i, r[i]) /\ i \in 0..n
    BY <1>5, <2>2
  <2>4. QED
    BY <2>3
<1> HIDE DEF S
<1>9. \A i \in 0..n : i \in S
  BY <1>7, <1>8, UpTo
<1>10. RoundFits(D, I, A, w, n, r[n])
  <2>1. n \in S
    BY <1>9
  <2>2. QED
    BY <2>1 DEF S
<1>11. (n + 1)..Len(w) = {}
  BY <1>3
<1>12. RoundsFit(D, I, A, r[n])
  <2>1. r[n] \in Placings(I, A) /\ WellPut(D, I, A, r[n]) /\ Alone(r[n].left)
    BY <1>10 DEF RoundFits
  <2>2. ASSUME NEW a \in A
        PROVE  /\ Has(r[n].placed, a.id) \/ Has(r[n].left, a)
               /\ Has(r[n].left, a) => ~Has(r[n].placed, a.id)
    BY <1>10, <1>11 DEF RoundFits
  <2>3. QED
    BY <2>1, <2>2 DEF RoundsFit
<1>13. QED
  BY <1>2, <1>3, <1>4, <1>12

\* what placing the steps of pipeline k goes by
Placeable(app, k) ==
  /\ Addable(app, k) /\ AnchorsExist(app, k)
  /\ Declared(app, k) \in Seq(Range(Declared(app, k)))

\* where rounds begin
Start(app, k) ==
  [placed |-> Declared(app, k), tails |-> [id \in Ids(app, k) |-> id], left |-> Added(app, k)]

(* Ids taken once and anchors that exist are what a step needs to be put. *)
LEMMA PlaceableSteps ==
  ASSUME NEW app, NEW k, Placeable(app, k)
  PROVE  Steppable(Range(Declared(app, k)), Ids(app, k), StepsAdded(app, k))
<1>1. ASSUME NEW a \in StepsAdded(app, k) PROVE \E d \in Defs(app) : \E i \in DOMAIN StepsOf(d, k) : a = StepsOf(d, k)[i]
  <2>1. PICK d \in Defs(app) : a \in Range(StepsOf(d, k))
    BY DEF StepsAdded
  <2>2. QED
    BY <2>1 DEF Range
<1>2. IdsOnce(app, k) /\ AnchorsExist(app, k)
  BY DEF Placeable, Addable
<1>3. ASSUME NEW a \in StepsAdded(app, k), NEW b \in StepsAdded(app, k), a.id = b.id PROVE a = b
  <2>1. PICK d \in Defs(app) : \E i \in DOMAIN StepsOf(d, k) : a = StepsOf(d, k)[i]
    BY <1>1
  <2>2. PICK i \in DOMAIN StepsOf(d, k) : a = StepsOf(d, k)[i]
    BY <2>1
  <2>3. PICK e \in Defs(app) : \E j \in DOMAIN StepsOf(e, k) : b = StepsOf(e, k)[j]
    BY <1>1
  <2>4. PICK j \in DOMAIN StepsOf(e, k) : b = StepsOf(e, k)[j]
    BY <2>3
  <2>5. StepsOf(d, k)[i].id = StepsOf(e, k)[j].id
    BY <1>3, <2>2, <2>4
  <2>6. d = e /\ i = j
    BY <1>2, <2>5 DEF IdsOnce
  <2>7. QED
    BY <2>2, <2>4, <2>6
<1>4. ASSUME NEW a \in StepsAdded(app, k)
      PROVE  /\ a.id \in Ids(app, k) /\ a.id \notin Range(Declared(app, k))
             /\ a.anchor \in Ids(app, k) /\ a.side \in {"before", "after"}
  <2>1. a.id \in Ids(app, k)
    BY DEF Ids
  <2>2. a.anchor \in Ids(app, k) /\ a.side \in {"before", "after"}
    BY <1>2 DEF AnchorsExist
  <2>3. a.id \notin Range(Declared(app, k))
    BY <1>1, <1>2 DEF IdsOnce
  <2>4. QED
    BY <2>1, <2>2, <2>3
<1>5. Range(Declared(app, k)) \subseteq Ids(app, k)
  BY DEF Ids
<1>6. QED
  BY <1>3, <1>4, <1>5 DEF Steppable

(* Where the rounds begin, every step waits and none is placed. *)
LEMMA StartFits ==
  ASSUME NEW app, NEW k, Placeable(app, k)
  PROVE  RoundsFit(Range(Declared(app, k)), Ids(app, k), StepsAdded(app, k), Start(app, k))
<1>1. PICK D : D = Range(Declared(app, k))
  OBVIOUS
<1>2. PICK I : I = Ids(app, k)
  OBVIOUS
<1>3. PICK A : A = StepsAdded(app, k)
  OBVIOUS
<1>4. PICK s \in Seq(D) : s = Declared(app, k)
  BY <1>1 DEF Placeable
<1>5. PICK w \in Seq(A) : w = Added(app, k) /\ Alone(w) /\ \A x \in A : Has(w, x)
  BY <1>3, AddedSteps DEF Placeable
<1>6. Steppable(D, I, A)
  BY <1>1, <1>2, <1>3, PlaceableSteps
<1>7. PICK b : b = Start(app, k)
  OBVIOUS
<1>8. b.placed = s /\ b.left = w /\ b.tails \in [I -> I] /\ (\A x \in I : b.tails[x] = x)
  BY <1>2, <1>4, <1>5, <1>7 DEF Start
<1>9. b \in Placings(I, A)
  <2>1. D \subseteq I
    BY <1>6 DEF Steppable
  <2>2. s \in Seq(I)
    <3>1. Len(s) \in Nat /\ \A i \in 1..Len(s) : s[i] \in I
      BY <2>1, LenProperties, ElementOfSeq
    <3>2. s \in [1..Len(s) -> I]
      BY <3>1, LenProperties
    <3>3. QED
      BY <3>1, <3>2, SeqDef
  <2>3. QED
    BY <1>2, <1>4, <1>5, <1>7, <2>2 DEF Start, Placings
<1>10. Alone(s)
  <2>1. IsInjective(s) /\ DOMAIN s = 1..Len(s)
    BY <1>4, LenProperties DEF Placeable, Addable, IdsOnce
  <2>2. QED
    BY <2>1 DEF IsInjective, Alone
<1>11. ASSUME NEW a \in A PROVE ~Has(s, a.id)
  <2>1. a.id \notin D
    BY <1>6 DEF Steppable
  <2>2. QED
    BY <2>1, ElementOfSeq DEF Has
<1>12. WellPut(D, I, A, b)
  BY <1>8, <1>10, <1>11 DEF WellPut
<1>13. QED
  BY <1>1, <1>2, <1>3, <1>5, <1>7, <1>8, <1>9, <1>11, <1>12 DEF RoundsFit

(* A round leaves what it is given of the same kind. *)
LEMMA RoundIsPlacing ==
  ASSUME NEW D, NEW I, NEW A, Steppable(D, I, A), NEW to \in Placings(I, A)
  PROVE  Round(to)[Len(to.left)] \in Placings(I, A)
<1>1. Len(to.left) \in Nat
  BY LenProperties DEF Placings
<1>2. Len(to.left) \in 0..Len(to.left)
  BY <1>1
<1>3. Round(to) \in [0..Len(to.left) -> Placings(I, A)]
  BY RoundSteps DEF RoundOf
<1>4. QED
  BY <1>2, <1>3

(* Rounds go on from the start, one after the other, and every one keeps what *)
(* holds between rounds.                                                      *)
LEMMA RoundsStay ==
  ASSUME NEW app, NEW k, Placeable(app, k)
  PROVE  RoundsFit(Range(Declared(app, k)), Ids(app, k), StepsAdded(app, k), Resolved(app, k))
<1>1. PICK D : D = Range(Declared(app, k))
  OBVIOUS
<1>2. PICK I : I = Ids(app, k)
  OBVIOUS
<1>3. PICK A : A = StepsAdded(app, k)
  OBVIOUS
<1>4. Steppable(D, I, A)
  BY <1>1, <1>2, <1>3, PlaceableSteps
<1>5. PICK n \in Nat : n = Len(Added(app, k))
  BY AddedSteps, LenProperties DEF Placeable
<1>6. PICK T : T = Placings(I, A)
  OBVIOUS
<1>7. PICK b : b = Start(app, k)
  OBVIOUS
<1>8. RoundsFit(D, I, A, b)
  BY <1>1, <1>2, <1>3, <1>7, StartFits
<1>9. b \in T
  BY <1>6, <1>8 DEF RoundsFit
<1>10. \A st \in T : Round(st)[Len(st.left)] \in T
  BY <1>4, <1>6, RoundIsPlacing
<1>11. PICK G : G = [x \in T \X (1..n) |-> Round(x[1])[Len(x[1].left)]]
  OBVIOUS
<1>12. G \in [T \X (1..n) -> T]
  BY <1>10, <1>11
<1>13. PICK f : f \in GoingOn(n, T, b, G)
  BY <1>9, <1>12, GoesOn
<1>14. f \in [0..n -> T] /\ f[0] = b /\ \A i \in 1..n : f[i] = G[<<f[i - 1], i>>]
  BY <1>13 DEF GoingOn
<1> DEFINE Is(h) == h = [i \in 0..n |-> IF i = 0 THEN b ELSE Round(h[i - 1])[Len(h[i - 1].left)]]
<1>15. Rounds(app, k) = CHOOSE h : Is(h)
  BY <1>5, <1>7 DEF Rounds, Start
<1>16. Is(f)
  <2>1. f = [i \in 0..n |-> f[i]]
    BY <1>14
  <2>2. ASSUME NEW i \in 0..n PROVE f[i] = IF i = 0 THEN b ELSE Round(f[i - 1])[Len(f[i - 1].left)]
    <3>1. CASE i = 0
      BY <1>14, <3>1
    <3>2. CASE i # 0
      <4>1. i \in 1..n /\ i - 1 \in 0..n
        BY <3>2
      <4>2. <<f[i - 1], i>> \in T \X (1..n)
        BY <1>14, <4>1
      <4>3. G[<<f[i - 1], i>>] = Round(f[i - 1])[Len(f[i - 1].left)]
        BY <1>11, <4>2
      <4>4. QED
        BY <1>14, <3>2, <4>1, <4>3
    <3>3. QED
      BY <3>1, <3>2
  <2>3. QED
    BY <2>1, <2>2
<1> HIDE DEF Is
<1>17. Is(Rounds(app, k))
  BY <1>15, <1>16
<1>18. PICK r : r = Rounds(app, k)
  OBVIOUS
<1>19. r = [i \in 0..n |-> IF i = 0 THEN b ELSE Round(r[i - 1])[Len(r[i - 1].left)]]
  BY <1>17, <1>18 DEF Is
<1>20. r[0] = b
  BY <1>19
<1>21. ASSUME NEW i \in 1..n PROVE r[i] = Round(r[i - 1])[Len(r[i - 1].left)]
  <2>1. i \in 0..n /\ i # 0
    BY <1>21
  <2>2. r[i] = IF i = 0 THEN b ELSE Round(r[i - 1])[Len(r[i - 1].left)]
    BY <1>19, <2>1, ZenonT(60)
  <2>3. QED
    BY <2>1, <2>2
<1> DEFINE S == {i \in 0..n : RoundsFit(D, I, A, r[i])}
<1>22. 0 \in S
  BY <1>8, <1>20
<1>23. ASSUME NEW i \in 1..n, i - 1 \in S PROVE i \in S
  <2>1. RoundsFit(D, I, A, r[i - 1])
    BY <1>23
  <2>2. RoundsFit(D, I, A, Round(r[i - 1])[Len(r[i - 1].left)])
    BY <1>4, <2>1, RoundStays
  <2>3. RoundsFit(D, I, A, r[i])
    BY <1>21, <2>2
  <2>4. QED
    BY <2>3
<1> HIDE DEF S
<1>24. \A i \in 0..n : i \in S
  BY <1>22, <1>23, UpTo
<1>25. RoundsFit(D, I, A, r[n])
  <2>1. n \in S
    BY <1>24
  <2>2. QED
    BY <2>1 DEF S
<1>26. QED
  BY <1>1, <1>2, <1>3, <1>5, <1>18, <1>25 DEF Resolved

(* When nothing waits any more, every step is beside its anchor. *)
LEMMA ResolvedBeside ==
  ASSUME NEW app, NEW k, Placeable(app, k), Resolved(app, k).left = <<>>, NEW a \in StepsAdded(app, k)
  PROVE  StaysBeside(app, k, a)
<1>1. PICK D : D = Range(Declared(app, k))
  OBVIOUS
<1>2. PICK I : I = Ids(app, k)
  OBVIOUS
<1>3. PICK A : A = StepsAdded(app, k)
  OBVIOUS
<1>4. PICK to : to = Resolved(app, k)
  OBVIOUS
<1>5. RoundsFit(D, I, A, to)
  BY <1>1, <1>2, <1>3, <1>4, RoundsStay
<1>6. PICK s \in Seq(I) : s = to.placed
  BY <1>5 DEF RoundsFit, Placings
<1>7. Len(s) \in Nat /\ DOMAIN s = 1..Len(s)
  BY LenProperties
<1>8. Has(s, a.id)
  <2>1. Has(to.placed, a.id) \/ Has(to.left, a)
    BY <1>3, <1>5 DEF RoundsFit
  <2>2. ~Has(to.left, a)
    BY <1>4 DEF Has
  <2>3. QED
    BY <1>6, <2>1, <2>2
<1>9. PICK u : u = IF a.side = "before" THEN a.id ELSE a.anchor
  OBVIOUS
<1>10. PICK v : v = IF a.side = "before" THEN a.anchor ELSE a.id
  OBVIOUS
<1>11. Clear(D, s, u, v)
  <2>1. WellPut(D, I, A, to)
    BY <1>5 DEF RoundsFit
  <2>2. IF a.side = "before" THEN Clear(D, s, a.id, a.anchor) ELSE Clear(D, s, a.anchor, a.id)
    BY <1>3, <1>6, <1>8, <2>1 DEF WellPut
  <2>3. QED
    BY <1>9, <1>10, <2>2
<1>12. PICK i \in 1..Len(s), j \in 1..Len(s) :
         s[i] = u /\ s[j] = v /\ i < j /\ \A l \in (i + 1)..(j - 1) : s[l] \notin D
  BY <1>11 DEF Clear
<1>13. Alone(s)
  BY <1>5, <1>6 DEF RoundsFit, WellPut
<1>14. PlaceOf(s, u) = i
  <2>1. u \in Range(s)
    BY <1>7, <1>12 DEF Range
  <2>2. PlaceOf(s, u) \in 1..Len(s) /\ s[PlaceOf(s, u)] = u
    BY <2>1, HasPlace
  <2>3. QED
    BY <1>12, <1>13, <2>2 DEF Alone
<1>15. PlaceOf(s, v) = j
  <2>1. v \in Range(s)
    BY <1>7, <1>12 DEF Range
  <2>2. PlaceOf(s, v) \in 1..Len(s) /\ s[PlaceOf(s, v)] = v
    BY <2>1, HasPlace
  <2>3. QED
    BY <1>12, <1>13, <2>2 DEF Alone
<1>16. QED
  BY <1>1, <1>4, <1>6, <1>9, <1>10, <1>12, <1>14, <1>15 DEF StaysBeside

(* Everything is worked out from the set of plugins: their names, what each   *)
(* depends on, and the walk over them.                                        *)
LEMMA OrderAlike ==
  ASSUME NEW a, NEW b, Defs(b) = Defs(a)
  PROVE  InOrder(b) = InOrder(a) /\ Pipelines(b) = Pipelines(a)
<1> DEFINE NamesOf(D) == {d.name : d \in D}
<1> DEFINE PipelinesOf(D) == UNION {DOMAIN d.pipelines : d \in D}
<1> DEFINE WalkOf(D) ==
             LET walk[open \in SUBSET {d.name : d \in D}] ==
                   [n \in {d.name : d \in D} |->
                      IF n \in open THEN <<>>
                      ELSE Append(Gather(Ascending((CHOOSE d \in D : d.name = n).needs \cap {d.name : d \in D}),
                                         walk[open \cup {n}]), n)]
             IN walk
<1>1. Names(a) = NamesOf(Defs(a)) /\ Names(b) = NamesOf(Defs(b))
  BY DEF Names
<1>2. Pipelines(a) = PipelinesOf(Defs(a)) /\ Pipelines(b) = PipelinesOf(Defs(b))
  BY DEF Pipelines
<1>3. Walk(a) = WalkOf(Defs(a))
  BY DEF Walk, Needs, Names, Def
<1>4. Walk(b) = WalkOf(Defs(b))
  BY DEF Walk, Needs, Names, Def
<1> HIDE DEF NamesOf, PipelinesOf, WalkOf
<1>5. Names(b) = Names(a) /\ Pipelines(b) = Pipelines(a) /\ Walk(b) = Walk(a)
  BY <1>1, <1>2, <1>3, <1>4
<1>6. QED
  BY <1>5 DEF InOrder

(* And so are the steps of a pipeline, those added to it, and their places.   *)
LEMMA ResolvedAlike ==
  ASSUME NEW a, NEW b, Defs(b) = Defs(a), NEW k
  PROVE  Resolved(b, k) = Resolved(a, k)
<1> DEFINE DeclaredOf(D) == (CHOOSE d \in D : d.name = k.of).pipelines[k].steps
<1> DEFINE AddedOf(D) ==
             Gather(Ascending({d.name : d \in D}),
                    [n \in {d.name : d \in D} |-> ById(StepsOf(CHOOSE d \in D : d.name = n, k))])
<1> DEFINE IdsOf(D, s) == Range(s) \cup {step.id : step \in UNION {Range(StepsOf(d, k)) : d \in D}}
<1> DEFINE RoundsOf(A, s, I) ==
             LET round[n \in 0..Len(A)] ==
                   IF n = 0 THEN [placed |-> s, tails |-> [id \in I |-> id], left |-> A]
                   ELSE Round(round[n - 1])[Len(round[n - 1].left)]
             IN round
<1>1. Declared(a, k) = DeclaredOf(Defs(a)) /\ Declared(b, k) = DeclaredOf(Defs(b))
  BY DEF Declared, Def
<1>2. Added(a, k) = AddedOf(Defs(a)) /\ Added(b, k) = AddedOf(Defs(b))
  BY DEF Added, Names, Def
<1>3. Ids(a, k) = IdsOf(Defs(a), Declared(a, k)) /\ Ids(b, k) = IdsOf(Defs(b), Declared(b, k))
  BY DEF Ids, StepsAdded
<1>4. Rounds(a, k) = RoundsOf(Added(a, k), Declared(a, k), Ids(a, k))
  BY DEF Rounds
<1>5. Rounds(b, k) = RoundsOf(Added(b, k), Declared(b, k), Ids(b, k))
  BY DEF Rounds
<1> HIDE DEF DeclaredOf, AddedOf, IdsOf, RoundsOf
<1>6. Declared(b, k) = Declared(a, k) /\ Added(b, k) = Added(a, k)
  BY <1>1, <1>2
<1>7. Ids(b, k) = Ids(a, k)
  BY <1>3, <1>6
<1>8. Rounds(b, k) = Rounds(a, k)
  BY <1>4, <1>5, <1>6, <1>7
<1>9. QED
  BY <1>6, <1>8 DEF Resolved

(* The plugins of a version given the other way round are the same plugins.   *)
LEMMA TurnedAlike ==
  ASSUME NEW c \in Code
  PROVE  Defs([Declares[c] EXCEPT !.given = Reverse(@)]) = Defs(Declares[c])
<1>1. PICK a : a = Declares[c]
  OBVIOUS
<1>2. PICK B : B = Defs(a)
  OBVIOUS
<1>3. a \in [given : Seq(B), database : BOOLEAN, production : BOOLEAN, schedule : BOOLEAN]
  BY <1>1, <1>2, ListsAssumption
<1>4. PICK s \in Seq(B) : s = a.given
  BY <1>3
<1>5. DOMAIN s = 1..Len(s) /\ Len(s) \in Nat
  BY LenProperties
<1>6. PICK t : t = Reverse(s)
  OBVIOUS
<1>7. t = [i \in 1..Len(s) |-> s[(Len(s) - i) + 1]]
  BY <1>6 DEF Reverse
<1>8. Range(t) = Range(s)
  <2>1. ASSUME NEW i \in 1..Len(s) PROVE t[i] \in Range(s)
    <3>1. (Len(s) - i) + 1 \in 1..Len(s)
      BY <1>5
    <3>2. QED
      BY <1>5, <1>7, <3>1 DEF Range
  <2>2. ASSUME NEW i \in 1..Len(s) PROVE s[i] \in Range(t)
    <3>1. (Len(s) - i) + 1 \in 1..Len(s) /\ (Len(s) - ((Len(s) - i) + 1)) + 1 = i
      BY <1>5
    <3>2. PICK j \in 1..Len(s) : (Len(s) - j) + 1 = i
      BY <3>1
    <3>3. t[j] = s[i]
      BY <1>7, <3>2
    <3>4. QED
      BY <1>7, <3>3 DEF Range
  <2>3. DOMAIN t = 1..Len(s)
    BY <1>7
  <2>4. \A x \in Range(t) : x \in Range(s)
    BY <2>1, <2>3 DEF Range
  <2>5. \A x \in Range(s) : x \in Range(t)
    BY <1>5, <2>2 DEF Range
  <2>6. QED
    BY <2>4, <2>5
<1>9. [a EXCEPT !.given = Reverse(@)].given = t
  <2>1. "given" \in DOMAIN a
    BY <1>3, SMTT(60)
  <2>2. [a EXCEPT !.given = Reverse(@)].given = Reverse(a.given)
    BY <2>1, ZenonT(60)
  <2>3. QED
    BY <1>4, <1>6, <2>2
<1>10. QED
  BY <1>1, <1>4, <1>8, <1>9 DEF Defs

(* What a version that may start declares can be placed, and all of it is.    *)
LEMMA MayBePlaced ==
  ASSUME NEW c \in Code, MayStart[c], NEW k \in Pipelines(Declares[c])
  PROVE  Placeable(Declares[c], k) /\ Resolved(Declares[c], k).left = <<>>
<1>1. PICK app : app = Declares[c]
  OBVIOUS
<1>2. Stands(app) /\ PipelinesStand(app)
  BY <1>1 DEF MayStart
<1>3. IdsOnce(app, k) /\ AnchorsExist(app, k) /\ Resolved(app, k).left = <<>>
  BY <1>1, <1>2 DEF PipelinesStand
<1>4. Numbered(app)
  BY <1>1, DeclaresAssumption DEF Numbered
<1>5. ASSUME NEW d \in Defs(app) PROVE Def(app, d.name) = d
  <2>1. PICK e : e = Def(app, d.name)
    OBVIOUS
  <2>2. e \in Defs(app) /\ e.name = d.name
    BY <2>1 DEF Def
  <2>3. PICK i \in DOMAIN app.given : app.given[i] = d
    BY DEF Defs, Range
  <2>4. PICK j \in DOMAIN app.given : app.given[j] = e
    BY <2>2 DEF Defs, Range
  <2>5. i = j
    BY <1>2, <2>2, <2>3, <2>4 DEF Stands, NoneTakenTwice
  <2>6. QED
    BY <2>1, <2>3, <2>4, <2>5
<1>6. ASSUME NEW d \in Defs(app) PROVE StepList(StepsOf(d, k), StepsAdded(app, k))
  <2>1. PICK steps : steps = StepsOf(d, k)
    OBVIOUS
  <2>2. \A x \in Range(steps) : x \in StepsAdded(app, k)
    BY <2>1 DEF StepsAdded
  <2>3. \A i, j \in DOMAIN steps : steps[i].id = steps[j].id => i = j
    BY <1>3, <2>1 DEF IdsOnce
  <2>4. CASE k \notin DOMAIN d.adds
    <3>1. steps = <<>>
      BY <2>1, <2>4 DEF StepsOf
    <3>2. Len(steps) = 0 /\ steps \in Seq(StepsAdded(app, k))
      BY <3>1, EmptySeq
    <3>3. 1..0 = {}
      OBVIOUS
    <3>4. QED
      BY <2>1, <3>2, <3>3 DEF StepList
  <2>5. CASE k \in DOMAIN d.adds
    <3>1. PICK g : g = d.adds[k]
      OBVIOUS
    <3>2. g \in Seq(Range(g)) /\ \A i \in DOMAIN g : g[i].id \in Nat
      BY <1>1, <2>5, <3>1, ListsAssumption
    <3>3. DOMAIN g = 1..Len(g) /\ Len(g) \in Nat
      BY <3>2, LenProperties
    <3>4. steps = [i \in DOMAIN g |-> [plugin |-> d.name, id |-> g[i].id, side |-> g[i].side, anchor |-> g[i].anchor]]
      BY <2>1, <2>5, <3>1 DEF StepsOf
    <3>5. DOMAIN steps = 1..Len(g) /\ \A i \in 1..Len(g) : steps[i].id = g[i].id
      BY <3>3, <3>4
    <3>6. \A i \in 1..Len(g) : steps[i] \in StepsAdded(app, k)
      BY <2>2, <3>5 DEF Range
    <3>7. steps \in [1..Len(g) -> StepsAdded(app, k)]
      BY <3>3, <3>4, <3>6
    <3>8. steps \in Seq(StepsAdded(app, k))
      BY <3>3, <3>7, SeqDef
    <3>9. Len(steps) = Len(g)
      BY <3>3, <3>5, <3>8, LenProperties
    <3>10. QED
      BY <2>1, <2>3, <3>2, <3>3, <3>5, <3>8, <3>9 DEF StepList
  <2>6. QED
    BY <2>4, <2>5
<1>7. Declared(app, k) \in Seq(Range(Declared(app, k)))
  <2>1. PICK d \in Defs(app) : k \in DOMAIN d.pipelines
    BY <1>1 DEF Pipelines
  <2>2. NamedInside(d)
    BY <1>2 DEF Stands, OwnStands
  <2>3. k.of = d.name
    BY <2>1, <2>2 DEF NamedInside, Inside
  <2>4. Declared(app, k) = d.pipelines[k].steps
    BY <1>5, <2>3 DEF Declared
  <2>5. QED
    BY <1>1, <2>1, <2>4, ListsAssumption
<1>8. QED
  BY <1>1, <1>3, <1>4, <1>5, <1>6, <1>7 DEF Placeable, Addable

(* In every reachable state: a kernel that sets plugins up has every added    *)
(* step beside its anchor, and would have the same order and the same places  *)
(* had its plugins been given the other way round.                            *)
THEOREM PlacesAlike == Spec => []PlacedAlike
<1>1. ASSUME IInv PROVE PlacedAlike
  <2>1. ASSUME NEW p \in Proc, life[p].at = "setting up"
        PROVE  LET a == Declares[code[p]]
                   turned == [a EXCEPT !.given = Reverse(@)]
               IN /\ InOrder(turned) = Order[code[p]]
                  /\ \A k \in Pipelines(a) : /\ Resolved(turned, k) = Resolved(a, k)
                                            /\ \A step \in StepsAdded(a, k) : StaysBeside(a, k, step)
    <3>1. PICK c \in Code : c = code[p] /\ MayStart[c]
      BY <1>1, <2>1, OfProcess DEF UpFits
    <3>2. PICK a : a = Declares[c]
      OBVIOUS
    <3>3. PICK turned : turned = [a EXCEPT !.given = Reverse(@)]
      OBVIOUS
    <3>4. Defs(turned) = Defs(a)
      BY <3>2, <3>3, TurnedAlike
    <3>5. InOrder(turned) = Order[c]
      BY <3>2, <3>4, OrderAlike DEF Order
    <3>6. ASSUME NEW k \in Pipelines(a) PROVE Resolved(turned, k) = Resolved(a, k)
      BY <3>4, ResolvedAlike
    <3>7. ASSUME NEW k \in Pipelines(a), NEW step \in StepsAdded(a, k) PROVE StaysBeside(a, k, step)
      <4>1. Placeable(a, k) /\ Resolved(a, k).left = <<>>
        BY <3>1, <3>2, MayBePlaced
      <4>2. QED
        BY <4>1, ResolvedBeside
    <3>8. QED
      BY <3>1, <3>2, <3>3, <3>5, <3>6, <3>7
  <2>2. QED
    BY <2>1 DEF PlacedAlike
<1>2. QED
  BY <1>1, Invariant, PTL
=============================================================================
