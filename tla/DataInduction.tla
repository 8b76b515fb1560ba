--------------------------- MODULE DataInduction ---------------------------
(***************************************************************************)
(* Induction over data.  A theorem cannot be given a predicate here, so    *)
(* that the induction theorems of the library cannot be applied: what is   *)
(* proved by induction is stated as a set of numbers instead.  It begins   *)
(* with 0 and contains the successors of its members, because otherwise    *)
(* there would be a least number that it misses.                           *)
(***************************************************************************)
EXTENDS Integers, SequencesExt, WellFoundedInduction, SequenceTheorems, TLAPS

LEMMA LeastNatural ==
  ASSUME NEW T \in SUBSET Nat, T # {}
  PROVE  \E n \in T : \A m \in T : n <= m
<1>1. \E n \in T : \A m \in T : ~ (<<m, n>> \in OpToRel(<, Nat))
  BY NatLessThanWellFounded, WFMin
<1>2. ASSUME NEW m \in Nat, NEW n \in Nat, ~ (<<m, n>> \in OpToRel(<, Nat))
      PROVE  n <= m
  <2>1. OpToRel(<, Nat) = {ss \in Nat \X Nat : ss[1] < ss[2]}
    BY Zenon DEF OpToRel
  <2>2. <<m, n>> \notin {ss \in Nat \X Nat : ss[1] < ss[2]}
    BY <1>2, <2>1, Zenon
  <2> QED
    BY <2>2
<1> QED
  BY <1>1, <1>2, Zenon

\* A set that contains 0 and, up to n, the successors of its members, contains
\* every number up to n.
LEMMA SetInduction ==
  ASSUME NEW n \in Nat, NEW T, 0 \in T, \A i \in 0 .. n : i # n /\ i \in T => i + 1 \in T
  PROVE  0 .. n \subseteq T
<1> DEFINE F == {i \in 0 .. n : i \notin T}
<1> SUFFICES ASSUME F # {} PROVE FALSE
  OBVIOUS
<1>1. PICK i \in F : \A m \in F : i <= m
  <2> F \in SUBSET Nat
    OBVIOUS
  <2> HIDE DEF F
  <2> QED
    BY LeastNatural
<1>2. i # 0 /\ i - 1 \in 0 .. n /\ i - 1 # n /\ i - 1 \notin F
  BY <1>1
<1>3. i - 1 + 1 \in T
  BY <1>2
<1> QED
  BY <1>1, <1>2, <1>3

\* Each value of g is what the step makes of the one before it.
Iterates(g, n, S, a, step) ==
  /\ g \in [0 .. n -> S]
  /\ g[0] = a
  /\ \A i \in 1 .. n : g[i] = step[<<i, g[i - 1]>>]

\* A function defined by recursion exists.
LEMMA RecursiveFunction ==
  ASSUME NEW n \in Nat, NEW S, NEW a \in S, NEW step \in [(1 .. n) \X S -> S]
  PROVE  \E g : Iterates(g, n, S, a, step)
<1> DEFINE Solves(g, k) ==
             g[0] = a /\ \A i \in 1 .. k : g[i] = step[<<i, g[i - 1]>>]
           T == {k \in 0 .. n : \E g \in [0 .. k -> S] : Solves(g, k)}
<1>1. 0 \in T
  <2> DEFINE g == [i \in 0 .. 0 |-> a]
  <2>1. g \in [0 .. 0 -> S] /\ Solves(g, 0)
    OBVIOUS
  <2> HIDE DEF g
  <2> QED
    BY <2>1
<1>2. ASSUME NEW k \in 0 .. n, k # n, k \in T
      PROVE  k + 1 \in T
  <2>1. PICK g \in [0 .. k -> S] : Solves(g, k)
    BY <1>2
  <2> DEFINE h == [i \in 0 .. k + 1 |-> IF i <= k THEN g[i] ELSE step[<<k + 1, g[k]>>]]
  <2>2. k + 1 \in 1 .. n /\ g[k] \in S
    BY <1>2
  <2>3. step[<<k + 1, g[k]>>] \in S
    BY <2>2
  <2>4. h \in [0 .. k + 1 -> S]
    BY <2>3
  <2>5. h[0] = a /\ \A i \in 1 .. k + 1 : h[i] = step[<<i, h[i - 1]>>]
    <3>1. /\ \A i \in 0 .. k : h[i] = g[i]
          /\ h[k + 1] = step[<<k + 1, g[k]>>]
      OBVIOUS
    <3> HIDE DEF h
    <3>2. h[0] = a
      BY <2>1, <3>1
    <3>3. ASSUME NEW i \in 1 .. k + 1 PROVE h[i] = step[<<i, h[i - 1]>>]
      <4>1. i - 1 \in 0 .. k /\ h[i - 1] = g[i - 1]
        BY <3>1
      <4>2. CASE i = k + 1
        BY <3>1, <4>1, <4>2
      <4>3. CASE i # k + 1
        BY <2>1, <3>1, <4>1, <4>3
      <4> QED
        BY <4>2, <4>3
    <3> QED
      BY <3>2, <3>3
  <2> HIDE DEF h
  <2> QED
    BY <2>2, <2>4, <2>5
<1>3. 0 .. n \subseteq T
  <2> HIDE DEF T
  <2> QED
    BY <1>1, <1>2, SetInduction
<1>4. PICK g \in [0 .. n -> S] : Solves(g, n)
  BY <1>3
<1> QED
  BY <1>4 DEF Iterates

-----------------------------------------------------------------------------
(* Sums of natural numbers: g[i] is the sum of the first i values of v       *)

IsSum(g, v, n) == g = [i \in 0 .. n |-> IF i = 0 THEN 0 ELSE g[i - 1] + v[i]]

LEMMA SumExists ==
  ASSUME NEW n \in Nat, NEW v \in [1 .. n -> Nat]
  PROVE  \E g : IsSum(g, v, n)
<1>1. PICK step \in [(1 .. n) \X Nat -> Nat] :
        \A i \in 1 .. n, k \in Nat : step[<<i, k>>] = k + v[i]
  <2> DEFINE f == [p \in (1 .. n) \X Nat |-> p[2] + v[p[1]]]
  <2>1. f \in [(1 .. n) \X Nat -> Nat] /\ \A i \in 1 .. n, k \in Nat : f[<<i, k>>] = k + v[i]
    OBVIOUS
  <2> QED
    BY <2>1
<1>2. PICK g : Iterates(g, n, Nat, 0, step)
  BY RecursiveFunction
<1>3. g \in [0 .. n -> Nat] /\ g[0] = 0 /\ \A i \in 1 .. n : g[i] = step[<<i, g[i - 1]>>]
  BY <1>2 DEF Iterates
<1>4. ASSUME NEW i \in 0 .. n PROVE g[i] = IF i = 0 THEN 0 ELSE g[i - 1] + v[i]
  <2>1. CASE i = 0
    BY <1>3, <2>1
  <2>2. CASE i # 0
    <3>1. i \in 1 .. n /\ g[i - 1] \in Nat
      BY <1>3, <2>2
    <3> QED
      BY <1>1, <1>3, <2>2, <3>1
  <2> QED
    BY <2>1, <2>2
<1>5. g = [i \in 0 .. n |-> IF i = 0 THEN 0 ELSE g[i - 1] + v[i]]
  BY <1>3, <1>4
<1> QED
  BY <1>5 DEF IsSum

LEMMA SumValues ==
  ASSUME NEW n \in Nat, NEW v \in [1 .. n -> Nat], NEW g, IsSum(g, v, n)
  PROVE  /\ g \in [0 .. n -> Nat]
         /\ g[0] = 0
         /\ \A i \in 1 .. n : g[i] = g[i - 1] + v[i]
<1>1. DOMAIN g = 0 .. n /\ g[0] = 0 /\ g = [i \in 0 .. n |-> g[i]]
  BY DEF IsSum
<1>2. \A i \in 1 .. n : g[i] = g[i - 1] + v[i]
  BY DEF IsSum
<1> DEFINE T == {i \in 0 .. n : g[i] \in Nat}
<1>3. 0 .. n \subseteq T
  <2>1. 0 \in T
    BY <1>1
  <2>2. ASSUME NEW i \in 0 .. n, i # n, i \in T PROVE i + 1 \in T
    <3>1. i + 1 \in 1 .. n /\ i + 1 - 1 = i
      BY <2>2
    <3>2. g[i + 1] = g[i] + v[i + 1]
      BY <1>2, <3>1
    <3> QED
      BY <2>2, <3>1, <3>2
  <2> HIDE DEF T
  <2> QED
    BY <2>1, <2>2, SetInduction
<1>4. \A i \in 0 .. n : g[i] \in Nat
  BY <1>3
<1> QED
  BY <1>1, <1>2, <1>4

\* A sum depends on nothing behind its last value.
LEMMA SumSame ==
  ASSUME NEW n \in Nat, NEW v \in [1 .. n -> Nat], NEW g, IsSum(g, v, n),
         NEW m \in Nat, NEW w \in [1 .. m -> Nat], NEW h, IsSum(h, w, m),
         n <= m, \A i \in 1 .. n : v[i] = w[i]
  PROVE  \A i \in 0 .. n : g[i] = h[i]
<1>1. g[0] = 0 /\ \A i \in 1 .. n : g[i] = g[i - 1] + v[i]
  BY SumValues, Zenon
<1>2. h[0] = 0 /\ \A i \in 1 .. m : h[i] = h[i - 1] + w[i]
  BY SumValues, Zenon
<1> DEFINE T == {i \in 0 .. n : g[i] = h[i]}
<1>3. 0 \in T
  BY <1>1, <1>2
<1>4. ASSUME NEW i \in 0 .. n, i # n, i \in T PROVE i + 1 \in T
  <2>1. i + 1 \in 1 .. n /\ i + 1 \in 1 .. m /\ i + 1 - 1 = i
    BY <1>4
  <2>2. g[i + 1] = g[i] + v[i + 1] /\ h[i + 1] = h[i] + w[i + 1]
    BY <1>1, <1>2, <2>1
  <2> QED
    BY <1>4, <2>1, <2>2
<1> HIDE DEF T
<1>5. 0 .. n \subseteq T
  BY <1>3, <1>4, SetInduction
<1> QED
  BY <1>5 DEF T

LEMMA SumMonotone ==
  ASSUME NEW n \in Nat, NEW v \in [1 .. n -> Nat], NEW g, IsSum(g, v, n),
         NEW i \in 0 .. n, NEW j \in 0 .. n, i <= j
  PROVE  g[i] <= g[j]
<1>1. g \in [0 .. n -> Nat] /\ \A k \in 1 .. n : g[k] = g[k - 1] + v[k]
  BY SumValues
<1> DEFINE T == {k \in 0 .. n : k <= i \/ g[i] <= g[k]}
<1>2. 0 \in T
  OBVIOUS
<1>3. ASSUME NEW k \in 0 .. n, k # n, k \in T PROVE k + 1 \in T
  <2>1. k + 1 \in 1 .. n /\ k + 1 \in 0 .. n /\ k + 1 - 1 = k
    BY <1>3
  <2>2. g[k + 1] = g[k] + v[k + 1] /\ v[k + 1] \in Nat /\ g[k] \in Nat /\ g[i] \in Nat
    BY <1>1, <2>1
  <2>3. CASE k + 1 <= i
    BY <2>1, <2>3
  <2>4. CASE k = i
    BY <2>1, <2>2, <2>4
  <2>5. CASE i < k
    <3>1. g[i] <= g[k]
      BY <1>3, <2>5
    <3> QED
      BY <2>1, <2>2, <3>1
  <2> QED
    BY <2>3, <2>4, <2>5
<1> HIDE DEF T
<1>4. 0 .. n \subseteq T
  BY <1>2, <1>3, SetInduction
<1>5. j \in T
  BY <1>4
<1> QED
  BY <1>1, <1>5 DEF T

-----------------------------------------------------------------------------
(* FlattenSeq: f[i] are the first i sequences of s, end to end               *)

IsFlat(f, s) == f = [i \in 1 .. Len(s) |-> IF i = 1 THEN s[i] ELSE f[i - 1] \o s[i]]

LEMMA FlatExists ==
  ASSUME NEW S, NEW s \in Seq(Seq(S))
  PROVE  \E f : IsFlat(f, s)
<1>1. PICK n \in Nat : n = Len(s)
  OBVIOUS
<1>2. \A i \in 1 .. n : s[i] \in Seq(S)
  BY <1>1
<1>3. \A e \in Seq(S), i \in 1 .. n : e \o s[i] \in Seq(S)
  BY <1>2, ConcatProperties
<1>4. PICK step \in [(1 .. n) \X Seq(S) -> Seq(S)] :
        \A i \in 1 .. n, e \in Seq(S) : step[<<i, e>>] = e \o s[i]
  <2> DEFINE f == [p \in (1 .. n) \X Seq(S) |-> p[2] \o s[p[1]]]
  <2>1. f \in [(1 .. n) \X Seq(S) -> Seq(S)]
    BY <1>3
  <2>2. \A i \in 1 .. n, e \in Seq(S) : f[<<i, e>>] = e \o s[i]
    OBVIOUS
  <2> HIDE DEF f
  <2> QED
    BY <2>1, <2>2
<1>5. <<>> \in Seq(S)
  OBVIOUS
<1>6. PICK g : Iterates(g, n, Seq(S), <<>>, step)
  BY <1>5, RecursiveFunction
<1> DEFINE f == [i \in 1 .. n |-> g[i]]
<1>7. ASSUME NEW i \in 1 .. n PROVE f[i] = IF i = 1 THEN s[i] ELSE f[i - 1] \o s[i]
  <2>1. i - 1 \in 0 .. n /\ f[i] = g[i]
    OBVIOUS
  <2>2. g[i] = g[i - 1] \o s[i]
    <3>1. g[i - 1] \in Seq(S)
      BY <1>6, <2>1 DEF Iterates
    <3>2. g[i] = step[<<i, g[i - 1]>>]
      BY <1>6 DEF Iterates
    <3> QED
      BY <1>4, <3>1, <3>2
  <2>3. CASE i = 1
    <3>1. g[i - 1] = <<>>
      BY <1>6, <2>3 DEF Iterates
    <3> QED
      BY <1>2, <2>1, <2>2, <2>3, <3>1, ConcatEmptySeq
  <2>4. CASE i # 1
    <3>1. f[i - 1] = g[i - 1]
      BY <2>4
    <3> QED
      BY <2>1, <2>2, <2>4, <3>1
  <2> QED
    BY <2>3, <2>4
<1>8. f = [i \in 1 .. n |-> IF i = 1 THEN s[i] ELSE f[i - 1] \o s[i]]
  <2>1. f = [i \in 1 .. n |-> f[i]]
    OBVIOUS
  <2> HIDE DEF f
  <2> QED
    BY <1>7, <2>1
<1> HIDE DEF f
<1> QED
  BY <1>1, <1>8 DEF IsFlat

LEMMA FlattenIsFlat ==
  ASSUME NEW S, NEW s \in Seq(Seq(S)), s # <<>>
  PROVE  \E f : IsFlat(f, s) /\ FlattenSeq(s) = f[Len(s)]
<1> DEFINE f == CHOOSE e : IsFlat(e, s)
<1>1. IsFlat(f, s)
  BY FlatExists, Zenon
<1>2. Len(s) # 0
  OBVIOUS
<1>3. FlattenSeq(s) = f[Len(s)]
  BY <1>2, Zenon DEF FlattenSeq, IsFlat
<1> QED
  BY <1>1, <1>3, Zenon

LEMMA FlatSame ==
  ASSUME NEW S, NEW s \in Seq(Seq(S)), NEW t \in Seq(Seq(S)), NEW f, NEW g,
         IsFlat(f, s), IsFlat(g, t), Len(s) <= Len(t),
         \A i \in 1 .. Len(s) : s[i] = t[i]
  PROVE  \A i \in 1 .. Len(s) : f[i] = g[i] /\ f[i] \in Seq(S)
<1>1. PICK n \in Nat : n = Len(s)
  OBVIOUS
<1>2. PICK m \in Nat : m = Len(t)
  OBVIOUS
<1>3. n <= m /\ \A i \in 1 .. n : s[i] = t[i] /\ s[i] \in Seq(S)
  BY <1>1, <1>2
<1>4. \A i \in 1 .. n : f[i] = IF i = 1 THEN s[i] ELSE f[i - 1] \o s[i]
  BY <1>1 DEF IsFlat
<1>5. \A i \in 1 .. m : g[i] = IF i = 1 THEN t[i] ELSE g[i - 1] \o t[i]
  BY <1>2 DEF IsFlat
<1> DEFINE T == {i \in 0 .. n : i = 0 \/ (f[i] = g[i] /\ f[i] \in Seq(S))}
<1>6. 0 \in T
  OBVIOUS
<1>7. ASSUME NEW i \in 0 .. n, i # n, i \in T PROVE i + 1 \in T
  <2>1. PICK k \in 1 .. n : k = i + 1 /\ k \in 1 .. m
    BY <1>3, <1>7
  <2>2. f[k] = g[k] /\ f[k] \in Seq(S)
    <3>1. CASE k = 1
      BY <1>3, <1>4, <1>5, <2>1, <3>1
    <3>2. CASE k # 1
      <4>1. f[k - 1] = g[k - 1] /\ f[k - 1] \in Seq(S)
        BY <1>7, <2>1, <3>2
      <4>2. f[k] = f[k - 1] \o s[k] /\ g[k] = g[k - 1] \o t[k]
        BY <1>4, <1>5, <2>1, <3>2
      <4>3. s[k] = t[k] /\ s[k] \in Seq(S)
        BY <1>3, <2>1
      <4> QED
        BY <4>1, <4>2, <4>3, ConcatProperties
    <3> QED
      BY <3>1, <3>2
  <2> QED
    BY <2>1, <2>2
<1> HIDE DEF T
<1>8. 0 .. n \subseteq T
  BY <1>6, <1>7, SetInduction
<1>9. \A i \in 1 .. n : i \in T
  BY <1>8
<1> QED
  BY <1>1, <1>9 DEF T

LEMMA FlattenEmpty == FlattenSeq(<<>>) = <<>>
BY DEF FlattenSeq

LEMMA FlattenType ==
  ASSUME NEW S, NEW s \in Seq(Seq(S))
  PROVE  FlattenSeq(s) \in Seq(S)
<1>1. CASE s = <<>>
  <2>1. <<>> \in Seq(S)
    OBVIOUS
  <2> QED
    BY <1>1, <2>1, FlattenEmpty, Zenon
<1>2. CASE s # <<>>
  <2>1. PICK f : IsFlat(f, s) /\ FlattenSeq(s) = f[Len(s)]
    BY <1>2, FlattenIsFlat
  <2>2. Len(s) \in 1 .. Len(s) /\ Len(s) <= Len(s)
    BY <1>2
  <2> QED
    BY <2>1, <2>2, FlatSame
<1> QED
  BY <1>1, <1>2

\* One more sequence comes to the end.
LEMMA FlattenAppend ==
  ASSUME NEW S, NEW s \in Seq(Seq(S)), NEW x \in Seq(S)
  PROVE  FlattenSeq(Append(s, x)) = FlattenSeq(s) \o x
<1> DEFINE t == Append(s, x)
<1>1. /\ t \in Seq(Seq(S)) /\ t # <<>> /\ Len(t) = Len(s) + 1 /\ Len(s) \in Nat
      /\ t[Len(t)] = x /\ \A i \in 1 .. Len(s) : s[i] = t[i]
  <2>1. t \in Seq(Seq(S)) /\ Len(t) = Len(s) + 1 /\ Len(s) \in Nat
        /\ t[Len(s) + 1] = x /\ \A i \in 1 .. Len(s) : t[i] = s[i]
    BY AppendProperties
  <2> HIDE DEF t
  <2> QED
    BY <2>1
<1> HIDE DEF t
<1>2. PICK g : IsFlat(g, t) /\ FlattenSeq(t) = g[Len(t)]
  BY <1>1, FlattenIsFlat
<1>3. g[Len(t)] = IF Len(t) = 1 THEN x ELSE g[Len(s)] \o x
  <2>1. Len(t) \in 1 .. Len(t) /\ Len(t) - 1 = Len(s)
    BY <1>1
  <2>2. \A i \in 1 .. Len(t) : g[i] = IF i = 1 THEN t[i] ELSE g[i - 1] \o t[i]
    BY <1>2 DEF IsFlat
  <2> QED
    BY <1>1, <2>1, <2>2
<1>4. CASE s = <<>>
  <2>1. FlattenSeq(t) = x
    BY <1>1, <1>2, <1>3, <1>4
  <2> QED
    BY <1>4, <2>1, FlattenEmpty, ConcatEmptySeq DEF t
<1>5. CASE s # <<>>
  <2>1. PICK f : IsFlat(f, s) /\ FlattenSeq(s) = f[Len(s)]
    BY <1>5, FlattenIsFlat
  <2>2. Len(s) \in 1 .. Len(s) /\ Len(s) <= Len(t)
    BY <1>1, <1>5
  <2>3. f[Len(s)] = g[Len(s)]
    <3>1. IsFlat(g, t) /\ IsFlat(f, s)
      BY <1>2, <2>1
    <3>2. \A i \in 1 .. Len(s) : f[i] = g[i] /\ f[i] \in Seq(S)
      BY <1>1, <2>2, <3>1, FlatSame
    <3> QED
      BY <2>2, <3>2
  <2> QED
    BY <1>1, <1>2, <1>3, <2>1, <2>2, <2>3 DEF t
<1> QED
  BY <1>4, <1>5
=============================================================================
