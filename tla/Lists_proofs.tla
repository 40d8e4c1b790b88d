----------------------------- MODULE Lists_proofs -----------------------------
(***************************************************************************)
(* What Without and RemoveAt leave of a list, for lists of every length.   *)
(* The inductions over the length are arguments about a smallest           *)
(* counterexample.                                                         *)
(***************************************************************************)
EXTENDS Lists, Integers, SequencesExt, FiniteSetTheorems, SequenceTheorems,
        WellFoundedInduction, TLAPS

(* A set of naturals that is not empty has a least element.                *)
LEMMA LeastElement ==
  ASSUME NEW T \in SUBSET Nat, T # {}
  PROVE  \E m \in T : \A k \in T : m <= k
<1> DEFINE Below == {0 .. k : k \in T}
<1>1. Below \subseteq FiniteSubsetsOf(Nat) /\ Below # {}
  <2>1. \A k \in T : 0 .. k \in SUBSET Nat /\ IsFiniteSet(0 .. k)
    BY FS_Interval
  <2> QED BY <2>1 DEF FiniteSubsetsOf
<1>2. PICK B \in Below : \A C \in Below : <<C, B>> \notin StrictSubsetOrdering(Nat)
  <2>1. IsWellFoundedOn(StrictSubsetOrdering(Nat), FiniteSubsetsOf(Nat))
    BY FS_StrictSubsetOrderingWellFounded
  <2> HIDE DEF Below
  <2> QED BY <1>1, <2>1, WFMin
<1>3. PICK m \in T : B = 0 .. m
  OBVIOUS
<1>4. ASSUME NEW k \in T, k < m PROVE FALSE
  <2>1. 0 .. k \subseteq B /\ 0 .. k # B /\ 0 .. k \in SUBSET Nat /\ B \in SUBSET Nat
    <3>1. k \in Nat /\ m \in Nat
      OBVIOUS
    <3>2. m \in 0 .. m /\ m \notin 0 .. k
      BY <1>4, <3>1
    <3> QED BY <1>3, <1>4, <3>1, <3>2
  <2>2. <<0 .. k, B>> \in StrictSubsetOrdering(Nat)
    BY <2>1 DEF StrictSubsetOrdering
  <2> QED BY <1>2, <2>2
<1>5. \A k \in T : k \in Nat /\ m \in Nat
  OBVIOUS
<1> QED BY <1>4, <1>5

(* A set of places of a list that is not empty has a last one.             *)
LEMMA GreatestElement ==
  ASSUME NEW n \in Nat, NEW T \in SUBSET (0 .. n), T # {}
  PROVE  \E m \in T : \A k \in T : k <= m
<1> DEFINE U == {n - k : k \in T}
<1>0. \A k \in T : k \in Int /\ n - k \in Nat /\ n - k \in U
  OBVIOUS
<1>1. U \in SUBSET Nat /\ U # {}
  BY <1>0
<1>2. PICK u \in U : \A v \in U : u <= v
  <2> HIDE DEF U
  <2> QED BY <1>1, LeastElement
<1>3. PICK m \in T : u = n - m
  OBVIOUS
<1>4. \A k \in T : n - m <= n - k /\ k \in Int /\ m \in Int
  <2> HIDE DEF U
  <2> QED BY <1>0, <1>2, <1>3
<1> QED BY <1>4

(* Induction over 0 .. n on a set of numbers.                              *)
LEMMA Upwards ==
  ASSUME NEW n \in Nat, NEW Good, 0 \in Good,
         \A i \in 1 .. n : i - 1 \in Good => i \in Good
  PROVE  \A i \in 0 .. n : i \in Good
<1> DEFINE Bad == {i \in 0 .. n : i \notin Good}
<1> SUFFICES ASSUME Bad # {} PROVE FALSE
  OBVIOUS
<1>1. PICK m \in Bad : \A k \in Bad : m <= k
  <2>1. Bad \in SUBSET Nat
    OBVIOUS
  <2> HIDE DEF Bad
  <2> QED BY <2>1, LeastElement
<1>2. m # 0 /\ m \in 1 .. n
  OBVIOUS
<1>3. m - 1 \in Good
  <2>1. m - 1 \in 0 .. n /\ ~(m <= m - 1)
    BY <1>2
  <2> QED BY <1>1, <2>1
<1> QED BY <1>2, <1>3

(* What is left of the first i nodes, as a function of i.                  *)
Leaves(g, s, gone, n) ==
    g = [i \in 0 .. n |->
           IF i = 0 THEN <<>>
           ELSE IF s[i] \in gone THEN g[i - 1] ELSE Append(g[i - 1], s[i])]

LEMMA LeavesExists ==
  ASSUME NEW s, NEW gone, NEW n \in Nat
  PROVE  \E g : Leaves(g, s, gone, n)
<1> DEFINE Good == {i \in Nat : \E g : Leaves(g, s, gone, i)}
<1>1. 0 \in Good
  <2>1. Leaves([i \in 0 .. 0 |-> <<>>], s, gone, 0)
    BY DEF Leaves
  <2> QED BY <2>1
<1>2. ASSUME NEW i \in 1 .. n, i - 1 \in Good PROVE i \in Good
  <2>1. PICK g : Leaves(g, s, gone, i - 1)
    BY <1>2
  <2> DEFINE e == IF s[i] \in gone THEN g[i - 1] ELSE Append(g[i - 1], s[i])
             h == [j \in 0 .. i |-> IF j < i THEN g[j] ELSE e]
  <2>2. \A j \in 0 .. (i - 1) : g[j] = IF j = 0 THEN <<>> ELSE
             IF s[j] \in gone THEN g[j - 1] ELSE Append(g[j - 1], s[j])
    BY <2>1 DEF Leaves
  <2>3. \A j \in 0 .. i : h[j] = IF j = 0 THEN <<>> ELSE
             IF s[j] \in gone THEN h[j - 1] ELSE Append(h[j - 1], s[j])
    <3>1. \A j \in 0 .. (i - 1) : h[j] = g[j]
      OBVIOUS
    <3>2. h[i] = e /\ i # 0
      OBVIOUS
    <3>3. ASSUME NEW j \in 0 .. i, j # i
          PROVE  h[j] = IF j = 0 THEN <<>> ELSE
                        IF s[j] \in gone THEN h[j - 1] ELSE Append(h[j - 1], s[j])
      <4>1. j \in 0 .. (i - 1) /\ (j # 0 => j - 1 \in 0 .. (i - 1))
        BY <3>3
      <4> HIDE DEF h
      <4> QED BY <2>2, <3>1, <4>1
    <3>4. h[i] = IF s[i] \in gone THEN h[i - 1] ELSE Append(h[i - 1], s[i])
      <4>1. i - 1 \in 0 .. (i - 1)
        OBVIOUS
      <4> HIDE DEF h
      <4> QED BY <3>1, <3>2, <4>1
    <3> HIDE DEF h
    <3> QED BY <3>2, <3>3, <3>4
  <2>4. Leaves(h, s, gone, i)
    <3>1. h = [j \in 0 .. i |-> h[j]]
      OBVIOUS
    <3> HIDE DEF h
    <3> QED BY <2>3, <3>1 DEF Leaves
  <2> QED BY <2>4
<1> HIDE DEF Good
<1>3. n \in Good
  BY <1>1, <1>2, Upwards
<1> QED BY <1>3 DEF Good

(* f numbers the nodes of the first n of s that are not gone, in order: r  *)
(* is the list of them.                                                    *)
Numbers(f, r, s, gone, n) ==
    /\ f \in [1 .. Len(r) -> 1 .. n]
    /\ \A i, j \in 1 .. Len(r) : i < j => f[i] < f[j]
    /\ \A i \in 1 .. Len(r) : r[i] = s[f[i]] /\ s[f[i]] \notin gone
    /\ \A j \in 1 .. n : s[j] \notin gone => \E i \in 1 .. Len(r) : f[i] = j

LEMMA LeavesNumbers ==
  ASSUME NEW S, NEW s \in Seq(S), NEW gone, NEW g, Leaves(g, s, gone, Len(s))
  PROVE  g[Len(s)] \in Seq(S) /\ \E f : Numbers(f, g[Len(s)], s, gone, Len(s))
<1> DEFINE Good == {i \in 0 .. Len(s) : g[i] \in Seq(S) /\ \E f : Numbers(f, g[i], s, gone, i)}
<1>1. /\ Len(s) \in Nat /\ g[0] = <<>>
      /\ \A i \in 1 .. Len(s) :
            g[i] = IF s[i] \in gone THEN g[i - 1] ELSE Append(g[i - 1], s[i])
  <2>1. Len(s) \in Nat
    OBVIOUS
  <2>2. \A i \in 0 .. Len(s) :
            g[i] = IF i = 0 THEN <<>>
                   ELSE IF s[i] \in gone THEN g[i - 1] ELSE Append(g[i - 1], s[i])
    BY DEF Leaves
  <2> QED BY <2>1, <2>2
<1>2. 0 \in Good
  <2>1. Numbers(<<>>, <<>>, s, gone, 0)
    BY DEF Numbers
  <2>2. 0 \in 0 .. Len(s) /\ <<>> \in Seq(S)
    BY <1>1
  <2> QED BY <1>1, <2>1, <2>2
<1>3. ASSUME NEW i \in 1 .. Len(s), i - 1 \in Good PROVE i \in Good
  <2>1. PICK f : Numbers(f, g[i - 1], s, gone, i - 1)
    BY <1>3
  <2> DEFINE r == g[i - 1]
  <2>2. r \in Seq(S) /\ s[i] \in S /\ Len(r) \in Nat
    BY <1>3
  <2>3. CASE s[i] \in gone
    <3>1. g[i] = r
      BY <1>1, <2>3
    <3>2. Numbers(f, r, s, gone, i)
      BY <2>1, <2>3 DEF Numbers
    <3> QED BY <2>2, <3>1, <3>2
  <2>4. CASE s[i] \notin gone
    <3> DEFINE q == Append(r, s[i])
               h == [k \in 1 .. Len(q) |-> IF k <= Len(r) THEN f[k] ELSE i]
    <3>1. /\ g[i] = q /\ q \in Seq(S) /\ Len(q) = Len(r) + 1
          /\ q[Len(r) + 1] = s[i] /\ \A k \in 1 .. Len(r) : q[k] = r[k]
      <4>1. g[i] = q
        BY <1>1, <2>4
      <4> HIDE DEF r
      <4> QED BY <2>2, <4>1
    <3> HIDE DEF q
    <3>2. /\ \A k \in 1 .. Len(r) : h[k] = f[k] /\ h[k] \in 1 .. (i - 1) /\ k \in 1 .. Len(q)
          /\ h[Len(r) + 1] = i /\ Len(r) + 1 \in 1 .. Len(q)
          /\ h \in [1 .. Len(q) -> 1 .. i]
      <4>1. f \in [1 .. Len(r) -> 1 .. (i - 1)]
        BY <2>1 DEF Numbers
      <4> HIDE DEF r
      <4>2. \A k \in 1 .. Len(r) : f[k] \in 1 .. (i - 1) /\ f[k] \in 1 .. i /\ k <= Len(r)
                                   /\ k \in 1 .. Len(q)
        BY <2>2, <3>1, <4>1
      <4>3. Len(r) + 1 \in 1 .. Len(q) /\ ~(Len(r) + 1 <= Len(r)) /\ i \in 1 .. i
        BY <2>2, <3>1
      <4>4. \A k \in 1 .. Len(q) : k \in 1 .. Len(r) \/ (k = Len(r) + 1 /\ ~(k <= Len(r)))
        BY <2>2, <3>1
      <4> QED BY <4>2, <4>3, <4>4
    <3> HIDE DEF r, h
    <3>3. \A k \in 1 .. Len(q) : k \in 1 .. Len(r) \/ k = Len(r) + 1
      BY <2>2, <3>1
    <3>4. \A j, k \in 1 .. Len(q) : j < k => h[j] < h[k]
      <4> SUFFICES ASSUME NEW j \in 1 .. Len(q), NEW k \in 1 .. Len(q), j < k
                   PROVE  h[j] < h[k]
        OBVIOUS
      <4>1. j \in 1 .. Len(r)
        BY <2>2, <3>1
      <4>2. CASE k \in 1 .. Len(r)
        BY <2>1, <3>2, <4>1, <4>2 DEF Numbers, r
      <4>3. CASE k = Len(r) + 1
        BY <3>2, <4>1, <4>3
      <4> QED BY <3>3, <4>2, <4>3
    <3>5. \A k \in 1 .. Len(q) : q[k] = s[h[k]] /\ s[h[k]] \notin gone
      BY <2>1, <2>4, <3>1, <3>2, <3>3 DEF Numbers, r
    <3>6. ASSUME NEW j \in 1 .. i, s[j] \notin gone PROVE \E k \in 1 .. Len(q) : h[k] = j
      <4>1. CASE j = i
        BY <3>2, <4>1
      <4>2. CASE j \in 1 .. (i - 1)
        BY <2>1, <3>2, <3>6, <4>2 DEF Numbers, r
      <4> QED BY <4>1, <4>2
    <3>7. Numbers(h, q, s, gone, i)
      BY <3>2, <3>4, <3>5, <3>6 DEF Numbers
    <3> QED BY <3>1, <3>7
  <2> QED BY <2>3, <2>4
<1> HIDE DEF Good
<1>4. 0 \in Good /\ Len(s) \in Nat
  BY <1>1, <1>2
<1>5. \A i \in 0 .. Len(s) : i \in Good
  BY <1>3, <1>4, Upwards
<1>6. Len(s) \in Good
  BY <1>4, <1>5
<1> QED BY <1>6 DEF Good

(* The walk leaves the nodes that are not gone, in their order.            *)
LEMMA WithoutNumbers ==
  ASSUME NEW S, NEW s \in Seq(S), NEW gone
  PROVE  /\ Without(s, gone) \in Seq(S)
         /\ \E f : Numbers(f, Without(s, gone), s, gone, Len(s))
<1> DEFINE g == CHOOSE g : Leaves(g, s, gone, Len(s))
<1>1. Leaves(g, s, gone, Len(s))
  BY LeavesExists
<1>2. Without(s, gone) = g[Len(s)]
  BY DEF Without, Leaves
<1> HIDE DEF g
<1> QED BY <1>1, <1>2, LeavesNumbers

(* Sequences: adding at the end, taking from the front.                    *)
LEMMA AppendFacts ==
  ASSUME NEW S, NEW s \in Seq(S), NEW e \in S
  PROVE  /\ Append(s, e) \in Seq(S) /\ Len(Append(s, e)) = Len(s) + 1 /\ Len(s) \in Nat
         /\ \A j \in 1 .. Len(s) : Append(s, e)[j] = s[j]
         /\ Append(s, e)[Len(s) + 1] = e
  OBVIOUS

LEMMA TailFacts ==
  ASSUME NEW S, NEW s \in Seq(S), s # <<>>
  PROVE  /\ Tail(s) \in Seq(S) /\ Len(Tail(s)) = Len(s) - 1 /\ Len(s) \in Nat \ {0}
         /\ Head(s) = s[1] /\ s[1] \in S
         /\ \A j \in 1 .. Len(Tail(s)) : Tail(s)[j] = s[j + 1] /\ j + 1 \in 1 .. Len(s)
  OBVIOUS

(* The smallest place of a set of places.                                  *)
LEMMA MinFacts ==
  ASSUME NEW I \in SUBSET Nat, I # {}
  PROVE  Min(I) \in I /\ \A j \in I : Min(I) <= j
  BY LeastElement DEF Min

(* A list without its node at place i.                                     *)
LEMMA RemoveAtFacts ==
  ASSUME NEW S, NEW s \in Seq(S), NEW i \in 1 .. Len(s)
  PROVE  /\ RemoveAt(s, i) \in Seq(S) /\ Len(RemoveAt(s, i)) = Len(s) - 1
         /\ \A j \in 1 .. Len(RemoveAt(s, i)) :
               LET k == IF j < i THEN j ELSE j + 1
               IN  k \in 1 .. Len(s) /\ k # i /\ RemoveAt(s, i)[j] = s[k]
         /\ \A k \in 1 .. Len(s) : k # i =>
               \E j \in 1 .. Len(RemoveAt(s, i)) : RemoveAt(s, i)[j] = s[k]
<1> DEFINE a == SubSeq(s, 1, i - 1)
           b == SubSeq(s, i + 1, Len(s))
<1>0. Len(s) \in Nat /\ i \in Nat /\ i <= Len(s) /\ i > 0
  OBVIOUS
<1>1. a \in Seq(S) /\ Len(a) = i - 1 /\ \A j \in 1 .. (i - 1) : a[j] = s[j]
  BY <1>0
<1>2. b \in Seq(S) /\ Len(b) = Len(s) - i /\ \A j \in 1 .. (Len(s) - i) : b[j] = s[i + j]
  BY <1>0
<1> HIDE DEF a, b
<1>3. /\ a \o b \in Seq(S) /\ Len(a \o b) = Len(s) - 1
      /\ \A j \in 1 .. (Len(s) - 1) : (a \o b)[j] = IF j < i THEN a[j] ELSE b[j - (i - 1)]
  <2>1. a \o b \in Seq(S) /\ Len(a \o b) = Len(a) + Len(b)
    BY <1>1, <1>2, ConcatProperties
  <2>2. \A j \in 1 .. (Len(a) + Len(b)) : (a \o b)[j] = IF j <= Len(a) THEN a[j] ELSE b[j - Len(a)]
    BY <1>1, <1>2
  <2>3. \A j \in 1 .. (Len(s) - 1) : j \in 1 .. (Len(a) + Len(b)) /\ (j <= Len(a) <=> j < i)
    BY <1>0, <1>1, <1>2
  <2> QED BY <1>0, <1>1, <1>2, <2>1, <2>2, <2>3
<1>4. \A j \in 1 .. (Len(s) - 1) : (a \o b)[j] = IF j < i THEN s[j] ELSE s[j + 1]
  <2> SUFFICES ASSUME NEW j \in 1 .. (Len(s) - 1) PROVE (a \o b)[j] = IF j < i THEN s[j] ELSE s[j + 1]
    OBVIOUS
  <2>1. CASE j < i
    BY <2>1, <1>0, <1>1, <1>3
  <2>2. CASE ~(j < i)
    <3>1. j - (i - 1) \in 1 .. (Len(s) - i) /\ i + (j - (i - 1)) = j + 1
      BY <2>2, <1>0
    <3> QED BY <2>2, <3>1, <1>2, <1>3
  <2> QED BY <2>1, <2>2
<1>5. RemoveAt(s, i) = a \o b
  BY DEF RemoveAt, a, b
<1> DEFINE r == RemoveAt(s, i)
<1> HIDE DEF r
<1>6. r = RemoveAt(s, i) /\ r \in Seq(S) /\ Len(r) = Len(s) - 1
  BY <1>3, <1>5 DEF r
<1>7. \A j \in 1 .. (Len(s) - 1) : r[j] = IF j < i THEN s[j] ELSE s[j + 1]
  BY <1>4, <1>5, <1>6
<1>8. ASSUME NEW k \in 1 .. Len(s), k # i
      PROVE  \E j \in 1 .. Len(r) : r[j] = s[k]
  <2>1. CASE k < i
    <3>1. k \in 1 .. (Len(s) - 1)
      BY <1>0, <2>1
    <3> QED BY <1>6, <1>7, <2>1, <3>1
  <2>2. CASE k > i
    <3>1. k - 1 \in 1 .. (Len(s) - 1) /\ ~(k - 1 < i) /\ (k - 1) + 1 = k
      BY <1>0, <2>2
    <3> QED BY <1>6, <1>7, <3>1
  <2> QED BY <1>8, <1>0, <2>1, <2>2
<1> QED
  <2>1. \A j \in 1 .. Len(r) :
               LET k == IF j < i THEN j ELSE j + 1
               IN  k \in 1 .. Len(s) /\ k # i /\ r[j] = s[k]
    BY <1>0, <1>6, <1>7
  <2> QED BY <1>6, <1>8, <2>1

(* The walk shortens the list by the nodes it unlinks.                     *)
LEMMA WithoutLength ==
  ASSUME NEW S, NEW s \in Seq(S), NEW gone
  PROVE  /\ Cardinality({i \in 1 .. Len(s) : s[i] \in gone}) \in Nat
         /\ Len(Without(s, gone)) = Len(s) - Cardinality({i \in 1 .. Len(s) : s[i] \in gone})
<1> DEFINE r == Without(s, gone)
           G == {i \in 1 .. Len(s) : s[i] \in gone}
           K == {i \in 1 .. Len(s) : s[i] \notin gone}
<1>1. PICK f : Numbers(f, r, s, gone, Len(s))
  BY WithoutNumbers
<1>2. Len(s) \in Nat /\ Len(r) \in Nat
  BY WithoutNumbers
<1> HIDE DEF r
<1>3. f \in Bijection(1 .. Len(r), K)
  <2>1. f \in [1 .. Len(r) -> K]
    BY <1>1 DEF Numbers
  <2>2. \A i, j \in 1 .. Len(r) : f[i] = f[j] => i = j
    <3> SUFFICES ASSUME NEW i \in 1 .. Len(r), NEW j \in 1 .. Len(r), f[i] = f[j], i # j PROVE FALSE
      OBVIOUS
    <3>1. i < j \/ j < i
      BY <1>2
    <3>2. f[i] \in Nat /\ f[j] \in Nat /\ (f[i] < f[j] \/ f[j] < f[i])
      BY <1>1, <1>2, <3>1 DEF Numbers
    <3> QED BY <3>2
  <2>3. \A k \in K : \E i \in 1 .. Len(r) : f[i] = k
    BY <1>1 DEF Numbers
  <2> QED BY <2>1, <2>2, <2>3 DEF Bijection, Injection, Surjection, IsInjective
<1>4. IsFiniteSet(1 .. Len(r)) /\ Cardinality(1 .. Len(r)) = Len(r)
      /\ IsFiniteSet(1 .. Len(s)) /\ Cardinality(1 .. Len(s)) = Len(s)
  <2>1. \A n \in Nat : IsFiniteSet(1 .. n) /\ Cardinality(1 .. n) = n
    <3> SUFFICES ASSUME NEW n \in Nat PROVE IsFiniteSet(1 .. n) /\ Cardinality(1 .. n) = n
      OBVIOUS
    <3>1. IsFiniteSet(1 .. n) /\ Cardinality(1 .. n) = IF 1 > n THEN 0 ELSE n - 1 + 1
      BY FS_Interval
    <3> QED BY <3>1
  <2> QED BY <1>2, <2>1
<1>5. Cardinality(K) = Len(r)
  <2>1. ExistsBijection(1 .. Len(r), K)
    BY <1>3 DEF ExistsBijection
  <2> HIDE DEF K
  <2> QED BY <1>4, <2>1, FS_Bijection
<1>6. IsFiniteSet(G) /\ Cardinality(G) \in Nat
  <2>1. G \subseteq 1 .. Len(s)
    OBVIOUS
  <2> HIDE DEF G
  <2> QED BY <1>4, <2>1, FS_Subset, FS_CardinalityType
<1>7. Cardinality(K) = Len(s) - Cardinality(G)
  <2>1. K = (1 .. Len(s)) \ G /\ (1 .. Len(s)) \cap G = G
    OBVIOUS
  <2> HIDE DEF G, K
  <2>2. Cardinality((1 .. Len(s)) \ G) = Cardinality(1 .. Len(s)) - Cardinality((1 .. Len(s)) \cap G)
    BY <1>4, FS_Difference
  <2> QED BY <1>4, <2>1, <2>2
<1> HIDE DEF G, K
<1> QED BY <1>2, <1>5, <1>6, <1>7 DEF G, r
=============================================================================
