--------------------------- MODULE SubsequenceProofs ---------------------------
(***************************************************************************)
(* What Select returns, and the smallest and the largest element of a set  *)
(* of positions.  The two inductions (on the least element and on the size *)
(* of a set) are written as arguments about a smallest counterexample.     *)
(***************************************************************************)
EXTENDS Subsequence, FiniteSetsExt, FiniteSetTheorems, WellFoundedInduction, TLAPS

\* A set of natural numbers that is not empty has a least element.
LEMMA LeastElement ==
  ASSUME NEW T, T \subseteq Nat, T # {}
  PROVE  \E x \in T : \A y \in T : x <= y
<1>1. IsWellFoundedOn(OpToRel(<, Nat), Nat)
  BY NatLessThanWellFounded
<1>2. PICK x \in T : \A y \in T : ~ (<<y, x>> \in OpToRel(<, Nat))
  BY <1>1, WFMin
<1>3. OpToRel(<, Nat) = {ss \in Nat \X Nat : ss[1] < ss[2]}
  BY DEF OpToRel
<1>4. SUFFICES ASSUME NEW y \in T PROVE x <= y
  OBVIOUS
<1>5. ~ (<<y, x>> \in {ss \in Nat \X Nat : ss[1] < ss[2]})
  BY <1>2, <1>3, Zenon
<1>. QED BY <1>5

\* Min picks an element of the set that is least.
LEMMA MinOfNats ==
  ASSUME NEW T, T \subseteq Nat, T # {}
  PROVE  Min(T) \in T /\ \A y \in T : Min(T) <= y
<1>1. PICK x \in T : \A y \in T : x <= y
  BY LeastElement
<1>. QED BY <1>1 DEF Min

\* Max picks an element of a bounded set that is greatest.
LEMMA MaxOfInterval ==
  ASSUME NEW n \in Nat, NEW T, T \subseteq 0 .. n, T # {}
  PROVE  Max(T) \in T /\ \A y \in T : Max(T) >= y
<1>. DEFINE D == {n - x : x \in T}
<1>1. D \subseteq Nat /\ D # {}
  <2>1. \A x \in T : n - x \in Nat
    OBVIOUS
  <2>2. D \subseteq Nat
    BY <2>1
  <2>3. PICK x \in T : TRUE
    OBVIOUS
  <2>4. n - x \in D
    BY <2>3
  <2>. QED BY <2>2, <2>4
<1>2. PICK d \in D : \A e \in D : d <= e
  BY <1>1, LeastElement
<1>3. PICK x \in T : d = n - x
  OBVIOUS
<1>4. \A y \in T : x >= y
  <2>. SUFFICES ASSUME NEW y \in T PROVE x >= y
    OBVIOUS
  <2>1. n - y \in D
    OBVIOUS
  <2>. QED BY <1>2, <1>3, <2>1
<1>. QED BY <1>4 DEF Max

\* A set of positions and its subsets are finite.
LEMMA PositionsFinite ==
  ASSUME NEW n \in Nat, NEW S \in SUBSET (1 .. n)
  PROVE  IsFiniteSet(S) /\ Cardinality(S) \in Nat /\ Cardinality(S) <= n
<1>1. IsFiniteSet(1 .. n) /\ Cardinality(1 .. n) = n
  BY FS_Interval
<1>2. IsFiniteSet(S) /\ Cardinality(S) <= n
  BY <1>1, FS_Subset
<1>. QED BY <1>2, FS_CardinalityType

\* Every set of positions can be listed in order.
LEMMA InOrderExists ==
  ASSUME NEW n \in Nat, NEW S \in SUBSET (1 .. n)
  PROVE  \E pos : Enumerates(pos, S)
<1>. DEFINE Listed(U) == \E pos : Enumerates(pos, U)
            Bad == {k \in Nat : \E U \in SUBSET (1 .. n) : Cardinality(U) = k /\ ~Listed(U)}
<1>1. SUFFICES Bad = {}
  BY PositionsFinite
<1>2. SUFFICES ASSUME Bad # {} PROVE FALSE
  OBVIOUS
<1>3. Bad \subseteq Nat
  OBVIOUS
<1>4. PICK k \in Bad : \A j \in Bad : k <= j
  BY <1>2, <1>3, LeastElement
<1>5. PICK U \in SUBSET (1 .. n) : Cardinality(U) = k /\ ~Listed(U)
  OBVIOUS
<1>. HIDE DEF Bad
<1>6. k \in Nat /\ IsFiniteSet(U)
  BY <1>3, PositionsFinite
<1>7. CASE U = {}
  <2>1. k = 0
    BY <1>5, <1>7, FS_EmptySet
  <2>2. Enumerates([i \in 1 .. 0 |-> 0], U)
    BY <1>5, <1>7, <2>1 DEF Enumerates
  <2>. QED BY <1>5, <2>2
<1>8. CASE U # {}
  <2>. DEFINE m == Max(U)
              V == U \ {m}
  <2>1. m \in U /\ \A y \in U : m >= y
    <3>1. U \subseteq 0 .. n
      OBVIOUS
    <3>. QED BY <3>1, <1>8, MaxOfInterval
  <2>. HIDE DEF m
  <2>2. Cardinality(V) = k - 1
    BY <1>5, <1>6, <2>1, FS_RemoveElement
  <2>3. V \in SUBSET (1 .. n) /\ Cardinality(V) \in Nat
    BY PositionsFinite
  <2>4. k - 1 \notin Bad
    BY <1>4, <1>6
  <2>5. PICK pos : Enumerates(pos, V)
    BY <2>2, <2>3, <2>4 DEF Bad
  <2>. DEFINE longer == [i \in 1 .. k |-> IF i = k THEN m ELSE pos[i]]
  <2>6. pos \in [1 .. k - 1 -> V]
    BY <2>2, <2>5 DEF Enumerates
  <2>7. longer \in [1 .. k -> U]
    BY <2>1, <2>6, <1>6
  <2>8. \A i, j \in 1 .. k : i < j => longer[i] < longer[j]
    <3>. SUFFICES ASSUME NEW i \in 1 .. k, NEW j \in 1 .. k, i < j
                  PROVE  longer[i] < longer[j]
      OBVIOUS
    <3>1. i \in 1 .. k - 1 /\ pos[i] \in V
      BY <1>6, <2>6
    <3>2. CASE j = k
      <4>1. pos[i] \in U /\ pos[i] # m
        BY <3>1
      <4>2. pos[i] < m
        <5>1. U \subseteq Int
          OBVIOUS
        <5>2. pos[i] \in Int /\ m \in Int /\ m >= pos[i]
          BY <5>1, <4>1, <2>1
        <5>. QED BY <5>2, <4>1
      <4>3. longer[i] = pos[i] /\ longer[j] = m
        BY <3>1, <3>2, <1>6
      <4>. QED BY <4>2, <4>3
    <3>3. CASE j # k
      <4>1. j \in 1 .. k - 1
        BY <3>3, <1>6
      <4>2. pos[i] < pos[j]
        BY <4>1, <3>1, <2>2, <2>5 DEF Enumerates
      <4>3. longer[i] = pos[i] /\ longer[j] = pos[j]
        BY <3>1, <4>1, <1>6
      <4>. QED BY <4>2, <4>3
    <3>. QED BY <3>2, <3>3
  <2>9. \A p \in U : \E i \in 1 .. k : longer[i] = p
    <3>. SUFFICES ASSUME NEW p \in U PROVE \E i \in 1 .. k : longer[i] = p
      OBVIOUS
    <3>1. CASE p = m
      BY <3>1, <1>6, <2>2, <2>3
    <3>2. CASE p # m
      <4>1. PICK i \in 1 .. k - 1 : pos[i] = p
        BY <3>2, <2>2, <2>5 DEF Enumerates
      <4>. QED BY <4>1, <1>6
    <3>. QED BY <3>1, <3>2
  <2>10. Enumerates(longer, U)
    BY <1>5, <2>7, <2>8, <2>9 DEF Enumerates
  <2>. QED BY <1>5, <2>10
<1>. QED BY <1>7, <1>8

\* InOrder lists the positions in order.
LEMMA InOrderEnumerates ==
  ASSUME NEW n \in Nat, NEW S \in SUBSET (1 .. n)
  PROVE  Enumerates(InOrder(S), S)
<1>1. PICK pos : Enumerates(pos, S)
  BY InOrderExists
<1>2. pos \in [1 .. Cardinality(S) -> S]
  BY <1>1 DEF Enumerates
<1>. QED BY <1>1, <1>2 DEF InOrder

\* Select keeps the type of the elements; its k-th element is the element of s
\* at the k-th position.
THEOREM SelectType ==
  ASSUME NEW T, NEW s \in Seq(T), NEW S \in SUBSET (DOMAIN s)
  PROVE  /\ Select(s, S) \in Seq(T)
         /\ Len(Select(s, S)) = Cardinality(S)
         /\ \A k \in 1 .. Cardinality(S) :
              /\ InOrder(S)[k] \in S
              /\ Select(s, S)[k] = s[InOrder(S)[k]]
<1>1. Len(s) \in Nat /\ DOMAIN s = 1 .. Len(s)
  OBVIOUS
<1>2. Cardinality(S) \in Nat
  BY <1>1, PositionsFinite
<1>3. InOrder(S) \in [1 .. Cardinality(S) -> S]
  BY <1>1, InOrderEnumerates DEF Enumerates
<1>4. \A k \in 1 .. Cardinality(S) : InOrder(S)[k] \in S /\ s[InOrder(S)[k]] \in T
  BY <1>3, <1>1
<1>5. Select(s, S) \in [1 .. Cardinality(S) -> T]
  BY <1>4 DEF Select
<1>. QED BY <1>2, <1>4, <1>5 DEF Select

\* No element at a position of S is lost.
LEMMA SelectComplete ==
  ASSUME NEW T, NEW s \in Seq(T), NEW S \in SUBSET (DOMAIN s), NEW p \in S
  PROVE  \E k \in DOMAIN Select(s, S) : Select(s, S)[k] = s[p]
<1>1. S \in SUBSET (1 .. Len(s)) /\ Len(s) \in Nat
  OBVIOUS
<1>2. Enumerates(InOrder(S), S)
  BY <1>1, InOrderEnumerates
<1>3. PICK k \in 1 .. Cardinality(S) : InOrder(S)[k] = p
  BY <1>2 DEF Enumerates
<1>. QED BY <1>3 DEF Select

\* Where the element of s at position p is in the selection.
LEMMA SelectRank ==
  ASSUME NEW T, NEW s \in Seq(T), NEW S \in SUBSET (DOMAIN s), NEW p \in S,
         NEW D, D = {x \in S : x <= p}
  PROVE  /\ Cardinality(D) \in DOMAIN Select(s, S)
         /\ Select(s, S)[Cardinality(D)] = s[p]
<1>. DEFINE N == Cardinality(S)
            pos == InOrder(S)
<1>1. S \in SUBSET (1 .. Len(s)) /\ Len(s) \in Nat
  OBVIOUS
<1>2. Enumerates(pos, S) /\ N \in Nat
  BY <1>1, InOrderEnumerates, PositionsFinite
<1>. HIDE DEF N, pos
<1>3. /\ pos \in [1 .. N -> S]
      /\ \A i, j \in 1 .. N : i < j => pos[i] < pos[j]
      /\ \A x \in S : \E i \in 1 .. N : pos[i] = x
  BY <1>2 DEF Enumerates, N
<1>4. PICK k \in 1 .. N : pos[k] = p
  BY <1>3
<1>. DEFINE f == [j \in 1 .. k |-> pos[j]]
<1>5. \A j \in 1 .. k : pos[j] \in D
  <2>. SUFFICES ASSUME NEW j \in 1 .. k PROVE pos[j] \in D
    OBVIOUS
  <2>1. j \in 1 .. N /\ pos[j] \in S /\ pos[j] \in Nat /\ p \in Nat
    BY <1>1, <1>2, <1>3, <1>4
  <2>2. pos[j] <= p
    BY <1>2, <1>3, <1>4, <2>1
  <2>. QED BY <2>1, <2>2
<1>6. f \in [1 .. k -> D]
  BY <1>5
<1>7. \A i, j \in 1 .. k : f[i] = f[j] => i = j
  <2>. SUFFICES ASSUME NEW i \in 1 .. k, NEW j \in 1 .. k, i < j PROVE f[i] # f[j]
    BY <1>2
  <2>1. pos[i] < pos[j] /\ pos[i] \in Nat /\ pos[j] \in Nat
    BY <1>1, <1>2, <1>3
  <2>. QED BY <2>1
<1>8. \A x \in D : \E j \in 1 .. k : f[j] = x
  <2>. SUFFICES ASSUME NEW x \in D PROVE \E j \in 1 .. k : f[j] = x
    OBVIOUS
  <2>1. x \in S /\ x <= p /\ x \in Nat /\ p \in Nat
    BY <1>1
  <2>2. PICK j \in 1 .. N : pos[j] = x
    BY <1>3, <2>1
  <2>3. ~ (k < j)
    BY <1>3, <1>4, <2>1, <2>2
  <2>4. j \in 1 .. k
    BY <1>2, <2>3
  <2>. QED BY <2>2, <2>4
<1>9. f \in Bijection(1 .. k, D)
  BY <1>6, <1>7, <1>8 DEF Bijection, Injection, IsInjective, Surjection
<1>. HIDE DEF f
<1>10. k \in Nat /\ ExistsBijection(1 .. k, D)
  <2>1. k \in Nat
    BY <1>2
  <2>2. ExistsBijection(1 .. k, D)
    BY <1>9 DEF ExistsBijection
  <2>. QED BY <2>1, <2>2
<1>11. Cardinality(D) = k
  BY <1>10, FS_CountingElements
<1>. QED BY <1>2, <1>4, <1>11 DEF Select, N, pos

\* There is only one way to list positions in order.
LEMMA OneEnumeration ==
  ASSUME NEW n \in Nat, NEW S \in SUBSET (1 .. n),
         NEW pos, Enumerates(pos, S), NEW other, Enumerates(other, S)
  PROVE  pos = other
<1>. DEFINE N == Cardinality(S)
            Differ == {k \in 1 .. N : pos[k] # other[k]}
<1>1. N \in Nat
  BY PositionsFinite
<1>2. /\ pos \in [1 .. N -> S] /\ other \in [1 .. N -> S]
      /\ \A i, j \in 1 .. N : i < j => pos[i] < pos[j] /\ other[i] < other[j]
      /\ \A p \in S : (\E i \in 1 .. N : pos[i] = p) /\ (\E i \in 1 .. N : other[i] = p)
  BY DEF Enumerates
<1>. HIDE DEF N
<1>3. SUFFICES ASSUME Differ # {} PROVE FALSE
  <2>1. ASSUME Differ = {} PROVE pos = other
    <3>1. \A k \in 1 .. N : pos[k] = other[k]
      BY <2>1
    <3>2. pos = [k \in 1 .. N |-> pos[k]] /\ other = [k \in 1 .. N |-> other[k]]
      BY <1>2
    <3>3. [k \in 1 .. N |-> pos[k]] = [k \in 1 .. N |-> other[k]]
      BY <3>1, Zenon
    <3>. QED BY <3>2, <3>3, Zenon
  <2>. QED BY <2>1
<1>4. PICK k \in Differ : \A i \in Differ : k <= i
  <2>1. Differ \subseteq Nat
    BY <1>1
  <2>. HIDE DEF Differ
  <2>. QED BY <1>3, <2>1, LeastElement
<1>5. \A i \in 1 .. N : i < k => pos[i] = other[i]
  BY <1>1, <1>4
<1>6. k \in 1 .. N /\ pos[k] \in S /\ other[k] \in S /\ pos[k] # other[k]
  BY <1>2, <1>4
<1>7. pos[k] \in Int /\ other[k] \in Int
  <2>1. S \subseteq Int
    OBVIOUS
  <2>. QED BY <1>6, <2>1
<1>8. ~(pos[k] < other[k])
  <2>. SUFFICES ASSUME pos[k] < other[k] PROVE FALSE
    OBVIOUS
  <2>1. PICK i \in 1 .. N : other[i] = pos[k]
    BY <1>2, <1>6
  <2>2. CASE i < k
    <3>1. pos[i] < pos[k]
      BY <1>2, <1>6, <2>2
    <3>. QED BY <1>5, <1>7, <2>1, <2>2, <3>1
  <2>3. CASE i = k
    BY <1>6, <2>1, <2>3
  <2>4. CASE k < i
    <3>1. other[k] < other[i]
      BY <1>2, <1>6, <2>4
    <3>. QED BY <1>6, <1>7, <2>1, <3>1
  <2>. QED BY <1>1, <1>6, <2>2, <2>3, <2>4
<1>9. ~(other[k] < pos[k])
  <2>. SUFFICES ASSUME other[k] < pos[k] PROVE FALSE
    OBVIOUS
  <2>1. PICK i \in 1 .. N : pos[i] = other[k]
    BY <1>2, <1>6
  <2>2. CASE i < k
    <3>1. other[i] < other[k]
      BY <1>2, <1>6, <2>2
    <3>. QED BY <1>5, <1>7, <2>1, <2>2, <3>1
  <2>3. CASE i = k
    BY <1>6, <2>1, <2>3
  <2>4. CASE k < i
    <3>1. pos[k] < pos[i]
      BY <1>2, <1>6, <2>4
    <3>. QED BY <1>6, <1>7, <2>1, <3>1
  <2>. QED BY <1>1, <1>6, <2>2, <2>3, <2>4
<1>. QED BY <1>6, <1>7, <1>8, <1>9

\* Nothing and the whole of a sequence of one element.
LEMMA SelectSmall ==
  ASSUME NEW T, NEW s \in Seq(T)
  PROVE  /\ Select(s, {}) = <<>>
         /\ Len(s) = 1 => Select(s, {1}) = s
<1>1. Select(s, {}) \in Seq(T) /\ Len(Select(s, {})) = 0
  BY SelectType, FS_EmptySet
<1>2. ASSUME Len(s) = 1 PROVE Select(s, {1}) = s
  <2>. DEFINE S == {1}
  <2>1. S \in SUBSET (DOMAIN s)
    BY <1>2
  <2>2. Cardinality(S) = 1
    BY FS_Singleton
  <2>3. \A k \in S : k = 1
    OBVIOUS
  <2>. HIDE DEF S
  <2>4. /\ Select(s, S) \in Seq(T) /\ Len(Select(s, S)) = 1
        /\ \A k \in 1 .. 1 : InOrder(S)[k] \in S /\ Select(s, S)[k] = s[InOrder(S)[k]]
    <3>1. /\ Select(s, S) \in Seq(T) /\ Len(Select(s, S)) = Cardinality(S)
          /\ \A k \in 1 .. Cardinality(S) :
               InOrder(S)[k] \in S /\ Select(s, S)[k] = s[InOrder(S)[k]]
      BY <2>1, SelectType
    <3>. QED BY <2>2, <3>1
  <2>5. Select(s, S) = s
    BY <1>2, <2>3, <2>4
  <2>. QED BY <2>5 DEF S
<1>. QED BY <1>1, <1>2

\* Select takes a sequence that is put together of two apart again.
THEOREM SelectConcat ==
  ASSUME NEW T, NEW s \in Seq(T), NEW t \in Seq(T), NEW S \in SUBSET (DOMAIN (s \o t)),
         NEW A, A = S \cap DOMAIN s,
         NEW B, B = {i \in DOMAIN t : Len(s) + i \in S}
  PROVE  Select(s \o t, S) = Select(s, A) \o Select(t, B)
<1>. DEFINE m == Len(s)
            C == {m + i : i \in B}
            a == Cardinality(A)
            b == Cardinality(B)
            p == InOrder(A)
            q == InOrder(B)
            joined == [k \in 1 .. a + b |-> IF k <= a THEN p[k] ELSE m + q[k - a]]
<1>1. /\ m \in Nat /\ Len(t) \in Nat
      /\ DOMAIN s = 1 .. m /\ DOMAIN t = 1 .. Len(t) /\ DOMAIN (s \o t) = 1 .. m + Len(t)
      /\ s \o t \in Seq(T)
  OBVIOUS
<1>2. /\ A \in SUBSET (1 .. m) /\ B \in SUBSET (1 .. Len(t)) /\ S \in SUBSET (1 .. m + Len(t))
      /\ a \in Nat /\ b \in Nat /\ IsFiniteSet(A) /\ IsFiniteSet(B)
  BY <1>1, PositionsFinite
<1>3. S = A \cup C /\ A \cap C = {}
  <2>1. ASSUME NEW i \in S PROVE i \in A \cup C
    <3>1. CASE i <= m
      BY <1>1, <1>2, <3>1
    <3>2. CASE i > m
      <4>1. i - m \in B /\ i = m + (i - m)
        BY <1>1, <1>2, <3>2
      <4>. QED BY <4>1
    <3>. QED BY <1>1, <1>2, <3>1, <3>2
  <2>. QED BY <1>1, <1>2, <2>1
<1>4. Cardinality(S) = a + b
  <2>. DEFINE f == [i \in B |-> m + i]
  <2>1. f \in Bijection(B, C)
    BY <1>1, <1>2 DEF Bijection, Injection, Surjection, IsInjective
  <2>. HIDE DEF f, C, m
  <2>2. IsFiniteSet(C) /\ Cardinality(C) = Cardinality(B)
    BY <1>2, <2>1, FS_Bijection DEF ExistsBijection
  <2>3. Cardinality(A \cup C) = Cardinality(A) + Cardinality(C) - Cardinality(A \cap C)
    BY <1>2, <2>2, FS_Union
  <2>4. Cardinality(A \cap C) = 0
    BY <1>3, FS_EmptySet
  <2>5. Cardinality(S) = Cardinality(A \cup C)
    BY <1>3
  <2>. HIDE DEF a, b
  <2>6. Cardinality(A) = a /\ Cardinality(C) = b
    BY <2>2 DEF a, b
  <2>. QED BY <1>2, <2>3, <2>4, <2>5, <2>6
<1>5. /\ p \in [1 .. a -> A] /\ q \in [1 .. b -> B]
      /\ \A i, j \in 1 .. a : i < j => p[i] < p[j]
      /\ \A i, j \in 1 .. b : i < j => q[i] < q[j]
      /\ \A i \in A : \E k \in 1 .. a : p[k] = i
      /\ \A i \in B : \E k \in 1 .. b : q[k] = i
  <2>. HIDE DEF m
  <2>1. Enumerates(p, A) /\ Enumerates(q, B)
    BY <1>1, <1>2, InOrderEnumerates
  <2>. QED BY <2>1 DEF Enumerates
<1>. HIDE DEF m, C, a, b, p, q
<1>6. /\ \A k \in 1 .. a : joined[k] = p[k] /\ p[k] \in A
      /\ \A k \in 1 .. b : a + k \in 1 .. a + b /\ joined[a + k] = m + q[k] /\ q[k] \in B
      /\ \A k \in 1 .. a + b : k \in 1 .. a \/ \E j \in 1 .. b : k = a + j
      /\ joined \in [1 .. a + b -> S]
  <2>1. \A k \in 1 .. a + b : k \in 1 .. a \/ (k - a \in 1 .. b /\ k = a + (k - a))
    BY <1>2
  <2>2. \A k \in 1 .. b : a + k \in 1 .. a + b /\ a + k > a /\ (a + k) - a = k
    BY <1>2
  <2>3. \A k \in 1 .. a : k \in 1 .. a + b /\ k <= a
    BY <1>2
  <2>4. \A k \in 1 .. a : joined[k] = p[k] /\ p[k] \in A
    BY <1>5, <2>3
  <2>5. \A k \in 1 .. b : joined[a + k] = m + q[k] /\ q[k] \in B
    BY <1>2, <1>5, <2>2
  <2>6. ASSUME NEW k \in 1 .. a + b PROVE joined[k] \in S
    <3>. HIDE DEF joined
    <3>1. CASE k \in 1 .. a
      BY <1>3, <2>4, <3>1
    <3>2. CASE k - a \in 1 .. b /\ k = a + (k - a)
      BY <1>3, <2>5, <3>2 DEF C
    <3>. QED BY <2>1, <3>1, <3>2
  <2>7. joined \in [1 .. a + b -> S]
    BY <2>6
  <2>. HIDE DEF joined
  <2>. QED BY <2>1, <2>2, <2>4, <2>5, <2>7
<1>. HIDE DEF joined
<1>7. Enumerates(joined, S)
  <2>2. ASSUME NEW i \in 1 .. a + b, NEW j \in 1 .. a + b, i < j
        PROVE  joined[i] < joined[j]
    <3>. A \subseteq 1 .. m /\ B \subseteq 1 .. Len(t)
      BY <1>2
    <3>1. CASE j \in 1 .. a
      <4>1. i \in 1 .. a
        BY <1>2, <2>2, <3>1
      <4>. QED BY <1>5, <1>6, <2>2, <3>1, <4>1
    <3>2. ASSUME NEW l \in 1 .. b, j = a + l, i \in 1 .. a PROVE joined[i] < joined[j]
      <4>1. joined[i] \in 1 .. m /\ q[l] \in 1 .. Len(t) /\ joined[j] = m + q[l]
        BY <1>6, <3>2
      <4>. QED BY <1>1, <4>1 DEF m
    <3>3. ASSUME NEW l \in 1 .. b, j = a + l, NEW k \in 1 .. b, i = a + k
          PROVE  joined[i] < joined[j]
      <4>1. k < l
        BY <1>2, <2>2, <3>3
      <4>2. q[k] < q[l] /\ q[k] \in 1 .. Len(t) /\ q[l] \in 1 .. Len(t)
        BY <1>5, <1>6, <4>1
      <4>3. joined[i] = m + q[k] /\ joined[j] = m + q[l]
        BY <1>6, <3>3
      <4>. QED BY <1>1, <4>2, <4>3 DEF m
    <3>. QED BY <1>6, <3>1, <3>2, <3>3
  <2>3. ASSUME NEW i \in S PROVE \E k \in 1 .. a + b : joined[k] = i
    <3>1. CASE i \in A
      <4>1. PICK k \in 1 .. a : p[k] = i
        BY <1>5, <3>1
      <4>. QED BY <1>2, <1>6, <4>1
    <3>2. ASSUME NEW j \in B, i = m + j PROVE \E k \in 1 .. a + b : joined[k] = i
      BY <1>5, <1>6, <3>2
    <3>. QED BY <1>3, <3>1, <3>2 DEF C
  <2>. QED BY <1>4, <1>6, <2>2, <2>3 DEF Enumerates
<1>8. InOrder(S) = joined
  <2>1. m + Len(t) \in Nat
    BY <1>1 DEF m
  <2>2. Enumerates(InOrder(S), S)
    BY <1>2, <2>1, InOrderEnumerates
  <2>. QED BY <1>2, <1>7, <2>1, <2>2, OneEnumeration
<1>9. /\ Select(s, A) \in Seq(T) /\ Len(Select(s, A)) = a
      /\ \A k \in 1 .. a : Select(s, A)[k] = s[p[k]]
  BY <1>1, SelectType DEF a, p
<1>10. /\ Select(t, B) \in Seq(T) /\ Len(Select(t, B)) = b
       /\ \A k \in 1 .. b : Select(t, B)[k] = t[q[k]]
  BY <1>1, SelectType DEF b, q
<1>11. /\ Select(s \o t, S) \in Seq(T) /\ Len(Select(s \o t, S)) = a + b
       /\ \A k \in 1 .. a + b : Select(s \o t, S)[k] = (s \o t)[joined[k]]
  <2>1. /\ Select(s \o t, S) \in Seq(T) /\ Len(Select(s \o t, S)) = Cardinality(S)
        /\ \A k \in 1 .. Cardinality(S) : Select(s \o t, S)[k] = (s \o t)[InOrder(S)[k]]
    BY <1>1, SelectType
  <2>. QED BY <1>4, <1>8, <2>1
<1>. DEFINE both == Select(s, A) \o Select(t, B)
<1>12. both \in Seq(T) /\ Len(both) = a + b
  <2>. DEFINE x == Select(s, A)
              y == Select(t, B)
  <2>1. x \in Seq(T) /\ Len(x) = a /\ y \in Seq(T) /\ Len(y) = b
    BY <1>9, <1>10
  <2>. HIDE DEF x, y
  <2>2. \A u, v \in Seq(T) : u \o v \in Seq(T) /\ Len(u \o v) = Len(u) + Len(v)
    OBVIOUS
  <2>3. x \o y \in Seq(T) /\ Len(x \o y) = Len(x) + Len(y)
    BY <2>1, <2>2, Zenon
  <2>. QED BY <2>1, <2>3 DEF x, y
<1>13. /\ \A k \in 1 .. a : both[k] = s[p[k]]
       /\ \A j \in 1 .. b : both[a + j] = t[q[j]]
  <2>. DEFINE x == Select(s, A)
              y == Select(t, B)
  <2>1. x \in Seq(T) /\ Len(x) = a /\ y \in Seq(T) /\ Len(y) = b
    BY <1>9, <1>10
  <2>. HIDE DEF x, y
  <2>2. /\ \A k \in 1 .. a : (x \o y)[k] = x[k]
        /\ \A j \in 1 .. b : (x \o y)[a + j] = y[j]
    BY <1>2, <2>1
  <2>3. both = x \o y /\ (\A k \in 1 .. a : x[k] = s[p[k]]) /\ (\A j \in 1 .. b : y[j] = t[q[j]])
    BY <1>9, <1>10 DEF x, y
  <2>. HIDE DEF both
  <2>. QED BY <2>2, <2>3
<1>. HIDE DEF both
<1>14. ASSUME NEW k \in 1 .. a + b PROVE Select(s \o t, S)[k] = both[k]
  <2>1. CASE k \in 1 .. a
    <3>1. both[k] = s[p[k]]
      BY <1>13, <2>1
    <3>2. (s \o t)[p[k]] = s[p[k]]
      BY <1>1, <1>2, <1>6, <2>1
    <3>. QED BY <1>6, <1>11, <2>1, <3>1, <3>2
  <2>2. ASSUME NEW j \in 1 .. b, k = a + j PROVE Select(s \o t, S)[k] = both[k]
    <3>1. both[k] = t[q[j]]
      BY <1>13, <2>2
    <3>2. (s \o t)[m + q[j]] = t[q[j]]
      <4>1. q[j] \in 1 .. Len(t)
        BY <1>2, <1>6
      <4>. QED BY <1>1, <4>1 DEF m
    <3>. QED BY <1>6, <1>11, <2>2, <3>1, <3>2
  <2>. QED BY <1>6, <2>1, <2>2
<1>15. Select(s \o t, S) = both
  BY <1>11, <1>12, <1>14
<1>. QED BY <1>15 DEF both

=============================================================================
