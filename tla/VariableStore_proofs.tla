------------------------ MODULE VariableStore_proofs ------------------------
(* Proofs about VariableStore for any variables, sizes and values, and any   *)
(* number of calls, losses of power and accesses that report an error: the   *)
(* copies in flash stay in order and the cache shows what flash holds.       *)
EXTENDS VariableStoreInv, SequenceTheorems, FiniteSetTheorems, WellFoundedInduction, TLAPS

-----------------------------------------------------------------------------
(* Sets of numbers and induction.                                             *)

LessOnNat == {p \in Nat \X Nat : p[1] < p[2]}
LEMMA LessOnNatWF == IsWellFoundedOn(LessOnNat, Nat)
BY NatLessThanWellFounded DEF OpToRel, LessOnNat

LEMMA SetInduction ==
  ASSUME NEW S \in SUBSET Nat, 0 \in S, \A n \in S : n + 1 \in S
  PROVE  S = Nat
<1>1. SUFFICES ASSUME Nat \ S # {}
               PROVE  FALSE
  OBVIOUS
<1>2. PICK x \in Nat \ S : \A y \in Nat \ S : ~ (<<y, x>> \in LessOnNat)
  BY <1>1, LessOnNatWF, WFMin
<1>3. x # 0 /\ x - 1 \in Nat
  BY <1>2
<1>4. x - 1 \in S
  <2>1. SUFFICES ASSUME x - 1 \notin S
                 PROVE  FALSE
    OBVIOUS
  <2>2. x - 1 < x
    BY <1>2
  <2>3. <<x - 1, x>> \in LessOnNat
    BY <1>2, <1>3, <2>2 DEF LessOnNat
  <2> QED BY <1>2, <1>3, <2>1, <2>3
<1>5. (x - 1) + 1 = x
  BY <1>2
<1> QED BY <1>2, <1>4, <1>5

LEMMA LeastIs ==
  ASSUME NEW S \in SUBSET Nat, S # {}
  PROVE  Least(S) \in S /\ \A j \in S : Least(S) =< j
<1>1. PICK x \in S : \A y \in S : ~ (<<y, x>> \in LessOnNat)
  BY LessOnNatWF, WFMin
<1>2. \A y \in S : x =< y
  <2>1. SUFFICES ASSUME NEW y \in S, ~ (x =< y)
                 PROVE  FALSE
    OBVIOUS
  <2>2. x \in Nat /\ y \in Nat /\ y < x
    BY <2>1
  <2>3. <<y, x>> \in LessOnNat
    BY <2>2 DEF LessOnNat
  <2> QED BY <1>1, <2>3
<1> QED BY <1>2 DEF Least

LEMMA GreatestIs ==
  ASSUME NEW N \in Nat, NEW S \in SUBSET (0..N), S # {}
  PROVE  Greatest(S) \in S /\ \A j \in S : j =< Greatest(S)
<1> DEFINE T == {k \in Nat : \A j \in S : j =< k}
<1>1. N \in T
  OBVIOUS
<1>2. T \in SUBSET Nat /\ T # {}
  BY <1>1
<1> HIDE DEF T
<1>3. Least(T) \in T /\ \A k \in T : Least(T) =< k
  BY <1>2, LeastIs
<1>4. PICK m \in T : \A k \in T : m =< k
  BY <1>3
<1>5. m \in Nat /\ \A j \in S : j =< m
  BY DEF T
<1>6. m \in S
  <2>1. SUFFICES ASSUME m \notin S
                 PROVE  FALSE
    OBVIOUS
  <2>2. PICK s \in S : TRUE
    OBVIOUS
  <2>3. m # 0
    BY <1>5, <2>1, <2>2
  <2>4. \A j \in S : j =< m - 1
    <3>1. ASSUME NEW j \in S
          PROVE  j =< m - 1
      <4>1. j \in Nat /\ j =< m /\ j # m
        BY <1>5, <2>1
      <4> QED BY <1>5, <4>1
    <3> QED BY <3>1
  <2>5. m - 1 \in T
    BY <1>5, <2>3, <2>4 DEF T
  <2>6. m =< m - 1
    BY <1>4, <2>5
  <2> QED BY <1>5, <2>6
<1> QED BY <1>5, <1>6 DEF Greatest

-----------------------------------------------------------------------------
(* What the copies of a list take.                                            *)

\* f[k] is what the first k copies of l take.
Adds(f, l, n) == f[0] = 0 /\ \A k \in 1..n : f[k] = f[k - 1] + Size[l[k].name]

Offsets(f, l) == f \in [0..Len(l) -> Nat] /\ Adds(f, l, Len(l))

LEMMA OffsetsExist ==
  ASSUME NEW l \in Seq(Copy), NEW n \in Nat, n =< Len(l)
  PROVE  \E f \in [0..n -> Nat] :
            f = [k \in 0..n |-> IF k = 0 THEN 0 ELSE f[k - 1] + Size[l[k].name]]
<1> DEFINE P(m) == m =< Len(l) => \E f \in [0..m -> Nat] :
              f = [k \in 0..m |-> IF k = 0 THEN 0 ELSE f[k - 1] + Size[l[k].name]]
           S == {m \in Nat : P(m)}
<1>1. 0 \in S
  <2> DEFINE h == [k \in 0..0 |-> 0]
  <2>1. h \in [0..0 -> Nat]
    OBVIOUS
  <2>2. h = [k \in 0..0 |-> IF k = 0 THEN 0 ELSE h[k - 1] + Size[l[k].name]]
    OBVIOUS
  <2> HIDE DEF h
  <2>3. P(0)
    BY <2>1, <2>2
  <2> QED BY <2>3
<1>2. ASSUME NEW m \in S
      PROVE  m + 1 \in S
  <2>1. m \in Nat /\ P(m) /\ m + 1 \in Nat
    OBVIOUS
  <2> SUFFICES P(m + 1)
    BY <2>1
  <2>2. SUFFICES ASSUME m + 1 =< Len(l)
                 PROVE  \E f \in [0..m + 1 -> Nat] :
              f = [k \in 0..m + 1 |-> IF k = 0 THEN 0 ELSE f[k - 1] + Size[l[k].name]]
    OBVIOUS
  <2>3. m =< Len(l)
    BY <2>1, <2>2
  <2>4. PICK g \in [0..m -> Nat] :
              g = [k \in 0..m |-> IF k = 0 THEN 0 ELSE g[k - 1] + Size[l[k].name]]
    BY <2>1, <2>3
  <2>5. l[m + 1] \in Copy
    BY <2>1, <2>2
  <2>6. Size[l[m + 1].name] \in Nat
    BY <2>5, VariableAssumption DEF Copy
  <2> DEFINE h == [k \in 0..m + 1 |-> IF k = m + 1 THEN g[m] + Size[l[m + 1].name] ELSE g[k]]
  <2>7. h \in [0..m + 1 -> Nat]
    <3>1. \A k \in 0..m + 1 : k # m + 1 => k \in 0..m
      BY <2>1
    <3>2. m \in 0..m /\ g[m] \in Nat /\ \A k \in 0..m : g[k] \in Nat
      BY <2>1, <2>4
    <3>3. g[m] + Size[l[m + 1].name] \in Nat
      BY <2>6, <3>2
    <3> QED BY <3>1, <3>2, <3>3
  <2>8. ASSUME NEW k \in 0..m + 1
        PROVE  h[k] = IF k = 0 THEN 0 ELSE h[k - 1] + Size[l[k].name]
    <3>1. CASE k = m + 1
      <4>1. k # 0 /\ k - 1 = m /\ m \in 0..m + 1 /\ m # m + 1
        BY <2>1, <3>1
      <4>2. h[m] = g[m]
        BY <4>1
      <4> QED BY <3>1, <4>1, <4>2
    <3>2. CASE k # m + 1
      <4>1. k \in 0..m
        BY <2>1, <3>2
      <4>2. g[k] = IF k = 0 THEN 0 ELSE g[k - 1] + Size[l[k].name]
        BY <2>4, <4>1
      <4>3. k # 0 => k - 1 \in 0..m + 1 /\ k - 1 # m + 1
        BY <2>1, <4>1
      <4>4. k # 0 => h[k - 1] = g[k - 1]
        BY <4>3
      <4> QED BY <3>2, <4>2, <4>4
    <3> QED BY <3>1, <3>2
  <2>9. h = [k \in 0..m + 1 |-> IF k = 0 THEN 0 ELSE h[k - 1] + Size[l[k].name]]
    BY <2>8
  <2> HIDE DEF h
  <2> QED BY <2>7, <2>9
<1> HIDE DEF P
<1>3. S = Nat
  BY <1>1, <1>2, SetInduction
<1>4. P(n)
  BY <1>3
<1> QED BY <1>4 DEF P

LEMMA OffsetsUnique ==
  ASSUME NEW l, NEW f, NEW g, NEW n \in Nat, Adds(f, l, n), Adds(g, l, n)
  PROVE  f[n] = g[n]
<1> DEFINE S == {k \in Nat : k =< n => f[k] = g[k]}
<1>1. 0 \in S
  BY DEF Adds
<1>2. ASSUME NEW k \in S
      PROVE  k + 1 \in S
  <2>1. SUFFICES ASSUME k + 1 =< n
                 PROVE  f[k + 1] = g[k + 1]
    OBVIOUS
  <2>2. k \in Nat /\ k + 1 \in 1..n /\ (k + 1) - 1 = k /\ k =< n
    BY <2>1
  <2> QED BY <2>2 DEF Adds
<1>3. S = Nat
  <2>1. S \in SUBSET Nat
    OBVIOUS
  <2> HIDE DEF S
  <2> QED BY <1>1, <1>2, <2>1, SetInduction
<1>4. n \in S
  <2> HIDE DEF S
  <2> QED BY <1>3
<1> QED BY <1>4

LEMMA UsedIs ==
  ASSUME NEW l \in Seq(Copy)
  PROVE  \E f : Offsets(f, l) /\ Used(l) = f[Len(l)]
<1> DEFINE G == CHOOSE f : f = [k \in 0..Len(l) |-> IF k = 0 THEN 0 ELSE f[k - 1] + Size[l[k].name]]
<1>1. Len(l) \in Nat
  OBVIOUS
<1>2. PICK f \in [0..Len(l) -> Nat] :
        f = [k \in 0..Len(l) |-> IF k = 0 THEN 0 ELSE f[k - 1] + Size[l[k].name]]
  <2>1. Len(l) =< Len(l)
    BY <1>1
  <2> QED BY <1>1, <2>1, OffsetsExist
<1>3. G = [k \in 0..Len(l) |-> IF k = 0 THEN 0 ELSE G[k - 1] + Size[l[k].name]]
  BY <1>2
<1>4. Used(l) = G[Len(l)]
  BY DEF Used
<1> HIDE DEF G
<1>5. f[0] = 0 /\ G[0] = 0
  <2>1. 0 \in 0..Len(l)
    BY <1>1
  <2> QED BY <1>2, <1>3, <2>1
<1>6. \A k \in 1..Len(l) : f[k] = f[k - 1] + Size[l[k].name]
  <2>1. \A k \in 1..Len(l) : k \in 0..Len(l) /\ k # 0
    BY <1>1
  <2> QED BY <1>2, <2>1
<1>7. \A k \in 1..Len(l) : G[k] = G[k - 1] + Size[l[k].name]
  <2>1. \A k \in 1..Len(l) : k \in 0..Len(l) /\ k # 0
    BY <1>1
  <2> QED BY <1>3, <2>1
<1>8. f[Len(l)] = G[Len(l)]
  <2>1. Adds(f, l, Len(l)) /\ Adds(G, l, Len(l))
    BY <1>5, <1>6, <1>7 DEF Adds
  <2> QED BY <1>1, <2>1, OffsetsUnique
<1>9. Offsets(f, l)
  BY <1>2, <1>5, <1>6 DEF Offsets, Adds
<1> QED BY <1>4, <1>8, <1>9

LEMMA UsedNat ==
  ASSUME NEW l \in Seq(Copy)
  PROVE  Used(l) \in Nat
<1>1. PICK f : Offsets(f, l) /\ Used(l) = f[Len(l)]
  BY UsedIs
<1>2. Len(l) \in 0..Len(l)
  OBVIOUS
<1> QED BY <1>1, <1>2 DEF Offsets

LEMMA UsedEmpty == Used(<<>>) = 0
<1>1. <<>> \in Seq(Copy) /\ Len(<<>>) = 0
  OBVIOUS
<1>2. PICK f : Offsets(f, <<>>) /\ Used(<<>>) = f[Len(<<>>)]
  BY <1>1, UsedIs
<1> QED BY <1>1, <1>2 DEF Offsets, Adds

\* Only the names count.
LEMMA UsedByNames ==
  ASSUME NEW l \in Seq(Copy), NEW m \in Seq(Copy), Len(m) = Len(l),
         \A i \in DOMAIN l : m[i].name = l[i].name
  PROVE  Used(m) = Used(l)
<1>1. PICK f : Offsets(f, l) /\ Used(l) = f[Len(l)]
  BY UsedIs
<1>2. PICK g : Offsets(g, m) /\ Used(m) = g[Len(m)]
  BY UsedIs
<1>3. Len(l) \in Nat /\ DOMAIN l = 1..Len(l)
  OBVIOUS
<1>4. Adds(f, l, Len(l))
  BY <1>1 DEF Offsets
<1>5. Adds(g, l, Len(l))
  <2>1. \A k \in 1..Len(l) : k \in 1..Len(m)
    BY <1>3
  <2> QED BY <1>2, <1>3, <2>1 DEF Offsets, Adds
<1>6. f[Len(l)] = g[Len(l)]
  BY <1>3, <1>4, <1>5, OffsetsUnique
<1> QED BY <1>1, <1>2, <1>6

\* One copy more.
LEMMA UsedLonger ==
  ASSUME NEW l \in Seq(Copy), NEW m \in Seq(Copy), Len(m) = Len(l) + 1,
         \A i \in DOMAIN l : m[i].name = l[i].name
  PROVE  Used(m) = Used(l) + Size[m[Len(m)].name]
<1>1. PICK f : Offsets(f, l) /\ Used(l) = f[Len(l)]
  BY UsedIs
<1>2. PICK g : Offsets(g, m) /\ Used(m) = g[Len(m)]
  BY UsedIs
<1>3. Len(l) \in Nat /\ DOMAIN l = 1..Len(l)
  OBVIOUS
<1>4. Adds(f, l, Len(l))
  BY <1>1 DEF Offsets
<1>5. Adds(g, l, Len(l))
  <2>1. \A k \in 1..Len(l) : k \in 1..Len(m)
    BY <1>3
  <2> QED BY <1>2, <1>3, <2>1 DEF Offsets, Adds
<1>6. f[Len(l)] = g[Len(l)]
  BY <1>3, <1>4, <1>5, OffsetsUnique
<1>7. Len(m) \in 1..Len(m) /\ Len(m) - 1 = Len(l)
  BY <1>3
<1>8. g[Len(m)] = g[Len(m) - 1] + Size[m[Len(m)].name]
  BY <1>2, <1>7 DEF Offsets, Adds
<1> QED BY <1>1, <1>2, <1>6, <1>7, <1>8

-----------------------------------------------------------------------------
(* The copies of a list whose index is in a set.                              *)

Rank(S, i) == Cardinality({j \in S : j =< i})

LEMMA RankNat ==
  ASSUME NEW N \in Nat, NEW S \in SUBSET (1..N), NEW i
  PROVE  IsFiniteSet({j \in S : j =< i}) /\ Rank(S, i) \in Nat
<1>1. IsFiniteSet(1..N)
  BY FS_Interval
<1>2. {j \in S : j =< i} \in SUBSET (1..N)
  OBVIOUS
<1>3. IsFiniteSet({j \in S : j =< i})
  BY <1>1, <1>2, FS_Subset
<1>4. Cardinality({j \in S : j =< i}) \in Nat
  BY <1>3, FS_CardinalityType
<1> QED BY <1>3, <1>4 DEF Rank

LEMMA RankSteps ==
  ASSUME NEW N \in Nat, NEW S \in SUBSET (1..N)
  PROVE  /\ Rank(S, 0) = 0
         /\ \A n \in Nat : Rank(S, n + 1) = IF n + 1 \in S THEN Rank(S, n) + 1 ELSE Rank(S, n)
         /\ \A n \in Nat : S \subseteq 1..n => Rank(S, n) = Cardinality(S)
<1>0. \A j \in S : j \in Nat /\ 1 =< j /\ j =< N
  OBVIOUS
<1>1. Rank(S, 0) = 0
  <2>0. \A j \in S : ~ (j =< 0)
    BY <1>0
  <2>1. {j \in S : j =< 0} = {}
    BY <2>0
  <2> QED BY <2>1, FS_EmptySet DEF Rank
<1>2. ASSUME NEW n \in Nat
      PROVE  Rank(S, n + 1) = IF n + 1 \in S THEN Rank(S, n) + 1 ELSE Rank(S, n)
  <2>1. IsFiniteSet({j \in S : j =< n})
    BY RankNat
  <2>2. CASE n + 1 \in S
    <3>0. \A j \in S : j =< n + 1 <=> j =< n \/ j = n + 1
      BY <1>0
    <3>1. {j \in S : j =< n + 1} = {j \in S : j =< n} \cup {n + 1}
      BY <2>2, <3>0
    <3>2. n + 1 \notin {j \in S : j =< n}
      OBVIOUS
    <3>3. Cardinality({j \in S : j =< n} \cup {n + 1}) = Cardinality({j \in S : j =< n}) + 1
      BY <2>1, <3>2, FS_AddElement
    <3> QED BY <2>2, <3>1, <3>3 DEF Rank
  <2>3. CASE n + 1 \notin S
    <3>1. \A j \in S : j =< n + 1 <=> j =< n
      BY <1>0, <2>3
    <3>2. {j \in S : j =< n + 1} = {j \in S : j =< n}
      BY <3>1
    <3> QED BY <2>3, <3>2 DEF Rank
  <2> QED BY <2>2, <2>3
<1>3. ASSUME NEW n \in Nat, S \subseteq 1..n
      PROVE  Rank(S, n) = Cardinality(S)
  <2>1. \A j \in S : j =< n
    BY <1>3
  <2>2. {j \in S : j =< n} = S
    BY <2>1
  <2> QED BY <2>2 DEF Rank
<1> QED BY <1>1, <1>2, <1>3

LEMMA RankLast ==
  ASSUME NEW N \in Nat, NEW S \in SUBSET (1..N), NEW i \in S
  PROVE  i - 1 \in Nat /\ Rank(S, i) = Rank(S, i - 1) + 1
<1>1. i \in Nat /\ i # 0
  OBVIOUS
<1>2. PICK n \in Nat : n = i - 1 /\ n + 1 = i
  BY <1>1
<1>3. Rank(S, n + 1) = IF n + 1 \in S THEN Rank(S, n) + 1 ELSE Rank(S, n)
  BY RankSteps
<1> QED BY <1>2, <1>3

LEMMA RankGrows ==
  ASSUME NEW N \in Nat, NEW S \in SUBSET (1..N), NEW i \in S, NEW j \in S, i < j
  PROVE  Rank(S, i) < Rank(S, j)
<1>1. i \in Nat /\ j \in Nat /\ j - 1 \in Nat /\ i =< j - 1
  OBVIOUS
<1>2. \A k \in S : k \in Nat /\ (k =< i => k =< j - 1)
  BY <1>1
<1>3. {k \in S : k =< i} \in SUBSET {k \in S : k =< j - 1}
  BY <1>2
<1>4. IsFiniteSet({k \in S : k =< j - 1})
  BY RankNat
<1>5. Cardinality({k \in S : k =< i}) =< Cardinality({k \in S : k =< j - 1})
  BY <1>3, <1>4, FS_Subset
<1>6. Rank(S, i) =< Rank(S, j - 1)
  BY <1>5 DEF Rank
<1>7. Rank(S, i) \in Nat /\ Rank(S, j - 1) \in Nat
  BY RankNat
<1>8. Rank(S, j) = Rank(S, j - 1) + 1
  BY RankLast
<1> QED BY <1>6, <1>7, <1>8

LEMMA RankIn ==
  ASSUME NEW N \in Nat, NEW S \in SUBSET (1..N), NEW i \in S
  PROVE  Rank(S, i) \in 1..Cardinality(S)
<1>1. IsFiniteSet(S)
  <2>1. IsFiniteSet(1..N)
    BY FS_Interval
  <2> QED BY <2>1, FS_Subset
<1>2. {j \in S : j =< i} \in SUBSET S
  OBVIOUS
<1>3. Rank(S, i) =< Cardinality(S)
  BY <1>1, <1>2, FS_Subset DEF Rank
<1>4. Rank(S, i) = Rank(S, i - 1) + 1
  BY RankLast
<1>5. Rank(S, i - 1) \in Nat /\ Rank(S, i) \in Nat
  BY RankNat
<1>6. Cardinality(S) \in Nat
  BY <1>1, FS_CardinalityType
<1> QED BY <1>3, <1>4, <1>5, <1>6

\* Every rank is taken.
LEMMA RankedIs ==
  ASSUME NEW N \in Nat, NEW S \in SUBSET (1..N), NEW k \in 1..Cardinality(S)
  PROVE  Ranked(S, k) \in S /\ Rank(S, Ranked(S, k)) = k
<1> DEFINE T == {n \in Nat : \A r \in 1..Rank(S, n) : \E i \in S : Rank(S, i) = r}
<1>1. 0 \in T
  <2>1. Rank(S, 0) = 0
    BY RankSteps
  <2> QED BY <2>1
<1>2. ASSUME NEW n \in T
      PROVE  n + 1 \in T
  <2>1. n \in Nat /\ n + 1 \in Nat /\ \A r \in 1..Rank(S, n) : \E i \in S : Rank(S, i) = r
    OBVIOUS
  <2>2. Rank(S, n) \in Nat
    BY RankNat
  <2>3. ASSUME NEW r \in 1..Rank(S, n + 1)
        PROVE  \E i \in S : Rank(S, i) = r
    <3>1. Rank(S, n + 1) = IF n + 1 \in S THEN Rank(S, n) + 1 ELSE Rank(S, n)
      BY <2>1, RankSteps
    <3>2. CASE r \in 1..Rank(S, n)
      BY <2>1, <3>2
    <3>3. CASE r \notin 1..Rank(S, n)
      <4>1. n + 1 \in S /\ r = Rank(S, n) + 1 /\ r = Rank(S, n + 1)
        BY <2>2, <3>1, <3>3
      <4> QED BY <4>1
    <3> QED BY <3>2, <3>3
  <2> QED BY <2>1, <2>3
<1>3. T = Nat
  <2>1. T \in SUBSET Nat
    OBVIOUS
  <2> HIDE DEF T
  <2> QED BY <1>1, <1>2, <2>1, SetInduction
<1>4. N \in T
  <2> HIDE DEF T
  <2> QED BY <1>3
<1>5. Rank(S, N) = Cardinality(S)
  BY RankSteps
<1>6. \E i \in S : Rank(S, i) = k
  BY <1>4, <1>5
<1>7. Ranked(S, k) = CHOOSE i \in S : Rank(S, i) = k
  BY DEF Ranked, Rank
<1> QED BY <1>6, <1>7

LEMMA RankedRank ==
  ASSUME NEW N \in Nat, NEW S \in SUBSET (1..N), NEW i \in S
  PROVE  Ranked(S, Rank(S, i)) = i
<1>1. Rank(S, i) \in 1..Cardinality(S)
  BY RankIn
<1>2. Ranked(S, Rank(S, i)) \in S /\ Rank(S, Ranked(S, Rank(S, i))) = Rank(S, i)
  BY <1>1, RankedIs
<1>3. PICK j \in S : j = Ranked(S, Rank(S, i)) /\ Rank(S, j) = Rank(S, i)
  BY <1>2
<1>4. ~ (j < i) /\ ~ (i < j)
  <2>1. Rank(S, i) \in Nat
    BY RankNat
  <2>2. j < i => Rank(S, j) < Rank(S, i)
    BY RankGrows
  <2>3. i < j => Rank(S, i) < Rank(S, j)
    BY RankGrows
  <2> QED BY <1>3, <2>1, <2>2, <2>3
<1>5. i \in Nat /\ j \in Nat
  OBVIOUS
<1> QED BY <1>3, <1>4, <1>5

\* What Pick makes of a list.
LEMMA PickIs ==
  ASSUME NEW l \in Seq(Copy), NEW S \in SUBSET DOMAIN l
  PROVE  /\ Pick(l, S) \in Seq(Copy)
         /\ Len(Pick(l, S)) = Cardinality(S)
         /\ \A k \in DOMAIN Pick(l, S) : /\ Ranked(S, k) \in S
                                         /\ Rank(S, Ranked(S, k)) = k
                                         /\ Pick(l, S)[k] = l[Ranked(S, k)]
         /\ \A i \in S : /\ Rank(S, i) \in DOMAIN Pick(l, S)
                         /\ Pick(l, S)[Rank(S, i)] = l[i]
<1>1. Len(l) \in Nat /\ S \in SUBSET (1..Len(l))
  OBVIOUS
<1>2. IsFiniteSet(S)
  <2>1. IsFiniteSet(1..Len(l))
    BY <1>1, FS_Interval
  <2> QED BY <1>1, <2>1, FS_Subset
<1>3. Cardinality(S) \in Nat
  BY <1>2, FS_CardinalityType
<1> DEFINE p == Pick(l, S)
<1>4. p = [k \in 1..Cardinality(S) |-> l[Ranked(S, k)]]
  BY DEF Pick
<1>5. \A k \in 1..Cardinality(S) : Ranked(S, k) \in S /\ Rank(S, Ranked(S, k)) = k
  BY <1>1, RankedIs
<1>6. \A k \in 1..Cardinality(S) : l[Ranked(S, k)] \in Copy
  BY <1>5
<1>7. p \in Seq(Copy) /\ Len(p) = Cardinality(S) /\ DOMAIN p = 1..Cardinality(S)
  <2>1. p \in [1..Cardinality(S) -> Copy]
    BY <1>4, <1>6
  <2> HIDE DEF p
  <2> QED BY <1>3, <2>1, SeqDef, LenProperties
<1>8. \A i \in S : Rank(S, i) \in 1..Cardinality(S) /\ Ranked(S, Rank(S, i)) = i
  BY <1>1, RankIn, RankedRank
<1> HIDE DEF p
<1>9. \A k \in 1..Cardinality(S) : p[k] = l[Ranked(S, k)]
  BY <1>4
<1>10. \A i \in S : p[Rank(S, i)] = l[i]
  BY <1>8, <1>9
<1> QED BY <1>5, <1>7, <1>8, <1>9, <1>10 DEF p

LEMMA PickOrder ==
  ASSUME NEW l \in Seq(Copy), NEW S \in SUBSET DOMAIN l,
         NEW j \in DOMAIN Pick(l, S), NEW k \in DOMAIN Pick(l, S)
  PROVE  /\ j < k <=> Ranked(S, j) < Ranked(S, k)
         /\ j = k <=> Ranked(S, j) = Ranked(S, k)
<1>1. Len(l) \in Nat /\ S \in SUBSET (1..Len(l))
  OBVIOUS
<1>2. /\ Ranked(S, j) \in S /\ Rank(S, Ranked(S, j)) = j
      /\ Ranked(S, k) \in S /\ Rank(S, Ranked(S, k)) = k
  BY PickIs
<1>3. PICK a \in S : a = Ranked(S, j) /\ Rank(S, a) = j
  BY <1>2
<1>4. PICK b \in S : b = Ranked(S, k) /\ Rank(S, b) = k
  BY <1>2
<1>5. a < b => j < k
  BY <1>1, <1>3, <1>4, RankGrows
<1>6. b < a => k < j
  BY <1>1, <1>3, <1>4, RankGrows
<1>7. a \in Nat /\ b \in Nat /\ j \in Nat /\ k \in Nat
  <2>1. j \in Nat /\ k \in Nat
    BY <1>1, <1>3, <1>4, RankNat
  <2> QED BY <1>1, <2>1
<1>8. a = b => j = k
  BY <1>3, <1>4
<1> QED BY <1>3, <1>4, <1>5, <1>6, <1>7, <1>8

\* It takes no more than the part of the list it is taken from.
LEMMA PickFits ==
  ASSUME NEW l \in Seq(Copy), NEW S \in SUBSET DOMAIN l
  PROVE  /\ Used(Pick(l, S)) =< Used(l)
         /\ Len(l) # 0 /\ Len(l) \notin S =>
              Used(Pick(l, S)) + Size[l[Len(l)].name] =< Used(l)
<1> DEFINE p == Pick(l, S)
<1>1. Len(l) \in Nat /\ S \in SUBSET (1..Len(l))
  OBVIOUS
<1>2. p \in Seq(Copy) /\ Len(p) = Cardinality(S)
  BY PickIs
<1>3. \A i \in S : Rank(S, i) \in DOMAIN p /\ p[Rank(S, i)] = l[i]
  BY PickIs
<1> HIDE DEF p
<1>4. PICK f : Offsets(f, l) /\ Used(l) = f[Len(l)]
  BY UsedIs
<1>5. PICK g : Offsets(g, p) /\ Used(p) = g[Len(p)]
  BY <1>2, UsedIs
<1>6. \A n \in Nat : Rank(S, n) \in Nat
  BY <1>1, RankNat
<1> DEFINE T == {n \in Nat : n =< Len(l) => g[Rank(S, n)] =< f[n] /\ g[Rank(S, n)] \in Nat}
<1>7. 0 \in T
  <2>1. Rank(S, 0) = 0
    BY <1>1, RankSteps
  <2>2. f[0] = 0 /\ g[0] = 0
    BY <1>4, <1>5 DEF Offsets, Adds
  <2> QED BY <2>1, <2>2
<1>8. ASSUME NEW n \in T
      PROVE  n + 1 \in T
  <2>1. n \in Nat /\ n + 1 \in Nat
    OBVIOUS
  <2>2. SUFFICES ASSUME n + 1 =< Len(l)
                 PROVE  g[Rank(S, n + 1)] =< f[n + 1] /\ g[Rank(S, n + 1)] \in Nat
    BY <2>1
  <2>3. g[Rank(S, n)] =< f[n] /\ g[Rank(S, n)] \in Nat
    BY <1>1, <2>1, <2>2
  <2>4. n + 1 \in 1..Len(l) /\ (n + 1) - 1 = n /\ n \in 0..Len(l)
    BY <1>1, <2>1, <2>2
  <2>5. f[n + 1] = f[n] + Size[l[n + 1].name]
    BY <1>4, <2>4 DEF Offsets, Adds
  <2>6. f[n] \in Nat
    BY <1>4, <2>4 DEF Offsets
  <2>7. Size[l[n + 1].name] \in Nat
    <3>1. l[n + 1] \in Copy
      BY <2>4
    <3> QED BY <3>1, VariableAssumption DEF Copy
  <2>8. CASE n + 1 \in S
    <3>1. Rank(S, n + 1) = Rank(S, n) + 1
      BY <1>1, <2>1, <2>8, RankSteps
    <3>2. Rank(S, n + 1) \in 1..Len(p) /\ p[Rank(S, n + 1)] = l[n + 1]
      BY <1>2, <1>3, <2>8
    <3>3. g[Rank(S, n + 1)] = g[Rank(S, n + 1) - 1] + Size[p[Rank(S, n + 1)].name]
      BY <1>5, <3>2 DEF Offsets, Adds
    <3>4. Rank(S, n + 1) - 1 = Rank(S, n)
      BY <1>6, <2>1, <3>1
    <3>5. g[Rank(S, n + 1)] = g[Rank(S, n)] + Size[l[n + 1].name]
      BY <3>2, <3>3, <3>4
    <3> QED BY <2>3, <2>5, <2>6, <2>7, <3>5
  <2>9. CASE n + 1 \notin S
    <3>1. Rank(S, n + 1) = Rank(S, n)
      BY <1>1, <2>1, <2>9, RankSteps
    <3> QED BY <2>3, <2>5, <2>6, <2>7, <3>1
  <2> QED BY <2>8, <2>9
<1>9. T = Nat
  <2>1. T \in SUBSET Nat
    OBVIOUS
  <2> HIDE DEF T
  <2> QED BY <1>7, <1>8, <2>1, SetInduction
<1>10. ASSUME NEW n \in Nat, n =< Len(l), S \subseteq 1..n
       PROVE  Used(p) =< f[n]
  <2>1. n \in T
    <3> HIDE DEF T
    <3> QED BY <1>9
  <2>2. Rank(S, n) = Cardinality(S)
    BY <1>1, <1>10, RankSteps
  <2> QED BY <1>2, <1>5, <1>10, <2>1, <2>2
<1>11. Used(p) =< Used(l)
  <2>1. Len(l) =< Len(l)
    BY <1>1
  <2> QED BY <1>1, <1>4, <1>10, <2>1
<1>12. ASSUME Len(l) # 0, Len(l) \notin S
       PROVE  Used(p) + Size[l[Len(l)].name] =< Used(l)
  <2>1. Len(l) - 1 \in Nat /\ Len(l) - 1 =< Len(l) /\ Len(l) \in 1..Len(l)
    BY <1>1, <1>12
  <2>2. S \subseteq 1..(Len(l) - 1)
    BY <1>1, <1>12
  <2>3. Used(p) =< f[Len(l) - 1]
    BY <1>10, <2>1, <2>2
  <2>4. f[Len(l)] = f[Len(l) - 1] + Size[l[Len(l)].name]
    BY <1>4, <2>1 DEF Offsets, Adds
  <2>5. Size[l[Len(l)].name] \in Nat /\ f[Len(l) - 1] \in Nat /\ Used(p) \in Nat
    <3>1. l[Len(l)] \in Copy
      BY <2>1
    <3>2. Len(l) - 1 \in 0..Len(l)
      BY <2>1
    <3>3. f[Len(l) - 1] \in Nat
      BY <1>4, <3>2 DEF Offsets
    <3>4. Used(p) \in Nat
      BY <1>2, UsedNat
    <3> QED BY <3>1, <3>3, <3>4, VariableAssumption DEF Copy
  <2> QED BY <1>4, <2>3, <2>4, <2>5
<1> QED BY <1>11, <1>12 DEF p

-----------------------------------------------------------------------------
(* What the State byte can become.                                            *)

LEMMA States ==
  /\ Added \in SUBSET StateBits /\ InDeletion \in SUBSET StateBits
  /\ HeaderValidOnly \in SUBSET StateBits /\ {} \in SUBSET StateBits
  /\ Added # InDeletion /\ {} \notin Live /\ HeaderValidOnly \notin Live
  /\ {} \cup HeaderValidOnly = HeaderValidOnly
  /\ HeaderValidOnly \cup Added = Added
  /\ "added" \notin HeaderValidOnly
  /\ "deleted" \in StateBits /\ "transition" \in StateBits
  /\ Added \in Live /\ InDeletion \in Live
  /\ \A s \in Live : s \cup {"transition"} = InDeletion
  /\ \A s \in Live : s \cup (s \cup {"transition"}) = InDeletion
  /\ \A s : s \cup {"deleted"} \notin Live
  /\ \A s : s \cup (s \cup {"deleted"}) = s \cup {"deleted"}
<1>1. /\ Added = {"header", "added"} /\ InDeletion = {"header", "added", "transition"}
      /\ StateBits = {"header", "added", "transition", "deleted"}
      /\ HeaderValidOnly = {"header"}
  BY DEF Added, InDeletion, StateBits, HeaderValidOnly
<1>2. "deleted" \notin Added /\ "deleted" \notin InDeletion
  BY <1>1
<1>3. \A s : s \cup {"deleted"} \notin Live
  BY <1>2 DEF Live
<1>4. Added \cup {"transition"} = InDeletion /\ InDeletion \cup {"transition"} = InDeletion
  BY <1>1
<1>5. \A s \in Live : s \cup {"transition"} = InDeletion
  BY <1>4 DEF Live
<1>6. \A s, b : s \cup (s \cup b) = s \cup b
  OBVIOUS
<1>7. Added # InDeletion
  BY <1>1
<1>8. {} \notin Live /\ HeaderValidOnly \notin Live
  BY <1>1 DEF Live
<1>9. /\ {} \cup HeaderValidOnly = HeaderValidOnly /\ HeaderValidOnly \cup Added = Added
      /\ "added" \notin HeaderValidOnly
  BY <1>1
<1>10. /\ Added \in SUBSET StateBits /\ InDeletion \in SUBSET StateBits
       /\ HeaderValidOnly \in SUBSET StateBits
       /\ "deleted" \in StateBits /\ "transition" \in StateBits
  BY <1>1
<1>11. Added \in Live /\ InDeletion \in Live
  BY DEF Live
<1> QED BY <1>3, <1>5, <1>6, <1>7, <1>8, <1>9, <1>10, <1>11

-----------------------------------------------------------------------------
(* The copy that is found.                                                    *)

LEMMA CopiesIn ==
  ASSUME NEW l, NEW n
  PROVE  /\ \A i : i \in AddedCopies(l, n) <=>
                     i \in DOMAIN l /\ l[i].name = n /\ l[i].state = Added
         /\ \A i : i \in OldCopies(l, n) <=>
                     i \in DOMAIN l /\ l[i].name = n /\ l[i].state = InDeletion
         /\ \A i : i \in LiveCopies(l, n) <=>
                     i \in DOMAIN l /\ l[i].name = n /\ IsLive(l[i])
         /\ LiveCopies(l, n) = AddedCopies(l, n) \cup OldCopies(l, n)
         /\ AddedCopies(l, n) \cap OldCopies(l, n) = {}
<1>1. \A i : i \in AddedCopies(l, n) <=>
                     i \in DOMAIN l /\ l[i].name = n /\ l[i].state = Added
  BY DEF AddedCopies
<1>2. \A i : i \in OldCopies(l, n) <=>
                     i \in DOMAIN l /\ l[i].name = n /\ l[i].state = InDeletion
  BY DEF OldCopies
<1>3. \A i : i \in LiveCopies(l, n) <=>
                     i \in DOMAIN l /\ l[i].name = n /\ IsLive(l[i])
  BY DEF LiveCopies
<1>4. \A c : IsLive(c) <=> c.state = Added \/ c.state = InDeletion
  BY DEF IsLive, Live
<1>5. Added # InDeletion
  BY States
<1> QED BY <1>1, <1>2, <1>3, <1>4, <1>5

LEMMA NewestUnique ==
  ASSUME NEW l \in Seq(Copy), NEW n, NEW i, NEW j, Newest(l, n, i), Newest(l, n, j)
  PROVE  i = j
<1>1. \A k \in LiveCopies(l, n) : k \in Nat
  BY CopiesIn
<1> QED BY <1>1 DEF Newest

\* FindVariable finds the newest live copy.
LEMMA FindVariableIs ==
  ASSUME NEW l \in Seq(Copy), NEW n \in Names, Ordered(l)
  PROVE  Newest(l, n, FindVariable(l, n))
<1>1. Len(l) \in Nat /\ DOMAIN l \subseteq 0..Len(l) /\ DOMAIN l \subseteq Nat
  OBVIOUS
<1>2. CASE AddedCopies(l, n) # {}
  <2>1. AddedCopies(l, n) \in SUBSET Nat
    BY <1>1 DEF AddedCopies
  <2>2. Least(AddedCopies(l, n)) \in AddedCopies(l, n)
    BY <1>2, <2>1, LeastIs
  <2>3. FindVariable(l, n) \in AddedCopies(l, n)
    BY <1>2, <2>2 DEF FindVariable
  <2>4. \A j \in LiveCopies(l, n) : j =< FindVariable(l, n)
    BY <2>3 DEF Ordered
  <2> QED BY <2>3, <2>4, CopiesIn DEF Newest
<1>3. CASE AddedCopies(l, n) = {} /\ OldCopies(l, n) # {}
  <2>1. OldCopies(l, n) \in SUBSET (0..Len(l))
    BY <1>1 DEF OldCopies
  <2>2. /\ Greatest(OldCopies(l, n)) \in OldCopies(l, n)
        /\ \A j \in OldCopies(l, n) : j =< Greatest(OldCopies(l, n))
    BY <1>1, <1>3, <2>1, GreatestIs
  <2>3. FindVariable(l, n) = Greatest(OldCopies(l, n))
    BY <1>3 DEF FindVariable
  <2>4. LiveCopies(l, n) = OldCopies(l, n)
    <3>1. LiveCopies(l, n) = AddedCopies(l, n) \cup OldCopies(l, n)
      BY CopiesIn
    <3> QED BY <1>3, <3>1
  <2> QED BY <2>2, <2>3, <2>4 DEF Newest
<1>4. CASE AddedCopies(l, n) = {} /\ OldCopies(l, n) = {}
  <2>1. LiveCopies(l, n) = {}
    BY <1>4, CopiesIn
  <2>2. FindVariable(l, n) = 0
    BY <1>4 DEF FindVariable
  <2> QED BY <2>1, <2>2 DEF Newest
<1> QED BY <1>2, <1>3, <1>4

\* Lists in which the copies that count are the same ones.
Agree(l, m, n) ==
  \A i : /\ i \in DOMAIN l /\ l[i].name = n /\ IsLive(l[i])
            => i \in DOMAIN m /\ m[i] = l[i]
         /\ i \in DOMAIN m /\ m[i].name = n /\ IsLive(m[i])
            => i \in DOMAIN l /\ m[i] = l[i]

LEMMA SameCopies ==
  ASSUME NEW l, NEW m, NEW n, Agree(l, m, n)
  PROVE  /\ LiveCopies(m, n) = LiveCopies(l, n)
         /\ AddedCopies(m, n) = AddedCopies(l, n)
         /\ OldCopies(m, n) = OldCopies(l, n)
         /\ \A i \in LiveCopies(l, n) : m[i] = l[i]
<1>1. \A c : c.state = Added \/ c.state = InDeletion => IsLive(c)
  BY DEF IsLive, Live
<1>2. \A i : i \in LiveCopies(m, n) <=> i \in LiveCopies(l, n)
  BY CopiesIn DEF Agree
<1>3. \A i : i \in AddedCopies(m, n) <=> i \in AddedCopies(l, n)
  BY <1>1, CopiesIn DEF Agree
<1>4. \A i : i \in OldCopies(m, n) <=> i \in OldCopies(l, n)
  BY <1>1, CopiesIn DEF Agree
<1>5. \A i \in LiveCopies(l, n) : m[i] = l[i]
  BY CopiesIn DEF Agree
<1>6. /\ LiveCopies(m, n) = LiveCopies(l, n)
      /\ AddedCopies(m, n) = AddedCopies(l, n)
      /\ OldCopies(m, n) = OldCopies(l, n)
  BY <1>2, <1>3, <1>4
<1> QED BY <1>5, <1>6

LEMMA MirrorsLength ==
  ASSUME NEW l \in Seq(Copy), NEW c \in Seq(Copy), Mirrors(c, l)
  PROVE  /\ Len(c) = Len(l) \/ Len(c) = Len(l) + 1
         /\ \A i \in DOMAIN c : i \in DOMAIN l \/ (i = Len(c) /\ Len(c) = Len(l) + 1)
         /\ \A i \in DOMAIN l : i \in DOMAIN c /\ Shows(c[i], l[i])
<1>1. /\ DOMAIN l = 1..Len(l) /\ DOMAIN c = 1..Len(c)
      /\ Len(l) \in Nat /\ Len(c) \in Nat
  OBVIOUS
<1>2. PICK x \in Nat, y \in Nat : x = Len(l) /\ y = Len(c)
  BY <1>1
<1>3. y = x \/ y = x + 1
  BY <1>2 DEF Mirrors
<1>4. \A i \in 1..y : i \in 1..x \/ (i = x + 1 /\ y = x + 1)
  BY <1>3
<1>5. \A i \in DOMAIN c : i \in DOMAIN l \/ (i = Len(c) /\ Len(c) = Len(l) + 1)
  BY <1>1, <1>2, <1>4
<1>6. \A i \in 1..x : i \in 1..y
  BY <1>3
<1>7. \A i \in DOMAIN l : i \in DOMAIN c /\ Shows(c[i], l[i])
  BY <1>1, <1>2, <1>6 DEF Mirrors
<1> QED BY <1>2, <1>3, <1>5, <1>7

\* A reader of the cache finds what a reader of the flash finds.
LEMMA MirrorsCopies ==
  ASSUME NEW l \in Seq(Copy), NEW c \in Seq(Copy), NEW n, Mirrors(c, l)
  PROVE  /\ LiveCopies(c, n) = LiveCopies(l, n)
         /\ AddedCopies(c, n) = AddedCopies(l, n)
         /\ OldCopies(c, n) = OldCopies(l, n)
         /\ \A i \in LiveCopies(l, n) : c[i] = l[i]
<1>1. \A i \in DOMAIN c : IsLive(c[i]) => i \in DOMAIN l
  BY MirrorsLength DEF Mirrors
<1>2. \A i \in DOMAIN l : i \in DOMAIN c /\ Shows(c[i], l[i])
  BY MirrorsLength
<1>3. \A i \in DOMAIN l : IsLive(l[i]) \/ IsLive(c[i]) => c[i] = l[i]
  BY <1>2 DEF Shows
<1>4. Agree(l, c, n)
  BY <1>1, <1>2, <1>3 DEF Agree
<1> QED BY <1>4, SameCopies

LEMMA MirrorsFind ==
  ASSUME NEW l \in Seq(Copy), NEW c \in Seq(Copy), NEW n, Mirrors(c, l)
  PROVE  /\ FindVariable(c, n) = FindVariable(l, n)
         /\ SeveralFound(c, n) = SeveralFound(l, n)
<1>1. AddedCopies(c, n) = AddedCopies(l, n) /\ OldCopies(c, n) = OldCopies(l, n)
  BY MirrorsCopies
<1> QED BY <1>1 DEF FindVariable, SeveralFound

LEMMA ViewFinds ==
  ASSUME NEW n, DataOK, Store
  PROVE  FindVariable(View, n) = FindVariable(list, n)
<1>1. list \in Seq(Copy) /\ (cache # Off => cache \in Seq(Copy) /\ Mirrors(cache, list))
  BY DEF DataOK, Store
<1> QED BY <1>1, MirrorsFind DEF View

LEMMA MirrorsItself ==
  ASSUME NEW l \in Seq(Copy)
  PROVE  Mirrors(l, l)
<1>1. Len(l) \in Nat /\ Len(l) # Len(l) + 1
  OBVIOUS
<1> QED BY <1>1 DEF Mirrors, Shows

-----------------------------------------------------------------------------
(* What a reclaim keeps.                                                      *)

\* One copy of each variable, the newest one.
LEMMA KeptIs ==
  ASSUME NEW l \in Seq(Copy), Ordered(l)
  PROVE  /\ Kept(l) \in SUBSET DOMAIN l
         /\ \A i \in Kept(l) : IsLive(l[i]) /\ Newest(l, l[i].name, i)
         /\ \A i \in DOMAIN l : IsLive(l[i]) /\ Newest(l, l[i].name, i) => i \in Kept(l)
<1>1. DOMAIN l \subseteq Nat /\ \A i \in DOMAIN l : i # 0 /\ l[i].name \in Names
  <2>1. \A i \in DOMAIN l : l[i] \in Copy /\ i # 0
    OBVIOUS
  <2> QED BY <2>1 DEF Copy
<1>2. ASSUME NEW i \in Kept(l)
      PROVE  i \in DOMAIN l /\ IsLive(l[i]) /\ Newest(l, l[i].name, i)
  <2>1. i \in DOMAIN l /\ IsLive(l[i])
    BY DEF Kept, IsLive, Live
  <2>2. i \in LiveCopies(l, l[i].name)
    BY <2>1, CopiesIn
  <2>3. CASE l[i].state = Added
    <3>1. i \in AddedCopies(l, l[i].name)
      BY <2>1, <2>3, CopiesIn
    <3> QED BY <1>1, <2>1, <2>2, <3>1 DEF Ordered, Newest
  <2>4. CASE ~ExistNewerVariable(l, i)
    <3>1. ASSUME NEW j \in LiveCopies(l, l[i].name)
          PROVE  j =< i
      <4>1. j \in DOMAIN l /\ l[j].name = l[i].name /\ l[j].state \in Live
        BY CopiesIn DEF IsLive
      <4>2. ~ (j > i)
        BY <2>4, <4>1 DEF ExistNewerVariable, Live
      <4> QED BY <1>1, <2>1, <4>1, <4>2
    <3> QED BY <2>1, <2>2, <3>1 DEF Newest
  <2>5. l[i].state = Added \/ ~ExistNewerVariable(l, i)
    BY DEF Kept
  <2> QED BY <2>1, <2>3, <2>4, <2>5
<1>3. ASSUME NEW i \in DOMAIN l, IsLive(l[i]), Newest(l, l[i].name, i)
      PROVE  i \in Kept(l)
  <2>1. \A j \in LiveCopies(l, l[i].name) : j =< i
    BY <1>1, <1>3 DEF Newest
  <2>2. ~ExistNewerVariable(l, i)
    <3>1. SUFFICES ASSUME NEW j \in DOMAIN l, j > i, l[j].name = l[i].name,
                          l[j].state \in {Added, InDeletion}
                   PROVE  FALSE
      BY DEF ExistNewerVariable
    <3>2. j \in LiveCopies(l, l[i].name)
      BY <3>1, CopiesIn DEF IsLive, Live
    <3>3. j =< i /\ j \in Nat /\ i \in Nat
      BY <1>1, <2>1, <3>2
    <3> QED BY <3>1, <3>3
  <2> QED BY <1>3, <2>2 DEF Kept, IsLive, Live
<1> QED BY <1>2, <1>3

LEMMA KeptOnce ==
  ASSUME NEW l \in Seq(Copy), Ordered(l), NEW i \in Kept(l), NEW j \in Kept(l),
         l[i].name = l[j].name
  PROVE  i = j
<1>1. Newest(l, l[i].name, i) /\ Newest(l, l[j].name, j)
  BY KeptIs
<1>2. Newest(l, l[i].name, j)
  BY <1>1
<1> QED BY <1>1, <1>2, NewestUnique

\* A list in which each variable occurs once.
Once(l) == \A i, j \in DOMAIN l : l[i].name = l[j].name => i = j

LEMMA OnceIsOrdered ==
  ASSUME NEW l \in Seq(Copy), Once(l)
  PROVE  Ordered(l)
<1>1. SUFFICES ASSUME NEW n \in Names, NEW i \in AddedCopies(l, n), NEW j \in LiveCopies(l, n)
               PROVE  j =< i
  BY DEF Ordered
<1>2. i \in DOMAIN l /\ j \in DOMAIN l /\ l[i].name = l[j].name
  BY CopiesIn
<1>3. i = j /\ i \in Nat
  BY <1>2 DEF Once
<1> QED BY <1>3

LEMMA PickOnce ==
  ASSUME NEW l \in Seq(Copy), NEW S \in SUBSET DOMAIN l,
         \A i, j \in S : l[i].name = l[j].name => i = j
  PROVE  Once(Pick(l, S))
<1>1. SUFFICES ASSUME NEW j \in DOMAIN Pick(l, S), NEW k \in DOMAIN Pick(l, S),
                      Pick(l, S)[j].name = Pick(l, S)[k].name
               PROVE  j = k
  BY DEF Once
<1>2. /\ Ranked(S, j) \in S /\ Pick(l, S)[j] = l[Ranked(S, j)]
      /\ Ranked(S, k) \in S /\ Pick(l, S)[k] = l[Ranked(S, k)]
  BY PickIs
<1>3. Ranked(S, j) = Ranked(S, k)
  BY <1>1, <1>2
<1> QED BY <1>3, PickOrder

\* m has the copies of l, in another state perhaps, but none that has been given up.
Revives(m, l) ==
  /\ m \in Seq(Copy) /\ Len(m) = Len(l)
  /\ \A i \in DOMAIN l : /\ m[i].name = l[i].name /\ m[i].val = l[i].val
                         /\ IsLive(l[i]) => IsLive(m[i])

\* What is found behind the copies kept, when those in S are.
Finds(p, m, S, n, k) ==
  IF k \in S THEN Newest(p, n, Rank(S, k)) /\ p[Rank(S, k)] = m[k] /\ Rank(S, k) # 0
             ELSE Newest(p, n, 0)

LEMMA KeptFinds ==
  ASSUME NEW l \in Seq(Copy), Ordered(l), Whole(l), NEW m, Revives(m, l),
         NEW S \in SUBSET Kept(l)
  PROVE  /\ Pick(m, S) \in Seq(Copy)
         /\ Once(Pick(m, S)) /\ Whole(Pick(m, S))
         /\ \A n, k : Newest(l, n, k) => Finds(Pick(m, S), m, S, n, k)
<1> DEFINE p == Pick(m, S)
<1>1. m \in Seq(Copy) /\ DOMAIN m = DOMAIN l /\ S \in SUBSET DOMAIN m /\ S \in SUBSET DOMAIN l
  <2>1. m \in Seq(Copy) /\ Len(m) = Len(l)
    BY DEF Revives
  <2>2. DOMAIN m = DOMAIN l
    BY <2>1
  <2>3. S \in SUBSET DOMAIN l
    BY KeptIs
  <2> QED BY <2>1, <2>2, <2>3
<1>2. \A i \in S : m[i].name = l[i].name /\ m[i].val = l[i].val /\ IsLive(m[i]) /\ IsLive(l[i])
  BY <1>1, KeptIs DEF Revives
<1>3. p \in Seq(Copy)
  BY <1>1, PickIs
<1>4. Once(p)
  <2>1. ASSUME NEW i \in S, NEW j \in S, m[i].name = m[j].name
        PROVE  i = j
    <3>1. l[i].name = l[j].name
      BY <1>2, <2>1
    <3> QED BY <3>1, KeptOnce
  <2> QED BY <1>1, <2>1, PickOnce
<1>5. \A j \in DOMAIN p : Ranked(S, j) \in S /\ p[j] = m[Ranked(S, j)]
  BY <1>1, PickIs
<1>6. \A i \in S : Rank(S, i) \in DOMAIN p /\ p[Rank(S, i)] = m[i]
  BY <1>1, PickIs
<1>7. \A j \in DOMAIN p : j \in Nat /\ j # 0
  BY <1>3
<1> HIDE DEF p
<1>8. Whole(p)
  <2>1. ASSUME NEW j \in DOMAIN p
        PROVE  p[j].val \in Values
    <3>1. PICK i \in S : p[j] = m[i]
      BY <1>5
    <3>2. IsLive(l[i]) /\ i \in DOMAIN l /\ m[i].val = l[i].val
      BY <1>1, <1>2
    <3> QED BY <3>1, <3>2 DEF Whole
  <2> QED BY <2>1 DEF Whole
<1>9. ASSUME NEW n, NEW k, Newest(l, n, k)
      PROVE  Finds(p, m, S, n, k)
  <2>1. CASE k \in S
    <3>1. Rank(S, k) \in DOMAIN p /\ p[Rank(S, k)] = m[k] /\ Rank(S, k) # 0
      BY <1>6, <1>7, <2>1
    <3>2. k \in LiveCopies(l, n)
      <4>1. k \in DOMAIN l /\ k # 0
        BY <1>1, <2>1
      <4> QED BY <1>9, <4>1 DEF Newest
    <3>3. l[k].name = n
      BY <3>2, CopiesIn
    <3>4. p[Rank(S, k)].name = n /\ IsLive(p[Rank(S, k)])
      BY <1>2, <2>1, <3>1, <3>3
    <3>5. Rank(S, k) \in LiveCopies(p, n)
      BY <3>1, <3>4, CopiesIn
    <3>6. ASSUME NEW j \in LiveCopies(p, n)
          PROVE  j =< Rank(S, k)
      <4>1. j \in DOMAIN p /\ p[j].name = p[Rank(S, k)].name
        BY <3>4, CopiesIn
      <4>2. j = Rank(S, k) /\ j \in Nat
        BY <1>4, <1>7, <3>1, <4>1 DEF Once
      <4> QED BY <4>2
    <3>7. Newest(p, n, Rank(S, k))
      BY <3>5, <3>6 DEF Newest
    <3> QED BY <2>1, <3>1, <3>7 DEF Finds
  <2>2. CASE k \notin S
    <3>1. ASSUME NEW j \in LiveCopies(p, n)
          PROVE  FALSE
      <4>1. j \in DOMAIN p /\ p[j].name = n
        BY CopiesIn
      <4>2. PICK i \in S : p[j] = m[i]
        BY <1>5, <4>1
      <4>3. l[i].name = n
        BY <1>2, <4>1, <4>2
      <4>4. Newest(l, n, i)
        BY <4>3, KeptIs
      <4>5. i = k
        BY <1>9, <4>4, NewestUnique
      <4> QED BY <2>2, <4>5
    <3>2. LiveCopies(p, n) = {}
      BY <3>1
    <3> QED BY <2>2, <3>2 DEF Finds, Newest
  <2> QED BY <2>1, <2>2
<1> QED BY <1>3, <1>4, <1>8, <1>9 DEF p

Restored(l, cur, restore) ==
  [i \in DOMAIN l |-> IF restore /\ i # cur THEN [l[i] EXCEPT !.state = Added] ELSE l[i]]

LEMMA AddedState ==
  ASSUME NEW c \in Copy
  PROVE  /\ [c EXCEPT !.state = Added] \in Copy
         /\ [c EXCEPT !.state = Added].name = c.name
         /\ [c EXCEPT !.state = Added].val = c.val
         /\ [c EXCEPT !.state = Added].state = Added
         /\ IsLive([c EXCEPT !.state = Added])
<1>1. Added \in SUBSET StateBits /\ Added \in Live
  BY States
<1> QED BY <1>1 DEF Copy, IsLive

LEMMA RestoredIs ==
  ASSUME NEW l \in Seq(Copy), NEW cur, NEW restore
  PROVE  /\ Revives(Restored(l, cur, restore), l)
         /\ Reclaimed(l, cur, restore) = Pick(Restored(l, cur, restore), Kept(l))
         /\ \A i \in DOMAIN l : ~restore \/ i = cur => Restored(l, cur, restore)[i] = l[i]
<1> DEFINE m == Restored(l, cur, restore)
<1>1. DOMAIN l = 1..Len(l) /\ Len(l) \in Nat /\ \A i \in DOMAIN l : l[i] \in Copy
  OBVIOUS
<1>2. \A i \in DOMAIN l : m[i] = IF restore /\ i # cur THEN [l[i] EXCEPT !.state = Added] ELSE l[i]
  BY DEF Restored
<1>3. \A i \in DOMAIN l : /\ m[i] \in Copy /\ m[i].name = l[i].name /\ m[i].val = l[i].val
                          /\ IsLive(l[i]) => IsLive(m[i])
  BY <1>1, <1>2, AddedState
<1>4. DOMAIN m = DOMAIN l
  BY DEF Restored
<1>5. m \in Seq(Copy) /\ Len(m) = Len(l)
  <2>1. m = [i \in 1..Len(l) |-> m[i]]
    BY <1>1, <1>4 DEF Restored
  <2>2. m \in [1..Len(l) -> Copy]
    BY <1>1, <1>3, <2>1
  <2> HIDE DEF m
  <2> QED BY <1>1, <2>2, SeqDef, LenProperties
<1>6. Revives(m, l)
  BY <1>3, <1>5 DEF Revives
<1>7. Reclaimed(l, cur, restore) = Pick(m, Kept(l))
  BY DEF Reclaimed, Restored
<1>8. \A i \in DOMAIN l : ~restore \/ i = cur => m[i] = l[i]
  BY <1>2
<1> QED BY <1>6, <1>7, <1>8

\* The list that Reclaim writes.
LEMMA ReclaimedIs ==
  ASSUME NEW l \in Seq(Copy), Ordered(l), Whole(l), NEW cur, NEW restore
  PROVE  /\ Reclaimed(l, cur, restore) \in Seq(Copy)
         /\ Ordered(Reclaimed(l, cur, restore)) /\ Whole(Reclaimed(l, cur, restore))
         /\ Once(Reclaimed(l, cur, restore))
         /\ Used(Reclaimed(l, cur, restore)) =< Used(l)
         /\ Len(l) # 0 /\ ~IsLive(l[Len(l)]) =>
              Used(Reclaimed(l, cur, restore)) + Size[l[Len(l)].name] =< Used(l)
         /\ \A n, k : Newest(l, n, k) =>
              Finds(Reclaimed(l, cur, restore), Restored(l, cur, restore), Kept(l), n, k)
<1> DEFINE m == Restored(l, cur, restore)
           r == Reclaimed(l, cur, restore)
<1>1. Revives(m, l) /\ r = Pick(m, Kept(l))
  BY RestoredIs
<1> HIDE DEF m, r
<1>2. Kept(l) \in SUBSET Kept(l) /\ Kept(l) \in SUBSET DOMAIN l
  BY KeptIs
<1>3. r \in Seq(Copy) /\ Once(r) /\ Whole(r) /\ \A n, k : Newest(l, n, k) => Finds(r, m, Kept(l), n, k)
  BY <1>1, <1>2, KeptFinds
<1>4. Ordered(r)
  BY <1>3, OnceIsOrdered
<1>5. /\ m \in Seq(Copy) /\ Len(m) = Len(l) /\ DOMAIN m = DOMAIN l
      /\ \A i \in DOMAIN l : m[i].name = l[i].name
  BY <1>1 DEF Revives
<1>6. Used(m) = Used(l)
  BY <1>5, UsedByNames
<1>7. Used(r) =< Used(l)
  BY <1>1, <1>2, <1>5, <1>6, PickFits
<1>8. ASSUME Len(l) # 0, ~IsLive(l[Len(l)])
      PROVE  Used(r) + Size[l[Len(l)].name] =< Used(l)
  <2>1. Len(l) \notin Kept(l)
    BY <1>8, KeptIs
  <2>2. Len(l) \in DOMAIN l
    BY <1>8
  <2>3. Used(r) + Size[m[Len(m)].name] =< Used(m)
    BY <1>1, <1>2, <1>5, <1>8, <2>1, PickFits
  <2> QED BY <1>5, <1>6, <2>2, <2>3
<1> QED BY <1>3, <1>4, <1>7, <1>8 DEF m, r

\* The current variable is where Reclaim says, still in transition.
LEMMA MovedIs ==
  ASSUME NEW l \in Seq(Copy), Ordered(l), Whole(l), NEW cur, NEW n,
         Newest(l, n, cur), AddedCopies(l, n) = {}
  PROVE  /\ Newest(Reclaimed(l, cur, TRUE), n, Moved(l, cur))
         /\ AddedCopies(Reclaimed(l, cur, TRUE), n) = {}
<1> DEFINE m == Restored(l, cur, TRUE)
           r == Reclaimed(l, cur, TRUE)
<1>1. r \in Seq(Copy) /\ Once(r) /\ Finds(r, m, Kept(l), n, cur)
  BY ReclaimedIs
<1>2. \A i \in DOMAIN l : i = cur => m[i] = l[i]
  BY RestoredIs
<1> HIDE DEF m, r
<1>3. CASE cur = 0
  <2>1. 0 \notin Kept(l)
    <3>1. 0 \notin DOMAIN l
      OBVIOUS
    <3> QED BY <3>1, KeptIs
  <2>2. Moved(l, cur) = 0
    BY <1>3, <2>1 DEF Moved
  <2>3. Newest(r, n, 0)
    BY <1>1, <1>3, <2>1 DEF Finds
  <2>4. LiveCopies(r, n) = {}
    <3>1. \A i \in LiveCopies(r, n) : i # 0
      BY <1>1, CopiesIn
    <3> QED BY <2>3, <3>1 DEF Newest
  <2>5. AddedCopies(r, n) = {}
    BY <2>4, CopiesIn
  <2> QED BY <2>2, <2>3, <2>5 DEF r
<1>4. CASE cur # 0
  <2>1. cur \in LiveCopies(l, n)
    BY <1>4 DEF Newest
  <2>2. cur \in DOMAIN l /\ l[cur].name = n /\ IsLive(l[cur])
    BY <2>1, CopiesIn
  <2>3. cur \in Kept(l)
    BY <2>2, KeptIs
  <2>4. cur \in OldCopies(l, n)
    <3>1. LiveCopies(l, n) = AddedCopies(l, n) \cup OldCopies(l, n)
      BY CopiesIn
    <3> QED BY <2>1, <3>1
  <2>5. l[cur].state = InDeletion
    BY <2>4, CopiesIn
  <2>6. Moved(l, cur) = Rank(Kept(l), cur)
    BY <2>3, <2>5 DEF Moved, Rank
  <2>7. Newest(r, n, Rank(Kept(l), cur)) /\ r[Rank(Kept(l), cur)] = m[cur] /\ Rank(Kept(l), cur) # 0
    BY <1>1, <2>3 DEF Finds
  <2>8. m[cur] = l[cur]
    BY <1>2, <2>2
  <2>9. ASSUME NEW i \in AddedCopies(r, n)
        PROVE  FALSE
    <3>1. i \in DOMAIN r /\ r[i].name = n /\ r[i].state = Added
      BY CopiesIn
    <3>2. Rank(Kept(l), cur) \in LiveCopies(r, n)
      BY <2>7 DEF Newest
    <3>3. Rank(Kept(l), cur) \in DOMAIN r /\ r[Rank(Kept(l), cur)].name = n
      BY <3>2, CopiesIn
    <3>4. i = Rank(Kept(l), cur)
      BY <1>1, <3>1, <3>3 DEF Once
    <3>5. r[i].state = InDeletion
      BY <2>5, <2>7, <2>8, <3>4
    <3> QED BY <3>1, <3>5, States
  <2>10. AddedCopies(r, n) = {}
    BY <2>9
  <2> QED BY <2>6, <2>7, <2>10 DEF r
<1> QED BY <1>3, <1>4

\* The lists that ReclaimNonVolatileVariable writes.
LEMMA AddedAgainIs ==
  ASSUME NEW l \in Seq(Copy), Ordered(l), Whole(l), NEW n, NEW S \in SUBSET KeptBeside(l, n)
  PROVE  /\ AddedAgain(l, S) \in Seq(Copy)
         /\ Once(AddedAgain(l, S)) /\ Whole(AddedAgain(l, S))
         /\ \A i \in DOMAIN AddedAgain(l, S) : AddedAgain(l, S)[i].name # n
         /\ \A a, k : Newest(l, a, k) => Finds(AddedAgain(l, S), Restored(l, 0, TRUE), S, a, k)
<1> DEFINE m == Restored(l, 0, TRUE)
           p == AddedAgain(l, S)
<1>1. Revives(m, l)
  BY RestoredIs
<1>2. \A i \in DOMAIN l : i # 0
  OBVIOUS
<1>3. m = [i \in DOMAIN l |-> [l[i] EXCEPT !.state = Added]]
  BY <1>2 DEF Restored
<1>4. p = Pick(m, S)
  BY <1>3 DEF AddedAgain
<1>5. S \in SUBSET Kept(l) /\ \A i \in S : l[i].name # n
  BY DEF KeptBeside
<1> HIDE DEF m, p
<1>6. p \in Seq(Copy) /\ Once(p) /\ Whole(p) /\ \A a, k : Newest(l, a, k) => Finds(p, m, S, a, k)
  BY <1>1, <1>4, <1>5, KeptFinds
<1>7. ASSUME NEW j \in DOMAIN p
      PROVE  p[j].name # n
  <2>1. m \in Seq(Copy) /\ Len(m) = Len(l)
    BY <1>1 DEF Revives
  <2>2. DOMAIN m = DOMAIN l
    BY <2>1
  <2>3. S \in SUBSET DOMAIN m /\ S \in SUBSET DOMAIN l
    BY <1>5, <2>2, KeptIs
  <2>4. Ranked(S, j) \in S /\ p[j] = m[Ranked(S, j)]
    BY <1>4, <2>1, <2>3, PickIs
  <2>5. m[Ranked(S, j)].name = l[Ranked(S, j)].name
    BY <1>1, <2>3, <2>4 DEF Revives
  <2> QED BY <1>5, <2>4, <2>5
<1> QED BY <1>6, <1>7 DEF m, p

LEMMA WithNewIs ==
  ASSUME NEW l \in Seq(Copy), NEW n, NEW v, WithNew(l, n, v) # <<>>
  PROVE  \E S \in SUBSET KeptBeside(l, n) :
            /\ Fits(AddedAgain(l, S), n)
            /\ WithNew(l, n, v) = Append(AddedAgain(l, S), [name |-> n, val |-> v, state |-> Added])
            /\ \/ S = KeptBeside(l, n)
               \/ S = KeptWhenFull(l, n) /\ ~Fits(AddedAgain(l, KeptBeside(l, n)), n)
<1>1. KeptBeside(l, n) \in SUBSET KeptBeside(l, n) /\ KeptWhenFull(l, n) \in SUBSET KeptBeside(l, n)
  BY DEF KeptWhenFull
<1>2. CASE Fits(AddedAgain(l, KeptBeside(l, n)), n)
  BY <1>1, <1>2 DEF WithNew
<1>3. CASE ~Fits(AddedAgain(l, KeptBeside(l, n)), n)
  BY <1>1, <1>3 DEF WithNew
<1> QED BY <1>2, <1>3

LEMMA WithNewGood ==
  ASSUME NEW l \in Seq(Copy), Ordered(l), Whole(l), NEW n \in Names, NEW v \in Values
  PROVE  /\ WithNew(l, n, v) \in Seq(Copy) /\ Used(WithNew(l, n, v)) =< Capacity
         /\ Ordered(WithNew(l, n, v)) /\ Whole(WithNew(l, n, v)) /\ Once(WithNew(l, n, v))
<1> DEFINE w == WithNew(l, n, v)
<1>1. CASE w = <<>>
  <2>1. w \in Seq(Copy) /\ DOMAIN w = {} /\ Used(w) = 0
    BY <1>1, UsedEmpty
  <2>2. Whole(w) /\ Once(w)
    BY <2>1 DEF Whole, Once
  <2>3. 0 =< Capacity
    BY VariableAssumption
  <2> HIDE DEF w
  <2>4. Ordered(w)
    BY <2>1, <2>2, OnceIsOrdered
  <2> QED BY <2>1, <2>2, <2>3, <2>4 DEF w
<1>2. CASE w # <<>>
  <2>1. PICK S \in SUBSET KeptBeside(l, n) :
            /\ Fits(AddedAgain(l, S), n)
            /\ w = Append(AddedAgain(l, S), [name |-> n, val |-> v, state |-> Added])
    BY <1>2, WithNewIs
  <2> DEFINE p == AddedAgain(l, S)
             c == [name |-> n, val |-> v, state |-> Added]
  <2>2. p \in Seq(Copy) /\ Once(p) /\ Whole(p) /\ \A i \in DOMAIN p : p[i].name # n
    BY AddedAgainIs
  <2>3. c \in Copy /\ c.name = n /\ c.val = v
    BY States DEF Copy
  <2>4. w = Append(p, c) /\ Used(p) + Size[n] =< Capacity
    BY <2>1 DEF Fits
  <2> HIDE DEF w, p, c
  <2>5. /\ w \in Seq(Copy) /\ Len(w) = Len(p) + 1 /\ w[Len(w)] = c
        /\ \A i \in DOMAIN p : w[i] = p[i]
        /\ \A i \in DOMAIN w : i \in DOMAIN p \/ i = Len(w)
    BY <2>2, <2>3, <2>4
  <2>6. Used(w) =< Capacity
    BY <2>2, <2>3, <2>4, <2>5, UsedLonger
  <2>7. Once(w)
    BY <2>2, <2>3, <2>5 DEF Once
  <2>8. Whole(w)
    BY <2>2, <2>3, <2>5 DEF Whole
  <2>9. Ordered(w)
    BY <2>5, <2>7, OnceIsOrdered
  <2> QED BY <2>5, <2>6, <2>7, <2>8, <2>9 DEF w
<1> QED BY <1>1, <1>2

-----------------------------------------------------------------------------
(* What an access makes of the list, and of the cache.                        *)

\* m is l with another State at i.
Edited(l, m, i, s) ==
  /\ i \in DOMAIN l /\ Len(m) = Len(l) /\ DOMAIN m = DOMAIN l
  /\ \A j \in DOMAIN l : j # i => m[j] = l[j]
  /\ m[i].name = l[i].name /\ m[i].val = l[i].val /\ m[i].state = s

SetState(l, i, s) == [l EXCEPT ![i].state = s]

LEMMA SetStateIs ==
  ASSUME NEW l \in Seq(Copy), NEW i \in DOMAIN l, NEW s \in SUBSET StateBits
  PROVE  SetState(l, i, s) \in Seq(Copy) /\ Edited(l, SetState(l, i, s), i, s)
<1> DEFINE m == SetState(l, i, s)
<1>1. DOMAIN l = 1..Len(l) /\ Len(l) \in Nat /\ \A j \in DOMAIN l : l[j] \in Copy
  OBVIOUS
<1>2. m = [j \in DOMAIN l |-> IF j = i THEN [l[i] EXCEPT !.state = s] ELSE l[j]]
  BY DEF SetState
<1>3. /\ [l[i] EXCEPT !.state = s] \in Copy
      /\ [l[i] EXCEPT !.state = s].name = l[i].name
      /\ [l[i] EXCEPT !.state = s].val = l[i].val
      /\ [l[i] EXCEPT !.state = s].state = s
  BY <1>1 DEF Copy
<1> HIDE DEF m
<1>4. m \in [1..Len(l) -> Copy]
  BY <1>1, <1>2, <1>3
<1>5. m \in Seq(Copy) /\ Len(m) = Len(l)
  BY <1>1, <1>4, SeqDef, LenProperties
<1>6. Edited(l, m, i, s)
  BY <1>2, <1>3, <1>5 DEF Edited
<1> QED BY <1>5, <1>6 DEF m

LEMMA EditedFits ==
  ASSUME NEW l \in Seq(Copy), NEW m \in Seq(Copy), NEW i, NEW s, Edited(l, m, i, s)
  PROVE  Used(m) = Used(l)
<1>1. Len(m) = Len(l) /\ \A j \in DOMAIN l : m[j].name = l[j].name
  BY DEF Edited
<1> QED BY <1>1, UsedByNames

\* A copy is given up.
LEMMA EditKills ==
  ASSUME NEW l \in Seq(Copy), NEW m \in Seq(Copy), NEW i, NEW s, Edited(l, m, i, s),
         s \notin Live, Ordered(l), Whole(l)
  PROVE  /\ Ordered(m) /\ Whole(m)
         /\ \A n : /\ LiveCopies(m, n) = LiveCopies(l, n) \ {i}
                   /\ AddedCopies(m, n) = AddedCopies(l, n) \ {i}
                   /\ OldCopies(m, n) = OldCopies(l, n) \ {i}
         /\ \A n, k : Newest(l, n, k) /\ k # i => Newest(m, n, k)
<1>1. ~IsLive(m[i]) /\ m[i].state # Added /\ m[i].state # InDeletion
  BY States DEF IsLive, Edited
<1>2. ASSUME NEW n
      PROVE  /\ LiveCopies(m, n) = LiveCopies(l, n) \ {i}
             /\ AddedCopies(m, n) = AddedCopies(l, n) \ {i}
             /\ OldCopies(m, n) = OldCopies(l, n) \ {i}
  <2>1. \A j : j \in LiveCopies(m, n) <=> j \in LiveCopies(l, n) \ {i}
    BY <1>1, CopiesIn DEF Edited
  <2>2. \A j : j \in AddedCopies(m, n) <=> j \in AddedCopies(l, n) \ {i}
    BY <1>1, CopiesIn DEF Edited
  <2>3. \A j : j \in OldCopies(m, n) <=> j \in OldCopies(l, n) \ {i}
    BY <1>1, CopiesIn DEF Edited
  <2> QED BY <2>1, <2>2, <2>3
<1>3. Ordered(m)
  BY <1>2 DEF Ordered
<1>4. Whole(m)
  BY <1>1 DEF Whole, Edited
<1>5. \A n, k : Newest(l, n, k) /\ k # i => Newest(m, n, k)
  BY <1>2 DEF Newest
<1> QED BY <1>2, <1>3, <1>4, <1>5

\* A copy goes into transition.
LEMMA EditMarks ==
  ASSUME NEW l \in Seq(Copy), NEW m \in Seq(Copy), NEW i, Edited(l, m, i, InDeletion),
         IsLive(l[i]), Ordered(l), Whole(l)
  PROVE  /\ Ordered(m) /\ Whole(m)
         /\ \A n : /\ LiveCopies(m, n) = LiveCopies(l, n)
                   /\ AddedCopies(m, n) = AddedCopies(l, n) \ {i}
         /\ \A n, k : Newest(l, n, k) => Newest(m, n, k)
<1>1. IsLive(m[i]) /\ m[i].state # Added
  BY States DEF IsLive, Edited
<1>2. ASSUME NEW n
      PROVE  /\ LiveCopies(m, n) = LiveCopies(l, n)
             /\ AddedCopies(m, n) = AddedCopies(l, n) \ {i}
  <2>1. \A j : j \in LiveCopies(m, n) <=> j \in LiveCopies(l, n)
    BY <1>1, CopiesIn DEF Edited
  <2>2. \A j : j \in AddedCopies(m, n) <=> j \in AddedCopies(l, n) \ {i}
    BY <1>1, CopiesIn DEF Edited
  <2> QED BY <2>1, <2>2
<1>3. Ordered(m)
  BY <1>2 DEF Ordered
<1>4. Whole(m)
  BY <1>1 DEF Whole, Edited
<1>5. \A n, k : Newest(l, n, k) => Newest(m, n, k)
  BY <1>2 DEF Newest
<1> QED BY <1>2, <1>3, <1>4, <1>5

\* The last copy is added.
LEMMA EditAdds ==
  ASSUME NEW l \in Seq(Copy), NEW m \in Seq(Copy), Edited(l, m, Len(l), Added),
         AddedCopies(l, l[Len(l)].name) = {}, l[Len(l)].val \in Values, ~IsLive(l[Len(l)]),
         Ordered(l), Whole(l)
  PROVE  /\ Ordered(m) /\ Whole(m)
         /\ \A n : n # l[Len(l)].name => /\ LiveCopies(m, n) = LiveCopies(l, n)
                                         /\ AddedCopies(m, n) = AddedCopies(l, n)
         /\ AddedCopies(m, l[Len(l)].name) = {Len(l)}
         /\ OldCopies(m, l[Len(l)].name) = OldCopies(l, l[Len(l)].name)
         /\ \A n, k : Newest(l, n, k) /\ n # l[Len(l)].name => Newest(m, n, k)
         /\ Newest(m, l[Len(l)].name, Len(l))
<1> DEFINE x == Len(l)
<1>0. x \in Nat /\ \A j \in DOMAIN l : j \in Nat /\ j =< x
  OBVIOUS
<1> HIDE DEF x
<1>1. IsLive(m[x]) /\ m[x].state = Added /\ m[x].name = l[x].name
  BY States DEF IsLive, Edited, x
<1>2. ASSUME NEW n
      PROVE  /\ LiveCopies(m, n) = IF n = l[x].name THEN LiveCopies(l, n) \cup {x} ELSE LiveCopies(l, n)
             /\ AddedCopies(m, n) = IF n = l[x].name THEN AddedCopies(l, n) \cup {x} ELSE AddedCopies(l, n)
             /\ OldCopies(m, n) = OldCopies(l, n)
  <2>1. \A j : j \in LiveCopies(m, n) <=> j \in LiveCopies(l, n) \/ (j = x /\ n = l[x].name)
    BY <1>1, CopiesIn DEF Edited, x
  <2>2. \A j : j \in AddedCopies(m, n) <=> j \in AddedCopies(l, n) \/ (j = x /\ n = l[x].name)
    BY <1>1, CopiesIn DEF Edited, x
  <2>3. x \notin OldCopies(l, n) /\ x \notin OldCopies(m, n)
    BY <1>1, CopiesIn, States DEF IsLive, x
  <2>4. \A j : j \in OldCopies(m, n) <=> j \in OldCopies(l, n)
    BY <2>3, CopiesIn DEF Edited, x
  <2> QED BY <2>1, <2>2, <2>4
<1>3. AddedCopies(m, l[x].name) = {x}
  BY <1>2 DEF x
<1>4. \A n : \A j \in LiveCopies(m, n) : j \in Nat /\ j =< x
  <2>1. \A n : \A j \in LiveCopies(m, n) : j \in DOMAIN l
    BY CopiesIn DEF Edited
  <2> QED BY <1>0, <2>1
<1>5. Ordered(m)
  BY <1>2, <1>3, <1>4 DEF Ordered
<1>6. Whole(m)
  BY <1>1 DEF Whole, Edited, x
<1>7. Newest(m, l[x].name, x)
  <2>1. x \in LiveCopies(m, l[x].name)
    BY <1>2
  <2> QED BY <1>4, <2>1 DEF Newest
<1>8. \A n, k : Newest(l, n, k) /\ n # l[x].name => Newest(m, n, k)
  BY <1>2 DEF Newest
<1> QED BY <1>2, <1>3, <1>5, <1>6, <1>7, <1>8 DEF x

\* Nothing changes for a reader.
LEMMA Agreeing ==
  ASSUME NEW l \in Seq(Copy), NEW m \in Seq(Copy), \A n : Agree(l, m, n), Ordered(l), Whole(l)
  PROVE  /\ Ordered(m) /\ Whole(m)
         /\ \A n : /\ LiveCopies(m, n) = LiveCopies(l, n)
                   /\ AddedCopies(m, n) = AddedCopies(l, n)
                   /\ OldCopies(m, n) = OldCopies(l, n)
         /\ \A n, k : Newest(l, n, k) => Newest(m, n, k)
<1>1. \A n : /\ LiveCopies(m, n) = LiveCopies(l, n)
             /\ AddedCopies(m, n) = AddedCopies(l, n)
             /\ OldCopies(m, n) = OldCopies(l, n)
  BY SameCopies
<1>2. Ordered(m)
  BY <1>1 DEF Ordered
<1>3. Whole(m)
  <2>1. ASSUME NEW i \in DOMAIN m, IsLive(m[i])
        PROVE  m[i].val \in Values
    <3>1. Agree(l, m, m[i].name)
      OBVIOUS
    <3>2. i \in DOMAIN l /\ m[i] = l[i]
      BY <2>1, <3>1 DEF Agree
    <3> QED BY <2>1, <3>2 DEF Whole
  <2> QED BY <2>1 DEF Whole
<1>4. \A n, k : Newest(l, n, k) => Newest(m, n, k)
  BY <1>1 DEF Newest
<1> QED BY <1>1, <1>2, <1>3, <1>4

LEMMA AppendIs ==
  ASSUME NEW l \in Seq(Copy), NEW c \in Copy
  PROVE  /\ Append(l, c) \in Seq(Copy) /\ Len(Append(l, c)) = Len(l) + 1
         /\ Append(l, c)[Len(l) + 1] = c
         /\ \A i \in DOMAIN l : Append(l, c)[i] = l[i] /\ i \in DOMAIN Append(l, c)
         /\ \A i \in DOMAIN Append(l, c) : i \in DOMAIN l \/ i = Len(l) + 1
         /\ Used(Append(l, c)) = Used(l) + Size[c.name]
         /\ ~IsLive(c) => \A n : Agree(l, Append(l, c), n)
<1> DEFINE m == Append(l, c)
<1>1. /\ m \in Seq(Copy) /\ Len(m) = Len(l) + 1 /\ m[Len(l) + 1] = c
      /\ \A i \in DOMAIN l : m[i] = l[i] /\ i \in DOMAIN m
      /\ \A i \in DOMAIN m : i \in DOMAIN l \/ i = Len(l) + 1
  OBVIOUS
<1> HIDE DEF m
<1>2. Used(m) = Used(l) + Size[c.name]
  BY <1>1, UsedLonger
<1>3. ~IsLive(c) => \A n : Agree(l, m, n)
  BY <1>1 DEF Agree
<1> QED BY <1>1, <1>2, <1>3 DEF m

\* A dead copy changes and remains dead.
LEMMA DeadAgrees ==
  ASSUME NEW l, NEW m, NEW i \in DOMAIN l, DOMAIN m = DOMAIN l,
         \A j \in DOMAIN l : j # i => m[j] = l[j], ~IsLive(l[i]), ~IsLive(m[i])
  PROVE  \A n : Agree(l, m, n)
BY DEF Agree

SetVal(l, i, v) == [l EXCEPT ![i].val = v]

LEMMA SetValIs ==
  ASSUME NEW l \in Seq(Copy), NEW i \in DOMAIN l, NEW v \in Values \cup {Blank, Broken}
  PROVE  /\ SetVal(l, i, v) \in Seq(Copy) /\ Len(SetVal(l, i, v)) = Len(l)
         /\ DOMAIN SetVal(l, i, v) = DOMAIN l
         /\ \A j \in DOMAIN l : j # i => SetVal(l, i, v)[j] = l[j]
         /\ SetVal(l, i, v)[i] = [name |-> l[i].name, val |-> v, state |-> l[i].state]
         /\ Used(SetVal(l, i, v)) = Used(l)
<1> DEFINE m == SetVal(l, i, v)
<1>1. DOMAIN l = 1..Len(l) /\ Len(l) \in Nat /\ \A j \in DOMAIN l : l[j] \in Copy
  OBVIOUS
<1>2. m = [j \in DOMAIN l |-> IF j = i THEN [l[i] EXCEPT !.val = v] ELSE l[j]]
  BY DEF SetVal
<1>3. /\ [l[i] EXCEPT !.val = v] \in Copy
      /\ [l[i] EXCEPT !.val = v] = [name |-> l[i].name, val |-> v, state |-> l[i].state]
  BY <1>1 DEF Copy
<1> HIDE DEF m
<1>4. m \in [1..Len(l) -> Copy]
  BY <1>1, <1>2, <1>3
<1>5. m \in Seq(Copy) /\ Len(m) = Len(l)
  BY <1>1, <1>4, SeqDef, LenProperties
<1>6. DOMAIN m = DOMAIN l /\ \A j \in DOMAIN l : j # i => m[j] = l[j]
  BY <1>2
<1>7. m[i] = [name |-> l[i].name, val |-> v, state |-> l[i].state]
  BY <1>2, <1>3
<1>8. Used(m) = Used(l)
  <2>1. \A j \in DOMAIN l : m[j].name = l[j].name
    BY <1>6, <1>7
  <2> QED BY <1>5, <2>1, UsedByNames
<1> QED BY <1>5, <1>6, <1>7, <1>8 DEF m

LEMMA SameCopy ==
  ASSUME NEW c \in Copy, NEW d \in Copy, c.name = d.name, c.val = d.val, c.state = d.state
  PROVE  c = d
BY DEF Copy

\* The same happens to the cache.
LEMMA MirrorsEdited ==
  ASSUME NEW l \in Seq(Copy), NEW c \in Seq(Copy), Mirrors(c, l), NEW i, NEW s,
         NEW m \in Seq(Copy), Edited(l, m, i, s), NEW d \in Seq(Copy), Edited(c, d, i, s),
         s \in Live => c[i] = l[i]
  PROVE  Mirrors(d, m)
<1>1. Len(m) = Len(l) /\ Len(d) = Len(c) /\ DOMAIN m = DOMAIN l
  BY DEF Edited
<1>2. ASSUME NEW j \in DOMAIN l
      PROVE  Shows(d[j], m[j])
  <2>1. Shows(c[j], l[j])
    BY DEF Mirrors
  <2>2. j \in DOMAIN c
    BY MirrorsLength
  <2>3. CASE j # i
    BY <2>1, <2>2, <2>3 DEF Edited
  <2>4. CASE j = i
    <3>1. d[i].name = c[i].name /\ m[i].name = l[i].name /\ d[i].state = s /\ m[i].state = s
      BY DEF Edited
    <3>2. d[i].name = m[i].name
      BY <2>1, <2>4, <3>1 DEF Shows
    <3>3. IsLive(d[i]) \/ IsLive(m[i]) => d[i] = m[i]
      <4>1. SUFFICES ASSUME s \in Live
                     PROVE  d[i] = m[i]
        BY <3>1 DEF IsLive
      <4>2. d[i].val = m[i].val
        BY <4>1 DEF Edited
      <4>3. d[i] \in Copy /\ m[i] \in Copy
        <5>1. i \in DOMAIN d /\ i \in DOMAIN m
          BY DEF Edited
        <5> QED BY <5>1
      <4>4. d[i].state = m[i].state
        BY <3>1
      <4> QED BY <3>2, <4>2, <4>3, <4>4, SameCopy
    <3> QED BY <2>4, <3>2, <3>3 DEF Shows
  <2> QED BY <2>3, <2>4
<1>3. Len(d) = Len(m) + 1 => ~IsLive(d[Len(d)])
  <2>1. SUFFICES ASSUME Len(c) = Len(l) + 1
                 PROVE  ~IsLive(d[Len(c)])
    BY <1>1
  <2>2. ~IsLive(c[Len(c)])
    BY <2>1 DEF Mirrors
  <2>3. Len(c) # i /\ Len(c) \in DOMAIN c
    <3>1. i \in 1..Len(l) /\ Len(l) \in Nat
      BY DEF Edited
    <3>2. Len(c) \in Nat /\ DOMAIN c = 1..Len(c)
      OBVIOUS
    <3> QED BY <2>1, <3>1, <3>2
  <2>4. d[Len(c)] = c[Len(c)]
    BY <2>3 DEF Edited
  <2> QED BY <2>2, <2>4
<1> QED BY <1>1, <1>2, <1>3 DEF Mirrors

-----------------------------------------------------------------------------
(* Accesses, in the state they are made in.                                   *)

LEMMA DataStep ==
  ASSUME DataOK, list' \in Seq(Copy), Used(list') =< Capacity, tail' \in {"clean", "dirty"},
         cache' = Off \/ cache' \in Seq(Copy), pc' \in Labels,
         st' \in {"success", "error", "full", "notfound"}, op' \in Op,
         errors' \in 0 .. MaxErrors, misses' \in 0 .. MaxMisses,
         UNCHANGED <<phase, caller, sets, crashes>>
  PROVE  DataOK'
<1>1. phase' = phase /\ req' = req /\ reply' = reply /\ sets' = sets /\ crashes' = crashes
  BY DEF caller
<1> QED BY <1>1 DEF DataOK

\* Where nothing is known of the local variables.
Quiet == {"idle", "dead", "done", "reclaim", "forget", "boot"}

LEMMA Landing ==
  ASSUME DataOK', Store', pc' \in Quiet
  PROVE  IInv'
<1>1. Local'
  BY DEF Local, Quiet
<1> QED BY <1>1 DEF IInv

LEMMA Unchanged ==
  ASSUME Store, UNCHANGED <<flash, cache>>
  PROVE  Store'
<1>1. list' = list /\ cache' = cache
  BY DEF flash
<1> QED BY <1>1 DEF Store

LEMMA FailStep ==
  ASSUME DataOK, Store, AccessFails
  PROVE  /\ list' = list /\ tail' = tail /\ cache' = Off
         /\ errors' \in 0 .. MaxErrors /\ misses' \in 0 .. MaxMisses
         /\ Store'
<1>1. list' = list /\ tail' = tail /\ cache' = Off /\ errors' = errors + 1 /\ misses' = misses
  BY DEF AccessFails, flash
<1>2. errors \in Nat /\ errors < MaxErrors /\ MaxErrors \in Nat /\ misses \in 0 .. MaxMisses
  BY VariableAssumption DEF AccessFails, DataOK
<1>3. errors' \in 0 .. MaxErrors
  BY <1>1, <1>2
<1>4. Store'
  BY <1>1 DEF Store
<1> QED BY <1>1, <1>2, <1>3, <1>4

LEMMA NoMisses ==
  ASSUME DataOK, Dependable
  PROVE  ~Misses
<1>1. misses \in 0 .. MaxMisses /\ MaxMisses = 0
  BY DEF DataOK, Dependable
<1> QED BY <1>1 DEF Misses

\* The State of copy i is written, in the flash and in the cache.
LEMMA WriteStateIs ==
  ASSUME DataOK, Store, NEW i \in DOMAIN list, NEW s \in SUBSET StateBits,
         list[i].state \cup s = s, WriteState(i, s)
  PROVE  /\ list' \in Seq(Copy) /\ Edited(list, list', i, s) /\ Used(list') = Used(list)
         /\ tail' = tail /\ errors' = errors /\ misses' = misses
         /\ cache' = Off \/ cache' \in Seq(Copy)
         /\ cache' # Off => /\ cache # Off /\ cache \in Seq(Copy) /\ cache' \in Seq(Copy)
                            /\ Edited(cache, cache', i, s) /\ Mirrors(cache, list)
<1>1. list \in Seq(Copy) /\ (cache # Off => cache \in Seq(Copy) /\ Mirrors(cache, list))
  BY DEF DataOK, Store
<1>2. list' = [list EXCEPT ![i].state = @ \cup s] /\ tail' = tail
  BY DEF WriteState
<1>3. list' = SetState(list, i, s)
  <2>1. list[i].state \cup s = s
    OBVIOUS
  <2>2. list' = [list EXCEPT ![i].state = list[i].state \cup s]
    BY <1>2
  <2> QED BY <2>1, <2>2 DEF SetState
<1>4. list' \in Seq(Copy) /\ Edited(list, list', i, s)
  BY <1>1, <1>3, SetStateIs
<1>5. Used(list') = Used(list)
  BY <1>1, <1>4, EditedFits
<1>6. errors' = errors /\ misses' = misses
  BY DEF WriteState, NoFault
<1>7. CASE cache = Off
  <2>1. cache' = Off
    BY <1>7 DEF WriteState
  <2> QED BY <1>2, <1>4, <1>5, <1>6, <2>1
<1>8. CASE cache # Off
  <2>1. i \in DOMAIN cache
    BY <1>1, <1>8, MirrorsLength
  <2>2. cache' = SetState(cache, i, s)
    BY <1>8, <2>1 DEF WriteState, SetState
  <2>3. cache' \in Seq(Copy) /\ Edited(cache, cache', i, s)
    BY <1>1, <1>8, <2>1, <2>2, SetStateIs
  <2> QED BY <1>1, <1>2, <1>4, <1>5, <1>6, <1>8, <2>3
<1> QED BY <1>7, <1>8

LEMMA ClearBitsIs ==
  ASSUME DataOK, Store, NEW i \in DOMAIN list, NEW b \in SUBSET StateBits, ClearBits(i, b)
  PROVE  /\ list[i].state \cup b \in SUBSET StateBits
         /\ list[i].state \cup (list[i].state \cup b) = list[i].state \cup b
         /\ WriteState(i, list[i].state \cup b)
<1>1. list \in Seq(Copy)
  BY DEF DataOK
<1>2. list[i] \in Copy
  BY <1>1
<1>3. list[i].state \in SUBSET StateBits
  BY <1>2 DEF Copy
<1>4. list[i].state \cup b \in SUBSET StateBits
  BY <1>3
<1> QED BY <1>4 DEF ClearBits

\* A copy is marked as deleted.
LEMMA KillStep ==
  ASSUME DataOK, Store, NEW i \in DOMAIN list, ClearBits(i, {"deleted"})
  PROVE  /\ list' \in Seq(Copy) /\ Used(list') = Used(list) /\ tail' = tail
         /\ errors' = errors /\ misses' = misses
         /\ cache' = Off \/ cache' \in Seq(Copy)
         /\ Store'
         /\ Edited(list, list', i, list[i].state \cup {"deleted"})
         /\ \A n, k : Newest(list, n, k) /\ k # i => Newest(list', n, k)
<1> DEFINE s == list[i].state \cup {"deleted"}
<1>1. {"deleted"} \in SUBSET StateBits /\ s \notin Live
  BY States
<1>2. s \in SUBSET StateBits /\ list[i].state \cup s = s /\ WriteState(i, s)
  BY <1>1, ClearBitsIs
<1>0. list \in Seq(Copy) /\ Ordered(list) /\ Whole(list)
  BY DEF DataOK, Store
<1> HIDE DEF s
<1>3. /\ list' \in Seq(Copy) /\ Edited(list, list', i, s) /\ Used(list') = Used(list)
      /\ tail' = tail /\ errors' = errors /\ misses' = misses
      /\ cache' = Off \/ cache' \in Seq(Copy)
      /\ cache' # Off => /\ cache # Off /\ cache \in Seq(Copy) /\ cache' \in Seq(Copy)
                         /\ Edited(cache, cache', i, s) /\ Mirrors(cache, list)
  BY <1>2, WriteStateIs
<1>4. /\ Ordered(list') /\ Whole(list')
      /\ \A n, k : Newest(list, n, k) /\ k # i => Newest(list', n, k)
  BY <1>0, <1>1, <1>3, EditKills
<1>5. cache' # Off => Mirrors(cache', list')
  BY <1>0, <1>1, <1>3, MirrorsEdited
<1>6. Store'
  BY <1>4, <1>5 DEF Store
<1> QED BY <1>3, <1>4, <1>6 DEF s

\* A live copy goes into transition.
LEMMA MarkStep ==
  ASSUME DataOK, Store, NEW i \in DOMAIN list, IsLive(list[i]), ClearBits(i, {"transition"})
  PROVE  /\ list' \in Seq(Copy) /\ Used(list') = Used(list) /\ tail' = tail
         /\ errors' = errors /\ misses' = misses
         /\ cache' = Off \/ cache' \in Seq(Copy)
         /\ Store'
         /\ Edited(list, list', i, InDeletion)
         /\ \A n, k : Newest(list, n, k) => Newest(list', n, k)
         /\ \A n : AddedCopies(list', n) = AddedCopies(list, n) \ {i}
<1>1. {"transition"} \in SUBSET StateBits /\ list[i].state \cup {"transition"} = InDeletion
  BY States DEF IsLive
<1>2. /\ InDeletion \in SUBSET StateBits /\ list[i].state \cup InDeletion = InDeletion
      /\ WriteState(i, InDeletion)
  BY <1>1, ClearBitsIs
<1>0. list \in Seq(Copy) /\ Ordered(list) /\ Whole(list)
  BY DEF DataOK, Store
<1>3. /\ list' \in Seq(Copy) /\ Edited(list, list', i, InDeletion) /\ Used(list') = Used(list)
      /\ tail' = tail /\ errors' = errors /\ misses' = misses
      /\ cache' = Off \/ cache' \in Seq(Copy)
      /\ cache' # Off => /\ cache # Off /\ cache \in Seq(Copy) /\ cache' \in Seq(Copy)
                         /\ Edited(cache, cache', i, InDeletion) /\ Mirrors(cache, list)
  BY <1>2, WriteStateIs
<1>4. /\ Ordered(list') /\ Whole(list')
      /\ \A n, k : Newest(list, n, k) => Newest(list', n, k)
      /\ \A n : AddedCopies(list', n) = AddedCopies(list, n) \ {i}
  BY <1>0, <1>3, EditMarks
<1>5. cache' # Off => Mirrors(cache', list')
  <2>1. SUFFICES ASSUME cache' # Off
                 PROVE  Mirrors(cache', list')
    OBVIOUS
  <2>2. Shows(cache[i], list[i])
    BY <1>3, <2>1 DEF Mirrors
  <2>3. cache[i] = list[i]
    BY <2>2 DEF Shows
  <2> QED BY <1>0, <1>3, <2>1, <2>3, MirrorsEdited
<1>6. Store'
  BY <1>4, <1>5 DEF Store
<1> QED BY <1>3, <1>4, <1>6

\* The store is rewritten.
LEMMA RewriteStep ==
  ASSUME DataOK, NEW l \in Seq(Copy), Used(l) =< Capacity, Ordered(l), Whole(l),
         FtwVariableSpace(l)
  PROVE  /\ list' = l /\ tail' = "clean" /\ errors' = errors /\ misses' = misses
         /\ cache' = Off \/ (cache' \in Seq(Copy) /\ cache' = l)
         /\ Store'
<1>1. list' = l /\ tail' = "clean" /\ errors' = errors /\ misses' = misses
  BY DEF FtwVariableSpace, NoFault
<1>2. cache' = Off \/ cache' = l
  BY DEF FtwVariableSpace
<1>3. cache' # Off => Mirrors(cache', list')
  BY <1>1, <1>2, MirrorsItself
<1>4. Store'
  BY <1>1, <1>3 DEF Store
<1> QED BY <1>1, <1>2, <1>4

LEMMA FoundCopy ==
  ASSUME NEW l \in Seq(Copy), NEW n, NEW k, Newest(l, n, k), k # 0
  PROVE  k \in DOMAIN l /\ l[k].name = n /\ IsLive(l[k])
BY CopiesIn DEF Newest

-----------------------------------------------------------------------------
(* Each action preserves the invariant.                                       *)

LEMMA OpIs ==
  ASSUME op \in Op
  PROVE  /\ op.name \in Names /\ op.val \in Values \cup {Absent} /\ op.cur \in Nat
         /\ op.at \in Nat /\ op.tries \in 0 .. MaxTry /\ op.scan \in Nat
         /\ NoOp \in Op /\ NoOp.name = NeedReclaim /\ NoOp.tries = 0 /\ NoOp.cur = 0
<1>1. NeedReclaim \in Names
  BY VariableAssumption
<1>2. 0 \in 0 .. MaxTry
  BY DEF MaxTry
<1> QED BY <1>1, <1>2 DEF Op, NoOp

LEMMA SetVariableKeeps ==
  ASSUME IInv, SetVariable
  PROVE  IInv'
<1>1. DataOK /\ Store
  BY DEF IInv
<1>2. PICK r \in Requests :
        /\ req' = r
        /\ op' = [NoOp EXCEPT !.name = r.name, !.val = r.val, !.cur = FindVariable(View, r.name)]
        /\ pc' = IF r.by # "access" /\ SeveralFound(View, r.name) THEN "clean" ELSE "update"
  BY DEF SetVariable
<1>3. /\ list' = list /\ tail' = tail /\ cache' = cache /\ phase' = phase /\ st' = st
      /\ crashes' = crashes /\ errors' = errors /\ misses' = misses /\ reply' = "none"
      /\ sets < MaxSets /\ sets' = sets + 1
  BY DEF SetVariable, flash
<1>4. list \in Seq(Copy) /\ Ordered(list) /\ op \in Op
  BY <1>1 DEF DataOK, Store
<1>5. r.name \in Names /\ r.val \in Values \cup {Absent}
  BY DEF Requests
<1>6. FindVariable(View, r.name) = FindVariable(list, r.name)
  BY <1>1, ViewFinds
<1>7. Newest(list, r.name, FindVariable(list, r.name))
  BY <1>4, <1>5, FindVariableIs
<1>8. FindVariable(list, r.name) \in Nat
  <2>1. \A i \in LiveCopies(list, r.name) : i \in Nat
    BY <1>4, CopiesIn
  <2> QED BY <1>7, <2>1 DEF Newest
<1>9. /\ op' \in Op /\ op'.name = r.name /\ op'.val = r.val /\ op'.tries = 0
      /\ op'.cur = FindVariable(list, r.name)
  BY <1>2, <1>4, <1>5, <1>6, <1>8, OpIs DEF Op, NoOp
<1>10. pc' \in {"clean", "update"}
  BY <1>2
<1>11. sets' \in 0 .. MaxSets
  BY <1>1, <1>3, VariableAssumption DEF DataOK
<1>12. DataOK'
  <2>1. pc' \in Labels
    BY <1>10 DEF Labels
  <2> QED BY <1>1, <1>2, <1>3, <1>9, <1>11, <2>1 DEF DataOK
<1>13. Store'
  BY <1>1, <1>3 DEF Store
<1>14. Found' /\ op'.tries = 0
  BY <1>3, <1>7, <1>9 DEF Found
<1>15. Local'
  BY <1>10, <1>14 DEF Local
<1> QED BY <1>12, <1>13, <1>15 DEF IInv

LEMMA DeleteAllOldVariableKeeps ==
  ASSUME IInv, DeleteAllOldVariable
  PROVE  IInv'
<1>1. /\ DataOK /\ Store /\ pc = "clean" /\ Found /\ op.tries = 0
      /\ list \in Seq(Copy) /\ op \in Op /\ Used(list) =< Capacity /\ tail \in {"clean", "dirty"}
      /\ errors \in 0 .. MaxErrors /\ misses \in 0 .. MaxMisses
      /\ st \in {"success", "error", "full", "notfound"}
      /\ cache = Off \/ cache \in Seq(Copy)
  BY DEF IInv, Local, DeleteAllOldVariable, DataOK
<1>2. st' = st /\ UNCHANGED <<phase, caller, sets, crashes>>
  BY DEF DeleteAllOldVariable
<1>3. CASE Outdated(op.name) = {}
  <2>1. /\ pc' = "update" /\ UNCHANGED <<flash, cache>> /\ op' = op
        /\ errors' = errors /\ misses' = misses
    BY <1>3 DEF DeleteAllOldVariable
  <2>2. list' = list /\ tail' = tail /\ cache' = cache /\ pc' \in Labels
    BY <2>1 DEF flash, Labels
  <2>3. DataOK'
    BY <1>1, <1>2, <2>1, <2>2, DataStep
  <2>4. Store'
    BY <1>1, <2>1, Unchanged
  <2>5. Found' /\ op'.tries = 0
    BY <1>1, <2>1, <2>2 DEF Found
  <2>6. Local'
    BY <2>1, <2>5 DEF Local
  <2> QED BY <2>3, <2>4, <2>6 DEF IInv
<1>4. CASE Outdated(op.name) # {}
  <2> DEFINE i == Least(Outdated(op.name))
  <2>1. i \in Outdated(op.name)
    <3>1. Outdated(op.name) \in SUBSET Nat
      BY <1>1, CopiesIn DEF Outdated
    <3> QED BY <1>4, <3>1, LeastIs
  <2>2. i \in OldCopies(list, op.name) /\ ExistNewerVariable(list, i)
    BY <2>1 DEF Outdated
  <2>3. i \in DOMAIN list /\ list[i].name = op.name /\ i \in Nat /\ i \in LiveCopies(list, op.name)
    BY <1>1, <2>2, CopiesIn
  <2>4. /\ ClearBits(i, {"deleted"}) \/ AccessFails
        /\ op' = [op EXCEPT !.scan = i + 1] /\ pc' = pc
    BY <1>4 DEF DeleteAllOldVariable
  <2> HIDE DEF i
  <2>5. op.cur # i
    <3>1. PICK j \in DOMAIN list : /\ j > i /\ list[j].name = list[i].name
                                   /\ list[j].state \in {Added, InDeletion}
      BY <2>2 DEF ExistNewerVariable
    <3>2. j \in LiveCopies(list, op.name) /\ j \in Nat
      BY <1>1, <2>3, <3>1, CopiesIn DEF IsLive, Live
    <3> QED BY <1>1, <2>3, <3>1, <3>2 DEF Found, Newest
  <2>6. op' \in Op /\ op'.name = op.name /\ op'.cur = op.cur /\ op'.tries = 0
    BY <1>1, <2>3, <2>4 DEF Op
  <2>7. pc' = "clean" /\ pc' \in Labels
    BY <1>1, <2>4 DEF Labels
  <2>8. CASE ClearBits(i, {"deleted"})
    <3>1. /\ list' \in Seq(Copy) /\ Used(list') = Used(list) /\ tail' = tail
          /\ errors' = errors /\ misses' = misses
          /\ cache' = Off \/ cache' \in Seq(Copy)
          /\ Store'
          /\ \A n, k : Newest(list, n, k) /\ k # i => Newest(list', n, k)
      BY <1>1, <2>3, <2>8, KillStep
    <3>2. DataOK'
      BY <1>1, <1>2, <2>6, <2>7, <3>1, DataStep
    <3>3. Found'
      BY <1>1, <2>5, <2>6, <3>1 DEF Found
    <3>4. Local'
      BY <2>6, <2>7, <3>3 DEF Local
    <3> QED BY <3>1, <3>2, <3>4 DEF IInv
  <2>9. CASE AccessFails
    <3>1. /\ list' = list /\ tail' = tail /\ cache' = Off /\ Store'
          /\ errors' \in 0 .. MaxErrors /\ misses' \in 0 .. MaxMisses
      BY <1>1, <2>9, FailStep
    <3>2. DataOK'
      BY <1>1, <1>2, <2>6, <2>7, <3>1, DataStep
    <3>3. Found'
      BY <1>1, <2>6, <3>1 DEF Found
    <3>4. Local'
      BY <2>6, <2>7, <3>3 DEF Local
    <3> QED BY <3>1, <3>2, <3>4 DEF IInv
  <2> QED BY <2>4, <2>8, <2>9
<1> QED BY <1>3, <1>4

\* The access fails and the call returns.
LEMMA GivesUp ==
  ASSUME IInv, AccessFails, pc' \in Quiet, st' \in {"success", "error", "full", "notfound"},
         op' = op, UNCHANGED <<phase, caller, sets, crashes>>
  PROVE  IInv'
<1>1. DataOK /\ Store /\ list \in Seq(Copy) /\ Used(list) =< Capacity /\ op \in Op
      /\ tail \in {"clean", "dirty"}
  BY DEF IInv, DataOK
<1>2. /\ list' = list /\ tail' = tail /\ cache' = Off /\ Store'
      /\ errors' \in 0 .. MaxErrors /\ misses' \in 0 .. MaxMisses
  BY <1>1, FailStep
<1>3. pc' \in Labels
  BY DEF Quiet, Labels
<1>4. DataOK'
  BY <1>1, <1>2, <1>3, DataStep
<1> QED BY <1>2, <1>4, Landing

\* Neither the flash nor the cache changes.
LEMMA NoAccess ==
  ASSUME IInv, UNCHANGED <<flash, cache>>, UNCHANGED <<phase, caller, bounds>>,
         pc' \in Labels, st' \in {"success", "error", "full", "notfound"}, op' \in Op
  PROVE  DataOK' /\ Store' /\ list' = list /\ tail' = tail /\ cache' = cache
<1>1. DataOK /\ Store
  BY DEF IInv
<1>2. list' = list /\ tail' = tail /\ cache' = cache
  BY DEF flash
<1>3. Store'
  BY <1>1, Unchanged
<1>4. /\ phase' = phase /\ req' = req /\ reply' = reply /\ sets' = sets /\ crashes' = crashes
      /\ errors' = errors /\ misses' = misses
  BY DEF caller, bounds
<1>5. DataOK'
  BY <1>1, <1>2, <1>4 DEF DataOK
<1> QED BY <1>2, <1>3, <1>5

LEMMA UpdateNothingKeeps ==
  ASSUME IInv, UpdateNothing
  PROVE  IInv'
<1>1. /\ pc = "update" /\ Found /\ op.tries = 0 /\ op \in Op
      /\ st \in {"success", "error", "full", "notfound"}
  BY DEF IInv, Local, UpdateNothing, DataOK
<1>2. UNCHANGED <<flash, cache>> /\ UNCHANGED <<phase, caller, bounds>> /\ op' = op
  BY DEF UpdateNothing
<1>3. CASE op.cur = 0 /\ op.val # Absent /\ Goto("sync")
  <2>1. pc' = "sync" /\ st' = st /\ pc' \in Labels
    BY <1>3 DEF Goto, Labels
  <2>2. DataOK' /\ Store' /\ list' = list
    BY <1>1, <1>2, <2>1, NoAccess
  <2>3. AddedCopies(list, op.name) = {}
    <3>1. list \in Seq(Copy)
      BY DEF IInv, DataOK
    <3>2. LiveCopies(list, op.name) = {}
      <4>1. \A i \in LiveCopies(list, op.name) : i # 0
        BY <3>1, CopiesIn
      <4> QED BY <1>1, <1>3, <4>1 DEF Found, Newest
    <3> QED BY <3>2, CopiesIn
  <2>4. Marked' /\ op'.tries = 0
    <3>1. op.val \in Values
      BY <1>1, <1>3, OpIs
    <3> QED BY <1>1, <1>2, <2>2, <2>3, <3>1 DEF Marked, Found
  <2>5. Local'
    BY <2>1, <2>4 DEF Local
  <2> QED BY <2>2, <2>5 DEF IInv
<1>4. CASE Return("notfound") \/ Return("success")
  <2>1. /\ pc' = "done" /\ pc' \in Labels /\ pc' \in Quiet
        /\ st' \in {"success", "error", "full", "notfound"}
    BY <1>4 DEF Return, Labels, Quiet
  <2>2. DataOK' /\ Store'
    BY <1>1, <1>2, <2>1, NoAccess
  <2> QED BY <2>1, <2>2, Landing
<1> QED BY <1>3, <1>4 DEF UpdateNothing

LEMMA CurrentCopy ==
  ASSUME IInv, Found, op.cur # 0
  PROVE  op.cur \in DOMAIN list /\ list[op.cur].name = op.name /\ IsLive(list[op.cur])
<1>1. list \in Seq(Copy)
  BY DEF IInv, DataOK
<1> QED BY <1>1, FoundCopy DEF Found

\* The State of the current variable is cleared and the call returns.
LEMMA KillsAndReturns ==
  ASSUME IInv, NEW i \in DOMAIN list, ClearBits(i, {"deleted"}), pc' \in Quiet,
         st' \in {"success", "error", "full", "notfound"}, op' = op,
         UNCHANGED <<phase, caller, sets, crashes>>
  PROVE  IInv'
<1>1. /\ DataOK /\ Store /\ Used(list) =< Capacity /\ op \in Op /\ tail \in {"clean", "dirty"}
      /\ errors \in 0 .. MaxErrors /\ misses \in 0 .. MaxMisses
  BY DEF IInv, DataOK
<1>2. /\ list' \in Seq(Copy) /\ Used(list') = Used(list) /\ tail' = tail
      /\ errors' = errors /\ misses' = misses
      /\ cache' = Off \/ cache' \in Seq(Copy)
      /\ Store'
  BY <1>1, KillStep
<1>3. pc' \in Labels
  BY DEF Quiet, Labels
<1>4. DataOK'
  BY <1>1, <1>2, <1>3, DataStep
<1> QED BY <1>2, <1>4, Landing

LEMMA DeleteVariableKeeps ==
  ASSUME IInv, DeleteVariable
  PROVE  IInv'
<1>1. pc = "update" /\ op.cur # 0 /\ op' = op /\ UNCHANGED <<phase, caller, sets, crashes>>
  BY DEF DeleteVariable
<1>2. op.cur \in DOMAIN list
  BY <1>1, CurrentCopy DEF IInv, Local
<1>3. CASE ClearBits(op.cur, {"deleted"}) /\ Return("success")
  <2>1. pc' \in Quiet /\ st' \in {"success", "error", "full", "notfound"}
    BY <1>3 DEF Return, Quiet
  <2> QED BY <1>1, <1>2, <1>3, <2>1, KillsAndReturns
<1>4. CASE AccessFails /\ Return("error")
  <2>1. pc' \in Quiet /\ st' \in {"success", "error", "full", "notfound"}
    BY <1>4 DEF Return, Quiet
  <2> QED BY <1>1, <1>4, <2>1, GivesUp
<1> QED BY <1>3, <1>4 DEF DeleteVariable

LEMMA MarkOldKeeps ==
  ASSUME IInv, MarkOld
  PROVE  IInv'
<1>1. /\ pc = "update" /\ op.cur # 0 /\ op.val # Absent /\ op' = op
      /\ UNCHANGED <<phase, caller, sets, crashes>>
  BY DEF MarkOld
<1>2. /\ DataOK /\ Store /\ Found /\ op.tries = 0 /\ list \in Seq(Copy) /\ Used(list) =< Capacity
      /\ op \in Op /\ tail \in {"clean", "dirty"}
      /\ errors \in 0 .. MaxErrors /\ misses \in 0 .. MaxMisses
      /\ st \in {"success", "error", "full", "notfound"}
  BY <1>1 DEF IInv, Local, DataOK
<1>3. op.cur \in DOMAIN list /\ list[op.cur].name = op.name /\ IsLive(list[op.cur])
  BY <1>1, <1>2, CurrentCopy
<1>4. CASE ClearBits(op.cur, {"transition"}) /\ Goto("sync")
  <2>1. pc' = "sync" /\ pc' \in Labels /\ st' = st
    BY <1>4 DEF Goto, Labels
  <2>2. /\ list' \in Seq(Copy) /\ Used(list') = Used(list) /\ tail' = tail
        /\ errors' = errors /\ misses' = misses
        /\ cache' = Off \/ cache' \in Seq(Copy)
        /\ Store'
        /\ \A n, k : Newest(list, n, k) => Newest(list', n, k)
        /\ \A n : AddedCopies(list', n) = AddedCopies(list, n) \ {op.cur}
    BY <1>2, <1>3, <1>4, MarkStep
  <2>3. DataOK'
    BY <1>1, <1>2, <2>1, <2>2, DataStep
  <2>4. AddedCopies(list, op.name) \ {op.cur} = {}
    <3>1. ASSUME NEW i \in AddedCopies(list, op.name)
          PROVE  i = op.cur
      <4>1. op.cur \in LiveCopies(list, op.name) /\ i \in LiveCopies(list, op.name)
        BY <1>3, CopiesIn
      <4>2. op.cur =< i /\ i =< op.cur
        BY <1>2, <4>1, OpIs DEF Store, Ordered, Found, Newest
      <4>3. i \in Nat /\ op.cur \in Nat
        BY <1>2, <4>1, CopiesIn
      <4> QED BY <4>2, <4>3
    <3> QED BY <3>1
  <2>5. op.val \in Values
    BY <1>1, <1>2, OpIs
  <2>6. Marked' /\ op'.tries = 0
    BY <1>1, <1>2, <2>2, <2>4, <2>5 DEF Marked, Found
  <2>7. Local'
    BY <2>1, <2>6 DEF Local
  <2> QED BY <2>2, <2>3, <2>7 DEF IInv
<1>5. CASE AccessFails /\ Return("error")
  <2>1. pc' \in Quiet /\ st' \in {"success", "error", "full", "notfound"}
    BY <1>5 DEF Return, Quiet
  <2> QED BY <1>1, <1>5, <2>1, GivesUp
<1> QED BY <1>4, <1>5 DEF MarkOld

LEMMA SyncCacheKeeps ==
  ASSUME IInv, SyncCache
  PROVE  IInv'
<1>1. /\ pc = "sync" /\ DataOK /\ Store /\ Marked /\ op.tries = 0
      /\ list \in Seq(Copy) /\ Used(list) =< Capacity
      /\ op \in Op /\ tail \in {"clean", "dirty"} /\ Ordered(list) /\ Whole(list)
      /\ errors \in 0 .. MaxErrors /\ misses \in 0 .. MaxMisses
      /\ st \in {"success", "error", "full", "notfound"}
      /\ cache = Off \/ cache \in Seq(Copy)
  BY DEF IInv, Local, DataOK, Store, SyncCache
<1>2. UNCHANGED <<phase, caller, sets, crashes>>
  BY DEF SyncCache
<1>3. CASE cache = Off \/ Used(cache) = Used(list)
  <2>1. /\ pc' = "room" /\ pc' \in Labels /\ st' = st /\ op' = op
        /\ UNCHANGED <<flash, cache>> /\ list' = list /\ tail' = tail /\ cache' = cache
        /\ errors' = errors /\ misses' = misses
    BY <1>3 DEF SyncCache, Goto, Labels, flash
  <2>2. DataOK'
    BY <1>1, <1>2, <2>1, DataStep
  <2>3. Store'
    BY <1>1, <2>1, Unchanged
  <2>4. SameLength
    <3>1. SUFFICES ASSUME cache # Off, Len(cache) # Len(list)
                   PROVE  FALSE
      BY DEF SameLength
    <3>2. cache \in Seq(Copy) /\ Mirrors(cache, list) /\ Used(cache) = Used(list)
      BY <1>1, <1>3, <3>1 DEF Store
    <3>3. Len(cache) = Len(list) + 1 /\ \A i \in DOMAIN list : cache[i].name = list[i].name
      BY <1>1, <3>1, <3>2, MirrorsLength DEF Shows
    <3>4. Used(cache) = Used(list) + Size[cache[Len(cache)].name]
      BY <1>1, <3>2, <3>3, UsedLonger
    <3>5. Len(cache) \in DOMAIN cache
      BY <1>1, <3>2, <3>3
    <3>6. cache[Len(cache)] \in Copy
      BY <3>2, <3>5
    <3>7. Size[cache[Len(cache)].name] \in Nat \ {0}
      BY <3>6, VariableAssumption DEF Copy
    <3>8. Used(list) \in Nat
      BY <1>1, UsedNat
    <3> QED BY <3>2, <3>4, <3>7, <3>8
  <2>5. Marked' /\ op'.tries = 0 /\ SameLength'
    BY <1>1, <2>1, <2>4 DEF Marked, Found, SameLength
  <2>6. Local'
    BY <2>1, <2>5 DEF Local
  <2> QED BY <2>2, <2>3, <2>6 DEF IInv
<1>4. CASE cache # Off /\ Used(cache) # Used(list)
  <2>1. op' = [op EXCEPT !.cur = FindVariable(list, op.name)]
    BY <1>4 DEF SyncCache
  <2>2. FindVariable(list, op.name) = op.cur
    <3>1. op.name \in Names
      BY <1>1, OpIs
    <3>2. Newest(list, op.name, FindVariable(list, op.name))
      BY <1>1, <3>1, FindVariableIs
    <3> QED BY <1>1, <3>2, NewestUnique DEF Marked, Found
  <2>3. op' = op
    BY <1>1, <2>1, <2>2 DEF Op
  <2>4. AddedCopies(list, op.name) = {}
    BY <1>1 DEF Marked
  <2>5. cache' = list /\ UNCHANGED flash /\ NoFault /\ Goto("room")
    BY <1>4, <2>4 DEF SyncCache
  <2>6. /\ pc' = "room" /\ pc' \in Labels /\ st' = st
        /\ list' = list /\ tail' = tail /\ errors' = errors /\ misses' = misses
    BY <2>5 DEF Goto, Labels, flash, NoFault
  <2>7. DataOK'
    BY <1>1, <1>2, <2>3, <2>5, <2>6, DataStep
  <2>8. Store'
    BY <1>1, <2>5, <2>6, MirrorsItself DEF Store
  <2>9. Marked' /\ op'.tries = 0 /\ SameLength'
    BY <1>1, <2>3, <2>5, <2>6 DEF Marked, Found, SameLength
  <2>10. Local'
    BY <2>6, <2>9 DEF Local
  <2> QED BY <2>7, <2>8, <2>10 DEF IInv
<1> QED BY <1>3, <1>4

LEMMA CheckRoomKeeps ==
  ASSUME IInv, Dependable, CheckRoom
  PROVE  IInv'
<1>1. /\ pc = "room" /\ Marked /\ op.tries = 0 /\ SameLength
      /\ list \in Seq(Copy) /\ op \in Op /\ st \in {"success", "error", "full", "notfound"}
  BY DEF IInv, Local, DataOK, CheckRoom
<1>2. /\ UNCHANGED <<flash, cache>> /\ UNCHANGED <<phase, caller, bounds>>
      /\ op' = [op EXCEPT !.at = Len(list) + 1]
  BY DEF CheckRoom
<1>3. /\ op' \in Op /\ op'.name = op.name /\ op'.val = op.val /\ op'.cur = op.cur
      /\ op'.tries = 0 /\ op'.at = Len(list) + 1
  <2>1. Len(list) + 1 \in Nat
    BY <1>1
  <2> QED BY <1>1, <1>2, <2>1 DEF Op
<1>4. /\ pc' \in {"header", "remember", "done", "ftw"} /\ st' \in {st, "full"}
      /\ pc' = "header" => Fits(list, op.name)
  BY DEF CheckRoom, SizeIsUnset, Dependable, Goto, Return
<1>5. pc' \in Labels
  BY <1>4 DEF Labels
<1>6. DataOK' /\ Store' /\ list' = list /\ tail' = tail /\ cache' = cache
  BY <1>1, <1>2, <1>3, <1>4, <1>5, NoAccess
<1>7. Marked' /\ SameLength'
  BY <1>1, <1>3, <1>6 DEF Marked, Found, SameLength
<1>8. Attempt' /\ op'.at = Len(list') + 1 /\ (pc' = "header" => Fits(list', op'.name))
  BY <1>3, <1>4, <1>6 DEF Attempt
<1>9. op'.val \in Values
  BY <1>1, <1>3 DEF Marked
<1>10. Local'
  BY <1>3, <1>4, <1>7, <1>8, <1>9 DEF Local
<1> QED BY <1>6, <1>10 DEF IInv

LEMMA ReclaimNonVolatileVariableKeeps ==
  ASSUME IInv, ReclaimNonVolatileVariable
  PROVE  IInv'
<1>1. /\ pc = "ftw" /\ Marked /\ DataOK /\ list \in Seq(Copy) /\ Ordered(list) /\ Whole(list)
      /\ op \in Op /\ errors \in 0 .. MaxErrors /\ misses \in 0 .. MaxMisses
  BY DEF IInv, Local, DataOK, Store, ReclaimNonVolatileVariable
<1>2. op' = op /\ UNCHANGED <<phase, caller, sets, crashes>>
  BY DEF ReclaimNonVolatileVariable
<1>3. CASE FtwVariableSpace(WithNew(list, op.name, op.val)) /\ Return("success")
  <2>1. op.name \in Names /\ op.val \in Values
    BY <1>1, OpIs DEF Marked
  <2> DEFINE w == WithNew(list, op.name, op.val)
  <2>2. w \in Seq(Copy) /\ Used(w) =< Capacity /\ Ordered(w) /\ Whole(w)
    BY <1>1, <2>1, WithNewGood
  <2>3. FtwVariableSpace(w)
    BY <1>3
  <2> HIDE DEF w
  <2>4. /\ list' = w /\ tail' = "clean" /\ errors' = errors /\ misses' = misses
        /\ cache' = Off \/ (cache' \in Seq(Copy) /\ cache' = w)
        /\ Store'
    BY <1>1, <2>2, <2>3, RewriteStep
  <2>5. pc' \in Quiet /\ pc' \in Labels /\ st' = "success"
    BY <1>3 DEF Return, Quiet, Labels
  <2>6. DataOK'
    BY <1>1, <1>2, <2>2, <2>4, <2>5, DataStep
  <2> QED BY <2>4, <2>5, <2>6, Landing
<1>4. CASE AccessFails /\ Return("error")
  <2>1. pc' \in Quiet /\ st' \in {"success", "error", "full", "notfound"}
    BY <1>4 DEF Return, Quiet
  <2> QED BY <1>2, <1>4, <2>1, GivesUp
<1> QED BY <1>3, <1>4 DEF ReclaimNonVolatileVariable

LEMMA SetDoReclaimNextBootKeeps ==
  ASSUME IInv, SetDoReclaimNextBoot
  PROVE  IInv'
<1>1. /\ pc = "remember" /\ op.val \in Values /\ DataOK /\ Store
      /\ list \in Seq(Copy) /\ Ordered(list) /\ op \in Op
      /\ st \in {"success", "error", "full", "notfound"}
  BY DEF IInv, Local, DataOK, Store, SetDoReclaimNextBoot
<1>2. UNCHANGED <<flash, cache>> /\ UNCHANGED <<phase, caller, bounds>>
  BY DEF SetDoReclaimNextBoot
<1>3. CASE Return("full") /\ UNCHANGED op
  <2>1. pc' = "done" /\ pc' \in Quiet /\ pc' \in Labels /\ st' = "full" /\ op' = op
    BY <1>3 DEF Return, Quiet, Labels
  <2>2. DataOK' /\ Store'
    BY <1>1, <1>2, <2>1, NoAccess
  <2> QED BY <2>1, <2>2, Landing
<1>4. CASE /\ FindVariable(View, NeedReclaim) = 0
           /\ op' = [NoOp EXCEPT !.val = CHOOSE v \in Values : TRUE, !.nested = TRUE]
           /\ Goto("sync")
  <2>1. (CHOOSE v \in Values : TRUE) \in Values
    BY <1>1
  <2>2. /\ op' \in Op /\ op'.name = NeedReclaim /\ op'.val \in Values /\ op'.cur = 0
        /\ op'.tries = 0
    BY <1>1, <1>4, <2>1, OpIs DEF Op, NoOp
  <2>3. pc' = "sync" /\ pc' \in Labels /\ st' = st
    BY <1>4 DEF Goto, Labels
  <2>4. DataOK' /\ Store' /\ list' = list /\ tail' = tail /\ cache' = cache
    BY <1>1, <1>2, <2>2, <2>3, NoAccess
  <2>5. FindVariable(list, NeedReclaim) = 0
    BY <1>1, <1>4, ViewFinds
  <2>6. Newest(list, NeedReclaim, 0)
    BY <1>1, <2>5, FindVariableIs, VariableAssumption
  <2>7. AddedCopies(list, NeedReclaim) = {}
    <3>1. \A i \in LiveCopies(list, NeedReclaim) : i # 0
      BY <1>1, CopiesIn
    <3>2. LiveCopies(list, NeedReclaim) = {}
      BY <2>6, <3>1 DEF Newest
    <3> QED BY <3>2, CopiesIn
  <2>8. Marked' /\ op'.tries = 0
    BY <2>2, <2>4, <2>6, <2>7 DEF Marked, Found
  <2>9. Local'
    BY <2>3, <2>8 DEF Local
  <2> QED BY <2>4, <2>9 DEF IInv
<1> QED BY <1>3, <1>4 DEF SetDoReclaimNextBoot

-----------------------------------------------------------------------------
(* The four steps.                                                            *)

LEMMA Behind ==
  ASSUME NEW l \in Seq(Copy), NEW x, x = Len(l) + 1
  PROVE  /\ x \in Nat /\ x # 0 /\ Len(l) # x
         /\ \A j \in 1..x : j # x => j \in DOMAIN l
<1>1. PICK n \in Nat : n = Len(l)
  OBVIOUS
<1>2. DOMAIN l = 1..n
  BY <1>1
<1>3. x = n + 1
  BY <1>1
<1>4. \A j \in 1..x : j # x => j \in 1..n
  BY <1>3
<1> QED BY <1>1, <1>2, <1>3, <1>4

\* m and d are l and c before x.
SameBefore(l, c, m, d, x) ==
  \A j \in 1..x : j # x => j \in DOMAIN l /\ m[j] = l[j] /\ d[j] = c[j]

\* The end of the list and of the cache are not looked at by a reader.
LEMMA MirrorsEnd ==
  ASSUME NEW l \in Seq(Copy), NEW c \in Seq(Copy), Mirrors(c, l),
         NEW m \in Seq(Copy), NEW d \in Seq(Copy), NEW x \in Nat, x # 0,
         Len(d) = x, Len(m) = x \/ Len(m) + 1 = x,
         SameBefore(l, c, m, d, x),
         ~IsLive(d[x]), Len(m) = x => m[x].name = d[x].name /\ ~IsLive(m[x])
  PROVE  Mirrors(d, m)
<1>1. DOMAIN m = 1..Len(m) /\ Len(m) \in Nat
  OBVIOUS
<1>2. ASSUME NEW j \in DOMAIN m
      PROVE  Shows(d[j], m[j])
  <2>1. j \in 1..x /\ (j = x => Len(m) = x)
    <3>1. PICK n \in Nat : n = Len(m)
      BY <1>1
    <3>2. (n = x \/ n + 1 = x) /\ j \in 1..n
      BY <1>1, <3>1
    <3>3. j \in 1..x /\ (j = x => n = x)
      BY <3>2
    <3> QED BY <3>1, <3>3
  <2>2. CASE j # x
    <3>1. j \in DOMAIN l /\ m[j] = l[j] /\ d[j] = c[j]
      BY <2>1, <2>2 DEF SameBefore
    <3> QED BY <3>1 DEF Mirrors
  <2>3. CASE j = x
    BY <2>1, <2>3 DEF Shows
  <2> QED BY <2>2, <2>3
<1>3. Len(d) = Len(m) \/ Len(d) = Len(m) + 1
  OBVIOUS
<1>4. ~IsLive(d[Len(d)])
  OBVIOUS
<1> QED BY <1>2, <1>3, <1>4 DEF Mirrors

LEMMA NewCopyIs ==
  ASSUME op \in Op
  PROVE  /\ NewCopy({}) \in Copy /\ NewCopy({}).name = op.name /\ NewCopy({}).val = Blank
         /\ NewCopy({}).state = {} /\ ~IsLive(NewCopy({}))
         /\ [NewCopy({}) EXCEPT !.val = Broken] \in Copy
         /\ [NewCopy({}) EXCEPT !.val = Broken].name = op.name
         /\ [NewCopy({}) EXCEPT !.val = Broken].state = {}
         /\ ~IsLive([NewCopy({}) EXCEPT !.val = Broken])
<1>1. op.name \in Names /\ {} \in SUBSET StateBits /\ {} \notin Live
  BY OpIs, States
<1> QED BY <1>1 DEF NewCopy, Copy, IsLive

\* What the header becomes.
LEMMA HeaderIs ==
  ASSUME IInv, Dependable,
         (FlashIn(HeaderWritten) /\ NoFault) \/ (FlashIn(HeaderTorn) /\ Misses),
         cache' = IF cache = Off THEN Off ELSE Append(cache, NewCopy({})), Goto("state")
  PROVE  /\ \/ /\ list' = list /\ tail = "dirty"
            \/ \E c \in Copy : /\ list' = Append(list, c) /\ c.name = op.name /\ c.state = {}
                               /\ tail = "clean" => c.val = Blank
         /\ tail' = tail /\ errors' = errors /\ misses' = misses
         /\ cache' = IF cache = Off THEN Off ELSE Append(cache, NewCopy({}))
         /\ pc' = "state" /\ st' = st
<1>1. DataOK /\ op \in Op /\ tail \in {"clean", "dirty"}
  BY DEF IInv, DataOK
<1>2. /\ FlashIn(HeaderWritten) /\ NoFault
      /\ cache' = IF cache = Off THEN Off ELSE Append(cache, NewCopy({}))
      /\ Goto("state")
  BY <1>1, NoMisses
<1>3. CASE tail = "clean"
  <2>1. HeaderWritten = {<<Append(list, NewCopy({})), tail>>}
    BY <1>3 DEF HeaderWritten
  <2>2. list' = Append(list, NewCopy({})) /\ tail' = tail
    BY <1>2, <2>1 DEF FlashIn
  <2> QED BY <1>1, <1>2, <2>2, NewCopyIs DEF NoFault, Goto
<1>4. CASE tail = "dirty"
  <2>1. HeaderWritten = {<<list, tail>>, <<Append(list, NewCopy({})), tail>>,
                         <<Append(list, [NewCopy({}) EXCEPT !.val = Broken]), tail>>}
    BY <1>4 DEF HeaderWritten
  <2>2. PICK f \in HeaderWritten : list' = f[1] /\ tail' = f[2]
    BY <1>2 DEF FlashIn
  <2>3. CASE f = <<list, tail>>
    BY <1>2, <1>4, <2>2, <2>3 DEF NoFault, Goto
  <2>4. CASE f = <<Append(list, NewCopy({})), tail>>
    BY <1>1, <1>2, <1>4, <2>2, <2>4, NewCopyIs DEF NoFault, Goto
  <2>5. CASE f = <<Append(list, [NewCopy({}) EXCEPT !.val = Broken]), tail>>
    BY <1>1, <1>2, <1>4, <2>2, <2>5, NewCopyIs DEF NoFault, Goto
  <2> QED BY <2>1, <2>3, <2>4, <2>5
<1> QED BY <1>1, <1>3, <1>4

LEMMA WriteHeaderKeeps ==
  ASSUME IInv, Dependable, WriteHeader
  PROVE  IInv'
<1>1. /\ pc = "header" /\ DataOK /\ Store /\ Marked /\ Attempt /\ SameLength
      /\ op.at = Len(list) + 1 /\ Fits(list, op.name)
      /\ list \in Seq(Copy) /\ Used(list) =< Capacity /\ Ordered(list) /\ Whole(list)
      /\ op \in Op /\ tail \in {"clean", "dirty"} /\ (cache = Off \/ cache \in Seq(Copy))
      /\ errors \in 0 .. MaxErrors /\ misses \in 0 .. MaxMisses
      /\ st \in {"success", "error", "full", "notfound"}
  BY DEF IInv, Local, DataOK, Store, WriteHeader
<1>2. op' = op /\ UNCHANGED <<phase, caller, sets, crashes>>
  BY DEF WriteHeader
<1>3. CASE AccessFails /\ Return("error")
  <2>1. pc' \in Quiet /\ st' \in {"success", "error", "full", "notfound"}
    BY <1>3 DEF Return, Quiet
  <2> QED BY <1>2, <1>3, <2>1, GivesUp
<1>4. CASE /\ (FlashIn(HeaderWritten) /\ NoFault) \/ (FlashIn(HeaderTorn) /\ Misses)
           /\ cache' = IF cache = Off THEN Off ELSE Append(cache, NewCopy({}))
           /\ Goto("state")
  <2>1. /\ \/ /\ list' = list /\ tail = "dirty"
           \/ \E c \in Copy : /\ list' = Append(list, c) /\ c.name = op.name /\ c.state = {}
                              /\ tail = "clean" => c.val = Blank
        /\ tail' = tail /\ errors' = errors /\ misses' = misses
        /\ cache' = IF cache = Off THEN Off ELSE Append(cache, NewCopy({}))
        /\ pc' = "state" /\ st' = st
    BY <1>4, HeaderIs
  <2>2. pc' \in Labels
    BY <2>1 DEF Labels
  <2>3. /\ Len(list) \in Nat /\ op.at \in Nat /\ op.at # 0 /\ Len(list) # op.at
        /\ \A j \in 1..op.at : j # op.at => j \in DOMAIN list
    BY <1>1, Behind
  <2>4. ASSUME cache' # Off
        PROVE  /\ cache # Off /\ cache \in Seq(Copy) /\ Mirrors(cache, list)
               /\ cache' \in Seq(Copy) /\ Len(cache') = op.at /\ cache'[op.at] = NewCopy({})
               /\ \A j \in 1..op.at : j # op.at => cache'[j] = cache[j]
    <3>1. cache # Off /\ cache' = Append(cache, NewCopy({}))
      BY <2>1, <2>4
    <3>2. cache \in Seq(Copy) /\ Mirrors(cache, list) /\ Len(cache) = Len(list)
      BY <1>1, <3>1 DEF Store, SameLength
    <3>3. op.at = Len(cache) + 1 /\ \A j \in 1..op.at : j # op.at => j \in DOMAIN cache
      BY <1>1, <3>2, Behind
    <3>4. NewCopy({}) \in Copy
      BY <1>1, NewCopyIs
    <3>5. /\ Append(cache, NewCopy({})) \in Seq(Copy)
          /\ Len(Append(cache, NewCopy({}))) = Len(cache) + 1
          /\ Append(cache, NewCopy({}))[Len(cache) + 1] = NewCopy({})
          /\ \A i \in DOMAIN cache : Append(cache, NewCopy({}))[i] = cache[i]
      BY <3>2, <3>4, AppendIs
    <3> HIDE DEF NewCopy
    <3>6. cache' \in Seq(Copy) /\ Len(cache') = op.at /\ cache'[op.at] = NewCopy({})
      BY <3>1, <3>3, <3>5
    <3>7. \A j \in 1..op.at : j # op.at => cache'[j] = cache[j]
      BY <3>1, <3>3, <3>5
    <3> QED BY <3>1, <3>2, <3>6, <3>7
  <2>5. cache' = Off \/ cache' \in Seq(Copy)
    BY <2>4
  <2>6. ~IsLive(NewCopy({})) /\ NewCopy({}).name = op.name /\ NewCopy({}).state = {}
    BY <1>1, NewCopyIs
  <2>7. CASE list' = list /\ tail = "dirty"
    <3>1. DataOK'
      BY <1>1, <1>2, <2>1, <2>2, <2>5, <2>7, DataStep
    <3>2. cache' # Off => Mirrors(cache', list')
      <4>1. SUFFICES ASSUME cache' # Off
                     PROVE  Mirrors(cache', list)
        BY <2>7
      <4>2. /\ cache \in Seq(Copy) /\ Mirrors(cache, list) /\ cache' \in Seq(Copy)
            /\ Len(cache') = op.at /\ ~IsLive(cache'[op.at])
            /\ \A j \in 1..op.at : j # op.at => cache'[j] = cache[j]
        BY <2>4, <2>6, <4>1
      <4>3. Len(list) + 1 = op.at /\ Len(list) # op.at
        BY <1>1, <2>3
      <4>4. SameBefore(list, cache, list, cache', op.at)
        BY <2>3, <4>2 DEF SameBefore
      <4> QED BY <1>1, <2>3, <4>2, <4>3, <4>4, MirrorsEnd
    <3>3. Store'
      BY <1>1, <2>7, <3>2 DEF Store
    <3>4. Marked' /\ Attempt'
      BY <1>1, <1>2, <2>1, <2>7 DEF Marked, Found, Attempt
    <3>5. Placed({})'
      BY <1>1, <1>2, <2>1, <2>4, <2>6, <2>7 DEF Placed
    <3>6. Local'
      BY <2>1, <3>4, <3>5 DEF Local
    <3> QED BY <3>1, <3>3, <3>6 DEF IInv
  <2>8. ASSUME NEW c \in Copy, list' = Append(list, c), c.name = op.name, c.state = {},
               tail = "clean" => c.val = Blank
        PROVE  IInv'
    <3>1. ~IsLive(c)
      BY <2>8, States DEF IsLive
    <3>2. /\ list' \in Seq(Copy) /\ Len(list') = op.at /\ list'[op.at] = c
          /\ \A i \in DOMAIN list : list'[i] = list[i]
          /\ Used(list') = Used(list) + Size[op.name]
          /\ \A n : Agree(list, list', n)
      BY <1>1, <2>8, <3>1, AppendIs
    <3>3. Used(list') =< Capacity
      BY <1>1, <3>2 DEF Fits
    <3>4. DataOK'
      BY <1>1, <1>2, <2>1, <2>2, <2>5, <3>2, <3>3, DataStep
    <3>5. /\ Ordered(list') /\ Whole(list')
          /\ \A n : AddedCopies(list', n) = AddedCopies(list, n)
          /\ \A n, k : Newest(list, n, k) => Newest(list', n, k)
      BY <1>1, <3>2, Agreeing
    <3>6. cache' # Off => Mirrors(cache', list')
      <4>1. SUFFICES ASSUME cache' # Off
                     PROVE  Mirrors(cache', list')
        OBVIOUS
      <4>2. /\ cache \in Seq(Copy) /\ Mirrors(cache, list) /\ cache' \in Seq(Copy)
            /\ Len(cache') = op.at /\ ~IsLive(cache'[op.at]) /\ cache'[op.at].name = op.name
            /\ \A j \in 1..op.at : j # op.at => cache'[j] = cache[j]
        BY <2>4, <2>6, <4>1
      <4>3. list'[op.at].name = op.name /\ ~IsLive(list'[op.at]) /\ Len(list') = op.at
        BY <2>8, <3>1, <3>2
      <4>4. SameBefore(list, cache, list', cache', op.at)
        <5>1. ASSUME NEW j \in 1..op.at, j # op.at
              PROVE  j \in DOMAIN list /\ list'[j] = list[j] /\ cache'[j] = cache[j]
          <6>1. j \in DOMAIN list
            BY <2>3, <5>1
          <6>2. cache'[j] = cache[j]
            BY <4>2, <5>1
          <6> QED BY <3>2, <6>1, <6>2
        <5> QED BY <5>1 DEF SameBefore
      <4>5. /\ Len(list') = op.at \/ Len(list') + 1 = op.at
            /\ Len(list') = op.at => /\ list'[op.at].name = cache'[op.at].name
                                     /\ ~IsLive(list'[op.at])
        BY <4>2, <4>3
      <4>6. list \in Seq(Copy) /\ list' \in Seq(Copy) /\ op.at \in Nat /\ op.at # 0
        BY <1>1, <2>3, <3>2
      <4> QED BY <4>2, <4>4, <4>5, <4>6, MirrorsEnd
    <3>7. Store'
      BY <3>5, <3>6 DEF Store
    <3>8. Marked' /\ Attempt'
      BY <1>1, <1>2, <2>1, <3>5 DEF Marked, Found, Attempt
    <3>9. Placed({})'
      BY <1>2, <2>1, <2>3, <2>4, <2>6, <2>8, <3>2 DEF Placed
    <3>10. Local'
      BY <2>1, <3>8, <3>9 DEF Local
    <3> QED BY <3>4, <3>7, <3>10 DEF IInv
  <2> QED BY <2>1, <2>7, <2>8
<1> QED BY <1>3, <1>4 DEF WriteHeader

LEMMA WriteHeaderValidKeeps ==
  ASSUME IInv, WriteHeaderValid
  PROVE  IInv'
<1>1. /\ pc = "state" /\ DataOK /\ Store /\ Marked /\ Attempt /\ Placed({})
      /\ list \in Seq(Copy) /\ Used(list) =< Capacity /\ Ordered(list) /\ Whole(list)
      /\ op \in Op /\ tail \in {"clean", "dirty"} /\ (cache = Off \/ cache \in Seq(Copy))
      /\ errors \in 0 .. MaxErrors /\ misses \in 0 .. MaxMisses
      /\ st \in {"success", "error", "full", "notfound"}
  BY DEF IInv, Local, DataOK, Store, WriteHeaderValid
<1>2. op' = op /\ UNCHANGED <<phase, caller, sets, crashes>>
  BY DEF WriteHeaderValid
<1>3. CASE AccessFails /\ Return("error")
  <2>1. pc' \in Quiet /\ st' \in {"success", "error", "full", "notfound"}
    BY <1>3 DEF Return, Quiet
  <2> QED BY <1>2, <1>3, <2>1, GivesUp
<1>4. CASE WriteState(op.at, HeaderValidOnly) /\ Goto("data")
  <2>1. pc' = "data" /\ pc' \in Labels /\ st' = st
    BY <1>4 DEF Goto, Labels
  <2>2. /\ HeaderValidOnly \in SUBSET StateBits /\ HeaderValidOnly \notin Live
        /\ {} \cup HeaderValidOnly = HeaderValidOnly /\ {} \notin Live
        /\ "added" \notin HeaderValidOnly
    BY States
  <2>3. CASE /\ op.at = Len(list) /\ op.at # 0
             /\ list[op.at].name = op.name /\ list[op.at].state = {}
             /\ tail = "clean" => list[op.at].val = Blank
    <3>1. op.at \in DOMAIN list
      BY <1>1, <2>3
    <3>2. list[op.at].state \cup HeaderValidOnly = HeaderValidOnly
      BY <2>2, <2>3
    <3>3. /\ list' \in Seq(Copy) /\ Edited(list, list', op.at, HeaderValidOnly)
          /\ Used(list') = Used(list)
          /\ tail' = tail /\ errors' = errors /\ misses' = misses
          /\ cache' = Off \/ cache' \in Seq(Copy)
          /\ cache' # Off =>
               /\ cache # Off /\ cache \in Seq(Copy) /\ cache' \in Seq(Copy)
               /\ Edited(cache, cache', op.at, HeaderValidOnly) /\ Mirrors(cache, list)
      BY <1>1, <1>4, <2>2, <3>1, <3>2, WriteStateIs
    <3>4. /\ Ordered(list') /\ Whole(list')
          /\ AddedCopies(list', op.name) = AddedCopies(list, op.name) \ {op.at}
          /\ \A n, k : Newest(list, n, k) /\ k # op.at => Newest(list', n, k)
      BY <1>1, <2>2, <3>3, EditKills
    <3>5. cache' # Off => Mirrors(cache', list')
      BY <1>1, <2>2, <3>3, MirrorsEdited
    <3>6. Store'
      BY <3>4, <3>5 DEF Store
    <3>7. DataOK'
      BY <1>1, <1>2, <2>1, <3>3, DataStep
    <3>8. op.cur # op.at
      <4>1. SUFFICES ASSUME op.cur = op.at PROVE FALSE
        OBVIOUS
      <4>2. Newest(list, op.name, op.cur) /\ op.cur # 0
        BY <1>1, <2>3, <4>1 DEF Marked, Found
      <4>3. IsLive(list[op.at])
        BY <1>1, <4>1, <4>2, FoundCopy
      <4> QED BY <2>2, <2>3, <4>3 DEF IsLive
    <3>9. Newest(list', op.name, op.cur)
      BY <1>1, <3>4, <3>8 DEF Marked, Found
    <3>10. Marked' /\ Attempt'
      BY <1>1, <1>2, <3>3, <3>4, <3>9 DEF Marked, Found, Attempt
    <3>11. /\ op'.at = Len(list') /\ op'.at # 0
           /\ list'[op'.at].name = op'.name /\ list'[op'.at].state = HeaderValidOnly
           /\ tail' = "clean" => list'[op'.at].val = Blank
      BY <1>2, <2>3, <3>3 DEF Edited
    <3>12. cache' # Off => /\ Len(cache') = op'.at
                           /\ cache'[op'.at].name = op'.name
                           /\ cache'[op'.at].state = HeaderValidOnly
      BY <1>1, <1>2, <3>3 DEF Placed, Edited
    <3>13. Placed(HeaderValidOnly)'
      BY <3>11, <3>12 DEF Placed, HeaderValidOnly
    <3>14. Local'
      BY <2>1, <3>10, <3>13 DEF Local
    <3> QED BY <3>6, <3>7, <3>14 DEF IInv
  <2>4. CASE op.at = Len(list) + 1 /\ tail = "dirty" /\ Fits(list, op.name)
    <3>1. /\ op.at \in Nat /\ op.at # 0 /\ Len(list) # op.at
          /\ \A j \in 1..op.at : j # op.at => j \in DOMAIN list
      BY <1>1, <2>4, Behind
    <3>2. op.at \notin DOMAIN list
      BY <1>1, <2>4
    <3>3. /\ list' = list /\ tail' = "dirty" /\ errors' = errors /\ misses' = misses
          /\ cache' = IF cache = Off \/ op.at \notin DOMAIN cache THEN cache
                      ELSE [cache EXCEPT ![op.at].state = HeaderValidOnly]
      BY <1>4, <2>2, <2>4, <3>2 DEF WriteState, Soiled, NoFault
    <3>4. ASSUME cache' # Off
          PROVE  /\ cache' \in Seq(Copy) /\ Len(cache') = op.at
                 /\ cache'[op.at].name = op.name /\ cache'[op.at].state = HeaderValidOnly
                 /\ Mirrors(cache', list)
      <4>1. cache # Off
        BY <3>3, <3>4
      <4>2. /\ cache \in Seq(Copy) /\ Mirrors(cache, list) /\ Len(cache) = op.at
            /\ cache[op.at].name = op.name
        BY <1>1, <4>1 DEF Store, Placed
      <4>3. op.at \in DOMAIN cache
        BY <3>1, <4>2
      <4>4. cache' = SetState(cache, op.at, HeaderValidOnly)
        BY <3>3, <4>1, <4>3 DEF SetState
      <4>5. cache' \in Seq(Copy) /\ Edited(cache, cache', op.at, HeaderValidOnly)
        BY <2>2, <4>2, <4>3, <4>4, SetStateIs
      <4>6. /\ Len(cache') = op.at /\ cache'[op.at].name = op.name
            /\ cache'[op.at].state = HeaderValidOnly /\ ~IsLive(cache'[op.at])
        BY <2>2, <4>2, <4>5 DEF Edited, IsLive
      <4>7. \A j \in DOMAIN cache : j # op.at => cache'[j] = cache[j]
        BY <4>5 DEF Edited
      <4>8. DOMAIN cache = 1..op.at
        BY <4>2
      <4>9. SameBefore(list, cache, list, cache', op.at)
        BY <3>1, <4>7, <4>8 DEF SameBefore
      <4>10. Len(list) + 1 = op.at
        BY <2>4
      <4>11. Mirrors(cache', list)
        BY <1>1, <3>1, <4>2, <4>5, <4>6, <4>9, <4>10, MirrorsEnd
      <4> QED BY <4>5, <4>6, <4>11
    <3>5. cache' = Off \/ cache' \in Seq(Copy)
      BY <3>4
    <3>6. DataOK'
      BY <1>1, <1>2, <2>1, <3>3, <3>5, DataStep
    <3>7. Store'
      BY <1>1, <3>3, <3>4 DEF Store
    <3>8. Marked' /\ Attempt'
      BY <1>1, <1>2, <2>4, <3>3 DEF Marked, Found, Attempt
    <3>9. op'.at = Len(list') + 1 /\ tail' = "dirty" /\ Fits(list', op'.name)
      BY <1>2, <2>4, <3>3
    <3>10. Placed(HeaderValidOnly)'
      BY <1>2, <3>4, <3>9 DEF Placed, HeaderValidOnly
    <3>11. Local'
      BY <2>1, <3>8, <3>10 DEF Local
    <3> QED BY <3>6, <3>7, <3>11 DEF IInv
  <2> QED BY <1>1, <2>3, <2>4 DEF Placed
<1> QED BY <1>3, <1>4 DEF WriteHeaderValid

\* What the data becomes.
LEMMA DataIs ==
  ASSUME IInv, Dependable, pc = "data",
         (FlashIn(DataWritten) /\ NoFault) \/ (FlashIn(DataTorn) /\ Misses)
  PROVE  /\ errors' = errors /\ misses' = misses
         /\ op.at \notin DOMAIN list => list' = list /\ tail' = Soiled
         /\ op.at \in DOMAIN list =>
              /\ tail' = tail
              /\ \E v \in {op.val, Broken} : /\ list' = SetVal(list, op.at, v)
                                             /\ tail = "clean" => v = op.val
<1>1. DataOK /\ tail \in {"clean", "dirty"} /\ list \in Seq(Copy) /\ Placed(HeaderValidOnly)
  BY DEF IInv, DataOK, Local
<1>2. FlashIn(DataWritten) /\ NoFault
  BY <1>1, NoMisses
<1>3. PICK f \in DataWritten : list' = f[1] /\ tail' = f[2]
  BY <1>2 DEF FlashIn
<1>4. errors' = errors /\ misses' = misses
  BY <1>2 DEF NoFault
<1>5. CASE op.at \notin DOMAIN list
  <2>1. f = <<list, Soiled>>
    BY <1>3, <1>5 DEF DataWritten
  <2> QED BY <1>3, <1>4, <1>5, <2>1
<1>6. CASE op.at \in DOMAIN list
  <2> DEFINE V == IF list[op.at].val # Blank THEN {Broken}
                  ELSE IF tail = "dirty" THEN {op.val, Broken} ELSE {op.val}
  <2>1. DataWritten = {<<[list EXCEPT ![op.at].val = v], tail>> : v \in V}
    BY <1>6 DEF DataWritten
  <2>2. tail = "clean" => list[op.at].val = Blank
    BY <1>1, <1>6, Behind DEF Placed
  <2>3. \A v \in V : v \in {op.val, Broken} /\ (tail = "clean" => v = op.val)
    BY <2>2
  <2> HIDE DEF V
  <2>4. PICK v \in V : f = <<[list EXCEPT ![op.at].val = v], tail>>
    BY <1>3, <2>1
  <2>5. list' = SetVal(list, op.at, v) /\ tail' = tail
    BY <1>3, <2>4 DEF SetVal
  <2> QED BY <1>4, <1>6, <2>3, <2>5
<1> QED BY <1>5, <1>6

\* What the cache becomes.
LEMMA CacheDataIs ==
  ASSUME DataOK, Store, Placed(HeaderValidOnly), op.val \in Values, cache # Off
  PROVE  LET d == [cache EXCEPT ![op.at].val = op.val]
         IN /\ d \in Seq(Copy) /\ Len(d) = op.at /\ cache \in Seq(Copy) /\ Mirrors(cache, list)
            /\ d[op.at] = [name |-> op.name, val |-> op.val, state |-> HeaderValidOnly]
            /\ \A j \in 1..op.at : j # op.at => d[j] = cache[j]
<1>1. /\ cache \in Seq(Copy) /\ Mirrors(cache, list) /\ Len(cache) = op.at
      /\ cache[op.at].name = op.name /\ cache[op.at].state = HeaderValidOnly
      /\ list \in Seq(Copy)
  BY DEF DataOK, Store, Placed
<1>2. op.at # 0
  BY <1>1, Behind DEF Placed
<1>3. op.at \in DOMAIN cache /\ DOMAIN cache = 1..op.at
  BY <1>1, <1>2
<1>4. /\ SetVal(cache, op.at, op.val) \in Seq(Copy) /\ Len(SetVal(cache, op.at, op.val)) = op.at
      /\ SetVal(cache, op.at, op.val)[op.at] =
           [name |-> op.name, val |-> op.val, state |-> HeaderValidOnly]
      /\ \A j \in DOMAIN cache : j # op.at => SetVal(cache, op.at, op.val)[j] = cache[j]
  BY <1>1, <1>3, SetValIs
<1> QED BY <1>1, <1>3, <1>4 DEF SetVal

\* The data is written where the header did not become valid.
LEMMA WriteDataBehind ==
  ASSUME IInv, Dependable, WriteData, ~AccessFails, op.at = Len(list) + 1, tail = "dirty",
         Fits(list, op.name)
  PROVE  IInv'
<1>1. /\ pc = "data" /\ DataOK /\ Store /\ Marked /\ Attempt /\ Placed(HeaderValidOnly)
      /\ list \in Seq(Copy) /\ Used(list) =< Capacity /\ Ordered(list) /\ Whole(list)
      /\ op \in Op /\ op.val \in Values
      /\ errors \in 0 .. MaxErrors /\ misses \in 0 .. MaxMisses
      /\ st \in {"success", "error", "full", "notfound"}
  BY DEF IInv, Local, DataOK, Store, WriteData, Marked
<1>2. /\ op' = [op EXCEPT !.tries = @ + 1] /\ UNCHANGED <<phase, caller, sets, crashes>>
      /\ (FlashIn(DataWritten) /\ NoFault) \/ (FlashIn(DataTorn) /\ Misses)
      /\ cache' = IF cache = Off THEN Off ELSE [cache EXCEPT ![op.at].val = op.val]
      /\ IF IsCorrectVariable(list', op.at) THEN Goto("added")
         ELSE IF AtRuntimeUnreclaimed THEN Return("full") ELSE Goto("retry")
  BY DEF WriteData
<1>3. /\ op.at \in Nat /\ op.at # 0 /\ Len(list) # op.at /\ op.at \notin DOMAIN list
      /\ \A j \in 1..op.at : j # op.at => j \in DOMAIN list
  <2>1. /\ op.at \in Nat /\ op.at # 0 /\ Len(list) # op.at
        /\ \A j \in 1..op.at : j # op.at => j \in DOMAIN list
    BY <1>1, Behind
  <2>2. op.at \notin DOMAIN list
    BY <1>1
  <2> QED BY <2>1, <2>2
<1>4. list' = list /\ tail' = "dirty" /\ errors' = errors /\ misses' = misses
  BY <1>1, <1>2, <1>3, DataIs DEF Soiled
<1>5. ~IsCorrectVariable(list', op.at)
  BY <1>3, <1>4 DEF IsCorrectVariable
<1>6. (pc' = "done" \/ pc' = "retry") /\ st' \in {st, "full"}
  BY <1>2, <1>5 DEF Return, Goto
<1>7. pc' \in Labels
  BY <1>6 DEF Labels
<1>8. op.tries = 0
  BY <1>1 DEF Attempt
<1>9. /\ op' \in Op /\ op'.tries = 1 /\ op'.name = op.name /\ op'.val = op.val
      /\ op'.cur = op.cur /\ op'.at = op.at
  BY <1>1, <1>2, <1>8 DEF Op, MaxTry
<1>10. ASSUME cache' # Off
       PROVE  cache' \in Seq(Copy) /\ Mirrors(cache', list')
  <2>1. cache # Off /\ cache' = [cache EXCEPT ![op.at].val = op.val]
    BY <1>2, <1>10
  <2>2. /\ cache' \in Seq(Copy) /\ Len(cache') = op.at /\ cache \in Seq(Copy) /\ Mirrors(cache, list)
        /\ cache'[op.at] = [name |-> op.name, val |-> op.val, state |-> HeaderValidOnly]
        /\ \A j \in 1..op.at : j # op.at => cache'[j] = cache[j]
    BY <1>1, <2>1, CacheDataIs
  <2>3. ~IsLive(cache'[op.at])
    BY <2>2, States DEF IsLive
  <2>4. SameBefore(list, cache, list, cache', op.at)
    BY <1>3, <2>2 DEF SameBefore
  <2>5. Len(list) + 1 = op.at
    OBVIOUS
  <2>6. Mirrors(cache', list)
    BY <1>1, <1>3, <2>2, <2>3, <2>4, <2>5, MirrorsEnd
  <2> QED BY <1>4, <2>2, <2>6
<1>11. DataOK'
  BY <1>1, <1>2, <1>4, <1>6, <1>7, <1>9, <1>10, DataStep
<1>12. Store'
  BY <1>1, <1>4, <1>10 DEF Store
<1>13. Marked' /\ op'.tries = 1 /\ Fits(list', op'.name)
  BY <1>1, <1>4, <1>9 DEF Marked, Found
<1>14. Local'
  BY <1>6, <1>13 DEF Local
<1> QED BY <1>11, <1>12, <1>14 DEF IInv

\* The data is written into the new copy.
LEMMA WriteDataInto ==
  ASSUME IInv, Dependable, WriteData, ~AccessFails, op.at = Len(list), op.at # 0,
         list[op.at].name = op.name, list[op.at].state = HeaderValidOnly
  PROVE  IInv'
<1>1. /\ pc = "data" /\ DataOK /\ Store /\ Marked /\ Attempt /\ Placed(HeaderValidOnly)
      /\ list \in Seq(Copy) /\ Used(list) =< Capacity /\ Ordered(list) /\ Whole(list)
      /\ op \in Op /\ op.val \in Values /\ tail \in {"clean", "dirty"}
      /\ errors \in 0 .. MaxErrors /\ misses \in 0 .. MaxMisses
      /\ st \in {"success", "error", "full", "notfound"}
  BY DEF IInv, Local, DataOK, Store, WriteData, Marked
<1>2. /\ op' = [op EXCEPT !.tries = @ + 1] /\ UNCHANGED <<phase, caller, sets, crashes>>
      /\ (FlashIn(DataWritten) /\ NoFault) \/ (FlashIn(DataTorn) /\ Misses)
      /\ cache' = IF cache = Off THEN Off ELSE [cache EXCEPT ![op.at].val = op.val]
      /\ IF IsCorrectVariable(list', op.at) THEN Goto("added")
         ELSE IF AtRuntimeUnreclaimed THEN Return("full") ELSE Goto("retry")
  BY DEF WriteData
<1>3. op.at \in DOMAIN list /\ DOMAIN list = 1..op.at /\ op.at \in Nat
  BY <1>1
<1>4. PICK v \in {op.val, Broken} : /\ list' = SetVal(list, op.at, v)
                                    /\ tail = "clean" => v = op.val
  BY <1>1, <1>2, <1>3, DataIs
<1>5. tail' = tail /\ errors' = errors /\ misses' = misses
  BY <1>1, <1>2, <1>3, DataIs
<1>6. /\ list' \in Seq(Copy) /\ Len(list') = op.at /\ DOMAIN list' = DOMAIN list
      /\ \A j \in DOMAIN list : j # op.at => list'[j] = list[j]
      /\ list'[op.at] = [name |-> op.name, val |-> v, state |-> HeaderValidOnly]
      /\ Used(list') = Used(list)
  <2>1. v \in Values \cup {Blank, Broken}
    BY <1>1, <1>4
  <2> QED BY <1>1, <1>3, <1>4, <2>1, SetValIs
<1>7. ~IsLive(list[op.at]) /\ ~IsLive(list'[op.at])
  BY <1>6, States DEF IsLive
<1>8. \A n : Agree(list, list', n)
  BY <1>3, <1>6, <1>7, DeadAgrees
<1>9. /\ Ordered(list') /\ Whole(list')
      /\ \A n : AddedCopies(list', n) = AddedCopies(list, n)
      /\ \A n, k : Newest(list, n, k) => Newest(list', n, k)
  BY <1>1, <1>6, <1>8, Agreeing
<1>10. ASSUME cache' # Off
       PROVE  /\ cache' \in Seq(Copy) /\ Mirrors(cache', list') /\ Len(cache') = op.at
              /\ cache'[op.at] = [name |-> op.name, val |-> op.val, state |-> HeaderValidOnly]
  <2>1. cache # Off /\ cache' = [cache EXCEPT ![op.at].val = op.val]
    BY <1>2, <1>10
  <2>2. /\ cache' \in Seq(Copy) /\ Len(cache') = op.at /\ cache \in Seq(Copy) /\ Mirrors(cache, list)
        /\ cache'[op.at] = [name |-> op.name, val |-> op.val, state |-> HeaderValidOnly]
        /\ \A j \in 1..op.at : j # op.at => cache'[j] = cache[j]
    BY <1>1, <2>1, CacheDataIs
  <2>3. ~IsLive(cache'[op.at]) /\ cache'[op.at].name = op.name
    BY <2>2, States DEF IsLive
  <2>4. SameBefore(list, cache, list', cache', op.at)
    BY <1>3, <1>6, <2>2 DEF SameBefore
  <2>5. /\ Len(list') = op.at \/ Len(list') + 1 = op.at
        /\ Len(list') = op.at => /\ list'[op.at].name = cache'[op.at].name
                                 /\ ~IsLive(list'[op.at])
    BY <1>6, <1>7, <2>3
  <2>6. Mirrors(cache', list')
    BY <1>1, <1>3, <1>6, <2>2, <2>3, <2>4, <2>5, MirrorsEnd
  <2> QED BY <2>2, <2>6
<1>11. Store'
  BY <1>9, <1>10 DEF Store
<1>12. op.tries \in {0, 1} /\ (op.tries = 1 => tail = "clean")
  BY <1>1 DEF Attempt
<1>13. /\ op' \in Op /\ op'.tries = op.tries + 1 /\ op'.name = op.name /\ op'.val = op.val
       /\ op'.cur = op.cur /\ op'.at = op.at
  BY <1>1, <1>2, <1>12 DEF Op, MaxTry
<1>14. Marked'
  BY <1>1, <1>9, <1>13 DEF Marked, Found
<1>15. IsCorrectVariable(list', op.at) <=> v = op.val
  BY <1>3, <1>6 DEF IsCorrectVariable
<1>16. CASE v = op.val
  <2>1. pc' = "added" /\ pc' \in Labels /\ st' = st
    BY <1>2, <1>15, <1>16 DEF Goto, Labels
  <2>2. DataOK'
    BY <1>1, <1>2, <1>5, <1>6, <1>10, <1>13, <2>1, DataStep
  <2>3. SameLength' /\ op'.at = Len(list') /\ op'.at # 0
    BY <1>6, <1>10, <1>13 DEF SameLength
  <2>4. IsCorrectVariable(list, op.at)'
    BY <1>3, <1>6, <1>13, <1>16 DEF IsCorrectVariable
  <2>5. cache' # Off => cache'[op'.at] = list'[op'.at]
    BY <1>6, <1>10, <1>13, <1>16
  <2>6. Local'
    BY <1>14, <2>1, <2>3, <2>4, <2>5 DEF Local
  <2> QED BY <1>11, <2>2, <2>6 DEF IInv
<1>17. CASE v # op.val
  <2>1. (pc' = "done" \/ pc' = "retry") /\ st' \in {st, "full"}
    BY <1>2, <1>15, <1>17 DEF Return, Goto
  <2>2. pc' \in Labels
    BY <2>1 DEF Labels
  <2>3. DataOK'
    BY <1>1, <1>2, <1>5, <1>6, <1>10, <1>13, <2>1, <2>2, DataStep
  <2>4. op'.tries = 1
    BY <1>4, <1>12, <1>13, <1>17
  <2>5. op'.at = Len(list') /\ op'.at # 0 /\ list'[op'.at].name = op'.name /\ ~IsLive(list'[op'.at])
    BY <1>6, <1>7, <1>13
  <2>6. Local'
    BY <1>14, <2>1, <2>4, <2>5 DEF Local
  <2> QED BY <1>11, <2>3, <2>6 DEF IInv
<1> QED BY <1>16, <1>17

LEMMA WriteDataKeeps ==
  ASSUME IInv, Dependable, WriteData
  PROVE  IInv'
<1>1. DataOK /\ Store /\ Placed(HeaderValidOnly) /\ Attempt /\ op \in Op /\ Used(list) =< Capacity
  BY DEF IInv, Local, DataOK, WriteData
<1>2. CASE AccessFails
  <2>1. /\ list' = list /\ tail' = tail /\ cache' = Off
        /\ errors' \in 0 .. MaxErrors /\ misses' \in 0 .. MaxMisses /\ Store'
    BY <1>1, <1>2, FailStep
  <2>2. errors' # errors
    BY <1>2, <1>1 DEF AccessFails, DataOK
  <2>3. ~NoFault /\ ~Misses
    BY <2>2 DEF NoFault, Misses
  <2>4. Return("error")
    BY <2>3 DEF WriteData
  <2>5. pc' \in Quiet /\ pc' \in Labels /\ st' = "error"
    BY <2>4 DEF Return, Quiet, Labels
  <2>6. op' \in Op
    <3>1. op' = [op EXCEPT !.tries = @ + 1]
      BY DEF WriteData
    <3>2. op.tries \in {0, 1}
      BY <1>1 DEF Attempt
    <3> QED BY <1>1, <3>1, <3>2 DEF Op, MaxTry
  <2>7. UNCHANGED <<phase, caller, sets, crashes>>
    BY DEF WriteData
  <2>8. list \in Seq(Copy) /\ tail \in {"clean", "dirty"}
    BY <1>1 DEF DataOK
  <2>9. DataOK'
    BY <1>1, <2>1, <2>5, <2>6, <2>7, <2>8, DataStep
  <2> QED BY <2>1, <2>5, <2>9, Landing
<1>3. CASE ~AccessFails
  <2>1. CASE /\ op.at = Len(list) /\ op.at # 0
             /\ list[op.at].name = op.name /\ list[op.at].state = HeaderValidOnly
    BY <1>3, <2>1, WriteDataInto
  <2>2. CASE op.at = Len(list) + 1 /\ tail = "dirty" /\ Fits(list, op.name)
    BY <1>3, <2>2, WriteDataBehind
  <2> QED BY <1>1, <2>1, <2>2 DEF Placed
<1> QED BY <1>2, <1>3

LEMMA RetryKeeps ==
  ASSUME IInv, Retry
  PROVE  IInv'
<1>1. /\ pc = "retry" /\ DataOK /\ Store /\ Marked /\ op.tries = 1
      /\ list \in Seq(Copy) /\ Used(list) =< Capacity /\ Ordered(list) /\ Whole(list)
      /\ op \in Op /\ errors \in 0 .. MaxErrors /\ misses \in 0 .. MaxMisses
      /\ st \in {"success", "error", "full", "notfound"}
  BY DEF IInv, Local, DataOK, Store, Retry
<1>2. UNCHANGED <<phase, caller, sets, crashes>>
  BY DEF Retry
<1>3. CASE AccessFails /\ Return("error") /\ UNCHANGED op
  <2>1. pc' \in Quiet /\ st' \in {"success", "error", "full", "notfound"} /\ op' = op
    BY <1>3 DEF Return, Quiet
  <2> QED BY <1>2, <1>3, <2>1, GivesUp
<1>4. CASE /\ FtwVariableSpace(Reclaimed(list, op.cur, TRUE))
           /\ op' = [op EXCEPT !.cur = Moved(list, @), !.at = Len(list') + 1]
           /\ Goto(IF op.tries < MaxTry THEN "header" ELSE "added")
  <2> DEFINE r == Reclaimed(list, op.cur, TRUE)
  <2>1. /\ r \in Seq(Copy) /\ Ordered(r) /\ Whole(r) /\ Used(r) =< Used(list)
        /\ Len(list) # 0 /\ ~IsLive(list[Len(list)]) =>
             Used(r) + Size[list[Len(list)].name] =< Used(list)
    BY <1>1, ReclaimedIs
  <2>2. Newest(r, op.name, Moved(list, op.cur)) /\ AddedCopies(r, op.name) = {}
    BY <1>1, MovedIs DEF Marked, Found
  <2>3. FtwVariableSpace(r)
    BY <1>4
  <2> HIDE DEF r
  <2>4. op.name \in Names /\ Size[op.name] \in Nat /\ Used(r) \in Nat /\ Used(list) \in Nat
    BY <1>1, <2>1, OpIs, UsedNat, VariableAssumption
  <2>5. Used(r) =< Capacity
    BY <1>1, <2>1, <2>4, VariableAssumption
  <2>6. /\ list' = r /\ tail' = "clean" /\ errors' = errors /\ misses' = misses
        /\ cache' = Off \/ (cache' \in Seq(Copy) /\ cache' = r)
        /\ Store'
    BY <1>1, <2>1, <2>3, <2>5, RewriteStep
  <2>7. Fits(r, op.name)
    <3>1. CASE /\ op.at = Len(list) /\ op.at # 0
               /\ list[op.at].name = op.name
               /\ ~IsLive(list[op.at])
      <4>1. Used(r) + Size[op.name] =< Used(list)
        BY <2>1, <3>1
      <4> QED BY <1>1, <2>4, <4>1, VariableAssumption DEF Fits
    <3>2. CASE Fits(list, op.name)
      BY <2>1, <2>4, <3>2, VariableAssumption DEF Fits
    <3> QED BY <1>1, <3>1, <3>2 DEF IInv, Local
  <2>8. Moved(list, op.cur) \in Nat
    <3>1. Moved(list, op.cur) # 0 => Moved(list, op.cur) \in DOMAIN r
      BY <2>1, <2>2, FoundCopy
    <3> QED BY <2>1, <3>1
  <2>9. Len(list') + 1 \in Nat
    BY <2>1, <2>6
  <2>10. /\ op' \in Op /\ op'.name = op.name /\ op'.val = op.val /\ op'.tries = 1
         /\ op'.cur = Moved(list, op.cur) /\ op'.at = Len(list') + 1
    BY <1>1, <1>4, <2>8, <2>9 DEF Op
  <2>11. pc' = "header" /\ pc' \in Labels /\ st' = st
    BY <1>1, <1>4 DEF Goto, Labels, MaxTry
  <2>12. DataOK'
    BY <1>1, <1>2, <2>1, <2>5, <2>6, <2>10, <2>11, DataStep
  <2>13. Marked' /\ Attempt' /\ SameLength'
    BY <1>1, <2>2, <2>6, <2>10 DEF Marked, Found, Attempt, SameLength
  <2>14. op'.at = Len(list') + 1 /\ Fits(list', op'.name)
    BY <2>6, <2>7, <2>10
  <2>15. Local'
    BY <2>11, <2>13, <2>14 DEF Local
  <2> QED BY <2>6, <2>12, <2>15 DEF IInv
<1> QED BY <1>3, <1>4 DEF Retry

LEMMA WriteAddedKeeps ==
  ASSUME IInv, WriteAdded
  PROVE  IInv'
<1>1. /\ pc = "added" /\ DataOK /\ Store /\ Marked /\ SameLength
      /\ op.at = Len(list) /\ op.at # 0 /\ IsCorrectVariable(list, op.at)
      /\ cache # Off => cache[op.at] = list[op.at]
      /\ list \in Seq(Copy) /\ Used(list) =< Capacity /\ Ordered(list) /\ Whole(list)
      /\ op \in Op /\ op.val \in Values /\ tail \in {"clean", "dirty"}
      /\ errors \in 0 .. MaxErrors /\ misses \in 0 .. MaxMisses
      /\ st \in {"success", "error", "full", "notfound"}
  BY DEF IInv, Local, DataOK, Store, WriteAdded, Marked
<1>2. op' = op /\ UNCHANGED <<phase, caller, sets, crashes>>
  BY DEF WriteAdded
<1>3. CASE AccessFails /\ Return("error")
  <2>1. pc' \in Quiet /\ st' \in {"success", "error", "full", "notfound"}
    BY <1>3 DEF Return, Quiet
  <2> QED BY <1>2, <1>3, <2>1, GivesUp
<1>4. CASE /\ WriteState(op.at, Added)
           /\ IF op.cur # 0 THEN Goto("old") ELSE Return("success")
  <2>1. /\ op.at \in DOMAIN list /\ list[op.at].name = op.name /\ list[op.at].val = op.val
        /\ list[op.at].state = HeaderValidOnly
    BY <1>1 DEF IsCorrectVariable
  <2>2. /\ Added \in SUBSET StateBits /\ HeaderValidOnly \cup Added = Added
        /\ HeaderValidOnly \notin Live
    BY States
  <2>3. list[op.at].state \cup Added = Added /\ ~IsLive(list[op.at])
    BY <2>1, <2>2 DEF IsLive
  <2>4. /\ list' \in Seq(Copy) /\ Edited(list, list', op.at, Added) /\ Used(list') = Used(list)
        /\ tail' = tail /\ errors' = errors /\ misses' = misses
        /\ cache' = Off \/ cache' \in Seq(Copy)
        /\ cache' # Off => /\ cache # Off /\ cache \in Seq(Copy) /\ cache' \in Seq(Copy)
                           /\ Edited(cache, cache', op.at, Added) /\ Mirrors(cache, list)
    BY <1>1, <1>4, <2>1, <2>2, <2>3, WriteStateIs
  <2>5. AddedCopies(list, op.name) = {} /\ Newest(list, op.name, op.cur)
    BY <1>1 DEF Marked, Found
  <2>6. /\ Ordered(list') /\ Whole(list')
        /\ AddedCopies(list', op.name) = {op.at}
        /\ OldCopies(list', op.name) = OldCopies(list, op.name)
    BY <1>1, <2>1, <2>3, <2>4, <2>5, EditAdds
  <2>7. cache' # Off => Mirrors(cache', list')
    BY <1>1, <2>4, MirrorsEdited
  <2>8. Store'
    BY <2>6, <2>7 DEF Store
  <2>9. ((pc' = "old" /\ op.cur # 0) \/ pc' = "done") /\ pc' \in Labels /\ st' \in {st, "success"}
    BY <1>4 DEF Goto, Return, Labels
  <2>10. DataOK'
    BY <1>1, <1>2, <2>4, <2>9, DataStep
  <2>11. list'[op.at].val = op.val
    BY <2>1, <2>4 DEF Edited
  <2>12. pc' = "old" => op.cur \in OldCopies(list', op.name)
    <3>1. SUFFICES ASSUME op.cur # 0
                   PROVE  op.cur \in OldCopies(list', op.name)
      BY <2>9
    <3>2. op.cur \in LiveCopies(list, op.name)
      BY <2>5, <3>1 DEF Newest
    <3> QED BY <2>5, <2>6, <3>2, CopiesIn
  <2>13. Local'
    BY <1>2, <2>6, <2>9, <2>11, <2>12 DEF Local
  <2> QED BY <2>8, <2>10, <2>13 DEF IInv
<1> QED BY <1>3, <1>4 DEF WriteAdded

LEMMA DeleteOldKeeps ==
  ASSUME IInv, DeleteOld
  PROVE  IInv'
<1>1. op.cur \in DOMAIN list
  BY CopiesIn DEF IInv, Local, DeleteOld
<1>2. op' = op /\ UNCHANGED <<phase, caller, sets, crashes>>
  BY DEF DeleteOld
<1>3. CASE ClearBits(op.cur, {"deleted"}) /\ Return("success")
  <2>1. pc' \in Quiet /\ st' \in {"success", "error", "full", "notfound"}
    BY <1>3 DEF Return, Quiet
  <2> QED BY <1>1, <1>2, <1>3, <2>1, KillsAndReturns
<1>4. CASE AccessFails /\ Return("error")
  <2>1. pc' \in Quiet /\ st' \in {"success", "error", "full", "notfound"}
    BY <1>4 DEF Return, Quiet
  <2> QED BY <1>2, <1>4, <2>1, GivesUp
<1> QED BY <1>3, <1>4 DEF DeleteOld

LEMMA DoneKeeps ==
  ASSUME IInv, Done
  PROVE  IInv'
<1>1. DataOK /\ Store /\ st \in {"success", "error", "full", "notfound"} /\ NoOp \in Op
  BY OpIs DEF IInv, DataOK
<1>2. /\ UNCHANGED <<flash, cache>> /\ pc' = "idle" /\ st' = st /\ op' = NoOp
      /\ list' = list /\ tail' = tail /\ cache' = cache /\ phase' = phase
      /\ sets' = sets /\ crashes' = crashes /\ errors' = errors /\ misses' = misses
      /\ req' = NoRequest /\ reply' \in {st, "full"}
  BY DEF Done, flash, bounds
<1>3. DataOK'
  BY <1>1, <1>2 DEF DataOK, Labels
<1>4. Store'
  BY <1>1, <1>2, Unchanged
<1> QED BY <1>2, <1>3, <1>4, Landing DEF Quiet

-----------------------------------------------------------------------------
(* Reclaiming, booting and losing power.                                      *)

LEMMA ReclaimForOSKeeps ==
  ASSUME IInv, ReclaimForOS
  PROVE  IInv'
<1>1. DataOK /\ Store
  BY DEF IInv
<1>2. /\ UNCHANGED <<flash, cache>> /\ pc' \in {"reclaim", "idle"} /\ st' = st /\ op' = op
      /\ list' = list /\ tail' = tail /\ cache' = cache /\ phase' = "os"
      /\ sets' = sets /\ crashes' = crashes /\ errors' = errors /\ misses' = misses
      /\ req' = req /\ reply' = reply
  BY DEF ReclaimForOS, flash, bounds, caller, Goto
<1>3. DataOK'
  BY <1>1, <1>2 DEF DataOK, Labels
<1>4. Store'
  BY <1>1, <1>2, Unchanged
<1> QED BY <1>2, <1>3, <1>4, Landing DEF Quiet

LEMMA ReclaimKeeps ==
  ASSUME IInv, Reclaim
  PROVE  IInv'
<1>1. /\ DataOK /\ Store
      /\ list \in Seq(Copy) /\ Used(list) =< Capacity /\ Ordered(list) /\ Whole(list)
      /\ op \in Op /\ errors \in 0 .. MaxErrors /\ misses \in 0 .. MaxMisses
      /\ st \in {"success", "error", "full", "notfound"}
  BY DEF IInv, DataOK, Store
<1>2. op' = op /\ UNCHANGED <<phase, caller, sets, crashes>>
  BY DEF Reclaim
<1>3. pc' \in Quiet /\ pc' \in Labels /\ st' = st
  BY DEF Reclaim, Goto, Quiet, Labels
<1>4. CASE FtwVariableSpace(Reclaimed(list, 0, FALSE))
  <2> DEFINE r == Reclaimed(list, 0, FALSE)
  <2>1. r \in Seq(Copy) /\ Ordered(r) /\ Whole(r) /\ Used(r) =< Used(list)
    BY <1>1, ReclaimedIs
  <2>2. FtwVariableSpace(r)
    BY <1>4
  <2> HIDE DEF r
  <2>3. Used(r) =< Capacity
    BY <1>1, <2>1, UsedNat, VariableAssumption
  <2>4. /\ list' = r /\ tail' = "clean" /\ errors' = errors /\ misses' = misses
        /\ cache' = Off \/ (cache' \in Seq(Copy) /\ cache' = r)
        /\ Store'
    BY <1>1, <2>1, <2>2, <2>3, RewriteStep
  <2>5. DataOK'
    BY <1>1, <1>2, <1>3, <2>1, <2>3, <2>4, DataStep
  <2> QED BY <1>3, <2>4, <2>5, Landing
<1>5. CASE AccessFails
  BY <1>1, <1>2, <1>3, <1>5, GivesUp
<1> QED BY <1>4, <1>5 DEF Reclaim

LEMMA ForgetReclaimKeeps ==
  ASSUME IInv, ForgetReclaim
  PROVE  IInv'
<1>1. /\ DataOK /\ Store /\ list \in Seq(Copy) /\ Ordered(list) /\ op \in Op
      /\ st \in {"success", "error", "full", "notfound"}
  BY DEF IInv, DataOK, Store
<1>2. op' = op /\ UNCHANGED <<phase, caller, sets, crashes>>
  BY DEF ForgetReclaim
<1>3. pc' \in Quiet /\ pc' \in Labels /\ st' = st
  BY DEF ForgetReclaim, Goto, Quiet, Labels
<1>4. CASE NeedDoReclaim /\ ClearBits(FindVariable(View, NeedReclaim), {"deleted"})
  <2>1. FindVariable(View, NeedReclaim) = FindVariable(list, NeedReclaim)
    BY <1>1, ViewFinds
  <2>2. Newest(list, NeedReclaim, FindVariable(list, NeedReclaim))
    BY <1>1, FindVariableIs, VariableAssumption
  <2>3. FindVariable(View, NeedReclaim) \in DOMAIN list
    BY <1>1, <1>4, <2>1, <2>2, FoundCopy DEF NeedDoReclaim
  <2> QED BY <1>1, <1>2, <1>3, <1>4, <2>3, KillsAndReturns
<1>5. CASE AccessFails
  BY <1>1, <1>2, <1>3, <1>5, GivesUp
<1>6. CASE UNCHANGED <<flash, cache, errors, misses>>
  <2>1. UNCHANGED <<flash, cache>> /\ UNCHANGED <<phase, caller, bounds>>
    BY <1>2, <1>6 DEF bounds
  <2>2. DataOK' /\ Store'
    BY <1>1, <1>2, <1>3, <2>1, NoAccess
  <2> QED BY <1>3, <2>2, Landing
<1> QED BY <1>4, <1>5, <1>6 DEF ForgetReclaim

LEMMA BootKeeps ==
  ASSUME IInv, Boot
  PROVE  IInv'
<1>1. /\ DataOK /\ Store
      /\ list \in Seq(Copy) /\ Used(list) =< Capacity /\ Ordered(list) /\ Whole(list)
      /\ op \in Op /\ errors \in 0 .. MaxErrors /\ misses \in 0 .. MaxMisses
      /\ tail \in {"clean", "dirty"} /\ st \in {"success", "error", "full", "notfound"}
  BY DEF IInv, DataOK, Store
<1>2. /\ op' = op /\ UNCHANGED <<phase, caller, sets, crashes>>
      /\ list' = list /\ tail' = tail /\ cache' = list /\ errors' = errors /\ misses' = misses
  BY DEF Boot, flash, bounds
<1>3. pc' \in Quiet /\ pc' \in Labels /\ st' = st
  BY DEF Boot, Goto, Quiet, Labels
<1>4. DataOK'
  BY <1>1, <1>2, <1>3, DataStep
<1>5. Store'
  BY <1>1, <1>2, MirrorsItself DEF Store
<1> QED BY <1>3, <1>4, <1>5, Landing

\* What a loss of power leaves is a list that can be booted from.
Sound(l, t) ==
  /\ l \in Seq(Copy) /\ Used(l) =< Capacity /\ Ordered(l) /\ Whole(l)
  /\ t \in {"clean", "dirty"}

LEMMA TornIsSound ==
  ASSUME IInv, NEW f \in Torn
  PROVE  Sound(f[1], f[2])
<1>1. /\ list \in Seq(Copy) /\ Used(list) =< Capacity /\ Ordered(list) /\ Whole(list)
      /\ op \in Op /\ tail \in {"clean", "dirty"} /\ Soiled = "dirty" /\ Used(list) \in Nat
  BY UsedNat DEF IInv, DataOK, Store, Soiled
<1>2. Sound(list, tail) /\ Sound(list, Soiled) /\ Sound(flash[1], flash[2])
  BY <1>1 DEF Sound, flash
<1>3. CASE pc = "header"
  <2>1. f \in HeaderTorn
    BY <1>3 DEF Torn
  <2>2. Fits(list, op.name)
    BY <1>3 DEF IInv, Local
  <2>3. CASE f = <<Append(list, NewCopy({})), tail>>
    <3> DEFINE c == NewCopy({})
               m == Append(list, c)
    <3>1. c \in Copy /\ c.name = op.name /\ ~IsLive(c)
      BY <1>1, NewCopyIs
    <3> HIDE DEF c
    <3>2. m \in Seq(Copy) /\ Used(m) = Used(list) + Size[op.name] /\ \A n : Agree(list, m, n)
      BY <1>1, <3>1, AppendIs
    <3> HIDE DEF m
    <3>3. Ordered(m) /\ Whole(m)
      BY <1>1, <3>2, Agreeing
    <3>4. Used(m) =< Capacity
      BY <2>2, <3>2 DEF Fits
    <3>5. f[1] = m /\ f[2] = tail
      BY <2>3 DEF m, c
    <3> QED BY <1>1, <3>2, <3>3, <3>4, <3>5 DEF Sound
  <2> QED BY <1>2, <2>1, <2>3 DEF HeaderTorn
<1>4. CASE pc = "data"
  <2>1. f \in DataTorn
    BY <1>4 DEF Torn
  <2>2. Placed(HeaderValidOnly)
    BY <1>4 DEF IInv, Local
  <2>3. CASE op.at \in DOMAIN list /\ f = <<[list EXCEPT ![op.at].val = Broken], tail>>
    <3> DEFINE m == SetVal(list, op.at, Broken)
    <3>1. list[op.at].state = HeaderValidOnly
      <4>1. op.at # Len(list) + 1
        BY <1>1, <2>3
      <4> QED BY <2>2, <4>1 DEF Placed
    <3>2. Broken \in Values \cup {Blank, Broken}
      OBVIOUS
    <3>3. /\ m \in Seq(Copy) /\ DOMAIN m = DOMAIN list /\ Used(m) = Used(list)
          /\ \A j \in DOMAIN list : j # op.at => m[j] = list[j]
          /\ m[op.at] = [name |-> list[op.at].name, val |-> Broken, state |-> list[op.at].state]
      BY <1>1, <2>3, <3>2, SetValIs
    <3>4. f[1] = m /\ f[2] = tail
      BY <2>3 DEF SetVal
    <3> HIDE DEF m
    <3>5. ~IsLive(list[op.at]) /\ ~IsLive(m[op.at])
      BY <3>1, <3>3, States DEF IsLive
    <3>6. \A n : Agree(list, m, n)
      BY <2>3, <3>3, <3>5, DeadAgrees
    <3>7. Ordered(m) /\ Whole(m)
      BY <1>1, <3>3, <3>6, Agreeing
    <3> QED BY <1>1, <3>3, <3>4, <3>7 DEF Sound
  <2> QED BY <1>2, <2>1, <2>3 DEF DataTorn
<1>5. CASE pc = "ftw"
  <2>1. f = flash \/ f = <<WithNew(list, op.name, op.val), "clean">>
    BY <1>5 DEF Torn
  <2>2. op.name \in Names /\ op.val \in Values
    BY <1>1, <1>5, OpIs DEF IInv, Local, Marked
  <2>3. Sound(WithNew(list, op.name, op.val), "clean")
    BY <1>1, <2>2, WithNewGood DEF Sound
  <2> QED BY <1>2, <2>1, <2>3
<1>6. CASE pc = "retry"
  <2> DEFINE r == Reclaimed(list, op.cur, TRUE)
  <2>1. f = flash \/ f = <<r, "clean">>
    BY <1>6 DEF Torn
  <2>2. r \in Seq(Copy) /\ Ordered(r) /\ Whole(r) /\ Used(r) =< Used(list)
    BY <1>1, ReclaimedIs
  <2> HIDE DEF r
  <2>3. Used(r) =< Capacity
    BY <1>1, <2>2, UsedNat, VariableAssumption
  <2>4. Sound(r, "clean")
    BY <2>2, <2>3 DEF Sound
  <2> QED BY <1>2, <2>1, <2>4
<1>7. CASE pc = "reclaim"
  <2> DEFINE r == Reclaimed(list, 0, FALSE)
  <2>1. f = flash \/ f = <<r, "clean">>
    BY <1>7 DEF Torn
  <2>2. r \in Seq(Copy) /\ Ordered(r) /\ Whole(r) /\ Used(r) =< Used(list)
    BY <1>1, ReclaimedIs
  <2> HIDE DEF r
  <2>3. Used(r) =< Capacity
    BY <1>1, <2>2, UsedNat, VariableAssumption
  <2>4. Sound(r, "clean")
    BY <2>2, <2>3 DEF Sound
  <2> QED BY <1>2, <2>1, <2>4
<1>8. CASE pc \notin {"header", "data", "ftw", "retry", "reclaim"}
  <2>1. f = flash
    BY <1>8 DEF Torn
  <2> QED BY <1>2, <2>1
<1> QED BY <1>3, <1>4, <1>5, <1>6, <1>7, <1>8

LEMMA CrashKeeps ==
  ASSUME IInv, Crash
  PROVE  IInv'
<1>1. DataOK /\ NoOp \in Op
  BY OpIs DEF IInv, DataOK
<1>2. PICK f \in Torn : list' = f[1] /\ tail' = f[2]
  BY DEF Crash, FlashIn
<1>3. Sound(list', tail')
  BY <1>2, TornIsSound
<1>4. /\ cache' = Off /\ phase' = "post" /\ pc' = "boot" /\ st' = "success"
      /\ req' = NoRequest /\ reply' = "none" /\ op' = NoOp
      /\ sets' = sets /\ errors' = errors /\ misses' = misses
  BY DEF Crash
<1>5. crashes' \in 0 .. MaxCrashes
  <2>1. crashes' = crashes + 1 /\ crashes < MaxCrashes
    BY DEF Crash
  <2>2. crashes \in Nat /\ MaxCrashes \in Nat
    BY <1>1, VariableAssumption DEF DataOK
  <2> QED BY <2>1, <2>2
<1>6. DataOK'
  BY <1>1, <1>3, <1>4, <1>5 DEF DataOK, Sound, Labels
<1>7. Store'
  BY <1>3, <1>4 DEF Store, Sound
<1> QED BY <1>4, <1>6, <1>7, Landing DEF Quiet

-----------------------------------------------------------------------------
(* The theorems.                                                              *)

LEMMA InitIInv ==
  ASSUME Init
  PROVE  IInv
<1>1. /\ list = <<>> /\ tail = "clean" /\ cache = Off /\ phase = "post"
      /\ pc = "boot" /\ st = "success" /\ req = NoRequest /\ reply = "none" /\ op = NoOp
      /\ sets = 0 /\ crashes = 0 /\ errors = 0 /\ misses = 0
  BY DEF Init
<1>2. list \in Seq(Copy) /\ DOMAIN list = {} /\ Used(list) = 0
  BY <1>1, UsedEmpty
<1>3. NoOp \in Op
  BY OpIs, VariableAssumption DEF Op, NoOp, MaxTry
<1>4. DataOK
  BY <1>1, <1>2, <1>3, VariableAssumption DEF DataOK, Labels
<1>5. Ordered(list) /\ Whole(list)
  BY <1>2, CopiesIn DEF Ordered, Whole
<1>6. Store
  BY <1>1, <1>5 DEF Store
<1>7. Local
  BY <1>1 DEF Local
<1> QED BY <1>4, <1>6, <1>7 DEF IInv

LEMMA StutterKeeps ==
  ASSUME IInv, UNCHANGED vars
  PROVE  IInv'
<1>1. /\ list' = list /\ tail' = tail /\ cache' = cache /\ phase' = phase /\ pc' = pc
      /\ st' = st /\ req' = req /\ reply' = reply /\ op' = op /\ sets' = sets
      /\ crashes' = crashes /\ errors' = errors /\ misses' = misses
  BY DEF vars
<1>2. DataOK'
  BY <1>1 DEF IInv, DataOK
<1>3. Store'
  BY <1>1 DEF IInv, Store
<1>4. Local'
  BY <1>1 DEF IInv, Local, Found, Marked, SameLength, Placed, Attempt, IsCorrectVariable
<1> QED BY <1>2, <1>3, <1>4 DEF IInv

LEMMA NextKeeps ==
  ASSUME IInv, Dependable, Next
  PROVE  IInv'
<1>1. CASE DeleteAllOldVariable
  BY <1>1, DeleteAllOldVariableKeeps
<1>2. CASE UpdateNothing
  BY <1>2, UpdateNothingKeeps
<1>3. CASE DeleteVariable
  BY <1>3, DeleteVariableKeeps
<1>4. CASE MarkOld
  BY <1>4, MarkOldKeeps
<1>5. CASE SyncCache
  BY <1>5, SyncCacheKeeps
<1>6. CASE CheckRoom
  BY <1>6, CheckRoomKeeps
<1>7. CASE ReclaimNonVolatileVariable
  BY <1>7, ReclaimNonVolatileVariableKeeps
<1>8. CASE SetDoReclaimNextBoot
  BY <1>8, SetDoReclaimNextBootKeeps
<1>9. CASE WriteHeader
  BY <1>9, WriteHeaderKeeps
<1>10. CASE WriteHeaderValid
  BY <1>10, WriteHeaderValidKeeps
<1>11. CASE WriteData
  BY <1>11, WriteDataKeeps
<1>12. CASE Retry
  BY <1>12, RetryKeeps
<1>13. CASE WriteAdded
  BY <1>13, WriteAddedKeeps
<1>14. CASE DeleteOld
  BY <1>14, DeleteOldKeeps
<1>15. CASE Done
  BY <1>15, DoneKeeps
<1>16. CASE Reclaim
  BY <1>16, ReclaimKeeps
<1>17. CASE ForgetReclaim
  BY <1>17, ForgetReclaimKeeps
<1>18. CASE Boot
  BY <1>18, BootKeeps
<1>19. CASE SetVariable
  BY <1>19, SetVariableKeeps
<1>20. CASE ReclaimForOS
  BY <1>20, ReclaimForOSKeeps
<1>21. CASE Crash
  BY <1>21, CrashKeeps
<1>22. Driver =>
         \/ DeleteAllOldVariable \/ UpdateNothing \/ DeleteVariable \/ MarkOld
         \/ SyncCache \/ CheckRoom \/ ReclaimNonVolatileVariable \/ SetDoReclaimNextBoot
         \/ WriteHeader \/ WriteHeaderValid \/ WriteData \/ Retry \/ WriteAdded
         \/ DeleteOld \/ Done \/ Reclaim \/ ForgetReclaim \/ Boot
  BY DEF Driver
<1> QED BY <1>1, <1>2, <1>3, <1>4, <1>5, <1>6, <1>7, <1>8, <1>9, <1>10, <1>11, <1>12,
           <1>13, <1>14, <1>15, <1>16, <1>17, <1>18, <1>19, <1>20, <1>21, <1>22 DEF Next

(* If what reports success has been written, and there is a table of preserved *)
(* variables, then whatever accesses fail and whenever power is lost in         *)
(* UpdateVariable or Reclaim, the copies in flash stay in order,                *)
(* NonVolatileVariableCache mirrors them, and CurrVariable, the next offset and *)
(* the number of tries are what the next step relies on.                        *)
THEOREM Invariance == Spec /\ Dependable => []IInv
<1>1. Init => IInv
  BY InitIInv
<1>2. IInv /\ Dependable /\ [Next]_vars => IInv'
  BY NextKeeps, StutterKeeps
<1>3. Dependable' <=> Dependable
  BY DEF Dependable
<1> QED BY <1>1, <1>2, <1>3, PTL DEF Spec

(* No path of UpdateVariable, ReclaimNonVolatileVariable or Reclaim writes   *)
(* past the end of the store, and every variable keeps its type.             *)
THEOREM TypeCorrect == Spec /\ Dependable => []TypeOK
<1>1. IInv => TypeOK
  BY DEF IInv, DataOK, TypeOK
<1> QED BY <1>1, Invariance, PTL

LEMMA ReadsAlike ==
  ASSUME NEW l \in Seq(Copy), NEW c \in Seq(Copy), NEW n \in Names, Mirrors(c, l), Ordered(l)
  PROVE  Value(c, n) = Value(l, n)
<1>1. FindVariable(c, n) = FindVariable(l, n)
  BY MirrorsFind
<1>2. CASE FindVariable(l, n) = 0
  BY <1>1, <1>2 DEF Value
<1>3. CASE FindVariable(l, n) # 0
  <2>1. FindVariable(l, n) \in LiveCopies(l, n)
    BY <1>3, FindVariableIs DEF Newest
  <2>2. c[FindVariable(l, n)] = l[FindVariable(l, n)]
    BY <2>1, MirrorsCopies
  <2> QED BY <1>1, <1>3, <2>2 DEF Value
<1> QED BY <1>2, <1>3

(* GetVariable, which is served from NonVolatileVariableCache, finds what it *)
(* would find in flash: in the midst of an update, after a write that was    *)
(* tried again, and with a header in the cache that flash did not take.      *)
THEOREM CacheCorrect == Spec /\ Dependable => []CacheTellsTheTruth
<1>1. IInv => CacheTellsTheTruth
  <2>1. SUFFICES ASSUME IInv, cache # Off, NEW n \in Names
                 PROVE  Value(cache, n) = Value(list, n)
    BY DEF CacheTellsTheTruth
  <2>2. cache \in Seq(Copy) /\ list \in Seq(Copy) /\ Mirrors(cache, list) /\ Ordered(list)
    BY <2>1 DEF IInv, DataOK, Store
  <2> QED BY <2>2, ReadsAlike
<1> QED BY <1>1, Invariance, PTL

(* However an update or a reclaim has ended, and whatever the next ones find *)
(* of it, UpdateVariable never adds a copy beside one that is still added.   *)
THEOREM OneAddedCorrect == Spec /\ Dependable => []OneAddedCopy
<1>1. IInv => OneAddedCopy
  <2>1. SUFFICES ASSUME IInv, NEW n \in Names
                 PROVE  Cardinality(AddedCopies(list, n)) =< 1
    BY DEF OneAddedCopy
  <2>2. list \in Seq(Copy) /\ Ordered(list)
    BY <2>1 DEF IInv, DataOK, Store
  <2>3. \A i, j \in AddedCopies(list, n) : i = j
    <3>1. SUFFICES ASSUME NEW i \in AddedCopies(list, n), NEW j \in AddedCopies(list, n)
                   PROVE  i = j
      OBVIOUS
    <3>2. i \in LiveCopies(list, n) /\ j \in LiveCopies(list, n)
      BY CopiesIn
    <3>3. i =< j /\ j =< i
      BY <2>2, <3>1, <3>2 DEF Ordered
    <3>4. i \in DOMAIN list /\ j \in DOMAIN list
      BY CopiesIn
    <3>5. i \in Nat /\ j \in Nat
      BY <2>2, <3>4
    <3> QED BY <3>3, <3>5
  <2>4. CASE AddedCopies(list, n) = {}
    BY <2>4, FS_EmptySet
  <2>5. CASE AddedCopies(list, n) # {}
    <3>1. PICK i : AddedCopies(list, n) = {i}
      BY <2>3, <2>5
    <3>2. Cardinality({i}) = 1
      BY FS_Singleton
    <3> QED BY <3>1, <3>2
  <2> QED BY <2>4, <2>5
<1> QED BY <1>1, Invariance, PTL
=============================================================================
