-------------------------- MODULE VariableMap_proofs --------------------------
(* VariableStore implements VariableMap, and a call that is refused for want *)
(* of room is refused for a reason and is remembered: proofs for any         *)
(* variables, sizes and values, and any number of calls, losses of power and *)
(* accesses that report an error.                                            *)
EXTENDS VariableStore_proofs

-----------------------------------------------------------------------------
(* What some of the copies of a list take.                                    *)

\* f counts, up to each index, the copies whose index is in A.
Counts(f, l, A, n) ==
  f[0] = 0 /\ \A k \in 1..n : f[k] = f[k - 1] + IF k \in A THEN Size[l[k].name] ELSE 0

LEMMA SizeNat ==
  ASSUME NEW l \in Seq(Copy), NEW i \in DOMAIN l
  PROVE  Size[l[i].name] \in Nat /\ l[i].name \in Names
<1>1. l[i] \in Copy
  OBVIOUS
<1>2. l[i].name \in Names
  BY <1>1 DEF Copy
<1> QED BY <1>2, VariableAssumption

LEMMA CountsExist ==
  ASSUME NEW l \in Seq(Copy), NEW A, NEW n \in Nat, n =< Len(l)
  PROVE  \E f \in [0..n -> Nat] : Counts(f, l, A, n)
<1> DEFINE P(m) == m =< Len(l) => \E f \in [0..m -> Nat] : Counts(f, l, A, m)
           S == {m \in Nat : P(m)}
<1>1. 0 \in S
  <2> DEFINE h == [k \in 0..0 |-> 0]
  <2>1. h \in [0..0 -> Nat] /\ h[0] = 0
    OBVIOUS
  <2> HIDE DEF h
  <2>2. Counts(h, l, A, 0)
    BY <2>1 DEF Counts
  <2> QED BY <2>1, <2>2
<1>2. ASSUME NEW m \in S
      PROVE  m + 1 \in S
  <2>1. m \in Nat /\ P(m) /\ m + 1 \in Nat
    OBVIOUS
  <2> SUFFICES P(m + 1)
    BY <2>1
  <2>2. SUFFICES ASSUME m + 1 =< Len(l)
                 PROVE  \E f \in [0..m + 1 -> Nat] : Counts(f, l, A, m + 1)
    OBVIOUS
  <2>3. m =< Len(l) /\ m + 1 \in DOMAIN l
    BY <2>1, <2>2
  <2>4. PICK g \in [0..m -> Nat] : Counts(g, l, A, m)
    BY <2>1, <2>3
  <2> DEFINE x == IF m + 1 \in A THEN Size[l[m + 1].name] ELSE 0
  <2>6. x \in Nat
    BY <2>3, SizeNat
  <2> DEFINE h == [k \in 0..m + 1 |-> IF k = m + 1 THEN g[m] + x ELSE g[k]]
  <2>5. m \in 0..m /\ 0 \in 0..m /\ g[m] \in Nat /\ \A k \in 0..m : g[k] \in Nat
    BY <2>1, <2>4
  <2> HIDE DEF x
  <2>7. h \in [0..m + 1 -> Nat]
    <3>1. \A k \in 0..m + 1 : k # m + 1 => k \in 0..m
      BY <2>1
    <3>3. g[m] + x \in Nat
      BY <2>6, <2>5
    <3> QED BY <3>1, <2>5, <3>3
  <2>8. /\ \A k \in 0..m : h[k] = g[k]
        /\ h[m + 1] = g[m] + x
    <3>1. \A k \in 0..m : k \in 0..m + 1 /\ k # m + 1
      BY <2>1
    <3>2. m + 1 \in 0..m + 1
      BY <2>1
    <3> QED BY <3>1, <3>2
  <2> HIDE DEF h
  <2>9. h[0] = 0
    BY <2>8, <2>5, <2>4 DEF Counts
  <2>10. ASSUME NEW k \in 1..m + 1
         PROVE  h[k] = h[k - 1] + IF k \in A THEN Size[l[k].name] ELSE 0
    <3>1. CASE k = m + 1
      <4>1. k - 1 = m
        BY <2>1, <3>1
      <4> QED BY <3>1, <4>1, <2>8, <2>5 DEF x
    <3>2. CASE k # m + 1
      <4>1. k \in 1..m /\ k \in 0..m /\ k - 1 \in 0..m
        BY <2>1, <3>2
      <4>2. g[k] = g[k - 1] + IF k \in A THEN Size[l[k].name] ELSE 0
        BY <2>4, <4>1 DEF Counts
      <4> QED BY <4>1, <4>2, <2>8
    <3> QED BY <3>1, <3>2
  <2>11. Counts(h, l, A, m + 1)
    BY <2>9, <2>10 DEF Counts
  <2> QED BY <2>7, <2>11
<1> HIDE DEF P
<1>3. S = Nat
  BY <1>1, <1>2, SetInduction
<1>4. P(n)
  BY <1>3
<1> QED BY <1>4 DEF P

\* What the copies in A take.
Takes(l, A) == (CHOOSE f \in [0..Len(l) -> Nat] : Counts(f, l, A, Len(l)))[Len(l)]

LEMMA TakesIs ==
  ASSUME NEW l \in Seq(Copy), NEW A
  PROVE  \E f \in [0..Len(l) -> Nat] : Counts(f, l, A, Len(l)) /\ Takes(l, A) = f[Len(l)]
<1>1. Len(l) \in Nat /\ Len(l) =< Len(l)
  OBVIOUS
<1>2. \E f \in [0..Len(l) -> Nat] : Counts(f, l, A, Len(l))
  BY <1>1, CountsExist
<1> QED BY <1>2 DEF Takes

LEMMA TakesNat ==
  ASSUME NEW l \in Seq(Copy), NEW A
  PROVE  Takes(l, A) \in Nat
<1>1. PICK f \in [0..Len(l) -> Nat] : Takes(l, A) = f[Len(l)]
  BY TakesIs
<1>2. Len(l) \in 0..Len(l)
  OBVIOUS
<1> QED BY <1>1, <1>2

LEMMA TakesNothing ==
  ASSUME NEW l \in Seq(Copy)
  PROVE  Takes(l, {}) = 0
<1>1. PICK f \in [0..Len(l) -> Nat] : Counts(f, l, {}, Len(l)) /\ Takes(l, {}) = f[Len(l)]
  BY TakesIs
<1> DEFINE S == {k \in Nat : k =< Len(l) => f[k] = 0}
<1>2. 0 \in S
  BY <1>1 DEF Counts
<1>3. ASSUME NEW k \in S
      PROVE  k + 1 \in S
  <2>1. SUFFICES ASSUME k + 1 =< Len(l)
                 PROVE  f[k + 1] = 0
    OBVIOUS
  <2>2. k \in Nat /\ k + 1 \in 1..Len(l) /\ (k + 1) - 1 = k /\ k =< Len(l)
    BY <2>1
  <2>3. f[k] = 0
    BY <2>2
  <2>4. f[k + 1] = f[k] + 0
    BY <1>1, <2>2 DEF Counts
  <2> QED BY <2>3, <2>4
<1>4. S = Nat
  <2>1. S \in SUBSET Nat
    OBVIOUS
  <2> HIDE DEF S
  <2> QED BY <1>2, <1>3, <2>1, SetInduction
<1>5. Len(l) \in S /\ Len(l) =< Len(l)
  <2> HIDE DEF S
  <2> QED BY <1>4
<1> QED BY <1>1, <1>5

\* One copy less.
LEMMA TakesLess ==
  ASSUME NEW l \in Seq(Copy), NEW A, NEW i \in DOMAIN l, i \in A
  PROVE  Takes(l, A) = Size[l[i].name] + Takes(l, A \ {i})
<1>1. PICK f \in [0..Len(l) -> Nat] : Counts(f, l, A, Len(l)) /\ Takes(l, A) = f[Len(l)]
  BY TakesIs
<1>2. PICK g \in [0..Len(l) -> Nat] : /\ Counts(g, l, A \ {i}, Len(l))
                                      /\ Takes(l, A \ {i}) = g[Len(l)]
  BY TakesIs
<1>3. Size[l[i].name] \in Nat
  BY SizeNat
<1>4. PICK N \in Nat : N = Len(l) /\ DOMAIN l = 1..N
  OBVIOUS
<1> DEFINE S == {k \in Nat : k =< N => f[k] = g[k] + IF i =< k THEN Size[l[i].name] ELSE 0}
<1>5. 0 \in S
  <2>1. ~(i =< 0)
    BY <1>4
  <2>2. f[0] = 0 /\ g[0] = 0
    BY <1>1, <1>2 DEF Counts
  <2> QED BY <2>1, <2>2
<1>6. ASSUME NEW k \in S
      PROVE  k + 1 \in S
  <2>1. SUFFICES ASSUME k + 1 =< N
                 PROVE  f[k + 1] = g[k + 1] + IF i =< k + 1 THEN Size[l[i].name] ELSE 0
    OBVIOUS
  <2>2. k \in Nat /\ k + 1 \in 1..N /\ (k + 1) - 1 = k /\ k =< N /\ k \in 0..N /\ i \in Nat
    BY <2>1, <1>4
  <2>3. f[k] = g[k] + IF i =< k THEN Size[l[i].name] ELSE 0
    BY <2>2
  <2>4. f[k + 1] = f[k] + IF k + 1 \in A THEN Size[l[k + 1].name] ELSE 0
    BY <1>1, <1>4, <2>2 DEF Counts
  <2>5. g[k + 1] = g[k] + IF k + 1 \in A \ {i} THEN Size[l[k + 1].name] ELSE 0
    BY <1>2, <1>4, <2>2 DEF Counts
  <2>6. g[k] \in Nat /\ Size[l[k + 1].name] \in Nat
    <3>1. k + 1 \in DOMAIN l
      BY <1>4, <2>2
    <3>2. g[k] \in Nat
      BY <1>4, <2>2
    <3> QED BY <3>1, <3>2, SizeNat
  <2>7. CASE k + 1 = i
    <3>1. i =< k + 1 /\ ~(i =< k) /\ k + 1 \in A /\ k + 1 \notin A \ {i}
      BY <2>2, <2>7
    <3> QED BY <3>1, <2>7, <2>3, <2>4, <2>5, <2>6, <1>3
  <2>8. CASE k + 1 # i
    <3>1. i =< k + 1 <=> i =< k
      BY <2>2, <2>8
    <3>2. k + 1 \in A <=> k + 1 \in A \ {i}
      BY <2>8
    <3> QED BY <3>1, <3>2, <2>3, <2>4, <2>5, <2>6, <1>3
  <2> QED BY <2>7, <2>8
<1>7. S = Nat
  <2>1. S \in SUBSET Nat
    OBVIOUS
  <2> HIDE DEF S
  <2> QED BY <1>5, <1>6, <2>1, SetInduction
<1>8. N \in S
  <2> HIDE DEF S
  <2> QED BY <1>7
<1>9. i =< N /\ N =< N /\ N \in 0..N
  BY <1>4
<1>10. f[N] = g[N] + Size[l[i].name]
  BY <1>8, <1>9
<1>11. g[N] \in Nat
  BY <1>4, <1>9
<1> QED BY <1>1, <1>2, <1>3, <1>4, <1>10, <1>11

LEMMA TakesAll ==
  ASSUME NEW l \in Seq(Copy)
  PROVE  Takes(l, DOMAIN l) = Used(l)
<1>1. PICK f \in [0..Len(l) -> Nat] :
        Counts(f, l, DOMAIN l, Len(l)) /\ Takes(l, DOMAIN l) = f[Len(l)]
  BY TakesIs
<1>2. PICK g : Offsets(g, l) /\ Used(l) = g[Len(l)]
  BY UsedIs
<1>3. Len(l) \in Nat /\ \A k \in 1..Len(l) : k \in DOMAIN l
  OBVIOUS
<1>4. Adds(f, l, Len(l))
  BY <1>1, <1>3 DEF Counts, Adds
<1>5. Adds(g, l, Len(l))
  BY <1>2 DEF Offsets
<1>6. f[Len(l)] = g[Len(l)]
  BY <1>3, <1>4, <1>5, OffsetsUnique
<1> QED BY <1>1, <1>2, <1>6

-----------------------------------------------------------------------------
(* The sum over a set of variables that VariableMap takes.                    *)

\* f adds up the sizes, an element at a time.
Weighs(f, S) ==
  f = [s \in SUBSET S |-> IF s = {} THEN 0 ELSE
         LET x == CHOOSE y \in s : TRUE IN Size[x] + f[s \ {x}]]

Others(m, n) == {k \in Names \ {n} : m[k] # Absent}

LEMMA OccupiedFolds ==
  ASSUME NEW m, NEW n
  PROVE  Map!Occupied(m, n) = (CHOOSE f : Weighs(f, Others(m, n)))[Others(m, n)]
BY DEF Map!Occupied, Map!MapThenSumSet, Map!MapThenFoldSet, Weighs, Others

NamesOf(l) == {l[i].name : i \in DOMAIN l}

Named(l, s) == {i \in DOMAIN l : l[i].name \in s}

\* The copy at i is that of x.
IsCopyOf(l, s, x, i) ==
  /\ i \in DOMAIN l /\ i \in Named(l, s) /\ l[i].name = x
  /\ Named(l, s \ {x}) = Named(l, s) \ {i}

LEMMA NamedElement ==
  ASSUME NEW l \in Seq(Copy), Once(l), NEW s \in SUBSET NamesOf(l), NEW x \in s
  PROVE  \E i : IsCopyOf(l, s, x, i)
<1>1. PICK i \in DOMAIN l : l[i].name = x
  BY DEF NamesOf
<1>2. i \in Named(l, s)
  BY <1>1 DEF Named
<1>3. \A j \in DOMAIN l : l[j].name = x => j = i
  BY <1>1 DEF Once
<1>4. Named(l, s \ {x}) = Named(l, s) \ {i}
  BY <1>1, <1>3 DEF Named
<1> QED BY <1>1, <1>2, <1>4 DEF IsCopyOf

LEMMA NamedIs ==
  ASSUME NEW l \in Seq(Copy), Once(l), NEW s \in SUBSET NamesOf(l)
  PROVE  /\ s = {} <=> Named(l, s) = {}
         /\ IsFiniteSet(Named(l, s)) /\ Cardinality(Named(l, s)) \in Nat
<1>1. ASSUME NEW x \in s
      PROVE  Named(l, s) # {}
  <2>1. PICK i : IsCopyOf(l, s, x, i)
    BY NamedElement
  <2> QED BY <2>1 DEF IsCopyOf
<1>2. s = {} => Named(l, s) = {}
  BY DEF Named
<1>3. IsFiniteSet(Named(l, s))
  <2>1. Named(l, s) \in SUBSET (1..Len(l)) /\ Len(l) \in Nat
    BY DEF Named
  <2>2. IsFiniteSet(1..Len(l))
    BY <2>1, FS_Interval
  <2> QED BY <2>1, <2>2, FS_Subset
<1>4. Cardinality(Named(l, s)) \in Nat
  BY <1>3, FS_CardinalityType
<1> QED BY <1>1, <1>2, <1>3, <1>4

\* The copies of the variables in s.
Weight(l) == [s \in SUBSET NamesOf(l) |-> Takes(l, Named(l, s))]

LEMMA WeightSteps ==
  ASSUME NEW l \in Seq(Copy), Once(l), NEW s \in SUBSET NamesOf(l)
  PROVE  /\ s = {} => Weight(l)[s] = 0
         /\ \A x \in s : Weight(l)[s] = Size[x] + Weight(l)[s \ {x}]
<1>1. Weight(l)[s] = Takes(l, Named(l, s))
  BY DEF Weight
<1>2. s = {} => Weight(l)[s] = 0
  <2>1. s = {} => Named(l, s) = {}
    BY DEF Named
  <2> QED BY <1>1, <2>1, TakesNothing
<1>3. ASSUME NEW x \in s
      PROVE  Weight(l)[s] = Size[x] + Weight(l)[s \ {x}]
  <2>1. PICK i : IsCopyOf(l, s, x, i)
    BY NamedElement
  <2>2. /\ i \in DOMAIN l /\ i \in Named(l, s) /\ l[i].name = x
        /\ Named(l, s \ {x}) = Named(l, s) \ {i}
    BY <2>1 DEF IsCopyOf
  <2>3. Takes(l, Named(l, s)) = Size[l[i].name] + Takes(l, Named(l, s) \ {i})
    <3>1. PICK A : A = Named(l, s)
      OBVIOUS
    <3>2. i \in A
      BY <2>2, <3>1
    <3>3. Takes(l, A) = Size[l[i].name] + Takes(l, A \ {i})
      BY <2>2, <3>2, TakesLess
    <3> QED BY <3>1, <3>3
  <2>4. s \ {x} \in SUBSET NamesOf(l)
    OBVIOUS
  <2>5. Weight(l)[s \ {x}] = Takes(l, Named(l, s \ {x}))
    BY <2>4 DEF Weight
  <2> QED BY <1>1, <2>2, <2>3, <2>5
<1> QED BY <1>2, <1>3

LEMMA WeightWeighs ==
  ASSUME NEW l \in Seq(Copy), Once(l)
  PROVE  Weighs(Weight(l), NamesOf(l))
<1> DEFINE R(s) == IF s = {} THEN 0 ELSE
                     LET x == CHOOSE y \in s : TRUE IN Size[x] + Weight(l)[s \ {x}]
<1>1. ASSUME NEW s \in SUBSET NamesOf(l)
      PROVE  Weight(l)[s] = R(s)
  <2>1. CASE s = {}
    BY <2>1, WeightSteps
  <2>2. CASE s # {}
    <3>1. PICK x : x = CHOOSE y \in s : TRUE
      OBVIOUS
    <3>2. x \in s
      BY <2>2, <3>1
    <3>3. Weight(l)[s] = Size[x] + Weight(l)[s \ {x}]
      BY <3>2, WeightSteps
    <3>4. R(s) = Size[x] + Weight(l)[s \ {x}]
      BY <2>2, <3>1
    <3> QED BY <3>3, <3>4
  <2> QED BY <2>1, <2>2
<1>2. Weight(l) = [s \in SUBSET NamesOf(l) |-> Weight(l)[s]]
  BY DEF Weight
<1>3. Weight(l) = [s \in SUBSET NamesOf(l) |-> R(s)]
  <2> HIDE DEF R
  <2> QED BY <1>1, <1>2
<1> QED BY <1>3 DEF Weighs

\* There is no other way of adding up.
LEMMA WeighsUnique ==
  ASSUME NEW l \in Seq(Copy), Once(l), NEW f, Weighs(f, NamesOf(l)),
         NEW s \in SUBSET NamesOf(l)
  PROVE  f[s] = Weight(l)[s]
<1> DEFINE T == NamesOf(l)
           Q(t) == f[t] = Weight(l)[t]
           S == {c \in Nat : \A t \in SUBSET T : Cardinality(Named(l, t)) = c => Q(t)}
<1> HIDE DEF T, Q
<1>1. ASSUME NEW t \in SUBSET T
      PROVE  /\ t = {} => f[t] = 0
             /\ t # {} => \E x \in t : f[t] = Size[x] + f[t \ {x}]
  <2>1. f[t] = IF t = {} THEN 0 ELSE
                 LET x == CHOOSE y \in t : TRUE IN Size[x] + f[t \ {x}]
    BY DEF Weighs, T
  <2>2. t # {} => (CHOOSE y \in t : TRUE) \in t
    OBVIOUS
  <2> QED BY <2>1, <2>2
<1>2. ASSUME NEW t \in SUBSET T, t = {}
      PROVE  Q(t)
  <2>1. f[t] = 0
    BY <1>1, <1>2
  <2>2. Weight(l)[t] = 0
    BY <1>2, WeightSteps DEF T
  <2> QED BY <2>1, <2>2 DEF Q
<1>3. ASSUME NEW t \in SUBSET T
      PROVE  /\ IsFiniteSet(Named(l, t)) /\ Cardinality(Named(l, t)) \in Nat
             /\ t = {} <=> Named(l, t) = {}
  BY NamedIs DEF T
<1>4. 0 \in S
  <2>1. ASSUME NEW t \in SUBSET T, Cardinality(Named(l, t)) = 0
        PROVE  Q(t)
    <3>1. Named(l, t) = {}
      BY <1>3, <2>1, FS_EmptySet
    <3> QED BY <1>2, <1>3, <3>1
  <2> QED BY <2>1
<1>5. ASSUME NEW c \in S
      PROVE  c + 1 \in S
  <2>1. c \in Nat /\ \A t \in SUBSET T : Cardinality(Named(l, t)) = c => Q(t)
    OBVIOUS
  <2>2. ASSUME NEW t \in SUBSET T, Cardinality(Named(l, t)) = c + 1
        PROVE  Q(t)
    <3>1. t # {}
      <4>1. Cardinality(Named(l, t)) # 0
        BY <2>1, <2>2
      <4> QED BY <4>1, <1>3, FS_EmptySet
    <3>2. PICK x \in t : f[t] = Size[x] + f[t \ {x}]
      BY <1>1, <3>1
    <3>3. Weight(l)[t] = Size[x] + Weight(l)[t \ {x}]
      BY WeightSteps DEF T
    <3>9. PICK i : IsCopyOf(l, t, x, i)
      BY NamedElement DEF T
    <3>4. i \in Named(l, t) /\ Named(l, t \ {x}) = Named(l, t) \ {i}
      BY <3>9 DEF IsCopyOf
    <3>5. PICK A : A = Named(l, t)
      OBVIOUS
    <3>6. Cardinality(Named(l, t \ {x})) = c
      <4>1. i \in A /\ IsFiniteSet(A) /\ Cardinality(A) = c + 1
        BY <1>3, <2>2, <3>4, <3>5
      <4>2. Cardinality(A \ {i}) = Cardinality(A) - 1
        BY <4>1, FS_RemoveElement
      <4>3. PICK n : n = Cardinality(A \ {i})
        OBVIOUS
      <4>4. n = c
        BY <2>1, <4>1, <4>2, <4>3
      <4>5. Cardinality(Named(l, t \ {x})) = n
        BY <3>4, <3>5, <4>3
      <4> QED BY <4>4, <4>5
    <3>7. t \ {x} \in SUBSET T
      OBVIOUS
    <3>8. Q(t \ {x})
      BY <2>1, <3>6, <3>7
    <3> QED BY <3>2, <3>3, <3>8 DEF Q
  <2>3. c + 1 \in Nat
    BY <2>1
  <2> QED BY <2>2, <2>3
<1>6. S = Nat
  <2>1. S \in SUBSET Nat
    OBVIOUS
  <2> HIDE DEF S
  <2> QED BY <1>4, <1>5, <2>1, SetInduction
<1>7. s \in SUBSET T
  BY DEF T
<1>8. Cardinality(Named(l, s)) \in S
  <2> HIDE DEF S
  <2> QED BY <1>3, <1>6, <1>7
<1>9. Q(s)
  BY <1>7, <1>8
<1> QED BY <1>9 DEF Q

\* What the others take is what a list with one copy of each of them takes.
LEMMA OccupiedIs ==
  ASSUME NEW l \in Seq(Copy), Once(l), NEW m, NEW n, NamesOf(l) = Others(m, n)
  PROVE  Map!Occupied(m, n) = Used(l)
<1> DEFINE f == CHOOSE g : Weighs(g, NamesOf(l))
<1>1. Weighs(f, NamesOf(l))
  BY WeightWeighs
<1>2. Map!Occupied(m, n) = f[NamesOf(l)]
  BY OccupiedFolds
<1> HIDE DEF f
<1>3. f[NamesOf(l)] = Weight(l)[NamesOf(l)]
  BY <1>1, WeighsUnique
<1>4. Weight(l)[NamesOf(l)] = Takes(l, Named(l, NamesOf(l)))
  BY DEF Weight
<1>5. Named(l, NamesOf(l)) = DOMAIN l
  BY DEF Named, NamesOf
<1> QED BY <1>2, <1>3, <1>4, <1>5, TakesAll

-----------------------------------------------------------------------------
(* What GetVariable finds, before and after an access.                        *)

SameValues(l, m) == \A a \in Names : Value(m, a) = Value(l, a)

\* n is v, and the others as before.
SetsValue(l, m, n, v) ==
  \A a \in Names : Value(m, a) = IF a = n THEN v ELSE Value(l, a)

LEMMA ValueIs ==
  ASSUME NEW l \in Seq(Copy), Ordered(l), NEW n \in Names, NEW k, Newest(l, n, k)
  PROVE  Value(l, n) = IF k = 0 THEN Absent ELSE l[k].val
<1>1. Newest(l, n, FindVariable(l, n))
  BY FindVariableIs
<1>2. FindVariable(l, n) = k
  BY <1>1, NewestUnique
<1> QED BY <1>2 DEF Value

LEMMA ValueThere ==
  ASSUME NEW l \in Seq(Copy), Ordered(l), Whole(l), NEW n \in Names, NEW k, Newest(l, n, k)
  PROVE  /\ k # 0 => Value(l, n) \in Values /\ Value(l, n) # Absent
         /\ k = 0 <=> Value(l, n) = Absent
<1>1. Value(l, n) = IF k = 0 THEN Absent ELSE l[k].val
  BY ValueIs
<1>2. k # 0 => k \in DOMAIN l /\ IsLive(l[k])
  BY FoundCopy
<1>3. k # 0 => l[k].val \in Values
  BY <1>2 DEF Whole
<1> QED BY <1>1, <1>3, VariableAssumption

LEMMA ValueType ==
  ASSUME NEW l \in Seq(Copy), Ordered(l), Whole(l), NEW n \in Names
  PROVE  Value(l, n) \in Values \cup {Absent}
<1>1. PICK k : Newest(l, n, k)
  BY FindVariableIs
<1> QED BY <1>1, ValueThere

LEMMA AgreeValues ==
  ASSUME NEW l, NEW m, NEW n, Agree(l, m, n), NEW k, k \in LiveCopies(l, n) \/ k = 0
  PROVE  /\ Newest(l, n, k) <=> Newest(m, n, k)
         /\ k # 0 => m[k] = l[k]
<1>1. LiveCopies(m, n) = LiveCopies(l, n) /\ \A i \in LiveCopies(l, n) : m[i] = l[i]
  BY SameCopies
<1> QED BY <1>1 DEF Newest

\* The newest copy is still the newest one, with the value it had.
LEMMA StillNewest ==
  ASSUME NEW l \in Seq(Copy), NEW m \in Seq(Copy), Ordered(l), Ordered(m), NEW n \in Names,
         NEW k, Newest(l, n, k), Newest(m, n, k), k # 0 => m[k].val = l[k].val
  PROVE  Value(m, n) = Value(l, n)
BY ValueIs

LEMMA AgreeingValues ==
  ASSUME NEW l \in Seq(Copy), NEW m \in Seq(Copy), \A n : Agree(l, m, n),
         Ordered(l), Whole(l)
  PROVE  SameValues(l, m)
<1>1. Ordered(m)
  BY Agreeing
<1>2. ASSUME NEW a \in Names
      PROVE  Value(m, a) = Value(l, a)
  <2>1. PICK k : Newest(l, a, k)
    BY FindVariableIs
  <2>2. k \in LiveCopies(l, a) \/ k = 0
    BY <2>1 DEF Newest
  <2>3. Newest(m, a, k) /\ (k # 0 => m[k] = l[k])
    BY <2>1, <2>2, AgreeValues
  <2> QED BY <1>1, <2>1, <2>3, StillNewest
<1> QED BY <1>2 DEF SameValues

LEMMA EditedVal ==
  ASSUME NEW l, NEW m, NEW i, NEW s, Edited(l, m, i, s), NEW k \in DOMAIN l
  PROVE  m[k].val = l[k].val
BY DEF Edited

\* A copy that is not the newest one is deleted.
LEMMA KillsOld ==
  ASSUME NEW l \in Seq(Copy), NEW m \in Seq(Copy), Ordered(l), Whole(l), NEW i, NEW s,
         s \notin Live, Edited(l, m, i, s), NEW n, l[i].name = n, NEW k, Newest(l, n, k), k # i
  PROVE  SameValues(l, m)
<1>1. Ordered(m) /\ \A a, j : Newest(l, a, j) /\ j # i => Newest(m, a, j)
  BY EditKills
<1>2. ASSUME NEW a \in Names
      PROVE  Value(m, a) = Value(l, a)
  <2>1. PICK j : Newest(l, a, j)
    BY FindVariableIs
  <2>2. j # i
    <3>1. SUFFICES ASSUME j = i PROVE FALSE
      OBVIOUS
    <3>2. i \in DOMAIN l /\ i # 0
      BY DEF Edited
    <3>3. l[j].name = a
      BY <2>1, <3>1, <3>2, FoundCopy
    <3>4. Newest(l, n, j)
      BY <2>1, <3>1, <3>3
    <3> QED BY <3>1, <3>4, NewestUnique
  <2>3. Newest(m, a, j)
    BY <1>1, <2>1, <2>2
  <2>4. j # 0 => m[j].val = l[j].val
    BY <2>1, FoundCopy, EditedVal
  <2> QED BY <1>1, <2>1, <2>3, <2>4, StillNewest
<1> QED BY <1>2 DEF SameValues

\* The only live copy is deleted.
LEMMA KillsOnly ==
  ASSUME NEW l \in Seq(Copy), NEW m \in Seq(Copy), Ordered(l), Whole(l), NEW i, NEW s,
         s \notin Live, Edited(l, m, i, s), NEW n \in Names, l[i].name = n,
         LiveCopies(l, n) \subseteq {i}
  PROVE  SetsValue(l, m, n, Absent)
<1>1. /\ Ordered(m) /\ \A a, j : Newest(l, a, j) /\ j # i => Newest(m, a, j)
      /\ LiveCopies(m, n) = LiveCopies(l, n) \ {i}
  BY EditKills
<1>2. Value(m, n) = Absent
  <2>1. Newest(m, n, 0)
    BY <1>1 DEF Newest
  <2> QED BY <1>1, <2>1, ValueIs
<1>3. ASSUME NEW a \in Names, a # n
      PROVE  Value(m, a) = Value(l, a)
  <2>1. PICK j : Newest(l, a, j)
    BY FindVariableIs
  <2>2. j # i
    <3>2. i \in DOMAIN l /\ i # 0
      BY DEF Edited
    <3> QED BY <1>3, <2>1, <3>2, FoundCopy
  <2>3. Newest(m, a, j)
    BY <1>1, <2>1, <2>2
  <2>4. j # 0 => m[j].val = l[j].val
    BY <2>1, FoundCopy, EditedVal
  <2> QED BY <1>1, <2>1, <2>3, <2>4, StillNewest
<1> QED BY <1>2, <1>3 DEF SetsValue

\* Whatever is deleted, the other variables are not touched, and this one is a
\* value it had or none.
LEMMA KillsOne ==
  ASSUME NEW l \in Seq(Copy), NEW m \in Seq(Copy), Ordered(l), Whole(l), NEW i, NEW s,
         s \notin Live, Edited(l, m, i, s), NEW n \in Names, l[i].name = n
  PROVE  \E v \in Values \cup {Absent} : SetsValue(l, m, n, v)
<1>1. /\ Ordered(m) /\ Whole(m)
      /\ \A a, j : Newest(l, a, j) /\ j # i => Newest(m, a, j)
  BY EditKills
<1>2. Value(m, n) \in Values \cup {Absent}
  BY <1>1, ValueType
<1>3. ASSUME NEW a \in Names, a # n
      PROVE  Value(m, a) = Value(l, a)
  <2>1. PICK j : Newest(l, a, j)
    BY FindVariableIs
  <2>2. j # i
    <3>2. i \in DOMAIN l /\ i # 0
      BY DEF Edited
    <3> QED BY <1>3, <2>1, <3>2, FoundCopy
  <2>3. Newest(m, a, j)
    BY <1>1, <2>1, <2>2
  <2>4. j # 0 => m[j].val = l[j].val
    BY <2>1, FoundCopy, EditedVal
  <2> QED BY <1>1, <2>1, <2>3, <2>4, StillNewest
<1>4. SetsValue(l, m, n, Value(m, n))
  BY <1>3 DEF SetsValue
<1> QED BY <1>2, <1>4

LEMMA MarksValues ==
  ASSUME NEW l \in Seq(Copy), NEW m \in Seq(Copy), Ordered(l), Whole(l), NEW i,
         Edited(l, m, i, InDeletion), IsLive(l[i])
  PROVE  SameValues(l, m)
<1>1. Ordered(m) /\ \A a, j : Newest(l, a, j) => Newest(m, a, j)
  BY EditMarks
<1>2. ASSUME NEW a \in Names
      PROVE  Value(m, a) = Value(l, a)
  <2>1. PICK j : Newest(l, a, j)
    BY FindVariableIs
  <2>3. Newest(m, a, j)
    BY <1>1, <2>1
  <2>4. j # 0 => m[j].val = l[j].val
    BY <2>1, FoundCopy, EditedVal
  <2> QED BY <1>1, <2>1, <2>3, <2>4, StillNewest
<1> QED BY <1>2 DEF SameValues

\* The copy at the end is added: from there on the variable is what it holds.
LEMMA AddsValue ==
  ASSUME NEW l \in Seq(Copy), NEW m \in Seq(Copy), Edited(l, m, Len(l), Added), NEW n \in Names,
         l[Len(l)].name = n, AddedCopies(l, n) = {}, l[Len(l)].val \in Values,
         ~IsLive(l[Len(l)]), Ordered(l), Whole(l)
  PROVE  SetsValue(l, m, n, l[Len(l)].val)
<1>1. /\ Ordered(m)
      /\ \A a, k : Newest(l, a, k) /\ a # n => Newest(m, a, k)
      /\ Newest(m, n, Len(l))
  BY EditAdds
<1>2. Value(m, n) = l[Len(l)].val
  <2>1. Len(l) \in DOMAIN l /\ Len(l) # 0
    BY DEF Edited
  <2>2. m[Len(l)].val = l[Len(l)].val
    BY <2>1, EditedVal
  <2> QED BY <1>1, <2>1, <2>2, ValueIs
<1>3. ASSUME NEW a \in Names, a # n
      PROVE  Value(m, a) = Value(l, a)
  <2>1. PICK j : Newest(l, a, j)
    BY FindVariableIs
  <2>3. Newest(m, a, j)
    BY <1>1, <1>3, <2>1
  <2>4. j # 0 => m[j].val = l[j].val
    BY <2>1, FoundCopy, EditedVal
  <2> QED BY <1>1, <2>1, <2>3, <2>4, StillNewest
<1> QED BY <1>2, <1>3 DEF SetsValue

-----------------------------------------------------------------------------
(* What rewriting the store does to the values.                               *)

LEMMA ReclaimedValues ==
  ASSUME NEW l \in Seq(Copy), Ordered(l), Whole(l), NEW cur, NEW restore
  PROVE  SameValues(l, Reclaimed(l, cur, restore))
<1> DEFINE p == Reclaimed(l, cur, restore)
           m == Restored(l, cur, restore)
<1>1. /\ p \in Seq(Copy) /\ Ordered(p)
      /\ \A n, k : Newest(l, n, k) => Finds(p, m, Kept(l), n, k)
  BY ReclaimedIs
<1>2. Revives(m, l)
  BY RestoredIs
<1>3. Kept(l) \in SUBSET DOMAIN l
  BY KeptIs
<1> HIDE DEF p, m
<1>4. ASSUME NEW a \in Names
      PROVE  Value(p, a) = Value(l, a)
  <2>1. PICK k : Newest(l, a, k)
    BY FindVariableIs
  <2>2. Value(l, a) = IF k = 0 THEN Absent ELSE l[k].val
    BY <2>1, ValueIs
  <2>3. Finds(p, m, Kept(l), a, k)
    BY <1>1, <2>1
  <2>4. CASE k = 0
    <3>1. 0 \notin Kept(l)
      <4>1. \A i \in DOMAIN l : i # 0
        OBVIOUS
      <4> QED BY <4>1, <1>3
    <3>2. Newest(p, a, 0)
      BY <2>3, <2>4, <3>1 DEF Finds
    <3> QED BY <1>1, <2>2, <2>4, <3>2, ValueIs
  <2>5. CASE k # 0
    <3>1. k \in DOMAIN l /\ l[k].name = a /\ IsLive(l[k])
      BY <2>1, <2>5, FoundCopy
    <3>2. k \in Kept(l)
      BY <2>1, <3>1, KeptIs
    <3>3. Newest(p, a, Rank(Kept(l), k)) /\ p[Rank(Kept(l), k)] = m[k] /\ Rank(Kept(l), k) # 0
      BY <2>3, <3>2 DEF Finds
    <3>4. m[k].val = l[k].val
      BY <1>2, <3>1 DEF Revives
    <3>5. Value(p, a) = p[Rank(Kept(l), k)].val
      BY <1>1, <3>3, ValueIs
    <3> QED BY <2>2, <2>5, <3>3, <3>4, <3>5
  <2> QED BY <2>4, <2>5
<1> QED BY <1>4 DEF SameValues, p

\* What the variables hold, and what is left when the others are given up.
Held(l) == [n \in Names |-> Value(l, n)]
HeldPreserved(l) == [n \in Names |-> IF n \in Preserved THEN Value(l, n) ELSE Absent]

\* The variables that are kept beside n.
KeepsNames(l, S, h, n) ==
  /\ S \in SUBSET KeptBeside(l, n)
  /\ \A a \in Names : \A k : a # n /\ Newest(l, a, k) =>
       h[a] = IF k \in S THEN Value(l, a) ELSE Absent

LEMMA KeepsBeside ==
  ASSUME NEW l \in Seq(Copy), Ordered(l), Whole(l), NEW n
  PROVE  /\ KeepsNames(l, KeptBeside(l, n), Held(l), n)
         /\ KeepsNames(l, KeptWhenFull(l, n), HeldPreserved(l), n)
<1>1. KeptWhenFull(l, n) \in SUBSET KeptBeside(l, n)
  BY DEF KeptWhenFull
<1>2. ASSUME NEW a \in Names, NEW k, a # n, Newest(l, a, k)
      PROVE  /\ Held(l)[a] = IF k \in KeptBeside(l, n) THEN Value(l, a) ELSE Absent
             /\ HeldPreserved(l)[a] = IF k \in KeptWhenFull(l, n) THEN Value(l, a) ELSE Absent
  <2>1. CASE k = 0
    <3>1. Value(l, a) = Absent
      BY <1>2, <2>1, ValueThere
    <3> QED BY <3>1 DEF Held, HeldPreserved
  <2>2. CASE k # 0
    <3>1. k \in DOMAIN l /\ l[k].name = a /\ IsLive(l[k])
      BY <1>2, <2>2, FoundCopy
    <3>2. k \in Kept(l)
      BY <1>2, <3>1, KeptIs
    <3>3. k \in KeptBeside(l, n)
      BY <1>2, <3>1, <3>2 DEF KeptBeside
    <3>4. k \in KeptWhenFull(l, n) <=> a \in Preserved
      BY <3>1, <3>3 DEF KeptWhenFull
    <3> QED BY <3>3, <3>4 DEF Held, HeldPreserved
  <2> QED BY <2>1, <2>2
<1> QED BY <1>1, <1>2 DEF KeepsNames

LEMMA AddedAgainNames ==
  ASSUME NEW l \in Seq(Copy), Ordered(l), Whole(l), NEW n, NEW S, NEW h,
         KeepsNames(l, S, h, n)
  PROVE  NamesOf(AddedAgain(l, S)) = Others(h, n)
<1> DEFINE m == Restored(l, 0, TRUE)
           p == AddedAgain(l, S)
<1>1. S \in SUBSET KeptBeside(l, n)
  BY DEF KeepsNames
<1>2. /\ p \in Seq(Copy) /\ Once(p)
      /\ \A i \in DOMAIN p : p[i].name # n
      /\ \A a, k : Newest(l, a, k) => Finds(p, m, S, a, k)
      /\ Whole(p)
  BY <1>1, AddedAgainIs
<1>3. S \in SUBSET Kept(l) /\ Kept(l) \in SUBSET DOMAIN l
  BY <1>1, KeptIs DEF KeptBeside
<1>4. Revives(m, l)
  BY RestoredIs
<1>5. p = Pick(m, S)
  <2>1. \A i \in DOMAIN l : i # 0
    OBVIOUS
  <2>2. m = [i \in DOMAIN l |-> [l[i] EXCEPT !.state = Added]]
    BY <2>1 DEF Restored
  <2> QED BY <2>2 DEF AddedAgain
<1> HIDE DEF p, m
<1>6. m \in Seq(Copy) /\ DOMAIN m = DOMAIN l
  <2>1. m \in Seq(Copy) /\ Len(m) = Len(l)
    BY <1>4 DEF Revives
  <2> QED BY <2>1
<1>7. /\ \A j \in DOMAIN p : Ranked(S, j) \in S /\ p[j] = m[Ranked(S, j)]
      /\ \A i \in S : Rank(S, i) \in DOMAIN p /\ p[Rank(S, i)] = m[i]
  BY <1>3, <1>5, <1>6, PickIs
<1>8. ASSUME NEW i \in S
      PROVE  m[i].name = l[i].name /\ l[i].name \in Others(h, n)
  <2>1. i \in DOMAIN l /\ i \in Kept(l) /\ i # 0
    BY <1>3
  <2>2. m[i].name = l[i].name
    BY <1>4, <2>1 DEF Revives
  <2>3. l[i].name # n
    BY <1>1 DEF KeptBeside
  <2>4. l[i].name \in Names
    BY <2>1, SizeNat
  <2>5. Newest(l, l[i].name, i)
    BY <2>1, KeptIs
  <2>6. h[l[i].name] = Value(l, l[i].name)
    BY <2>3, <2>4, <2>5 DEF KeepsNames
  <2>7. Value(l, l[i].name) # Absent
    BY <2>1, <2>4, <2>5, ValueThere
  <2> QED BY <2>2, <2>3, <2>4, <2>6, <2>7 DEF Others
<1>9. NamesOf(p) \subseteq Others(h, n)
  BY <1>7, <1>8 DEF NamesOf
<1>10. ASSUME NEW a \in Others(h, n)
       PROVE  a \in NamesOf(p)
  <2>1. a \in Names /\ a # n /\ h[a] # Absent
    BY DEF Others
  <2>2. PICK k : Newest(l, a, k)
    BY <2>1, FindVariableIs
  <2>3. k \in S
    BY <2>1, <2>2 DEF KeepsNames
  <2>4. k \in DOMAIN l /\ k # 0
    BY <1>3, <2>3
  <2>5. l[k].name = a
    BY <2>2, <2>4, FoundCopy
  <2>6. Rank(S, k) \in DOMAIN p /\ p[Rank(S, k)].name = a
    BY <1>7, <1>8, <2>3, <2>5
  <2> QED BY <2>6 DEF NamesOf
<1> QED BY <1>9, <1>10 DEF p

\* There is room beside what is kept, or there is none by the book.
LEMMA FitsIs ==
  ASSUME NEW l \in Seq(Copy), Ordered(l), Whole(l), NEW n, NEW S, NEW h,
         KeepsNames(l, S, h, n), ~Fits(AddedAgain(l, S), n), n \in Names
  PROVE  Map!Full(h, n)
<1>1. S \in SUBSET KeptBeside(l, n)
  BY DEF KeepsNames
<1>2. AddedAgain(l, S) \in Seq(Copy) /\ Once(AddedAgain(l, S))
  BY <1>1, AddedAgainIs
<1>3. NamesOf(AddedAgain(l, S)) = Others(h, n)
  BY AddedAgainNames
<1>4. Map!Occupied(h, n) = Used(AddedAgain(l, S))
  BY <1>2, <1>3, OccupiedIs
<1>5. Used(AddedAgain(l, S)) \in Nat
  BY <1>2, UsedNat
<1>6. Size[n] \in Nat /\ Capacity \in Nat
  BY VariableAssumption
<1>7. ~(Used(AddedAgain(l, S)) + Size[n] =< Capacity)
  BY DEF Fits
<1>8. Map!Occupied(h, n) + Size[n] > Capacity
  BY <1>4, <1>5, <1>6, <1>7
<1> QED BY <1>8 DEF Map!Full

HoldsBeside(w, h, n, v) == \A a \in Names : Value(w, a) = IF a = n THEN v ELSE h[a]

LEMMA BesideValues ==
  ASSUME NEW l \in Seq(Copy), Ordered(l), Whole(l), NEW n \in Names, NEW v \in Values,
         NEW S, NEW h, KeepsNames(l, S, h, n), NEW w,
         w = Append(AddedAgain(l, S), [name |-> n, val |-> v, state |-> Added])
  PROVE  HoldsBeside(w, h, n, v)
<1> DEFINE m == Restored(l, 0, TRUE)
           p == AddedAgain(l, S)
           c == [name |-> n, val |-> v, state |-> Added]
<1>1. S \in SUBSET KeptBeside(l, n)
  BY DEF KeepsNames
<1>2. /\ p \in Seq(Copy) /\ Once(p)
      /\ \A i \in DOMAIN p : p[i].name # n
      /\ \A a, k : Newest(l, a, k) => Finds(p, m, S, a, k)
  BY <1>1, AddedAgainIs
<1>3. S \in SUBSET DOMAIN l
  <2>1. Kept(l) \in SUBSET DOMAIN l
    BY KeptIs
  <2> QED BY <1>1, <2>1 DEF KeptBeside
<1>4. Revives(m, l)
  BY RestoredIs
<1>5. c \in Copy /\ c.name = n /\ c.val = v /\ IsLive(c)
  BY States DEF Copy, IsLive
<1>6. w = Append(p, c)
  OBVIOUS
<1> HIDE DEF p, m, c
<1>11. PICK y \in Nat : y = Len(p)
  BY <1>2
<1>12. PICK x \in Nat : x = y + 1
  BY <1>11
<1>7. /\ w \in Seq(Copy) /\ Len(w) = x /\ w[x] = c
      /\ \A i \in DOMAIN p : w[i] = p[i] /\ i \in DOMAIN w
      /\ \A i \in DOMAIN w : i \in DOMAIN p \/ i = x
  <2>1. /\ Append(p, c) \in Seq(Copy) /\ Len(Append(p, c)) = Len(p) + 1
        /\ Append(p, c)[Len(p) + 1] = c
        /\ \A i \in DOMAIN p : Append(p, c)[i] = p[i] /\ i \in DOMAIN Append(p, c)
        /\ \A i \in DOMAIN Append(p, c) : i \in DOMAIN p \/ i = Len(p) + 1
    BY <1>2, <1>5, AppendIs
  <2>2. Append(p, c) = w /\ Len(p) + 1 = x
    BY <1>6, <1>11, <1>12
  <2> HIDE DEF p, c
  <2> QED BY <2>1, <2>2
<1>13. x \in DOMAIN w /\ x \notin DOMAIN p /\ x # 0
  BY <1>2, <1>7, <1>11, <1>12
<1>8. Ordered(w)
  <2>1. ASSUME NEW i \in DOMAIN w, NEW j \in DOMAIN w, w[i].name = w[j].name
        PROVE  i = j
    <3>1. CASE i \in DOMAIN p /\ j \in DOMAIN p
      BY <1>2, <1>7, <2>1, <3>1 DEF Once
    <3>2. CASE i = x /\ j = x
      BY <3>2
    <3>3. CASE i \in DOMAIN p /\ j = x
      BY <1>2, <1>5, <1>7, <2>1, <3>3
    <3>4. CASE i = x /\ j \in DOMAIN p
      BY <1>2, <1>5, <1>7, <2>1, <3>4
    <3> QED BY <1>7, <3>1, <3>2, <3>3, <3>4
  <2>2. Once(w)
    BY <2>1 DEF Once
  <2> QED BY <1>7, <2>2, OnceIsOrdered
<1>9. Value(w, n) = v
  <2>1. LiveCopies(w, n) = {x}
    <3>1. ASSUME NEW i \in LiveCopies(w, n)
          PROVE  i = x
      <4>1. i \in DOMAIN w /\ w[i].name = n
        BY DEF LiveCopies
      <4>2. i \notin DOMAIN p
        BY <1>2, <1>7, <4>1
      <4> QED BY <1>7, <4>1, <4>2
    <3>2. x \in LiveCopies(w, n)
      BY <1>5, <1>7, <1>13 DEF LiveCopies
    <3> QED BY <3>1, <3>2
  <2>2. Newest(w, n, x)
    BY <2>1 DEF Newest
  <2>3. Value(w, n) = w[x].val
    BY <1>7, <1>8, <1>13, <2>2, ValueIs
  <2> QED BY <1>5, <1>7, <2>3
<1>10. ASSUME NEW a \in Names, a # n
       PROVE  Value(w, a) = h[a]
  <2>1. Agree(p, w, a)
    <3>1. \A i \in DOMAIN p : i \in DOMAIN w /\ w[i] = p[i]
      BY <1>7
    <3>2. \A i \in DOMAIN w : w[i].name = a => i \in DOMAIN p
      BY <1>5, <1>7, <1>10
    <3> QED BY <3>1, <3>2 DEF Agree
  <2>2. PICK k : Newest(l, a, k)
    BY FindVariableIs
  <2>3. Finds(p, m, S, a, k)
    BY <1>2, <2>2
  <2>4. h[a] = IF k \in S THEN Value(l, a) ELSE Absent
    BY <1>10, <2>2 DEF KeepsNames
  <2>5. CASE k \notin S
    <3>1. Newest(p, a, 0)
      BY <2>3, <2>5 DEF Finds
    <3>2. Newest(w, a, 0)
      BY <2>1, <3>1, AgreeValues
    <3> QED BY <1>7, <1>8, <2>4, <2>5, <3>2, ValueIs
  <2>6. CASE k \in S
    <3>1. PICK r : r = Rank(S, k)
      OBVIOUS
    <3>2. Newest(p, a, r) /\ p[r] = m[k] /\ r # 0
      BY <2>3, <2>6, <3>1 DEF Finds
    <3>3. r \in LiveCopies(p, a)
      BY <3>2 DEF Newest
    <3>4. Newest(w, a, r) /\ w[r] = p[r]
      <4>1. LiveCopies(w, a) = LiveCopies(p, a)
        BY <2>1, SameCopies
      <4>2. \A i \in LiveCopies(p, a) : w[i] = p[i]
        BY <2>1, SameCopies
      <4> QED BY <3>2, <3>3, <4>1, <4>2 DEF Newest
    <3>5. Value(w, a) = w[r].val
      BY <1>7, <1>8, <3>2, <3>4, ValueIs
    <3>6. k \in DOMAIN l /\ k # 0
      BY <1>3, <2>6
    <3>7. m[k].val = l[k].val
      BY <1>4, <3>6 DEF Revives
    <3>8. Value(l, a) = l[k].val
      BY <2>2, <3>6, ValueIs
    <3> QED BY <2>4, <2>6, <3>2, <3>4, <3>5, <3>7, <3>8
  <2> QED BY <2>5, <2>6
<1> QED BY <1>9, <1>10 DEF HoldsBeside

\* The new variable beside all the others, or beside the preserved ones only
\* when there is no room for all.
SetsWhenFull(l, m, n, v) ==
  /\ Map!Full(Held(l), n)
  /\ \A a \in Names : Value(m, a) = IF a = n THEN v
                                    ELSE IF a \in Preserved THEN Value(l, a) ELSE Absent

LEMMA WithNewValues ==
  ASSUME NEW l \in Seq(Copy), Ordered(l), Whole(l), NEW n \in Names, NEW v \in Values,
         WithNew(l, n, v) # <<>>
  PROVE  SetsValue(l, WithNew(l, n, v), n, v) \/ SetsWhenFull(l, WithNew(l, n, v), n, v)
<1> DEFINE w == WithNew(l, n, v)
<1>1. PICK S \in SUBSET KeptBeside(l, n) :
            /\ w = Append(AddedAgain(l, S), [name |-> n, val |-> v, state |-> Added])
            /\ \/ S = KeptBeside(l, n)
               \/ S = KeptWhenFull(l, n) /\ ~Fits(AddedAgain(l, KeptBeside(l, n)), n)
  BY WithNewIs
<1> HIDE DEF w
<1>2. CASE S = KeptBeside(l, n)
  <2>4. KeepsNames(l, S, Held(l), n)
    BY <1>2, KeepsBeside
  <2>1. HoldsBeside(w, Held(l), n, v)
    BY <1>1, <2>4, BesideValues
  <2>2. SetsValue(l, w, n, v)
    BY <2>1 DEF HoldsBeside, SetsValue, Held
  <2> QED BY <2>2 DEF w
<1>3. CASE S = KeptWhenFull(l, n) /\ ~Fits(AddedAgain(l, KeptBeside(l, n)), n)
  <2>4. KeepsNames(l, S, HeldPreserved(l), n)
    BY <1>3, KeepsBeside
  <2>1. HoldsBeside(w, HeldPreserved(l), n, v)
    BY <1>1, <2>4, BesideValues
  <2>2. Map!Full(Held(l), n)
    BY <1>3, KeepsBeside, FitsIs
  <2>3. SetsWhenFull(l, w, n, v)
    BY <2>1, <2>2 DEF HoldsBeside, SetsWhenFull, HeldPreserved
  <2> QED BY <2>3 DEF w
<1> QED BY <1>1, <1>2, <1>3

\* When WithNew gives nothing, what must be preserved leaves no room.
LEMMA NothingFits ==
  ASSUME NEW l \in Seq(Copy), Ordered(l), Whole(l), NEW n \in Names, NEW v,
         WithNew(l, n, v) = <<>>
  PROVE  Map!Full(HeldPreserved(l), n)
<1>1. KeptWhenFull(l, n) \in SUBSET KeptBeside(l, n)
  BY DEF KeptWhenFull
<1>2. CASE Fits(AddedAgain(l, KeptWhenFull(l, n)), n) \/ Fits(AddedAgain(l, KeptBeside(l, n)), n)
  <2>1. PICK S \in SUBSET KeptBeside(l, n) :
          WithNew(l, n, v) = Append(AddedAgain(l, S), [name |-> n, val |-> v, state |-> Added])
    BY <1>1, <1>2 DEF WithNew
  <2>2. AddedAgain(l, S) \in Seq(Copy)
    BY AddedAgainIs
  <2> DEFINE p == AddedAgain(l, S)
             c == [name |-> n, val |-> v, state |-> Added]
  <2>3. p \in Seq(Copy) /\ Append(p, c) = <<>>
    BY <2>1, <2>2
  <2> HIDE DEF p, c
  <2>4. Len(Append(p, c)) = Len(p) + 1 /\ Len(p) \in Nat
    BY <2>3, AppendProperties
  <2>5. Len(<<>>) = 0
    OBVIOUS
  <2>6. FALSE
    BY <2>3, <2>4, <2>5
  <2> QED BY <2>6
<1>3. CASE ~Fits(AddedAgain(l, KeptWhenFull(l, n)), n)
  BY <1>3, KeepsBeside, FitsIs
<1> QED BY <1>2, <1>3

-----------------------------------------------------------------------------
(* What each action does to the values.                                       *)

Keeps == SameValues(list, list')

LEMMA Same ==
  ASSUME list' = list
  PROVE  Keeps
BY DEF Keeps, SameValues

\* Nothing changes but what is not live.
Agrees == list' \in Seq(Copy) /\ \A n : Agree(list, list', n)

LEMMA SameAgrees ==
  ASSUME list' = list, list \in Seq(Copy)
  PROVE  Agrees
BY DEF Agrees, Agree

LEMMA AgreesKeeps ==
  ASSUME Agrees, list \in Seq(Copy), Ordered(list), Whole(list)
  PROVE  Keeps /\ \A n : LiveCopies(list', n) = LiveCopies(list, n)
BY AgreeingValues, SameCopies DEF Agrees, Keeps

LEMMA FailKeeps ==
  ASSUME AccessFails
  PROVE  Keeps /\ list' = list
<1>1. list' = list
  BY DEF AccessFails, flash
<1> QED BY <1>1, Same

LEMMA ListIs ==
  ASSUME IInv
  PROVE  /\ DataOK /\ Store /\ list \in Seq(Copy) /\ Ordered(list) /\ Whole(list)
         /\ op \in Op /\ op.name \in Names /\ tail \in {"clean", "dirty"}
         /\ IInv
BY OpIs DEF IInv, DataOK, Store

LEMMA DeleteAllOldVariableValues ==
  ASSUME IInv, DeleteAllOldVariable
  PROVE  Keeps
<1>1. /\ DataOK /\ Store /\ list \in Seq(Copy) /\ Ordered(list) /\ Whole(list)
  BY ListIs
<1>2. Found
  BY DEF IInv, Local, DeleteAllOldVariable
<1>3. CASE Outdated(op.name) = {}
  BY <1>3, Same DEF DeleteAllOldVariable, flash
<1>4. CASE Outdated(op.name) # {}
  <2> DEFINE i == Least(Outdated(op.name))
  <2>1. i \in Outdated(op.name)
    <3>1. Outdated(op.name) \in SUBSET Nat
      BY <1>1, CopiesIn DEF Outdated
    <3> QED BY <1>4, <3>1, LeastIs
  <2>2. i \in OldCopies(list, op.name) /\ ExistNewerVariable(list, i)
    BY <2>1 DEF Outdated
  <2>3. i \in DOMAIN list /\ list[i].name = op.name /\ i \in Nat /\ i \in LiveCopies(list, op.name)
    BY <1>1, <2>2, CopiesIn
  <2>4. ClearBits(i, {"deleted"}) \/ AccessFails
    BY <1>4 DEF DeleteAllOldVariable
  <2> HIDE DEF i
  <2>5. op.cur # i
    <3>1. PICK j \in DOMAIN list : /\ j > i /\ list[j].name = list[i].name
                                   /\ list[j].state \in {Added, InDeletion}
      BY <2>2 DEF ExistNewerVariable
    <3>2. j \in LiveCopies(list, op.name) /\ j \in Nat
      BY <1>1, <2>3, <3>1, CopiesIn DEF IsLive, Live
    <3> QED BY <1>2, <2>3, <3>1, <3>2 DEF Found, Newest
  <2>6. CASE ClearBits(i, {"deleted"})
    <3>1. list' \in Seq(Copy) /\ Edited(list, list', i, list[i].state \cup {"deleted"})
      BY <1>1, <2>3, <2>6, KillStep
    <3>2. list[i].state \cup {"deleted"} \notin Live
      BY States
    <3> QED BY <1>1, <1>2, <2>3, <2>5, <3>1, <3>2, KillsOld DEF Found, Keeps
  <2>7. CASE AccessFails
    BY <2>7, FailKeeps
  <2> QED BY <2>4, <2>6, <2>7
<1> QED BY <1>3, <1>4

LEMMA DeleteVariableValues ==
  ASSUME IInv, DeleteVariable
  PROVE  /\ LiveCopies(list, op.name) \subseteq {op.cur} /\ st' = "success" =>
              SetsValue(list, list', op.name, Absent)
         /\ st' = "success" \/ (st' = "error" /\ Keeps)
<1>1. /\ list \in Seq(Copy) /\ Ordered(list) /\ Whole(list) /\ op.name \in Names
      /\ DataOK /\ Store
  BY ListIs
<1>2. op.cur \in DOMAIN list /\ list[op.cur].name = op.name
  <2>1. Found /\ op.cur # 0
    BY DEF IInv, Local, DeleteVariable
  <2> QED BY <2>1, CurrentCopy
<1>3. CASE ClearBits(op.cur, {"deleted"}) /\ Return("success")
  <2>1. list' \in Seq(Copy) /\ Edited(list, list', op.cur, list[op.cur].state \cup {"deleted"})
    BY <1>1, <1>2, <1>3, KillStep
  <2>2. list[op.cur].state \cup {"deleted"} \notin Live
    BY States
  <2>3. LiveCopies(list, op.name) \subseteq {op.cur} => SetsValue(list, list', op.name, Absent)
    BY <1>1, <1>2, <2>1, <2>2, KillsOnly
  <2> QED BY <1>3, <2>3 DEF Return
<1>4. CASE AccessFails /\ Return("error")
  BY <1>4, FailKeeps DEF Return
<1> QED BY <1>3, <1>4 DEF DeleteVariable

LEMMA MarkOldValues ==
  ASSUME IInv, MarkOld
  PROVE  Keeps
<1>1. /\ list \in Seq(Copy) /\ Ordered(list) /\ Whole(list) /\ DataOK /\ Store
  BY ListIs
<1>2. op.cur \in DOMAIN list /\ IsLive(list[op.cur])
  <2>1. Found /\ op.cur # 0
    BY DEF IInv, Local, MarkOld
  <2> QED BY <2>1, CurrentCopy
<1>3. CASE ClearBits(op.cur, {"transition"})
  <2>1. list' \in Seq(Copy) /\ Edited(list, list', op.cur, InDeletion)
    BY <1>1, <1>2, <1>3, MarkStep
  <2> QED BY <1>1, <1>2, <2>1, MarksValues DEF Keeps
<1>4. CASE AccessFails
  BY <1>4, FailKeeps
<1> QED BY <1>3, <1>4 DEF MarkOld

LEMMA SyncCacheValues ==
  ASSUME IInv, SyncCache
  PROVE  /\ Keeps /\ list' = list
         /\ op'.name = op.name /\ op'.val = op.val /\ op'.nested = op.nested /\ op'.tries = op.tries
         /\ op'.cur = op.cur
         /\ pc' = "room" /\ st' = st
<1>1. Marked /\ list \in Seq(Copy) /\ Ordered(list) /\ op \in Op /\ op.name \in Names
  BY ListIs DEF IInv, Local, SyncCache
<1>2. CASE cache = Off \/ Used(cache) = Used(list)
  BY <1>2, Same DEF SyncCache, flash, Goto
<1>3. CASE cache # Off /\ Used(cache) # Used(list)
  <2>1. op' = [op EXCEPT !.cur = FindVariable(list, op.name)]
    BY <1>3 DEF SyncCache
  <2>2. AddedCopies(list, op.name) = {} /\ Newest(list, op.name, op.cur)
    BY <1>1 DEF Marked, Found
  <2>3. UNCHANGED flash /\ Goto("room")
    BY <1>3, <2>2 DEF SyncCache
  <2>4. FindVariable(list, op.name) = op.cur
    <3>1. Newest(list, op.name, FindVariable(list, op.name))
      BY <1>1, FindVariableIs
    <3> QED BY <1>1, <2>2, <3>1, NewestUnique
  <2>5. op' = op
    BY <1>1, <2>1, <2>4 DEF Op
  <2> QED BY <2>3, <2>5, Same DEF flash, Goto
<1> QED BY <1>2, <1>3

LEMMA RewriteValues ==
  ASSUME IInv, WithNew(list, op.name, op.val) # <<>>, ReclaimNonVolatileVariable
  PROVE  \/ /\ pc' = "done" /\ st' = "success"
            /\ \/ SetsValue(list, list', op.name, op.val)
               \/ SetsWhenFull(list, list', op.name, op.val)
         \/ pc' = "done" /\ st' = "error" /\ Keeps
<1>1. list \in Seq(Copy) /\ Ordered(list) /\ Whole(list) /\ op.name \in Names
  BY ListIs
<1>2. op.val \in Values
  BY DEF IInv, Local, Marked, ReclaimNonVolatileVariable
<1>3. CASE FtwVariableSpace(WithNew(list, op.name, op.val)) /\ Return("success")
  <2>1. list' = WithNew(list, op.name, op.val)
    BY <1>3 DEF FtwVariableSpace
  <2> QED BY <1>1, <1>2, <1>3, <2>1, WithNewValues DEF Return
<1>4. CASE AccessFails /\ Return("error")
  BY <1>4, FailKeeps DEF Return
<1> QED BY <1>3, <1>4 DEF ReclaimNonVolatileVariable

LEMMA WriteHeaderAgrees ==
  ASSUME IInv, Dependable, WriteHeader
  PROVE  Agrees
<1>1. list \in Seq(Copy) /\ Ordered(list) /\ Whole(list)
  BY ListIs
<1>2. CASE AccessFails
  BY <1>2, FailKeeps, <1>1, SameAgrees
<1>3. CASE /\ \/ FlashIn(HeaderWritten) /\ NoFault
              \/ FlashIn(HeaderTorn) /\ Misses
           /\ cache' = IF cache = Off THEN Off ELSE Append(cache, NewCopy({}))
           /\ Goto("state")
  <2>1. \/ list' = list
        \/ \E c \in Copy : list' = Append(list, c) /\ c.state = {}
    BY <1>3, HeaderIs
  <2>2. CASE list' = list
    BY <1>1, <2>2, SameAgrees
  <2>3. ASSUME NEW c \in Copy, list' = Append(list, c), c.state = {}
        PROVE  Agrees
    <3>1. ~IsLive(c)
      BY <2>3, States DEF IsLive
    <3>2. list' \in Seq(Copy) /\ \A n : Agree(list, list', n)
      BY <1>1, <2>3, <3>1, AppendIs
    <3> QED BY <3>2 DEF Agrees
  <2> QED BY <2>1, <2>2, <2>3
<1> QED BY <1>2, <1>3 DEF WriteHeader

LEMMA WriteHeaderValidAgrees ==
  ASSUME IInv, WriteHeaderValid
  PROVE  Agrees
<1>1. list \in Seq(Copy) /\ Ordered(list) /\ Whole(list) /\ DataOK /\ Store
  BY ListIs
<1>2. Placed({})
  BY DEF IInv, Local, WriteHeaderValid
<1>3. CASE AccessFails
  BY <1>3, FailKeeps, <1>1, SameAgrees
<1>4. CASE WriteState(op.at, HeaderValidOnly)
  <2>1. CASE op.at \in DOMAIN list
    <3>1. list[op.at].state = {}
      <4>1. op.at # Len(list) + 1
        BY <1>1, <2>1
      <4> QED BY <1>2, <4>1 DEF Placed
    <3>2. list[op.at].state \cup HeaderValidOnly = HeaderValidOnly
          /\ HeaderValidOnly \in SUBSET StateBits /\ HeaderValidOnly \notin Live /\ {} \notin Live
      BY <3>1, States
    <3>3. list' \in Seq(Copy) /\ Edited(list, list', op.at, HeaderValidOnly)
      BY <1>1, <1>4, <2>1, <3>2, WriteStateIs
    <3>4. ~IsLive(list[op.at]) /\ ~IsLive(list'[op.at])
      BY <3>1, <3>2, <3>3 DEF IsLive, Edited
    <3>5. \A n : Agree(list, list', n)
      BY <2>1, <3>3, <3>4, DeadAgrees DEF Edited
    <3> QED BY <3>3, <3>5 DEF Agrees
  <2>2. CASE op.at \notin DOMAIN list
    BY <1>4, <2>2, <1>1, SameAgrees DEF WriteState
  <2> QED BY <2>1, <2>2
<1> QED BY <1>3, <1>4 DEF WriteHeaderValid

LEMMA WriteDataAgrees ==
  ASSUME IInv, Dependable, WriteData
  PROVE  Agrees
<1>1. list \in Seq(Copy) /\ Ordered(list) /\ Whole(list)
  BY ListIs
<1>2. pc = "data" /\ Placed(HeaderValidOnly) /\ op.val \in Values
  BY DEF IInv, Local, WriteData, Marked
<1>3. CASE AccessFails
  BY <1>3, FailKeeps, <1>1, SameAgrees
<1>4. CASE (FlashIn(DataWritten) /\ NoFault) \/ (FlashIn(DataTorn) /\ Misses)
  <2>1. CASE op.at \notin DOMAIN list
    BY <1>2, <1>4, <2>1, DataIs, <1>1, SameAgrees
  <2>2. CASE op.at \in DOMAIN list
    <3>1. PICK v \in {op.val, Broken} : list' = SetVal(list, op.at, v)
      BY <1>2, <1>4, <2>2, DataIs
    <3>2. list[op.at].state = HeaderValidOnly
      <4>1. op.at # Len(list) + 1
        BY <1>1, <2>2
      <4> QED BY <1>2, <4>1 DEF Placed
    <3>3. v \in Values \cup {Blank, Broken}
      BY <1>2
    <3>4. /\ list' \in Seq(Copy) /\ DOMAIN list' = DOMAIN list
          /\ \A j \in DOMAIN list : j # op.at => list'[j] = list[j]
          /\ list'[op.at] = [name |-> list[op.at].name, val |-> v, state |-> list[op.at].state]
      BY <1>1, <2>2, <3>1, <3>3, SetValIs
    <3>5. ~IsLive(list[op.at]) /\ ~IsLive(list'[op.at])
      BY <3>2, <3>4, States DEF IsLive
    <3>6. \A n : Agree(list, list', n)
      BY <2>2, <3>4, <3>5, DeadAgrees
    <3> QED BY <3>4, <3>6 DEF Agrees
  <2> QED BY <2>1, <2>2
<1> QED BY <1>3, <1>4 DEF WriteData

\* The accesses to a copy that does not count.
DeadAccess == WriteHeader \/ WriteHeaderValid \/ WriteData

LEMMA DeadAccessAgrees ==
  ASSUME IInv, Dependable, DeadAccess
  PROVE  Agrees /\ Keeps
<1>1. Agrees
  BY WriteHeaderAgrees, WriteHeaderValidAgrees, WriteDataAgrees DEF DeadAccess
<1> QED BY <1>1, AgreesKeeps, ListIs

LEMMA RetryValues ==
  ASSUME IInv, Retry
  PROVE  Keeps
<1>1. list \in Seq(Copy) /\ Ordered(list) /\ Whole(list)
  BY ListIs
<1>2. CASE AccessFails
  BY <1>2, FailKeeps
<1>3. CASE FtwVariableSpace(Reclaimed(list, op.cur, TRUE))
  BY <1>1, <1>3, ReclaimedValues DEF FtwVariableSpace, Keeps
<1> QED BY <1>2, <1>3 DEF Retry

LEMMA WriteAddedValues ==
  ASSUME IInv, WriteAdded
  PROVE  \/ /\ pc' = "old" \/ (pc' = "done" /\ st' = "success")
            /\ SetsValue(list, list', op.name, op.val)
         \/ pc' = "done" /\ st' = "error" /\ Keeps
<1>1. list \in Seq(Copy) /\ Ordered(list) /\ Whole(list) /\ DataOK /\ Store /\ op.name \in Names
  BY ListIs
<1>2. /\ Marked /\ op.at = Len(list) /\ op.at # 0 /\ IsCorrectVariable(list, op.at)
      /\ op.val \in Values
  BY DEF IInv, Local, WriteAdded, Marked
<1>3. /\ op.at \in DOMAIN list /\ list[op.at].name = op.name /\ list[op.at].val = op.val
      /\ list[op.at].state = HeaderValidOnly
  BY <1>2 DEF IsCorrectVariable
<1>4. /\ Added \in SUBSET StateBits /\ HeaderValidOnly \cup Added = Added
      /\ HeaderValidOnly \notin Live
  BY States
<1>5. CASE AccessFails /\ Return("error")
  BY <1>5, FailKeeps DEF Return
<1>6. CASE /\ WriteState(op.at, Added)
           /\ IF op.cur # 0 THEN Goto("old") ELSE Return("success")
  <2>1. list[op.at].state \cup Added = Added /\ ~IsLive(list[op.at])
    BY <1>3, <1>4 DEF IsLive
  <2>2. list' \in Seq(Copy) /\ Edited(list, list', op.at, Added)
    BY <1>1, <1>3, <1>4, <1>6, <2>1, WriteStateIs
  <2>3. AddedCopies(list, op.name) = {}
    BY <1>2 DEF Marked
  <2>4. SetsValue(list, list', op.name, op.val)
    BY <1>1, <1>2, <1>3, <2>1, <2>2, <2>3, AddsValue
  <2> QED BY <1>6, <2>4 DEF Goto, Return
<1> QED BY <1>5, <1>6 DEF WriteAdded

LEMMA DeleteOldValues ==
  ASSUME IInv, DeleteOld
  PROVE  Keeps /\ Value(list, op.name) = op.val
<1>1. list \in Seq(Copy) /\ Ordered(list) /\ Whole(list) /\ DataOK /\ Store /\ op.name \in Names
  BY ListIs
<1>2. /\ op.at \in AddedCopies(list, op.name) /\ list[op.at].val = op.val
      /\ op.cur \in OldCopies(list, op.name)
  BY DEF IInv, Local, DeleteOld
<1>3. Newest(list, op.name, op.at) /\ op.at # 0
  <2>1. op.at \in LiveCopies(list, op.name)
    BY <1>2, CopiesIn
  <2>2. \A j \in LiveCopies(list, op.name) : j =< op.at
    BY <1>1, <1>2 DEF Ordered
  <2>3. op.at \in DOMAIN list
    BY <1>2, CopiesIn
  <2> QED BY <1>1, <2>1, <2>2, <2>3 DEF Newest
<1>4. op.cur # op.at /\ op.cur \in DOMAIN list /\ list[op.cur].name = op.name
  BY <1>2, CopiesIn
<1>5. Value(list, op.name) = op.val
  BY <1>1, <1>2, <1>3, ValueIs
<1>6. CASE ClearBits(op.cur, {"deleted"})
  <2>1. list' \in Seq(Copy) /\ Edited(list, list', op.cur, list[op.cur].state \cup {"deleted"})
    BY <1>1, <1>4, <1>6, KillStep
  <2>2. list[op.cur].state \cup {"deleted"} \notin Live
    BY States
  <2>3. SameValues(list, list')
    BY <1>1, <1>3, <1>4, <2>1, <2>2, KillsOld
  <2> QED BY <1>5, <2>3 DEF Keeps
<1>7. CASE AccessFails
  BY <1>5, <1>7, FailKeeps
<1> QED BY <1>6, <1>7 DEF DeleteOld

LEMMA ReclaimValues ==
  ASSUME IInv, Reclaim
  PROVE  Keeps
<1>1. list \in Seq(Copy) /\ Ordered(list) /\ Whole(list)
  BY ListIs
<1>2. CASE AccessFails
  BY <1>2, FailKeeps
<1>3. CASE FtwVariableSpace(Reclaimed(list, 0, FALSE))
  BY <1>1, <1>3, ReclaimedValues DEF FtwVariableSpace, Keeps
<1> QED BY <1>2, <1>3 DEF Reclaim

LEMMA ForgetReclaimValues ==
  ASSUME IInv, ForgetReclaim
  PROVE  Keeps \/ \E v \in Values \cup {Absent} : SetsValue(list, list', NeedReclaim, v)
<1>1. /\ list \in Seq(Copy) /\ Ordered(list) /\ Whole(list) /\ DataOK /\ Store
      /\ NeedReclaim \in Names
  BY ListIs, VariableAssumption
<1>2. CASE NeedDoReclaim /\ ClearBits(FindVariable(View, NeedReclaim), {"deleted"})
  <2> DEFINE i == FindVariable(View, NeedReclaim)
  <2>1. i = FindVariable(list, NeedReclaim)
    BY <1>1, ViewFinds
  <2>2. Newest(list, NeedReclaim, i) /\ i # 0
    BY <1>1, <1>2, <2>1, FindVariableIs DEF NeedDoReclaim
  <2>3. ClearBits(i, {"deleted"})
    BY <1>2
  <2> HIDE DEF i
  <2>4. i \in DOMAIN list /\ list[i].name = NeedReclaim
    BY <1>1, <2>2, FoundCopy
  <2>5. list' \in Seq(Copy) /\ Edited(list, list', i, list[i].state \cup {"deleted"})
    BY <1>1, <2>3, <2>4, KillStep
  <2>6. list[i].state \cup {"deleted"} \notin Live
    BY States
  <2> QED BY <1>1, <2>4, <2>5, <2>6, KillsOne
<1>3. CASE AccessFails
  BY <1>3, FailKeeps
<1>4. CASE UNCHANGED <<flash, cache, errors, misses>>
  BY <1>4, Same DEF flash
<1> QED BY <1>2, <1>3, <1>4 DEF ForgetReclaim

LEMMA TornValues ==
  ASSUME IInv, NEW f \in Torn
  PROVE  SameValues(list, f[1]) \/ (pc = "ftw" /\ f[1] = WithNew(list, op.name, op.val))
<1>1. list \in Seq(Copy) /\ Ordered(list) /\ Whole(list) /\ op \in Op
  BY ListIs
<1>2. f[1] = list => SameValues(list, f[1])
  BY DEF SameValues
<1>3. flash[1] = list
  BY DEF flash
<1>4. CASE pc = "header"
  <2>1. f \in HeaderTorn
    BY <1>4 DEF Torn
  <2>2. CASE f = <<Append(list, NewCopy({})), tail>>
    <3>1. NewCopy({}) \in Copy /\ ~IsLive(NewCopy({}))
      BY <1>1, NewCopyIs
    <3>2. f[1] = Append(list, NewCopy({}))
      BY <2>2
    <3>3. f[1] \in Seq(Copy) /\ \A n : Agree(list, f[1], n)
      BY <1>1, <3>1, <3>2, AppendIs
    <3> QED BY <1>1, <3>3, AgreeingValues
  <2> QED BY <1>2, <2>1, <2>2 DEF HeaderTorn
<1>5. CASE pc = "data"
  <2>1. f \in DataTorn
    BY <1>5 DEF Torn
  <2>2. CASE op.at \in DOMAIN list /\ f = <<[list EXCEPT ![op.at].val = Broken], tail>>
    <3>1. list[op.at].state = HeaderValidOnly
      <4>1. op.at # Len(list) + 1
        BY <1>1, <2>2
      <4> QED BY <1>5, <4>1 DEF IInv, Local, Placed
    <3>2. f[1] = SetVal(list, op.at, Broken)
      BY <2>2 DEF SetVal
    <3>3. /\ f[1] \in Seq(Copy) /\ DOMAIN f[1] = DOMAIN list
          /\ \A j \in DOMAIN list : j # op.at => f[1][j] = list[j]
          /\ f[1][op.at] = [name |-> list[op.at].name, val |-> Broken, state |-> list[op.at].state]
      BY <1>1, <2>2, <3>2, SetValIs
    <3>4. ~IsLive(list[op.at]) /\ ~IsLive(f[1][op.at])
      BY <3>1, <3>3, States DEF IsLive
    <3>5. \A n : Agree(list, f[1], n)
      BY <2>2, <3>3, <3>4, DeadAgrees
    <3> QED BY <1>1, <3>3, <3>5, AgreeingValues
  <2> QED BY <1>2, <2>1, <2>2 DEF DataTorn
<1>6. CASE pc = "ftw"
  <2>1. f = flash \/ f = <<WithNew(list, op.name, op.val), "clean">>
    BY <1>6 DEF Torn
  <2> QED BY <1>2, <1>3, <1>6, <2>1
<1>7. CASE pc = "retry"
  <2> DEFINE r == Reclaimed(list, op.cur, TRUE)
  <2>1. f = flash \/ f = <<r, "clean">>
    BY <1>7 DEF Torn
  <2>2. SameValues(list, r)
    BY <1>1, ReclaimedValues
  <2> HIDE DEF r
  <2>3. f[1] = list \/ f[1] = r
    BY <1>3, <2>1
  <2> QED BY <1>2, <2>2, <2>3
<1>8. CASE pc = "reclaim"
  <2> DEFINE r == Reclaimed(list, 0, FALSE)
  <2>1. f = flash \/ f = <<r, "clean">>
    BY <1>8 DEF Torn
  <2>2. SameValues(list, r)
    BY <1>1, ReclaimedValues
  <2> HIDE DEF r
  <2>3. f[1] = list \/ f[1] = r
    BY <1>3, <2>1
  <2> QED BY <1>2, <2>2, <2>3
<1>9. CASE pc \notin {"header", "data", "ftw", "retry", "reclaim"}
  <2>1. f = flash
    BY <1>9 DEF Torn
  <2> QED BY <1>2, <1>3, <2>1
<1> QED BY <1>4, <1>5, <1>6, <1>7, <1>8, <1>9

-----------------------------------------------------------------------------
(* The request, from SetVariable to its answer.                               *)

SameCall ==
  /\ req' = req /\ reply' = reply /\ phase' = phase
  /\ op'.name = op.name /\ op'.val = op.val /\ op'.nested = op.nested
  /\ pc \in InCall /\ pc' \in InCall

LEMMA PhaseKept ==
  ASSUME phase' = phase
  PROVE  AtRuntimeUnreclaimed' <=> AtRuntimeUnreclaimed
BY DEF AtRuntimeUnreclaimed

LEMMA CallsOn ==
  ASSUME Calls, SameCall, pc' \in {"clean", "update"} => pc \in {"clean", "update"},
         pc' = "remember" => AtRuntimeUnreclaimed
  PROVE  Calls'
BY PhaseKept DEF Calls, SameCall

\* The call is over, or none has been made.
LEMMA CallOver ==
  ASSUME req' = NoRequest, ~op'.nested, pc' \notin InCall
  PROVE  Calls' /\ Refused' /\ Cleaned' /\ Answered'
BY DEF Calls, Refused, Cleaned, Answered, InCall, Writing

LEMMA RefusedOn ==
  ASSUME pc' # "ftw", pc' = "done" => st' # "full" \/ AtRuntimeUnreclaimed'
  PROVE  Refused'
BY DEF Refused

LEMMA CallerIs ==
  ASSUME UNCHANGED caller
  PROVE  req' = req /\ reply' = reply
BY DEF caller

\* The actions within a call that look for no room.
Plain ==
  \/ DeleteAllOldVariable \/ UpdateNothing \/ DeleteVariable \/ MarkOld \/ SyncCache
  \/ ReclaimNonVolatileVariable \/ WriteHeader \/ WriteHeaderValid \/ WriteData
  \/ Retry \/ WriteAdded \/ DeleteOld

LEMMA PlainSteps ==
  ASSUME IInv, Plain
  PROVE  /\ SameCall
         /\ pc' \in {"clean", "update"} => pc \in {"clean", "update"}
         /\ pc' \notin {"ftw", "remember"}
         /\ pc' = "done" => st' # "full" \/ AtRuntimeUnreclaimed
<1>1. op \in Op
  BY ListIs
<1>2. CASE DeleteAllOldVariable
  <2>1. /\ pc = "clean" /\ pc' \in {"clean", "update"} /\ UNCHANGED caller /\ phase' = phase
        /\ op' = op \/ op' = [op EXCEPT !.scan = Least(Outdated(op.name)) + 1]
    BY <1>2 DEF DeleteAllOldVariable
  <2>2. op'.name = op.name /\ op'.val = op.val /\ op'.nested = op.nested
    BY <1>1, <2>1 DEF Op
  <2> QED BY <2>1, <2>2, CallerIs DEF SameCall, InCall
<1>3. CASE UpdateNothing
  <2>1. /\ pc = "update" /\ UNCHANGED caller /\ phase' = phase /\ op' = op
        /\ pc' = "sync" \/ (pc' = "done" /\ st' \in {"notfound", "success"})
    BY <1>3 DEF UpdateNothing, Return, Goto
  <2> QED BY <2>1, CallerIs DEF SameCall, InCall, Writing
<1>4. CASE DeleteVariable
  <2>1. /\ pc = "update" /\ UNCHANGED caller /\ phase' = phase /\ op' = op
        /\ pc' = "done" /\ st' \in {"success", "error"}
    BY <1>4 DEF DeleteVariable, Return
  <2> QED BY <2>1, CallerIs DEF SameCall, InCall, Writing
<1>5. CASE MarkOld
  <2>1. /\ pc = "update" /\ UNCHANGED caller /\ phase' = phase /\ op' = op
        /\ pc' = "sync" \/ (pc' = "done" /\ st' = "error")
    BY <1>5 DEF MarkOld, Return, Goto
  <2> QED BY <2>1, CallerIs DEF SameCall, InCall, Writing
<1>6. CASE SyncCache
  <2>1. pc = "sync" /\ UNCHANGED caller /\ phase' = phase
    BY <1>6 DEF SyncCache
  <2>2. op'.name = op.name /\ op'.val = op.val /\ op'.nested = op.nested /\ pc' = "room"
    BY <1>6, SyncCacheValues
  <2> QED BY <2>1, <2>2, CallerIs DEF SameCall, InCall, Writing
<1>7. CASE ReclaimNonVolatileVariable
  <2>1. /\ pc = "ftw" /\ UNCHANGED caller /\ phase' = phase /\ op' = op
        /\ pc' = "done" /\ st' \in {"success", "error"}
    BY <1>7 DEF ReclaimNonVolatileVariable, Return
  <2> QED BY <2>1, CallerIs DEF SameCall, InCall, Writing
<1>8. CASE WriteHeader
  <2>1. /\ pc = "header" /\ UNCHANGED caller /\ phase' = phase /\ op' = op
        /\ pc' = "state" \/ (pc' = "done" /\ st' = "error")
    BY <1>8 DEF WriteHeader, Return, Goto
  <2> QED BY <2>1, CallerIs DEF SameCall, InCall, Writing
<1>9. CASE WriteHeaderValid
  <2>1. /\ pc = "state" /\ UNCHANGED caller /\ phase' = phase /\ op' = op
        /\ pc' = "data" \/ (pc' = "done" /\ st' = "error")
    BY <1>9 DEF WriteHeaderValid, Return, Goto
  <2> QED BY <2>1, CallerIs DEF SameCall, InCall, Writing
<1>10. CASE WriteData
  <2>1. /\ pc = "data" /\ UNCHANGED caller /\ phase' = phase
        /\ op' = [op EXCEPT !.tries = @ + 1]
        /\ \/ pc' \in {"added", "retry"}
           \/ pc' = "done" /\ (st' = "error" \/ (st' = "full" /\ AtRuntimeUnreclaimed))
    BY <1>10 DEF WriteData, Return, Goto
  <2>2. op'.name = op.name /\ op'.val = op.val /\ op'.nested = op.nested
    BY <1>1, <2>1 DEF Op
  <2> QED BY <2>1, <2>2, CallerIs DEF SameCall, InCall, Writing
<1>11. CASE Retry
  <2>1. /\ pc = "retry" /\ UNCHANGED caller /\ phase' = phase
        /\ op' = op \/ op' = [op EXCEPT !.cur = Moved(list, @), !.at = Len(list') + 1]
        /\ pc' \in {"header", "added"} \/ (pc' = "done" /\ st' = "error")
    BY <1>11 DEF Retry, Return, Goto
  <2>2. op'.name = op.name /\ op'.val = op.val /\ op'.nested = op.nested
    BY <1>1, <2>1 DEF Op
  <2> QED BY <2>1, <2>2, CallerIs DEF SameCall, InCall, Writing
<1>12. CASE WriteAdded
  <2>1. /\ pc = "added" /\ UNCHANGED caller /\ phase' = phase /\ op' = op
        /\ pc' = "old" \/ (pc' = "done" /\ st' \in {"success", "error"})
    BY <1>12 DEF WriteAdded, Return, Goto
  <2> QED BY <2>1, CallerIs DEF SameCall, InCall, Writing
<1>13. CASE DeleteOld
  <2>1. /\ pc = "old" /\ UNCHANGED caller /\ phase' = phase /\ op' = op
        /\ pc' = "done" /\ st' \in {"success", "error"}
    BY <1>13 DEF DeleteOld, Return
  <2> QED BY <2>1, CallerIs DEF SameCall, InCall, Writing
<1> QED BY <1>2, <1>3, <1>4, <1>5, <1>6, <1>7, <1>8, <1>9, <1>10, <1>11, <1>12, <1>13 DEF Plain

LEMMA PlainCalls ==
  ASSUME IInv, Calls, Plain
  PROVE  Calls' /\ Refused'
<1>1. /\ SameCall
      /\ pc' \in {"clean", "update"} => pc \in {"clean", "update"}
      /\ pc' \notin {"ftw", "remember"}
      /\ pc' = "done" => st' # "full" \/ AtRuntimeUnreclaimed
  BY PlainSteps
<1>2. Calls'
  BY <1>1, CallsOn
<1>3. AtRuntimeUnreclaimed' <=> AtRuntimeUnreclaimed
  BY <1>1, PhaseKept DEF SameCall
<1>4. Refused'
  BY <1>1, <1>3, RefusedOn
<1> QED BY <1>2, <1>4

LEMMA CheckRoomSteps ==
  ASSUME IInv, Dependable, CheckRoom
  PROVE  /\ SameCall /\ pc = "room" /\ list' = list
         /\ \/ pc' = "header" /\ Fits(list, op.name)
            \/ pc' = "remember" /\ AtRuntimeUnreclaimed /\ ~Fits(list, op.name)
            \/ /\ pc' = "done" /\ st' = "full" /\ ~AtRuntimeUnreclaimed
               /\ WithNew(list, op.name, op.val) = <<>>
            \/ /\ pc' = "ftw" /\ ~AtRuntimeUnreclaimed
               /\ WithNew(list, op.name, op.val) # <<>>
<1>1. op \in Op
  BY ListIs
<1>2. /\ pc = "room" /\ op' = [op EXCEPT !.at = Len(list) + 1] /\ UNCHANGED caller
      /\ phase' = phase /\ list' = list
  BY DEF CheckRoom, flash
<1>3. op'.name = op.name /\ op'.val = op.val /\ op'.nested = op.nested
  BY <1>1, <1>2 DEF Op
<1>4. \/ pc' = "header" /\ Fits(list, op.name)
      \/ pc' = "remember" /\ AtRuntimeUnreclaimed /\ ~Fits(list, op.name)
      \/ /\ pc' = "done" /\ st' = "full" /\ ~AtRuntimeUnreclaimed
         /\ WithNew(list, op.name, op.val) = <<>>
      \/ /\ pc' = "ftw" /\ ~AtRuntimeUnreclaimed
         /\ WithNew(list, op.name, op.val) # <<>>
  BY DEF CheckRoom, SizeIsUnset, Dependable, Goto, Return
<1>5. SameCall
  BY <1>2, <1>3, <1>4, CallerIs DEF SameCall, InCall, Writing
<1> QED BY <1>2, <1>4, <1>5

LEMMA CheckRoomCalls ==
  ASSUME IInv, Dependable, Calls, CheckRoom
  PROVE  Calls' /\ Refused'
<1>1. /\ SameCall /\ pc = "room" /\ list' = list
      /\ \/ pc' = "header" /\ Fits(list, op.name)
         \/ pc' = "remember" /\ AtRuntimeUnreclaimed /\ ~Fits(list, op.name)
         \/ /\ pc' = "done" /\ st' = "full" /\ ~AtRuntimeUnreclaimed
            /\ WithNew(list, op.name, op.val) = <<>>
         \/ /\ pc' = "ftw" /\ ~AtRuntimeUnreclaimed
            /\ WithNew(list, op.name, op.val) # <<>>
  BY CheckRoomSteps
<1>2. Calls'
  BY <1>1, CallsOn
<1>3. AtRuntimeUnreclaimed' <=> AtRuntimeUnreclaimed
  BY <1>1, PhaseKept DEF SameCall
<1>4. op'.name = op.name /\ op'.val = op.val /\ req' = req
  BY <1>1 DEF SameCall
<1>5. CASE pc' = "header" \/ pc' = "remember"
  BY <1>5, RefusedOn, <1>2
<1>6. CASE pc' = "ftw"
  <2>1. ~AtRuntimeUnreclaimed /\ WithNew(list, op.name, op.val) # <<>>
    BY <1>1, <1>6
  <2>2. WithNew(list', op'.name, op'.val) # <<>>
    BY <1>1, <1>4, <2>1
  <2>3. Refused'
    BY <1>3, <1>6, <2>1, <2>2 DEF Refused
  <2> QED BY <1>2, <2>3
<1>7. CASE pc' = "done"
  <2>1. ~AtRuntimeUnreclaimed /\ WithNew(list, op.name, op.val) = <<>>
    BY <1>1, <1>7
  <2>2. op.name = req.name
    BY <1>1, <2>1 DEF Calls, InCall, Writing
  <2>3. list \in Seq(Copy) /\ Ordered(list) /\ Whole(list) /\ op.name \in Names
    BY ListIs
  <2>4. Map!Full(HeldPreserved(list), req.name)
    BY <2>1, <2>2, <2>3, NothingFits
  <2>5. Map!Full([n \in Names |-> IF n \in Preserved THEN Value(list, n) ELSE Absent], req.name)
    BY <2>4 DEF HeldPreserved
  <2>6. Map!Full([n \in Names |-> IF n \in Preserved THEN Value(list, n) ELSE Absent], req.name)'
    BY <1>1, <1>4, <2>5
  <2>7. Refused'
    BY <1>7, <2>6 DEF Refused
  <2> QED BY <1>2, <2>7
<1> QED BY <1>1, <1>5, <1>6, <1>7

LEMMA SetDoReclaimNextBootSteps ==
  ASSUME IInv, Calls, SetDoReclaimNextBoot
  PROVE  /\ req' = req /\ reply' = reply /\ phase' = phase /\ list' = list
         /\ AtRuntimeUnreclaimed /\ op.val \in Values /\ op.tries = 0
         /\ pc = "remember" /\ pc' \in {"done", "sync"}
         /\ \/ pc' = "done" /\ st' = "full" /\ op' = op
            \/ /\ pc' = "sync" /\ op'.nested /\ op'.name = NeedReclaim
               /\ op'.val \in Values /\ op'.cur = 0 /\ op'.tries = 0
               /\ Value(list, NeedReclaim) = Absent
               /\ ~(Capacity - Used(list) < Threshold)
         /\ pc' = "done" => \/ Capacity - Used(list) < Threshold
                            \/ Value(list, NeedReclaim) # Absent
<1>1. /\ pc = "remember" /\ UNCHANGED caller /\ phase' = phase /\ list' = list
  BY DEF SetDoReclaimNextBoot, flash
<1>2. AtRuntimeUnreclaimed
  BY <1>1 DEF Calls
<1>3. op.val \in Values /\ op.tries = 0
  BY <1>1 DEF IInv, Local
<1>4. /\ list \in Seq(Copy) /\ Ordered(list) /\ Whole(list) /\ DataOK /\ Store
      /\ NeedReclaim \in Names
  BY ListIs, VariableAssumption
<1>5. FindVariable(View, NeedReclaim) = FindVariable(list, NeedReclaim)
  BY <1>4, ViewFinds
<1>6. FindVariable(View, NeedReclaim) # 0 <=> Value(list, NeedReclaim) # Absent
  <2>1. Newest(list, NeedReclaim, FindVariable(list, NeedReclaim))
    BY <1>4, FindVariableIs
  <2> QED BY <1>4, <1>5, <2>1, ValueThere
<1>7. CASE Capacity - Used(list) < Threshold \/ FindVariable(View, NeedReclaim) # 0
  <2>1. pc' = "done" /\ st' = "full" /\ op' = op
    BY <1>7 DEF SetDoReclaimNextBoot, Return
  <2> QED BY <1>1, <1>2, <1>3, <1>6, <1>7, <2>1, CallerIs
<1>8. CASE ~(Capacity - Used(list) < Threshold \/ FindVariable(View, NeedReclaim) # 0)
  <2>1. op' = [NoOp EXCEPT !.val = CHOOSE v \in Values : TRUE, !.nested = TRUE] /\ pc' = "sync"
    BY <1>8 DEF SetDoReclaimNextBoot, Goto
  <2>2. (CHOOSE v \in Values : TRUE) \in Values
    BY <1>3
  <2>3. /\ op'.nested /\ op'.name = NeedReclaim /\ op'.val \in Values /\ op'.cur = 0
        /\ op'.tries = 0
    BY <2>1, <2>2 DEF NoOp
  <2> QED BY <1>1, <1>2, <1>3, <1>6, <1>8, <2>1, <2>3, CallerIs
<1> QED BY <1>7, <1>8

LEMMA SetDoReclaimNextBootCalls ==
  ASSUME IInv, Calls, SetDoReclaimNextBoot
  PROVE  Calls' /\ Refused'
<1>1. /\ req' = req /\ phase' = phase /\ AtRuntimeUnreclaimed
      /\ pc = "remember" /\ pc' \in {"done", "sync"}
      /\ \/ pc' = "done" /\ op' = op
         \/ pc' = "sync" /\ op'.nested /\ op'.name = NeedReclaim
  BY SetDoReclaimNextBootSteps
<1>2. AtRuntimeUnreclaimed'
  BY <1>1, PhaseKept
<1>3. Calls'
  BY <1>1, <1>2 DEF Calls, InCall, Writing
<1>4. Refused'
  BY <1>1, <1>2, RefusedOn
<1> QED BY <1>3, <1>4

\* The actions after which no call is under way.
Outside == Done \/ ReclaimForOS \/ Reclaim \/ ForgetReclaim \/ Boot \/ Crash

LEMMA OutsideSteps ==
  ASSUME Calls, Outside
  PROVE  /\ req' = NoRequest /\ ~op'.nested /\ pc' \notin InCall
         /\ Done \/ Crash \/ (req = NoRequest /\ reply' = reply)
<1>1. CASE Done
  BY <1>1 DEF Done, NoOp, InCall, Writing
<1>2. CASE Crash
  BY <1>2 DEF Crash, NoOp, InCall, Writing
<1>3. CASE ReclaimForOS \/ Reclaim \/ ForgetReclaim \/ Boot
  <2>1. /\ pc \in {"idle", "reclaim", "forget", "boot"}
        /\ pc' \in {"idle", "reclaim", "forget", "dead"}
        /\ UNCHANGED caller /\ op' = op
    BY <1>3 DEF ReclaimForOS, Reclaim, ForgetReclaim, Boot, Goto
  <2>2. pc \notin InCall /\ pc' \notin InCall
    BY <2>1 DEF InCall, Writing
  <2>3. req = NoRequest /\ ~op.nested
    BY <2>2 DEF Calls
  <2> QED BY <2>1, <2>2, <2>3, CallerIs
<1> QED BY <1>1, <1>2, <1>3 DEF Outside

LEMMA SetVariableSteps ==
  ASSUME SetVariable
  PROVE  \E r \in Requests :
           /\ (r.val = Absent) = (r.by \in Deletes)
           /\ req' = r /\ op'.name = r.name /\ op'.val = r.val /\ ~op'.nested
           /\ op'.cur = FindVariable(View, r.name) /\ op'.tries = 0 /\ op'.scan = 1
           /\ pc = "idle"
           /\ pc' = IF r.by # "access" /\ SeveralFound(View, r.name)
                    THEN "clean" ELSE "update"
           /\ list' = list /\ reply' = "none" /\ phase' = phase
<1>1. PICK r \in Requests :
           /\ (r.val = Absent) = (r.by \in Deletes)
           /\ req' = r
           /\ op' = [NoOp EXCEPT !.name = r.name, !.val = r.val,
                                 !.cur = FindVariable(View, r.name)]
           /\ pc' = IF r.by # "access" /\ SeveralFound(View, r.name)
                    THEN "clean" ELSE "update"
  BY DEF SetVariable
<1>2. /\ op'.name = r.name /\ op'.val = r.val /\ ~op'.nested
      /\ op'.cur = FindVariable(View, r.name) /\ op'.tries = 0 /\ op'.scan = 1
  BY <1>1 DEF NoOp
<1>3. pc = "idle" /\ list' = list /\ reply' = "none" /\ phase' = phase
  BY DEF SetVariable, flash
<1> QED BY <1>1, <1>2, <1>3

LEMMA SetVariableCalls ==
  ASSUME SetVariable
  PROVE  Calls' /\ Refused'
<1>1. PICK r \in Requests :
           /\ req' = r /\ op'.name = r.name /\ op'.val = r.val /\ ~op'.nested
           /\ pc' = IF r.by # "access" /\ SeveralFound(View, r.name)
                    THEN "clean" ELSE "update"
  BY SetVariableSteps
<1>2. pc' \in {"clean", "update"}
  BY <1>1
<1>3. Calls'
  BY <1>1, <1>2 DEF Calls, InCall, Writing
<1>4. Refused'
  BY <1>2, RefusedOn
<1> QED BY <1>3, <1>4

LEMMA InitCalls ==
  ASSUME Init
  PROVE  Calls /\ Refused
BY DEF Init, Calls, Refused, InCall, Writing, NoOp

LEMMA StutterCalls ==
  ASSUME Calls, Refused, UNCHANGED vars
  PROVE  Calls' /\ Refused'
<1>1. /\ pc' = pc /\ st' = st /\ op' = op /\ req' = req /\ list' = list /\ phase' = phase
  BY DEF vars
<1>2. AtRuntimeUnreclaimed' <=> AtRuntimeUnreclaimed
  BY <1>1, PhaseKept
<1>3. Calls'
  BY <1>1, <1>2 DEF Calls
<1>4. CASE ~(pc = "done" /\ st = "full" /\ ~AtRuntimeUnreclaimed)
  <2>1. pc = "ftw" => ~AtRuntimeUnreclaimed' /\ WithNew(list', op'.name, op'.val) # <<>>
    BY <1>1, <1>2 DEF Refused
  <2> QED BY <1>1, <1>2, <1>3, <1>4, <2>1 DEF Refused
<1>5. CASE pc = "done" /\ st = "full" /\ ~AtRuntimeUnreclaimed
  <2>1. Map!Full([n \in Names |-> IF n \in Preserved THEN Value(list, n) ELSE Absent], req.name)
    BY <1>5 DEF Refused
  <2>2. Map!Full([n \in Names |-> IF n \in Preserved THEN Value(list, n) ELSE Absent], req.name)'
    BY <1>1, <2>1
  <2> QED BY <1>1, <1>3, <1>5, <2>2 DEF Refused
<1> QED BY <1>3, <1>4, <1>5

LEMMA NextCases ==
  ASSUME Next
  PROVE  \/ Plain \/ CheckRoom \/ SetDoReclaimNextBoot \/ SetVariable \/ Outside
BY DEF Next, Driver, Plain, Outside

LEMMA CallsInvariant ==
  Spec /\ Dependable => [](Calls /\ Refused)
<1>1. Init => Calls /\ Refused
  BY InitCalls
<1>2. IInv /\ Dependable /\ Calls /\ Refused /\ [Next]_vars => Calls' /\ Refused'
  <2> SUFFICES ASSUME IInv, Dependable, Calls, Refused, [Next]_vars
               PROVE  Calls' /\ Refused'
    OBVIOUS
  <2>1. CASE Plain
    BY <2>1, PlainCalls
  <2>2. CASE CheckRoom
    BY <2>2, CheckRoomCalls
  <2>3. CASE SetDoReclaimNextBoot
    BY <2>3, SetDoReclaimNextBootCalls
  <2>4. CASE SetVariable
    BY <2>4, SetVariableCalls
  <2>5. CASE Outside
    BY <2>5, OutsideSteps, CallOver
  <2>6. CASE UNCHANGED vars
    BY <2>6, StutterCalls
  <2> QED BY <2>1, <2>2, <2>3, <2>4, <2>5, <2>6, NextCases
<1>3. Dependable' <=> Dependable
  BY DEF Dependable
<1> QED BY <1>1, <1>2, <1>3, Invariance, PTL DEF Spec

\* A call is answered where it is done, and nowhere else.
LEMMA AnsweredByDone ==
  ASSUME IInv, Calls, [Next]_vars, reply' # "none", reply' # reply
  PROVE  Done
<1>1. CASE Plain
  BY <1>1, PlainSteps DEF SameCall
<1>2. CASE CheckRoom
  BY <1>2 DEF CheckRoom, caller
<1>3. CASE SetDoReclaimNextBoot
  BY <1>3, SetDoReclaimNextBootSteps
<1>4. CASE SetVariable
  BY <1>4 DEF SetVariable
<1>5. CASE Outside
  BY <1>5, OutsideSteps DEF Crash
<1>6. CASE UNCHANGED vars
  BY <1>6 DEF vars
<1> QED BY <1>1, <1>2, <1>3, <1>4, <1>5, <1>6, NextCases

(* EFI_OUT_OF_RESOURCES is answered, when the store may be reclaimed, only if *)
(* what ReclaimNonVolatileVariable must preserve leaves no room for the      *)
(* value: dead copies and remains in the store never are the reason.         *)
THEOREM RefusedCorrect == Spec /\ Dependable => RefusedForAReason
<1> DEFINE Reason ==
      reply' = "full" /\ reply # "full" /\ ~AtRuntimeUnreclaimed =>
        Map!Full([n \in Names |-> IF n \in Preserved THEN Value(list, n) ELSE Absent],
                 req.name)
<1>1. IInv /\ Calls /\ Refused /\ [Next]_vars => [Reason]_vars
  <2> SUFFICES ASSUME IInv, Calls, Refused, [Next]_vars,
                      reply' = "full", reply # "full", ~AtRuntimeUnreclaimed
               PROVE  Map!Full([n \in Names |-> IF n \in Preserved THEN Value(list, n) ELSE Absent],
                               req.name)
    OBVIOUS
  <2>1. Done
    BY AnsweredByDone
  <2>2. pc = "done" /\ reply' = (IF op.nested THEN "full" ELSE st)
    BY <2>1 DEF Done
  <2>3. ~op.nested
    BY DEF Calls
  <2>4. st = "full"
    BY <2>2, <2>3
  <2> QED BY <2>2, <2>4 DEF Refused
<1>2. RefusedForAReason <=> [][Reason]_vars
  BY DEF RefusedForAReason
<1> QED BY <1>1, <1>2, Invariance, CallsInvariant, PTL DEF Spec

-----------------------------------------------------------------------------
(* The answer.                                                                *)

\* The variable asked for has another value.
Unset == req.val # Absent /\ Value(list, req.name) # req.val

LEMMA StillUnset ==
  ASSUME Calls, Unset, SameCall, Keeps
  PROVE  Unset'
<1>1. req' = req /\ req.name \in Names
  BY DEF Calls, SameCall, Requests
<1> QED BY <1>1 DEF Unset, Keeps, SameValues

\* UpdateVariable goes on, or it gives up.
LEMMA WritingOn ==
  ASSUME Calls, Answered, SameCall, Keeps, pc \in Writing \/ op.nested,
         pc' = "done" /\ ~op'.nested => st' \in {"error", "full"}
  PROVE  Answered'
<1>1. Unset
  BY DEF Answered, Unset
<1>2. Unset'
  BY <1>1, StillUnset
<1> QED BY <1>2 DEF Answered, Unset

\* The variable is what has been asked for.
LEMMA ToldSuccess ==
  ASSUME pc' = "done", st' \in {"success", "error"}, ~op'.nested,
         st' = "success" => Value(list', req'.name) = req'.val
  PROVE  Answered'
BY DEF Answered, Writing

LEMMA UpdateNothingAnswers ==
  ASSUME IInv, Calls, UpdateNothing
  PROVE  Answered'
<1>1. /\ list \in Seq(Copy) /\ Ordered(list) /\ Whole(list) /\ op.name \in Names
  BY ListIs
<1>2. /\ pc = "update" /\ list' = list /\ req' = req /\ op' = op
  BY CallerIs DEF UpdateNothing, flash
<1>3. /\ Newest(list, op.name, op.cur) /\ ~op.nested /\ op.name = req.name /\ op.val = req.val
  BY <1>2 DEF IInv, Local, Found, Calls, InCall
<1>4. Value(list, req.name) = IF op.cur = 0 THEN Absent ELSE list[op.cur].val
  BY <1>1, <1>3, ValueIs
<1>5. \/ op.cur = 0 /\ op.val = Absent /\ pc' = "done" /\ st' = "notfound"
      \/ op.cur = 0 /\ op.val # Absent /\ pc' = "sync"
      \/ op.cur # 0 /\ list[op.cur].val = op.val /\ pc' = "done" /\ st' = "success"
  BY DEF UpdateNothing, Return, Goto
<1> QED BY <1>2, <1>3, <1>4, <1>5 DEF Answered, Writing

LEMMA DeleteVariableAnswers ==
  ASSUME IInv, Calls, Alone, DeleteVariable
  PROVE  Answered'
<1>1. pc = "update" /\ op.val = Absent /\ pc' = "done" /\ req' = req /\ op' = op
  BY CallerIs DEF DeleteVariable, Return
<1>2. /\ LiveCopies(list, op.name) \subseteq {op.cur} /\ ~op.nested
      /\ op.name = req.name /\ op.val = req.val
  BY <1>1 DEF Alone, Calls, InCall
<1>3. st' = "success" => SetsValue(list, list', op.name, Absent)
  BY <1>2, DeleteVariableValues
<1>4. st' \in {"success", "error"}
  BY DeleteVariableValues
<1>5. st' = "success" => Value(list', req'.name) = req'.val
  BY <1>1, <1>2, <1>3, ListIs DEF SetsValue
<1> QED BY <1>1, <1>2, <1>4, <1>5, ToldSuccess

LEMMA MarkOldAnswers ==
  ASSUME IInv, Calls, MarkOld
  PROVE  Answered'
<1>1. /\ list \in Seq(Copy) /\ Ordered(list) /\ op.name \in Names
  BY ListIs
<1>2. /\ pc = "update" /\ req' = req /\ op' = op /\ op.val # Absent
      /\ op.cur # 0 /\ list[op.cur].val # op.val
      /\ pc' = "sync" \/ (pc' = "done" /\ st' = "error")
  BY CallerIs DEF MarkOld, Return, Goto
<1>3. /\ Newest(list, op.name, op.cur) /\ ~op.nested /\ op.name = req.name /\ op.val = req.val
  BY <1>2 DEF IInv, Local, Found, Calls, InCall
<1>4. Value(list, op.name) = list[op.cur].val
  BY <1>1, <1>2, <1>3, ValueIs
<1>5. Value(list', op.name) = Value(list, op.name)
  BY <1>1, MarkOldValues DEF Keeps, SameValues
<1>6. req'.val # Absent /\ Value(list', req'.name) # req'.val
  BY <1>2, <1>3, <1>4, <1>5
<1> QED BY <1>2, <1>3, <1>6 DEF Answered

LEMMA RewriteAnswers ==
  ASSUME IInv, Calls, Refused, Answered, ReclaimNonVolatileVariable
  PROVE  Answered'
<1>1. pc = "ftw" /\ req' = req /\ op' = op /\ op.name \in Names
  BY CallerIs, ListIs DEF ReclaimNonVolatileVariable
<1>2. ~op.nested /\ op.name = req.name /\ op.val = req.val
      /\ WithNew(list, op.name, op.val) # <<>>
  BY <1>1 DEF Calls, Refused, InCall, Writing
<1>3. \/ /\ pc' = "done" /\ st' = "success"
         /\ \/ SetsValue(list, list', op.name, op.val)
            \/ SetsWhenFull(list, list', op.name, op.val)
      \/ pc' = "done" /\ st' = "error" /\ Keeps
  BY <1>2, RewriteValues
<1>4. st' = "success" => Value(list', req'.name) = req'.val
  BY <1>1, <1>2, <1>3 DEF SetsValue, SetsWhenFull
<1> QED BY <1>1, <1>2, <1>3, <1>4, ToldSuccess

LEMMA WriteAddedAnswers ==
  ASSUME IInv, Calls, Answered, WriteAdded
  PROVE  Answered'
<1>1. /\ pc = "added" /\ req' = req /\ op' = op /\ op.name \in Names
  BY CallerIs, ListIs DEF WriteAdded
<1>2. req \in Requests /\ req.name \in Names /\ req.name # NeedReclaim
  BY <1>1 DEF Calls, InCall, Writing, Requests
<1>3. \/ /\ pc' = "old" \/ (pc' = "done" /\ st' = "success")
         /\ SetsValue(list, list', op.name, op.val)
      \/ pc' = "done" /\ st' = "error" /\ Keeps
  BY WriteAddedValues
<1>4. CASE op.nested
  <2>1. op.name = NeedReclaim
    BY <1>4 DEF Calls
  <2>2. Value(list', req.name) = Value(list, req.name)
    BY <1>2, <1>3, <2>1 DEF SetsValue, Keeps, SameValues
  <2>3. req.val # Absent /\ Value(list, req.name) # req.val
    BY <1>4 DEF Answered
  <2> QED BY <1>1, <1>4, <2>2, <2>3 DEF Answered
<1>5. CASE ~op.nested
  <2>1. op.name = req.name /\ op.val = req.val
    BY <1>1, <1>5 DEF Calls, InCall, Writing
  <2>2. CASE pc' = "old"
    BY <1>1, <1>5, <2>2 DEF Answered, Writing
  <2>3. CASE pc' = "done"
    <3>1. st' = "success" => Value(list', req'.name) = req'.val
      BY <1>1, <1>2, <1>3, <2>1, <2>3 DEF SetsValue
    <3> QED BY <1>1, <1>3, <1>5, <2>3, <3>1, ToldSuccess
  <2> QED BY <1>3, <2>2, <2>3
<1> QED BY <1>4, <1>5

LEMMA DeleteOldAnswers ==
  ASSUME IInv, Calls, Answered, DeleteOld
  PROVE  Answered'
<1>1. /\ pc = "old" /\ req' = req /\ op' = op /\ op.name \in Names
      /\ pc' = "done" /\ st' \in {"success", "error"}
  BY CallerIs, ListIs DEF DeleteOld, Return
<1>2. Keeps /\ Value(list, op.name) = op.val
  BY DeleteOldValues
<1>3. CASE op.nested
  <2>1. SameCall
    BY <1>3, PlainSteps DEF Plain
  <2> QED BY <1>2, <1>1, <1>3, <2>1, WritingOn
<1>4. CASE ~op.nested
  <2>1. op.name = req.name /\ op.val = req.val
    BY <1>1, <1>4 DEF Calls, InCall
  <2>2. Value(list', req'.name) = req'.val
    BY <1>1, <1>2, <2>1 DEF Keeps, SameValues
  <2> QED BY <1>1, <1>4, <2>2, ToldSuccess
<1> QED BY <1>3, <1>4

\* The accesses that leave every value as it is, and give up or go on.
LEMMA PassingAnswers ==
  ASSUME IInv, Dependable, Calls, Answered,
         SyncCache \/ CheckRoom \/ WriteHeader \/ WriteHeaderValid \/ WriteData \/ Retry
  PROVE  Answered'
<1>1. Keeps
  BY SyncCacheValues, CheckRoomSteps, Same, DeadAccessAgrees, RetryValues DEF DeadAccess
<1>2. SameCall
  BY PlainSteps, CheckRoomSteps DEF Plain
<1>3. pc \in Writing
  BY DEF SyncCache, CheckRoom, WriteHeader, WriteHeaderValid, WriteData, Retry, Writing
<1>4. pc' = "done" => st' \in {"error", "full"}
  BY DEF SyncCache, CheckRoom, WriteHeader, WriteHeaderValid, WriteData, Retry, Return, Goto
<1> QED BY <1>1, <1>2, <1>3, <1>4, WritingOn

LEMMA SetDoReclaimNextBootAnswers ==
  ASSUME IInv, Calls, Answered, SetDoReclaimNextBoot
  PROVE  Answered'
<1>1. /\ req' = req /\ list' = list /\ pc = "remember"
      /\ \/ pc' = "done" /\ st' = "full" /\ op' = op
         \/ pc' = "sync" /\ op'.nested
  BY SetDoReclaimNextBootSteps
<1>2. req.val # Absent /\ Value(list, req.name) # req.val
  BY <1>1 DEF Answered, Writing
<1> QED BY <1>1, <1>2 DEF Answered

LEMMA AnswersStep ==
  ASSUME IInv, Dependable, Calls, Refused, Alone, Answered, [Next]_vars
  PROVE  Answered'
<1>1. CASE DeleteAllOldVariable
  <2>1. /\ pc = "clean" /\ pc' \in {"clean", "update"}
        /\ op'.nested = op.nested
    BY <1>1, PlainSteps DEF Plain, SameCall, DeleteAllOldVariable
  <2>2. ~op.nested
    BY <2>1 DEF Calls
  <2> QED BY <2>1, <2>2 DEF Answered, Writing
<1>2. CASE SetVariable
  <2>1. pc' \in {"clean", "update"} /\ ~op'.nested
    BY <1>2, SetVariableSteps
  <2> QED BY <2>1 DEF Answered, Writing
<1>3. CASE Outside
  BY <1>3, OutsideSteps, CallOver
<1>4. CASE UNCHANGED vars
  <2>1. pc' = pc /\ st' = st /\ op' = op /\ req' = req /\ list' = list
    BY <1>4 DEF vars
  <2> QED BY <2>1 DEF Answered
<1>5. CASE SetDoReclaimNextBoot
  BY <1>5, SetDoReclaimNextBootAnswers
<1>6. CASE CheckRoom \/ (Plain /\ ~DeleteAllOldVariable)
  BY <1>6, UpdateNothingAnswers, DeleteVariableAnswers, MarkOldAnswers, RewriteAnswers,
     WriteAddedAnswers, DeleteOldAnswers, PassingAnswers DEF Plain
<1> QED BY <1>1, <1>2, <1>3, <1>4, <1>5, <1>6, NextCases

LEMMA AnswersInvariant ==
  Spec /\ Dependable /\ []Alone => []Answered
<1>1. Init => Answered
  BY DEF Init, Answered, Writing, NoOp
<1>2. IInv /\ Dependable /\ Calls /\ Refused /\ Alone /\ Answered /\ [Next]_vars => Answered'
  BY AnswersStep
<1>3. Dependable' <=> Dependable
  BY DEF Dependable
<1> QED BY <1>1, <1>2, <1>3, Invariance, CallsInvariant, PTL DEF Spec

-----------------------------------------------------------------------------
(* Each step is one of VariableMap, or none.                                  *)

Pending == IF req = NoRequest THEN NoRequest ELSE [name |-> req.name, val |-> req.val]

LEMMA PendingIs ==
  ASSUME Calls, pc \in InCall
  PROVE  /\ Pending # NoRequest /\ Pending.name = req.name /\ Pending.val = req.val
         /\ req # NoRequest /\ req.name \in Names /\ req.name # NeedReclaim
         /\ req.val \in Values \cup {Absent}
<1>1. req \in Requests
  BY DEF Calls
<1>2. req # NoRequest
  BY <1>1, RequestAssumption
<1>3. /\ req.name \in Names /\ req.name # NeedReclaim /\ req.val \in Values \cup {Absent}
  BY <1>1 DEF Requests
<1>4. Pending = [name |-> req.name, val |-> req.val]
  BY <1>2 DEF Pending
<1>5. [name |-> req.name, val |-> req.val] \in [name : Names, val : Values \cup {Absent}]
  BY <1>3
<1>6. Pending # NoRequest
  BY <1>4, <1>5, RequestAssumption
<1> QED BY <1>2, <1>3, <1>4, <1>6

LEMMA HeldSame ==
  ASSUME Keeps
  PROVE  Held(list') = Held(list)
BY DEF Held, Keeps, SameValues

LEMMA HeldSet ==
  ASSUME NEW m, NEW n \in Names, NEW v, SetsValue(list, m, n, v)
  PROVE  Held(m) = [Held(list) EXCEPT ![n] = v]
BY DEF Held, SetsValue

\* What a call does, whether in one access or by a rewrite of the store.
Does(m) == \/ SetsValue(list, m, req.name, req.val)
           \/ SetsWhenFull(list, m, req.name, req.val) /\ req.val # Absent

LEMMA HasEffect ==
  ASSUME Calls, pc \in InCall, Does(list')
  PROVE  Map!Effect
<1>1. /\ Pending.name = req.name /\ Pending.val = req.val /\ req.name \in Names
  BY PendingIs
<1>2. CASE SetsValue(list, list', req.name, req.val)
  <2>1. Held(list') = [Held(list) EXCEPT ![Pending.name] = Pending.val]
    BY <1>1, <1>2, HeldSet
  <2> QED BY <2>1 DEF Map!Effect, Held, Pending
<1>3. CASE SetsWhenFull(list, list', req.name, req.val) /\ req.val # Absent
  <2>1. Map!Full(Held(list), Pending.name) /\ Pending.val # Absent
    BY <1>1, <1>3 DEF SetsWhenFull
  <2>2. \A a \in Names : Value(list', a) = IF a = Pending.name THEN Pending.val
                                           ELSE IF a \in Preserved THEN Held(list)[a] ELSE Absent
    BY <1>1, <1>3 DEF SetsWhenFull, Held
  <2>3. Held(list') = [n \in Names |-> IF n = Pending.name THEN Pending.val
                                       ELSE IF n \in Preserved THEN Held(list)[n] ELSE Absent]
    BY <2>2 DEF Held
  <2> QED BY <2>1, <2>3 DEF Map!Effect, Held, Pending
<1> QED BY <1>2, <1>3 DEF Does

LEMMA Commits ==
  ASSUME Calls, pc \in InCall, Does(list'), req' = req, reply' = reply
  PROVE  Map!Commit
<1>1. Pending # NoRequest /\ Pending' = Pending
  BY PendingIs DEF Pending
<1>2. Map!Effect
  BY HasEffect
<1> QED BY <1>1, <1>2 DEF Map!Commit, Pending

LEMMA Notes ==
  ASSUME NEW v \in Values \cup {Absent}, SetsValue(list, list', NeedReclaim, v),
         req' = req, reply' = reply
  PROVE  Map!Note
<1>1. NeedReclaim \in Names
  BY VariableAssumption
<1>2. Held(list') = [Held(list) EXCEPT ![NeedReclaim] = v]
  BY <1>1, HeldSet
<1>3. Pending' = Pending
  BY DEF Pending
<1> QED BY <1>2, <1>3 DEF Map!Note, Held, Pending

LEMMA Stutters ==
  ASSUME Keeps, req' = req, reply' = reply
  PROVE  UNCHANGED Map!vars
<1>1. Held(list') = Held(list)
  BY HeldSame
<1>2. Pending' = Pending
  BY DEF Pending
<1> QED BY <1>1, <1>2 DEF Map!vars, Held, Pending

LEMMA Asks ==
  ASSUME Calls, SetVariable
  PROVE  Map!Ask
<1>1. PICK r \in Requests : req' = r /\ pc = "idle" /\ list' = list /\ reply' = "none"
  BY SetVariableSteps
<1>2. req = NoRequest
  BY <1>1 DEF Calls, InCall, Writing
<1>3. r # NoRequest
  BY RequestAssumption
<1>4. Pending = NoRequest
  BY <1>2 DEF Pending
<1>5. Pending' = [name |-> r.name, val |-> r.val]
  BY <1>1, <1>3 DEF Pending
<1>6. Pending' \in [name : Names \ {NeedReclaim}, val : Values \cup {Absent}]
  BY <1>5 DEF Requests
<1>7. Held(list') = Held(list)
  BY <1>1
<1> QED BY <1>1, <1>4, <1>6, <1>7 DEF Map!Ask, Map!Requests, Held, Pending

LEMMA Answers ==
  ASSUME IInv, Calls, Answered, Done
  PROVE  Map!Succeed \/ Map!Refuse \/ Map!Error
<1>1. /\ pc = "done" /\ reply' = (IF op.nested THEN "full" ELSE st)
      /\ req' = NoRequest /\ list' = list
  BY DEF Done, flash
<1>2. /\ Pending # NoRequest /\ Pending.name = req.name /\ Pending.val = req.val
      /\ req.name \in Names
  BY <1>1, PendingIs DEF InCall
<1>3. Pending' = NoRequest /\ Held(list') = Held(list)
  BY <1>1 DEF Pending
<1>4. Held(list)[Pending.name] = Value(list, req.name)
  BY <1>2 DEF Held
<1>5. st \in {"success", "error", "full", "notfound"}
  BY DEF IInv, DataOK
<1>6. CASE reply' = "success"
  <2>1. Value(list, req.name) = req.val
    BY <1>1, <1>6 DEF Answered
  <2>2. Held(list)[Pending.name] = Pending.val
    BY <1>2, <1>4, <2>1
  <2> QED BY <1>2, <1>3, <1>6, <2>2 DEF Map!Succeed, Held, Pending
<1>7. CASE reply' = "full"
  <2>1. req.val # Absent /\ Value(list, req.name) # req.val
    BY <1>1, <1>7 DEF Answered
  <2>2. Pending.val # Absent /\ Held(list)[Pending.name] # Pending.val
    BY <1>2, <1>4, <2>1
  <2> QED BY <1>2, <1>3, <1>7, <2>2 DEF Map!Refuse, Held, Pending
<1>8. CASE reply' = "notfound"
  <2>1. req.val = Absent /\ Value(list, req.name) = Absent
    BY <1>1, <1>8 DEF Answered
  <2>2. Pending.val = Absent /\ Held(list)[Pending.name] = Absent
    BY <1>2, <1>4, <2>1
  <2> QED BY <1>2, <1>3, <1>8, <2>2 DEF Map!Refuse, Held, Pending
<1>9. CASE reply' = "error"
  BY <1>2, <1>3, <1>9 DEF Map!Error, Held, Pending
<1> QED BY <1>1, <1>5, <1>6, <1>7, <1>8, <1>9

LEMMA LosesPower ==
  ASSUME IInv, Calls, Refused, Crash
  PROVE  Map!PowerLoss
<1>1. req' = NoRequest /\ reply' = "none" /\ Pending' = NoRequest
  BY DEF Crash, Pending
<1>2. PICK f \in Torn : list' = f[1]
  BY DEF Crash, FlashIn
<1>3. CASE SameValues(list, list')
  <2>1. Held(list') = Held(list)
    BY <1>3, HeldSame DEF Keeps
  <2> QED BY <1>1, <2>1 DEF Map!PowerLoss, Held, Pending
<1>4. CASE pc = "ftw" /\ list' = WithNew(list, op.name, op.val)
  <2>1. /\ list \in Seq(Copy) /\ Ordered(list) /\ Whole(list) /\ op.name \in Names
    BY ListIs
  <2>2. op.val \in Values /\ pc \in InCall
    BY <1>4 DEF IInv, Local, Marked, InCall, Writing
  <2>3. ~op.nested /\ op.name = req.name /\ op.val = req.val
        /\ WithNew(list, op.name, op.val) # <<>>
    BY <1>4, <2>2 DEF Calls, Refused
  <2>4. SetsValue(list, list', op.name, op.val) \/ SetsWhenFull(list, list', op.name, op.val)
    BY <1>4, <2>1, <2>2, <2>3, WithNewValues
  <2>5. Does(list')
    BY <2>2, <2>3, <2>4, VariableAssumption DEF Does
  <2>6. Map!Effect
    BY <2>2, <2>5, HasEffect
  <2>7. Pending # NoRequest
    BY <2>2, PendingIs
  <2> QED BY <1>1, <2>6, <2>7 DEF Map!PowerLoss, Pending
<1> QED BY <1>2, <1>3, <1>4, TornValues

LEMMA PlainImplements ==
  ASSUME IInv, Dependable, Calls, Refused, Alone, Plain
  PROVE  Map!Commit \/ Map!Note \/ UNCHANGED Map!vars
<1>1. /\ req' = req /\ reply' = reply /\ pc \in InCall
  BY PlainSteps DEF SameCall
<1>2. CASE Keeps
  BY <1>1, <1>2, Stutters
<1>3. CASE DeleteVariable
  <2>1. pc = "update" /\ op.val = Absent
    BY <1>3 DEF DeleteVariable
  <2>2. LiveCopies(list, op.name) \subseteq {op.cur} /\ op.name = req.name /\ op.val = req.val
    BY <1>1, <2>1 DEF Alone, Calls
  <2>3. SetsValue(list, list', req.name, req.val) \/ Keeps
    BY <1>3, <2>1, <2>2, DeleteVariableValues
  <2> QED BY <1>1, <1>2, <2>3, Commits DEF Does
<1>4. CASE ReclaimNonVolatileVariable
  <2>1. pc = "ftw"
    BY <1>4 DEF ReclaimNonVolatileVariable
  <2>2. op.val \in Values
    BY <2>1 DEF IInv, Local, Marked
  <2>3. op.name = req.name /\ op.val = req.val /\ WithNew(list, op.name, op.val) # <<>>
    BY <1>1, <2>1 DEF Calls, Refused
  <2>4. \/ SetsValue(list, list', op.name, op.val) \/ SetsWhenFull(list, list', op.name, op.val)
        \/ Keeps
    BY <1>4, <2>3, RewriteValues
  <2>5. Does(list') \/ Keeps
    BY <2>2, <2>3, <2>4, VariableAssumption DEF Does
  <2> QED BY <1>1, <1>2, <2>5, Commits
<1>5. CASE WriteAdded
  <2>1. pc = "added" /\ (SetsValue(list, list', op.name, op.val) \/ Keeps)
    BY <1>5, WriteAddedValues DEF WriteAdded
  <2>2. op.val \in Values
    BY <2>1 DEF IInv, Local, Marked
  <2>3. CASE op.nested /\ SetsValue(list, list', op.name, op.val)
    <3>1. op.name = NeedReclaim
      BY <2>3 DEF Calls
    <3> QED BY <1>1, <2>2, <2>3, <3>1, Notes
  <2>4. CASE ~op.nested /\ SetsValue(list, list', op.name, op.val)
    <3>1. op.name = req.name /\ op.val = req.val
      BY <1>1, <2>4 DEF Calls
    <3> QED BY <1>1, <2>4, <3>1, Commits DEF Does
  <2> QED BY <1>2, <2>1, <2>3, <2>4
<1>6. CASE UpdateNothing
  BY <1>2, <1>6, Same DEF UpdateNothing, flash
<1>7. CASE \/ DeleteAllOldVariable \/ MarkOld \/ SyncCache \/ WriteHeader \/ WriteHeaderValid
           \/ WriteData \/ Retry \/ DeleteOld
  BY <1>2, <1>7, DeleteAllOldVariableValues, MarkOldValues, SyncCacheValues, DeadAccessAgrees,
     RetryValues, DeleteOldValues DEF DeadAccess
<1> QED BY <1>3, <1>4, <1>5, <1>6, <1>7 DEF Plain

LEMMA OutsideImplements ==
  ASSUME IInv, Calls, Refused, Answered, Outside
  PROVE  [Map!Next]_(Map!vars)
<1>1. CASE Done
  BY <1>1, Answers DEF Map!Next
<1>2. CASE Crash
  BY <1>2, LosesPower DEF Map!Next
<1>3. CASE ~Done /\ ~Crash
  <2>1. req = NoRequest /\ req' = req /\ reply' = reply
    BY <1>3, OutsideSteps
  <2>2. CASE Reclaim \/ ReclaimForOS \/ Boot
    <3>1. Keeps
      BY <2>2, ReclaimValues, Same DEF ReclaimForOS, Boot, flash
    <3> QED BY <2>1, <3>1, Stutters
  <2>3. CASE ForgetReclaim
    <3>1. CASE Keeps
      BY <2>1, <3>1, Stutters
    <3>2. ASSUME NEW v \in Values \cup {Absent}, SetsValue(list, list', NeedReclaim, v)
          PROVE  Map!Note
      BY <2>1, <3>2, Notes
    <3> QED BY <2>3, <3>1, <3>2, ForgetReclaimValues DEF Map!Next
  <2> QED BY <1>3, <2>2, <2>3 DEF Outside
<1> QED BY <1>1, <1>2, <1>3

LEMMA StepImplements ==
  ASSUME IInv, Dependable, Calls, Refused, Alone, Answered, [Next]_vars
  PROVE  [Map!Next]_(Map!vars)
<1>1. CASE Plain
  BY <1>1, PlainImplements DEF Map!Next
<1>2. CASE CheckRoom
  BY <1>2, CheckRoomSteps, Same, Stutters DEF SameCall
<1>3. CASE SetDoReclaimNextBoot
  BY <1>3, SetDoReclaimNextBootSteps, Same, Stutters
<1>4. CASE SetVariable
  BY <1>4, Asks DEF Map!Next
<1>5. CASE Outside
  BY <1>5, OutsideImplements
<1>6. CASE UNCHANGED vars
  <2>1. list' = list /\ req' = req /\ reply' = reply
    BY <1>6 DEF vars
  <2> QED BY <2>1, Same, Stutters
<1> QED BY <1>1, <1>2, <1>3, <1>4, <1>5, <1>6, NextCases

LEMMA InitImplements ==
  ASSUME Init
  PROVE  Map!Init
<1>1. list = <<>> /\ req = NoRequest /\ reply = "none"
  BY DEF Init
<1>2. \A n : FindVariable(list, n) = 0
  BY <1>1 DEF FindVariable, AddedCopies, OldCopies
<1>3. \A n \in Names : Value(list, n) = Absent
  BY <1>2 DEF Value
<1>4. Held(list) = [n \in Names |-> Absent]
  BY <1>3 DEF Held
<1>5. Pending = NoRequest
  BY <1>1 DEF Pending
<1> QED BY <1>1, <1>4, <1>5 DEF Map!Init, Held, Pending

(* SetVariable and everything that runs beside it, the reclaim at boot and   *)
(* at ready to boot, the driver's own variable and a loss of power in the    *)
(* middle of any access, change the variables as VariableMap does.           *)
THEOREM MapImplemented == Spec /\ Dependable /\ []Alone => ImplementsMap
<1>1. Init => Map!Init
  BY InitImplements
<1>2. IInv /\ Dependable /\ Calls /\ Refused /\ Alone /\ Answered /\ [Next]_vars
        => [Map!Next]_(Map!vars)
  BY StepImplements
<1>3. Dependable' <=> Dependable
  BY DEF Dependable
<1> QED BY <1>1, <1>2, <1>3, Invariance, CallsInvariant, AnswersInvariant,
           PTL DEF Spec, ImplementsMap, Map!Spec

-----------------------------------------------------------------------------
(* When a deletion meets one copy only: DeleteAllOldVariable is called before *)
(* it and meets no failing access ...                                         *)

\* Nothing else has been met: the copy found is the only one.
LEMMA FoundAlone ==
  ASSUME NEW l \in Seq(Copy), NEW n \in Names, Ordered(l), ~SeveralFound(l, n)
  PROVE  LiveCopies(l, n) \subseteq {FindVariable(l, n)}
<1> DEFINE f == FindVariable(l, n)
<1>1. Newest(l, n, f)
  BY FindVariableIs
<1>2. SUFFICES ASSUME NEW i \in LiveCopies(l, n), i # f
               PROVE  FALSE
  OBVIOUS
<1>3. f \in LiveCopies(l, n) /\ i =< f
  BY <1>1, <1>2 DEF Newest
<1>4. i \in DOMAIN l /\ f \in DOMAIN l /\ DOMAIN l \subseteq Nat /\ DOMAIN l \subseteq 0 .. Len(l)
      /\ Len(l) \in Nat
  BY <1>2, <1>3, CopiesIn
<1>5. i \notin AddedCopies(l, n)
  BY <1>2, <1>3, <1>4 DEF Ordered
<1>6. i \in OldCopies(l, n)
  BY <1>2, <1>5, CopiesIn
<1>7. CASE AddedCopies(l, n) # {}
  <2>1. i < f
    BY <1>2, <1>3, <1>4
  <2> QED BY <1>6, <1>7, <2>1 DEF SeveralFound
<1>8. CASE AddedCopies(l, n) = {}
  <2>1. f \in OldCopies(l, n)
    BY <1>3, <1>8, CopiesIn
  <2>2. {i, f} \in SUBSET OldCopies(l, n)
    BY <1>6, <2>1
  <2>3. IsFiniteSet(OldCopies(l, n))
    <3>1. OldCopies(l, n) \in SUBSET (1 .. Len(l))
      BY DEF OldCopies
    <3>2. IsFiniteSet(1 .. Len(l))
      BY <1>4, FS_Interval
    <3> QED BY <3>1, <3>2, FS_Subset
  <2>4. IsFiniteSet({f}) /\ Cardinality({f}) = 1
    BY FS_Singleton
  <2>5. {i, f} = {f} \cup {i} /\ i \notin {f}
    BY <1>2
  <2>6. Cardinality({i, f}) = 2
    <3>1. PICK T : T = {f}
      OBVIOUS
    <3>2. Cardinality(T \cup {i}) = Cardinality(T) + 1
      BY <2>4, <2>5, <3>1, FS_AddElement
    <3>3. Cardinality(T) = 1
      BY <2>4, <3>1
    <3>4. Cardinality(T \cup {i}) = 2
      BY <3>2, <3>3
    <3>5. T \cup {i} = {i, f}
      BY <3>1
    <3> QED BY <3>4, <3>5
  <2>7. Cardinality({i, f}) =< Cardinality(OldCopies(l, n)) /\ Cardinality(OldCopies(l, n)) \in Nat
    BY <2>2, <2>3, FS_Subset, FS_CardinalityType
  <2>8. ~(Cardinality(OldCopies(l, n)) > 1)
    BY <1>8 DEF SeveralFound
  <2> QED BY <2>6, <2>7, <2>8
<1> QED BY <1>7, <1>8

LEMMA SetVariableCleans ==
  ASSUME IInv, "access" \notin Deletes, SetVariable
  PROVE  Cleaned'
<1>1. PICK r \in Requests :
           /\ req' = r /\ op'.name = r.name /\ op'.val = r.val /\ ~op'.nested
           /\ op'.cur = FindVariable(View, r.name) /\ op'.scan = 1
           /\ pc' = IF r.by # "access" /\ SeveralFound(View, r.name)
                    THEN "clean" ELSE "update"
           /\ list' = list
  BY SetVariableSteps
<1>2. r.by # "access" /\ r.name \in Names
  BY DEF Requests
<1>3. /\ list \in Seq(Copy) /\ Ordered(list)
      /\ cache # Off => cache \in Seq(Copy) /\ Mirrors(cache, list)
  BY DEF IInv, DataOK, Store
<1>4. /\ FindVariable(View, r.name) = FindVariable(list, r.name)
      /\ SeveralFound(View, r.name) = SeveralFound(list, r.name)
  BY <1>3, MirrorsFind DEF View
<1>6. CASE SeveralFound(list, r.name)
  <2>1. pc' = "clean"
    BY <1>1, <1>2, <1>4, <1>6
  <2>2. \A i \in OldCopies(list', op'.name) : i >= op'.scan
    <3>1. ASSUME NEW i \in OldCopies(list', op'.name)
          PROVE  i >= op'.scan
      <4>1. i \in DOMAIN list
        BY <1>1, <3>1, CopiesIn
      <4> QED BY <1>1, <1>3, <4>1
    <3> QED BY <3>1
  <2> QED BY <2>1, <2>2 DEF Cleaned
<1>7. CASE ~SeveralFound(list, r.name)
  <2>1. pc' = "update"
    BY <1>1, <1>4, <1>7
  <2>2. LiveCopies(list', op'.name) \subseteq {op'.cur}
    BY <1>1, <1>2, <1>3, <1>4, <1>7, FoundAlone
  <2> QED BY <2>1, <2>2 DEF Cleaned
<1> QED BY <1>6, <1>7

\* A live copy other than the current one is one in transition to be deleted.
LEMMA OlderIs ==
  ASSUME NEW l \in Seq(Copy), Ordered(l), NEW n \in Names, NEW k, Newest(l, n, k),
         NEW i \in LiveCopies(l, n), i # k
  PROVE  i \in OldCopies(l, n) /\ ExistNewerVariable(l, i)
<1>1. k \in LiveCopies(l, n) /\ i =< k
  BY DEF Newest
<1>2. i \in DOMAIN l /\ k \in DOMAIN l /\ i \in Nat /\ k \in Nat
      /\ l[i].name = n /\ l[k].name = n /\ IsLive(l[k])
  BY <1>1, CopiesIn
<1>3. k > i
  BY <1>1, <1>2
<1>4. ExistNewerVariable(l, i)
  BY <1>2, <1>3 DEF ExistNewerVariable, IsLive, Live
<1>5. i \notin AddedCopies(l, n)
  BY <1>1, <1>2, <1>3 DEF Ordered
<1> QED BY <1>4, <1>5, CopiesIn

LEMMA DeleteAllOldVariableCleans ==
  ASSUME IInv, Calls, Cleaned, CleansAll, DeleteAllOldVariable
  PROVE  Cleaned'
<1>1. /\ DataOK /\ Store /\ list \in Seq(Copy) /\ Ordered(list) /\ Whole(list)
      /\ op \in Op /\ op.name \in Names /\ op.scan \in Nat /\ errors \in Nat
  BY ListIs, OpIs DEF IInv, DataOK
<1>2. Newest(list, op.name, op.cur) /\ pc = "clean" /\ ~op.nested
  BY DEF IInv, Local, Found, DeleteAllOldVariable, Calls
<1>3. \A i \in OldCopies(list, op.name) : i # op.cur => i >= op.scan
  BY <1>2 DEF Cleaned
<1>4. CASE Outdated(op.name) = {}
  <2>1. pc' = "update" /\ list' = list /\ op' = op
    BY <1>4 DEF DeleteAllOldVariable, flash
  <2>2. ASSUME NEW i \in LiveCopies(list, op.name), i # op.cur
        PROVE  FALSE
    <3>1. i \in OldCopies(list, op.name) /\ ExistNewerVariable(list, i)
      BY <1>1, <1>2, <2>2, OlderIs
    <3>2. i \in Outdated(op.name)
      BY <1>3, <2>2, <3>1 DEF Outdated
    <3> QED BY <1>4, <3>2
  <2>3. LiveCopies(list', op'.name) \subseteq {op'.cur}
    BY <2>1, <2>2
  <2> QED BY <2>1, <2>3 DEF Cleaned
<1>5. CASE Outdated(op.name) # {}
  <2> DEFINE x == Least(Outdated(op.name))
  <2>1. x \in Outdated(op.name) /\ \A j \in Outdated(op.name) : x =< j
    <3>1. Outdated(op.name) \in SUBSET Nat
      BY <1>1, CopiesIn DEF Outdated
    <3> QED BY <1>5, <3>1, LeastIs
  <2>2. /\ ClearBits(x, {"deleted"}) \/ AccessFails
        /\ op' = [op EXCEPT !.scan = x + 1] /\ pc' = "clean"
    BY <1>2, <1>5 DEF DeleteAllOldVariable
  <2>3. ClearBits(x, {"deleted"})
    BY <1>1, <1>2, <2>2 DEF CleansAll, AccessFails
  <2>4. x \in DOMAIN list /\ x \in Nat /\ x \in OldCopies(list, op.name)
    BY <1>1, <2>1, CopiesIn DEF Outdated
  <2> HIDE DEF x
  <2>5. /\ op'.name = op.name /\ op'.cur = op.cur /\ ~op'.nested /\ op'.scan = x + 1
    BY <1>1, <1>2, <2>2 DEF Op
  <2>6. list' \in Seq(Copy) /\ Edited(list, list', x, list[x].state \cup {"deleted"})
    BY <1>1, <2>3, <2>4, KillStep
  <2>7. list[x].state \cup {"deleted"} \notin Live
    BY States
  <2>8. OldCopies(list', op.name) = OldCopies(list, op.name) \ {x}
    BY <1>1, <2>6, <2>7, EditKills
  <2>9. ASSUME NEW i \in OldCopies(list, op.name), i # x, i # op.cur
        PROVE  i >= x + 1
    <3>1. i \in LiveCopies(list, op.name)
      BY CopiesIn
    <3>2. ExistNewerVariable(list, i)
      BY <1>1, <1>2, <2>9, <3>1, OlderIs
    <3>3. i \in Outdated(op.name)
      BY <1>3, <2>9, <3>2 DEF Outdated
    <3>4. i \in Nat /\ x =< i
      BY <1>1, <2>1, <3>1, <3>3, CopiesIn
    <3> QED BY <2>4, <2>9, <3>4
  <2> QED BY <2>2, <2>5, <2>8, <2>9 DEF Cleaned
<1> QED BY <1>4, <1>5

LEMMA CleansStep ==
  ASSUME IInv, Calls, Cleaned, "access" \notin Deletes, [CleansAll]_vars, [Next]_vars
  PROVE  Cleaned'
<1>1. CASE DeleteAllOldVariable
  <2>1. CleansAll
    BY DEF CleansAll, vars
  <2> QED BY <1>1, <2>1, DeleteAllOldVariableCleans
<1>2. CASE SetVariable
  BY <1>2, SetVariableCleans
<1>3. CASE Outside
  BY <1>3, OutsideSteps, CallOver
<1>4. CASE UNCHANGED vars
  <2>1. pc' = pc /\ op' = op /\ list' = list
    BY <1>4 DEF vars
  <2> QED BY <2>1 DEF Cleaned
<1>5. CASE \/ CheckRoom \/ SetDoReclaimNextBoot \/ (Plain /\ ~DeleteAllOldVariable)
  <2>1. pc' \notin {"clean", "update"}
    BY <1>5, SetDoReclaimNextBootSteps
       DEF CheckRoom, Plain, UpdateNothing, DeleteVariable, MarkOld, SyncCache,
       ReclaimNonVolatileVariable, WriteHeader, WriteHeaderValid, WriteData, Retry, WriteAdded,
       DeleteOld, Return, Goto
  <2> QED BY <2>1 DEF Cleaned
<1> QED BY <1>1, <1>2, <1>3, <1>4, <1>5, NextCases

\* Callers delete with a size of 0, and deleting the older copies succeeds.
Clearing == "access" \notin Deletes /\ [][CleansAll]_vars

LEMMA CleansAlone == Spec /\ Dependable /\ Clearing => []Alone
<1>1. Init => Cleaned
  BY DEF Init, Cleaned
<1>2. IInv /\ Calls /\ Cleaned /\ "access" \notin Deletes /\ [CleansAll]_vars /\ [Next]_vars
        => Cleaned'
  BY CleansStep
<1>3. Cleaned => Alone
  BY DEF Cleaned, Alone
<1>4. ("access" \notin Deletes)' <=> "access" \notin Deletes
  OBVIOUS
<1> QED BY <1>1, <1>2, <1>3, <1>4, Invariance, CallsInvariant, PTL DEF Spec, Clearing

-----------------------------------------------------------------------------
(* ... or nothing interrupts an update: there never is an older copy.         *)

\* No copy has become live.
Fewer == \A n \in Names : LiveCopies(list', n) \subseteq LiveCopies(list, n)

LEMMA SingleOn ==
  ASSUME Single, Fewer, pc # "old"
  PROVE  Single'
BY DEF Single, Fewer

LEMMA SingleRewritten ==
  ASSUME Once(list')
  PROVE  Single'
BY CopiesIn DEF Single, Once

LEMMA KillsFewer ==
  ASSUME IInv, NEW i \in DOMAIN list, ClearBits(i, {"deleted"})
  PROVE  \A n : LiveCopies(list', n) = LiveCopies(list, n) \ {i}
<1>1. DataOK /\ Store /\ list \in Seq(Copy) /\ Ordered(list) /\ Whole(list)
  BY ListIs
<1>2. list' \in Seq(Copy) /\ Edited(list, list', i, list[i].state \cup {"deleted"})
  BY <1>1, KillStep
<1>3. list[i].state \cup {"deleted"} \notin Live
  BY States
<1> QED BY <1>1, <1>2, <1>3, EditKills

LEMMA DeleteAllOldVariableSingle ==
  ASSUME IInv, DeleteAllOldVariable
  PROVE  Fewer
<1>1. list \in Seq(Copy)
  BY ListIs
<1>2. CASE list' = list
  BY <1>2 DEF Fewer
<1>3. CASE Outdated(op.name) # {} /\ ClearBits(Least(Outdated(op.name)), {"deleted"})
  <2>1. Outdated(op.name) \in SUBSET Nat /\ Outdated(op.name) \subseteq DOMAIN list
    BY <1>1, CopiesIn DEF Outdated
  <2>2. Least(Outdated(op.name)) \in DOMAIN list
    BY <1>3, <2>1, LeastIs
  <2> QED BY <1>3, <2>2, KillsFewer DEF Fewer
<1> QED BY <1>2, <1>3 DEF DeleteAllOldVariable, flash, AccessFails

LEMMA DeleteVariableSingle ==
  ASSUME IInv, DeleteVariable
  PROVE  Fewer
<1>1. op.cur \in DOMAIN list
  <2>1. Found /\ op.cur # 0
    BY DEF IInv, Local, DeleteVariable
  <2> QED BY <2>1, CurrentCopy
<1>2. CASE ClearBits(op.cur, {"deleted"})
  BY <1>1, <1>2, KillsFewer DEF Fewer
<1>3. CASE AccessFails
  BY <1>3, FailKeeps DEF Fewer
<1> QED BY <1>2, <1>3 DEF DeleteVariable

LEMMA MarkOldSingle ==
  ASSUME IInv, MarkOld
  PROVE  Fewer
<1>1. /\ list \in Seq(Copy) /\ Ordered(list) /\ Whole(list) /\ DataOK /\ Store
  BY ListIs
<1>2. op.cur \in DOMAIN list /\ IsLive(list[op.cur])
  <2>1. Found /\ op.cur # 0
    BY DEF IInv, Local, MarkOld
  <2> QED BY <2>1, CurrentCopy
<1>3. CASE ClearBits(op.cur, {"transition"})
  <2>1. list' \in Seq(Copy) /\ Edited(list, list', op.cur, InDeletion)
    BY <1>1, <1>2, <1>3, MarkStep
  <2> QED BY <1>1, <1>2, <2>1, EditMarks DEF Fewer
<1>4. CASE AccessFails
  BY <1>4, FailKeeps DEF Fewer
<1> QED BY <1>3, <1>4 DEF MarkOld

LEMMA ForgetReclaimSingle ==
  ASSUME IInv, ForgetReclaim
  PROVE  Fewer
<1>1. /\ list \in Seq(Copy) /\ Ordered(list) /\ DataOK /\ Store /\ NeedReclaim \in Names
  BY ListIs, VariableAssumption
<1>2. CASE NeedDoReclaim /\ ClearBits(FindVariable(View, NeedReclaim), {"deleted"})
  <2> DEFINE i == FindVariable(View, NeedReclaim)
  <2>1. i = FindVariable(list, NeedReclaim)
    BY <1>1, ViewFinds
  <2>2. Newest(list, NeedReclaim, i) /\ i # 0
    BY <1>1, <1>2, <2>1, FindVariableIs DEF NeedDoReclaim
  <2>3. ClearBits(i, {"deleted"})
    BY <1>2
  <2> HIDE DEF i
  <2>4. i \in DOMAIN list
    BY <1>1, <2>2, FoundCopy
  <2> QED BY <2>3, <2>4, KillsFewer DEF Fewer
<1>3. CASE list' = list
  BY <1>3 DEF Fewer
<1> QED BY <1>2, <1>3 DEF ForgetReclaim, flash, AccessFails

\* The new copy counts, beside the one it replaces or alone.
LEMMA WriteAddedSingle ==
  ASSUME IInv, Single, WriteAdded, ~AccessFails
  PROVE  Single'
<1>1. /\ list \in Seq(Copy) /\ Ordered(list) /\ Whole(list) /\ DataOK /\ Store
      /\ op.name \in Names
  BY ListIs
<1>2. /\ Marked /\ op.at = Len(list) /\ op.at # 0 /\ IsCorrectVariable(list, op.at)
      /\ op.val \in Values /\ pc = "added"
  BY DEF IInv, Local, WriteAdded, Marked
<1>3. /\ op.at \in DOMAIN list /\ list[op.at].name = op.name /\ list[op.at].val = op.val
      /\ list[op.at].state = HeaderValidOnly
  BY <1>2 DEF IsCorrectVariable
<1>4. /\ Added \in SUBSET StateBits /\ HeaderValidOnly \cup Added = Added
      /\ HeaderValidOnly \notin Live
  BY States
<1>5. /\ WriteState(op.at, Added) /\ op' = op
      /\ IF op.cur # 0 THEN Goto("old") ELSE Return("success")
  BY DEF WriteAdded
<1>6. list[op.at].state \cup Added = Added /\ ~IsLive(list[op.at])
  BY <1>3, <1>4 DEF IsLive
<1>7. list' \in Seq(Copy) /\ Edited(list, list', op.at, Added)
  BY <1>1, <1>3, <1>4, <1>5, <1>6, WriteStateIs
<1>8. AddedCopies(list, op.name) = {} /\ Newest(list, op.name, op.cur)
  BY <1>2 DEF Marked, Found
<1>9. /\ \A n : n # op.name => LiveCopies(list', n) = LiveCopies(list, n)
      /\ AddedCopies(list', op.name) = {op.at}
      /\ OldCopies(list', op.name) = OldCopies(list, op.name)
  BY <1>1, <1>2, <1>3, <1>6, <1>7, <1>8, EditAdds
<1>10. ASSUME NEW i \in LiveCopies(list', op.name)
       PROVE  i = op.at \/ (op.cur # 0 /\ i = op.cur)
  <2>1. i = op.at \/ i \in LiveCopies(list, op.name)
    BY <1>9, CopiesIn
  <2>2. ASSUME i \in LiveCopies(list, op.name)
        PROVE  op.cur # 0 /\ i = op.cur
    <3>1. op.cur \in LiveCopies(list, op.name) /\ op.cur # 0
      <4>1. op.cur \in LiveCopies(list, op.name)
        BY <1>8, <2>2 DEF Newest
      <4>2. op.cur \in DOMAIN list
        BY <4>1, CopiesIn
      <4> QED BY <1>1, <4>1, <4>2
    <3> QED BY <1>1, <1>2, <2>2, <3>1 DEF Single
  <2> QED BY <2>1, <2>2
<1>11. op.cur # 0 => pc' = "old"
  BY <1>5 DEF Goto
<1>12. ASSUME NEW n \in Names, NEW i \in LiveCopies(list', n), NEW j \in LiveCopies(list', n)
       PROVE  i = j \/ (pc' = "old" /\ n = op.name /\ {i, j} \subseteq {op.cur, op.at})
  <2>1. CASE n # op.name
    BY <1>2, <1>9, <1>12, <2>1 DEF Single
  <2>2. CASE n = op.name
    BY <1>10, <1>11, <1>12, <2>2
  <2> QED BY <2>1, <2>2
<1> QED BY <1>5, <1>12 DEF Single

LEMMA DeleteOldSingle ==
  ASSUME IInv, Single, DeleteOld, ~AccessFails
  PROVE  Single'
<1>1. /\ op.cur \in OldCopies(list, op.name) /\ op.name \in Names /\ pc = "old"
      /\ op.at \in AddedCopies(list, op.name)
  BY ListIs DEF IInv, Local, DeleteOld
<1>2. op.cur \in DOMAIN list /\ ClearBits(op.cur, {"deleted"})
  BY <1>1, CopiesIn DEF DeleteOld
<1>3. \A n : LiveCopies(list', n) = LiveCopies(list, n) \ {op.cur}
  BY <1>2, KillsFewer
<1> QED BY <1>3 DEF Single

LEMMA SingleStep ==
  ASSUME IInv, Dependable, Faultless, Single, [Next]_vars
  PROVE  Single'
<1>1. ~AccessFails /\ ~Crash
  <2>1. errors \in 0 .. MaxErrors /\ crashes \in 0 .. MaxCrashes
    BY DEF IInv, DataOK
  <2> QED BY <2>1 DEF AccessFails, Crash, Faultless
<1>2. list \in Seq(Copy) /\ Ordered(list) /\ Whole(list) /\ op.name \in Names
  BY ListIs
<1>3. CASE WriteAdded
  BY <1>1, <1>3, WriteAddedSingle
<1>4. CASE DeleteOld
  BY <1>1, <1>4, DeleteOldSingle
<1>5. CASE ReclaimNonVolatileVariable
  <2>1. op.val \in Values
    BY <1>5 DEF IInv, Local, Marked, ReclaimNonVolatileVariable
  <2>2. list' = WithNew(list, op.name, op.val)
    BY <1>1, <1>5 DEF ReclaimNonVolatileVariable, FtwVariableSpace
  <2> QED BY <1>2, <2>1, <2>2, WithNewGood, SingleRewritten
<1>6. CASE Retry
  <2>1. list' = Reclaimed(list, op.cur, TRUE)
    BY <1>1, <1>6 DEF Retry, FtwVariableSpace
  <2> QED BY <1>2, <2>1, ReclaimedIs, SingleRewritten
<1>7. CASE Reclaim
  <2>1. list' = Reclaimed(list, 0, FALSE)
    BY <1>1, <1>7 DEF Reclaim, FtwVariableSpace
  <2> QED BY <1>2, <2>1, ReclaimedIs, SingleRewritten
<1>8. CASE DeleteAllOldVariable \/ DeleteVariable \/ MarkOld \/ ForgetReclaim
  <2>1. pc # "old"
    BY <1>8 DEF DeleteAllOldVariable, DeleteVariable, MarkOld, ForgetReclaim
  <2> QED BY <1>8, <2>1, DeleteAllOldVariableSingle, DeleteVariableSingle, MarkOldSingle,
             ForgetReclaimSingle, SingleOn
<1>9. CASE DeadAccess
  <2>1. \A n : LiveCopies(list', n) = LiveCopies(list, n)
    BY <1>2, <1>9, DeadAccessAgrees, AgreesKeeps
  <2>2. pc # "old"
    BY <1>9 DEF DeadAccess, WriteHeader, WriteHeaderValid, WriteData
  <2> QED BY <2>1, <2>2, SingleOn DEF Fewer
<1>10. CASE UpdateNothing \/ SyncCache \/ CheckRoom \/ SetDoReclaimNextBoot \/ SetVariable
            \/ Done \/ ReclaimForOS \/ Boot
  <2>1. pc # "old"
    BY <1>10 DEF UpdateNothing, SyncCache, CheckRoom, SetDoReclaimNextBoot, SetVariable, Done,
       ReclaimForOS, Boot
  <2>2. list' = list
    BY <1>10, SyncCacheValues DEF UpdateNothing, CheckRoom, SetDoReclaimNextBoot, SetVariable,
       Done, ReclaimForOS, Boot, flash
  <2> QED BY <2>1, <2>2, SingleOn DEF Fewer
<1>11. CASE UNCHANGED vars
  BY <1>11 DEF vars, Single
<1> QED BY <1>1, <1>3, <1>4, <1>5, <1>6, <1>7, <1>8, <1>9, <1>10, <1>11
        DEF Next, Driver, DeadAccess

LEMMA SinglesAlone ==
  ASSUME IInv, Single
  PROVE  Alone
<1>1. SUFFICES ASSUME pc = "update", NEW i \in LiveCopies(list, op.name)
               PROVE  i = op.cur
  BY DEF Alone
<1>2. Newest(list, op.name, op.cur) /\ op.name \in Names
  BY <1>1, ListIs DEF IInv, Local, Found
<1>3. op.cur \in LiveCopies(list, op.name)
  BY <1>1, <1>2 DEF Newest
<1> QED BY <1>1, <1>2, <1>3 DEF Single

LEMMA FaultlessAlone == Spec /\ Dependable /\ Faultless => []Alone
<1>1. Init => Single
  BY CopiesIn DEF Init, Single
<1>2. IInv /\ Dependable /\ Faultless /\ Single /\ [Next]_vars => Single'
  BY SingleStep
<1>3. IInv /\ Single => Alone
  BY SinglesAlone
<1>4. (Dependable' <=> Dependable) /\ (Faultless' <=> Faultless)
  BY DEF Dependable, Faultless
<1> QED BY <1>1, <1>2, <1>3, <1>4, Invariance, PTL DEF Spec

(* DeleteVariable: it marks one copy, and there is no other, where callers   *)
(* delete with a size of 0 and DeleteAllOldVariable, whose status is not     *)
(* looked at, meets no failing access, and where nothing fails or is cut     *)
(* short.                                                                    *)
THEOREM DeletionsMeetOneCopy ==
  Spec /\ Dependable /\ (Clearing \/ Faultless) => []Alone
BY CleansAlone, FaultlessAlone, PTL

-----------------------------------------------------------------------------
(* The driver's own variable.                                                 *)

\* Data written over blank space is what it should be.
LEMMA DataIsTaken ==
  ASSUME IInv, Dependable, OnBlank, WriteData
  PROVE  pc' = "added" \/ (pc' = "done" /\ st' = "error" /\ errors' # errors)
<1>1. /\ pc = "data" /\ tail = "clean" /\ Placed(HeaderValidOnly) /\ list \in Seq(Copy)
      /\ op.val \in Values /\ errors \in Nat
  BY DEF WriteData, OnBlank, IInv, Local, Marked, DataOK
<1>2. /\ op.at = Len(list) /\ op.at # 0
      /\ list[op.at].name = op.name /\ list[op.at].state = HeaderValidOnly
  BY <1>1 DEF Placed
<1>3. op.at \in DOMAIN list
  BY <1>1, <1>2
<1>4. CASE AccessFails /\ Return("error")
  BY <1>1, <1>4 DEF AccessFails, Return
<1>5. CASE /\ (FlashIn(DataWritten) /\ NoFault) \/ (FlashIn(DataTorn) /\ Misses)
           /\ IF IsCorrectVariable(list', op.at) THEN Goto("added")
              ELSE IF AtRuntimeUnreclaimed THEN Return("full") ELSE Goto("retry")
  <2>1. list' = SetVal(list, op.at, op.val)
    BY <1>1, <1>3, <1>5, DataIs
  <2>2. op.val \in Values \cup {Blank, Broken}
    BY <1>1
  <2>3. /\ DOMAIN list' = DOMAIN list
        /\ list'[op.at] = [name |-> list[op.at].name, val |-> op.val,
                           state |-> list[op.at].state]
    BY <1>1, <1>3, <2>1, <2>2, SetValIs
  <2>4. IsCorrectVariable(list', op.at)
    BY <1>2, <1>3, <2>3 DEF IsCorrectVariable
  <2> QED BY <1>5, <2>4 DEF Goto
<1> QED BY <1>4, <1>5 DEF WriteData

\* The space that the threshold leaves is enough for the driver's variable.
LEMMA RoomForOwn ==
  ASSUME IInv, ~(Capacity - Used(list) < Threshold)
  PROVE  Fits(list, NeedReclaim)
<1>1. Used(list) \in Nat
  BY UsedNat, ListIs
<1>2. Capacity \in Nat /\ Threshold \in Nat /\ Size[NeedReclaim] \in Nat
      /\ Size[NeedReclaim] =< Threshold
  BY VariableAssumption
<1> QED BY <1>1, <1>2 DEF Fits

LEMMA NotRefused ==
  ASSUME ~op'.nested, pc' = "done" => st' # "full"
  PROVE  Remembered'
BY DEF Remembered

LEMMA SetDoReclaimNextBootRemembers ==
  ASSUME IInv, Calls, Remembered, SetDoReclaimNextBoot
  PROVE  Remembered'
<1>1. /\ list' = list
      /\ \/ pc' = "done" /\ st' = "full" /\ op' = op
         \/ /\ pc' = "sync" /\ op'.nested /\ op'.cur = 0
            /\ ~(Capacity - Used(list) < Threshold)
      /\ pc' = "done" => Needed
      /\ pc = "remember"
  BY SetDoReclaimNextBootSteps DEF Needed
<1>2. CASE pc' = "done"
  <2>1. Needed'
    BY <1>1, <1>2 DEF Needed
  <2>2. ~op.nested
    BY <1>1 DEF Remembered
  <2> QED BY <1>1, <1>2, <2>1, <2>2 DEF Remembered
<1>3. CASE pc' = "sync"
  <2>1. Fits(list', NeedReclaim)
    BY <1>1, <1>3, RoomForOwn
  <2> QED BY <1>1, <1>3, <2>1 DEF Remembered
<1> QED BY <1>1, <1>2, <1>3

LEMMA OwnIsNoted ==
  ASSUME IInv, Dependable, Calls, Remembered, OnBlank, OwnTakes, Plain, op.nested
  PROVE  Remembered'
<1>1. /\ op.cur = 0 /\ op.name = NeedReclaim /\ op'.nested /\ op \in Op
      /\ pc \in {"sync", "room", "header", "state", "data", "added", "done"}
      /\ NeedReclaim \in Names
  BY PlainSteps, ListIs DEF Remembered, Calls, SameCall
<1>2. errors' = errors /\ errors \in Nat
  BY DEF OwnTakes, IInv, DataOK
<1>3. ~AccessFails
  BY <1>2 DEF AccessFails
<1>4. CASE SyncCache
  <2>1. pc = "sync" /\ pc' = "room" /\ op'.cur = 0 /\ list' = list
    BY <1>1, <1>4, SyncCacheValues DEF SyncCache
  <2>2. Fits(list', NeedReclaim)
    BY <1>1, <2>1 DEF Remembered
  <2> QED BY <2>1, <2>2 DEF Remembered
<1>5. CASE WriteHeader
  <2>1. pc' = "state" /\ op' = op
    BY <1>3, <1>5 DEF WriteHeader, Goto
  <2> QED BY <1>1, <2>1 DEF Remembered
<1>6. CASE WriteHeaderValid
  <2>1. pc' = "data" /\ op' = op
    BY <1>3, <1>6 DEF WriteHeaderValid, Goto
  <2> QED BY <1>1, <2>1 DEF Remembered
<1>7. CASE WriteData
  <2>1. pc' = "added"
    BY <1>2, <1>7, DataIsTaken
  <2>2. op' = [op EXCEPT !.tries = @ + 1]
    BY <1>7 DEF WriteData
  <2>3. op'.cur = 0
    BY <1>1, <2>2 DEF Op
  <2> QED BY <2>1, <2>3 DEF Remembered
<1>8. CASE WriteAdded
  <2>1. pc' = "done" /\ st' = "success" /\ op' = op
    BY <1>1, <1>3, <1>8 DEF WriteAdded, Return
  <2>2. op.val \in Values
    BY <1>8 DEF WriteAdded, IInv, Local, Marked
  <2>3. SetsValue(list, list', NeedReclaim, op.val)
    BY <1>1, <1>8, <2>1, WriteAddedValues
  <2>4. Value(list', NeedReclaim) # Absent
    BY <1>1, <2>2, <2>3, VariableAssumption DEF SetsValue
  <2>5. Needed'
    BY <2>4 DEF Needed
  <2> QED BY <1>1, <2>1, <2>5 DEF Remembered
<1>9. CASE \/ DeleteAllOldVariable \/ UpdateNothing \/ DeleteVariable \/ MarkOld
           \/ ReclaimNonVolatileVariable \/ Retry \/ DeleteOld
  BY <1>1, <1>9 DEF DeleteAllOldVariable, UpdateNothing, DeleteVariable, MarkOld,
     ReclaimNonVolatileVariable, Retry, DeleteOld
<1> QED BY <1>4, <1>5, <1>6, <1>7, <1>8, <1>9 DEF Plain

LEMMA CallersAreNotRefused ==
  ASSUME IInv, Dependable, OnBlank, Plain, ~op.nested
  PROVE  Remembered'
<1>1. ~op'.nested
  BY PlainSteps DEF SameCall
<1>2. CASE WriteData
  BY <1>1, <1>2, DataIsTaken, NotRefused
<1>3. CASE SyncCache
  BY <1>1, <1>3, SyncCacheValues, NotRefused
<1>4. CASE \/ DeleteAllOldVariable \/ UpdateNothing \/ DeleteVariable \/ MarkOld
           \/ ReclaimNonVolatileVariable \/ WriteHeader \/ WriteHeaderValid \/ Retry
           \/ WriteAdded \/ DeleteOld
  <2>1. pc' = "done" => st' # "full"
    BY <1>4 DEF DeleteAllOldVariable, UpdateNothing, DeleteVariable, MarkOld,
       ReclaimNonVolatileVariable, WriteHeader, WriteHeaderValid, Retry, WriteAdded, DeleteOld,
       Return, Goto
  <2> QED BY <1>1, <2>1, NotRefused
<1> QED BY <1>2, <1>3, <1>4 DEF Plain

LEMMA CheckRoomRemembers ==
  ASSUME IInv, Dependable, Calls, Remembered, CheckRoom
  PROVE  Remembered'
<1>1. /\ op'.nested = op.nested /\ phase' = phase /\ pc = "room" /\ op \in Op
      /\ \/ pc' = "header"
         \/ pc' = "remember" /\ ~Fits(list, op.name)
         \/ pc' \in {"done", "ftw"} /\ ~AtRuntimeUnreclaimed
  BY CheckRoomSteps, ListIs DEF SameCall
<1>2. AtRuntimeUnreclaimed' <=> AtRuntimeUnreclaimed
  BY <1>1, PhaseKept
<1>3. CASE op.nested
  <2>1. Fits(list, op.name) /\ AtRuntimeUnreclaimed /\ op.cur = 0
    BY <1>1, <1>3 DEF Remembered, Calls
  <2>2. pc' = "header"
    BY <1>1, <2>1
  <2>3. op'.cur = op.cur
    BY <1>1 DEF CheckRoom, Op
  <2> QED BY <2>1, <2>2, <2>3 DEF Remembered
<1>4. CASE ~op.nested
  BY <1>1, <1>2, <1>4 DEF Remembered
<1> QED BY <1>3, <1>4

LEMMA RemembersStep ==
  ASSUME IInv, Dependable, Calls, Remembered, OnBlank, [OwnTakes]_vars, [Next]_vars
  PROVE  Remembered'
<1>1. OwnTakes
  BY DEF OwnTakes, vars
<1>2. CASE Plain
  BY <1>1, <1>2, OwnIsNoted, CallersAreNotRefused
<1>3. CASE CheckRoom
  BY <1>3, CheckRoomRemembers
<1>4. CASE SetDoReclaimNextBoot
  BY <1>4, SetDoReclaimNextBootRemembers
<1>5. CASE SetVariable
  <2>1. ~op'.nested /\ pc' # "done"
    BY <1>5, SetVariableSteps
  <2> QED BY <2>1, NotRefused
<1>6. CASE Outside
  <2>1. ~op'.nested /\ pc' \notin InCall
    BY <1>6, OutsideSteps
  <2> QED BY <2>1, NotRefused DEF InCall
<1>7. CASE UNCHANGED vars
  <2>1. /\ pc' = pc /\ st' = st /\ op' = op /\ list' = list /\ phase' = phase
    BY <1>7 DEF vars
  <2>2. AtRuntimeUnreclaimed' <=> AtRuntimeUnreclaimed
    BY <2>1, PhaseKept
  <2>3. Needed' <=> Needed
    BY <2>1 DEF Needed
  <2>4. Fits(list, NeedReclaim)' <=> Fits(list, NeedReclaim)
    BY <2>1
  <2> QED BY <2>1, <2>2, <2>3, <2>4 DEF Remembered
<1> QED BY <1>2, <1>3, <1>4, <1>5, <1>6, <1>7, NextCases

Undisturbed == []OnBlank /\ [][OwnTakes]_vars

LEMMA RemembersInvariant ==
  Spec /\ Dependable /\ Undisturbed => []Remembered
<1>1. Init => Remembered
  BY DEF Init, Remembered, NoOp
<1>2. IInv /\ Dependable /\ Calls /\ Remembered /\ OnBlank /\ [OwnTakes]_vars /\ [Next]_vars
        => Remembered'
  BY RemembersStep
<1>3. Dependable' <=> Dependable
  BY DEF Dependable
<1> QED BY <1>1, <1>2, <1>3, Invariance, CallsInvariant, PTL DEF Spec, Undisturbed

(* SetDoReclaimNextBoot: whoever is refused for want of room when the store  *)
(* must not be reclaimed any more finds the next boot asked to make some, by *)
(* the threshold or by the driver's own variable, for which there is room.   *)
THEOREM RefusalRemembered == Spec /\ Dependable /\ Undisturbed => RefusalIsRemembered
<1> DEFINE Promise == reply' = "full" /\ reply # "full" /\ AtRuntimeUnreclaimed =>
                        \/ Capacity - Used(list) < Threshold
                        \/ Value(list, NeedReclaim) # Absent
<1>1. IInv /\ Calls /\ Remembered /\ [Next]_vars => [Promise]_vars
  <2> SUFFICES ASSUME IInv, Calls, Remembered, [Next]_vars,
                      reply' = "full", reply # "full", AtRuntimeUnreclaimed
               PROVE  Needed
    BY DEF Needed
  <2>1. Done
    BY AnsweredByDone
  <2>2. pc = "done" /\ (op.nested \/ st = "full")
    BY <2>1 DEF Done
  <2> QED BY <2>2 DEF Remembered
<1>2. RefusalIsRemembered <=> [][Promise]_vars
  BY DEF RefusalIsRemembered
<1> QED BY <1>1, <1>2, Invariance, CallsInvariant, RemembersInvariant, PTL DEF Spec

=============================================================================
