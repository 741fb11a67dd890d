--------------------------- MODULE SmmCore_proofs ---------------------------
(***************************************************************************)
(* SmmCore for any drivers, volumes and messages and any number of SMIs,   *)
(* notifications and calls: InSmm tells the truth and every message is     *)
(* answered with its own result.                                           *)
(***************************************************************************)
EXTENDS SmmCoreInv, SequenceTheorems, FiniteSetTheorems, WellFoundedInduction, TLAPS

-----------------------------------------------------------------------------
(* Sequences that are defined by recursion: FlattenSeq, and with it Only.     *)

LessOnNat == {p \in Nat \X Nat : p[1] < p[2]}
LEMMA LessOnNatWF == IsWellFoundedOn(LessOnNat, Nat)
BY NatLessThanWellFounded DEF OpToRel, LessOnNat

LEMMA SetInduction ==
  ASSUME NEW S \in SUBSET Nat, 0 \in S, \A n \in S : n + 1 \in S
  PROVE  S = Nat
<1>1. SUFFICES ASSUME Nat \ S # {}
               PROVE  FALSE
  OBVIOUS
<1>2. PICK x \in Nat \ S : \A y \in Nat \ S : ~ (<<y, x>> \in LessOnNat)
  BY <1>1, LessOnNatWF, WFMin
<1>3. x # 0 /\ x - 1 \in Nat
  BY <1>2
<1>4. x - 1 \in S
  <2>1. SUFFICES ASSUME x - 1 \notin S
                 PROVE  FALSE
    OBVIOUS
  <2>2. x - 1 < x
    BY <1>2
  <2>3. <<x - 1, x>> \in LessOnNat
    BY <1>2, <1>3, <2>2 DEF LessOnNat
  <2> QED BY <1>2, <1>3, <2>1, <2>3
<1>5. (x - 1) + 1 = x
  BY <1>2
<1> QED BY <1>2, <1>4, <1>5

\* What FlattenSeq computes, place by place.
Flattens(g, s, n) ==
  /\ DOMAIN g = 1..n
  /\ n > 0 => g[1] = s[1]
  /\ \A i \in 2..n : g[i] = g[i - 1] \o s[i]

LEMMA FlattensExists ==
  ASSUME NEW s, NEW n \in Nat
  PROVE  \E g : g = [i \in 1..n |-> IF i = 1 THEN s[i] ELSE g[i - 1] \o s[i]]
<1> DEFINE P(k) == \E g : g = [i \in 1..k |-> IF i = 1 THEN s[i] ELSE g[i - 1] \o s[i]]
           S == {k \in Nat : P(k)}
<1>1. 0 \in S
  <2>1. [i \in 1..0 |-> s[i]] = [i \in 1..0 |-> IF i = 1 THEN s[i]
                                  ELSE [j \in 1..0 |-> s[j]][i - 1] \o s[i]]
    OBVIOUS
  <2>2. P(0)
    BY <2>1
  <2> QED BY <2>2
<1>2. ASSUME NEW k \in S
      PROVE  k + 1 \in S
  <2>1. PICK g : g = [i \in 1..k |-> IF i = 1 THEN s[i] ELSE g[i - 1] \o s[i]]
    OBVIOUS
  <2>2. k \in Nat
    OBVIOUS
  <2> DEFINE h == [i \in 1..k + 1 |-> IF i \in 1..k THEN g[i]
                                      ELSE IF i = 1 THEN s[i] ELSE g[i - 1] \o s[i]]
  <2>3. ASSUME NEW i \in 1..k + 1
        PROVE  h[i] = IF i = 1 THEN s[i] ELSE h[i - 1] \o s[i]
    <3>1. CASE i \in 1..k
      <4>1. h[i] = g[i] /\ g[i] = IF i = 1 THEN s[i] ELSE g[i - 1] \o s[i]
        BY <2>1, <3>1
      <4>2. i # 1 => i - 1 \in 1..k /\ i - 1 \in 1..k + 1
        BY <2>2, <3>1
      <4>3. i # 1 => h[i - 1] = g[i - 1]
        BY <4>2
      <4> QED BY <4>1, <4>3
    <3>2. CASE i = k + 1 /\ i # 1
      <4>1. i \notin 1..k /\ i - 1 \in 1..k /\ i - 1 \in 1..k + 1
        BY <2>2, <3>2
      <4>2. h[i] = g[i - 1] \o s[i] /\ h[i - 1] = g[i - 1]
        BY <3>2, <4>1
      <4> QED BY <3>2, <4>2
    <3>3. CASE i = 1 /\ i \notin 1..k
      BY <3>3
    <3> QED BY <2>2, <3>1, <3>2, <3>3
  <2>4. h = [i \in 1..k + 1 |-> IF i = 1 THEN s[i] ELSE h[i - 1] \o s[i]]
    BY <2>3
  <2> HIDE DEF h
  <2>5. P(k + 1)
    BY <2>4
  <2>6. k + 1 \in Nat
    BY <2>2
  <2> HIDE DEF P
  <2> QED BY <2>5, <2>6
<1> HIDE DEF P
<1>3. S = Nat
  BY <1>1, <1>2, SetInduction
<1>4. P(n)
  BY <1>3
<1> QED BY <1>4 DEF P

LEMMA FlattenPlaces ==
  ASSUME NEW s, Len(s) \in Nat \ {0}
  PROVE  \E g : Flattens(g, s, Len(s)) /\ FlattenSeq(s) = g[Len(s)]
<1> DEFINE G == CHOOSE g : g = [i \in 1..Len(s) |-> IF i = 1 THEN s[i] ELSE g[i - 1] \o s[i]]
<1>1. G = [i \in 1..Len(s) |-> IF i = 1 THEN s[i] ELSE G[i - 1] \o s[i]]
  <2>1. \E g : g = [i \in 1..Len(s) |-> IF i = 1 THEN s[i] ELSE g[i - 1] \o s[i]]
    BY FlattensExists
  <2> QED BY <2>1
<1>2. FlattenSeq(s) = G[Len(s)]
  BY DEF FlattenSeq
<1> HIDE DEF G
<1>3. Flattens(G, s, Len(s))
  <2>1. DOMAIN G = 1..Len(s)
    BY <1>1
  <2>2. \A i \in 1..Len(s) : G[i] = IF i = 1 THEN s[i] ELSE G[i - 1] \o s[i]
    BY <1>1
  <2>3. 1 \in 1..Len(s) /\ \A i \in 2..Len(s) : i # 1 /\ i \in 1..Len(s)
    OBVIOUS
  <2> QED BY <2>1, <2>2, <2>3 DEF Flattens
<1> QED BY <1>2, <1>3

LEMMA FlattenIn ==
  ASSUME NEW S, NEW s \in Seq(Seq(S))
  PROVE  FlattenSeq(s) \in Seq(S)
<1>1. CASE Len(s) = 0
  <2>1. s = <<>>
    BY <1>1
  <2> QED BY <1>1, <2>1 DEF FlattenSeq
<1>2. CASE Len(s) # 0
  <2>1. PICK g : Flattens(g, s, Len(s)) /\ FlattenSeq(s) = g[Len(s)]
    BY <1>2, FlattenPlaces
  <2> DEFINE T == {k \in Nat : k + 1 =< Len(s) => g[k + 1] \in Seq(S)}
  <2>2. 0 \in T
    <3>1. g[1] = s[1] /\ s[1] \in Seq(S)
      BY <1>2, <2>1 DEF Flattens
    <3>2. 0 + 1 = 1
      OBVIOUS
    <3> QED BY <3>1, <3>2
  <2>3. ASSUME NEW k \in T
        PROVE  k + 1 \in T
    <3>1. SUFFICES ASSUME k + 2 =< Len(s)
                   PROVE  g[k + 2] \in Seq(S)
      OBVIOUS
    <3>2. k + 2 \in 2..Len(s) /\ (k + 2) - 1 = k + 1 /\ k + 1 =< Len(s)
      BY <3>1
    <3>3. g[k + 2] = g[k + 1] \o s[k + 2]
      BY <2>1, <3>2 DEF Flattens
    <3>4. g[k + 1] \in Seq(S) /\ s[k + 2] \in Seq(S)
      BY <3>2
    <3> QED BY <3>3, <3>4
  <2>4. T = Nat
    <3> HIDE DEF T
    <3>1. T \in SUBSET Nat
      BY DEF T
    <3> QED BY <2>2, <2>3, <3>1, SetInduction
  <2>5. Len(s) - 1 \in Nat /\ (Len(s) - 1) + 1 = Len(s)
    BY <1>2
  <2>6. Len(s) - 1 \in T
    <3> HIDE DEF T
    <3> QED BY <2>4, <2>5
  <2> QED BY <2>1, <2>5, <2>6
<1> QED BY <1>1, <1>2

LEMMA OnlyIn ==
  ASSUME NEW S, NEW s \in Seq(S), NEW T
  PROVE  Only(s, T) \in Seq(S \cap T)
<1>1. [p \in DOMAIN s |-> IF s[p] \in T THEN <<s[p]>> ELSE <<>>] \in Seq(Seq(S \cap T))
  <2>1. DOMAIN s = 1..Len(s) /\ Len(s) \in Nat
    OBVIOUS
  <2>2. ASSUME NEW p \in 1..Len(s)
        PROVE  (IF s[p] \in T THEN <<s[p]>> ELSE <<>>) \in Seq(S \cap T)
    <3>1. s[p] \in S
      OBVIOUS
    <3>2. CASE s[p] \in T
      <4>1. \A x : <<x>> = [i \in 1..1 |-> x]
        OBVIOUS
      <4>2. <<s[p]>> \in [1..1 -> S \cap T]
        BY <3>1, <3>2, <4>1
      <4> QED BY <3>2, <4>2, SeqDef
    <3>3. CASE s[p] \notin T
      BY <3>3
    <3> QED BY <3>2, <3>3
  <2> QED BY <2>1, <2>2, IsASeq
<1> QED BY <1>1, FlattenIn DEF Only

\* One level of Hanging, from the one above it.
Strung(h, s) == FlattenSeq([i \in DOMAIN s |-> h[s[i]]])
Level(g, k) ==
  [D \in SUBSET Drivers |-> [d \in Drivers |->
     IF k = 0 THEN <<d>>
     ELSE Strung(g[k - 1][D], Only(discovered, {b \in D : Before[b] = d})) \o <<d>>
          \o Strung(g[k - 1][D], Only(discovered, {b \in D : After[b] = d}))]]

LEMMA LevelDepends ==
  ASSUME NEW g, NEW h, NEW k, k # 0 => g[k - 1] = h[k - 1]
  PROVE  Level(g, k) = Level(h, k)
BY DEF Level

LEMMA LevelsExist ==
  ASSUME NEW n \in Nat
  PROVE  \E g : g = [k \in 0..n |-> Level(g, k)]
<1> DEFINE P(m) == \E g : g = [k \in 0..m |-> Level(g, k)]
           S == {m \in Nat : P(m)}
<1>1. 0 \in S
  <2> DEFINE h == [k \in 0..0 |-> Level(<<>>, k)]
  <2>1. Level(<<>>, 0) = Level(h, 0)
    <3> HIDE DEF h
    <3> QED BY LevelDepends
  <2>2. h = [k \in 0..0 |-> Level(h, k)]
    <3>1. \A k \in 0..0 : k = 0
      OBVIOUS
    <3>2. \A k \in 0..0 : h[k] = Level(h, k)
      <4>1. \A k \in 0..0 : h[k] = Level(<<>>, k)
        OBVIOUS
      <4> HIDE DEF h
      <4> QED BY <2>1, <3>1, <4>1
    <3>3. DOMAIN h = 0..0 /\ h = [k \in DOMAIN h |-> h[k]]
      OBVIOUS
    <3> HIDE DEF h
    <3> QED BY <3>2, <3>3
  <2> HIDE DEF h
  <2>3. P(0)
    BY <2>2
  <2> HIDE DEF P
  <2> QED BY <2>3
<1>2. ASSUME NEW m \in S
      PROVE  m + 1 \in S
  <2>1. PICK g : g = [k \in 0..m |-> Level(g, k)]
    OBVIOUS
  <2>2. m \in Nat
    OBVIOUS
  <2> DEFINE h == [k \in 0..m + 1 |-> IF k \in 0..m THEN g[k] ELSE Level(g, k)]
  <2>3. ASSUME NEW k \in 0..m + 1
        PROVE  h[k] = Level(h, k)
    <3>1. k # 0 => k - 1 \in 0..m /\ k - 1 \in 0..m + 1
      BY <2>2
    <3>2. k # 0 => g[k - 1] = h[k - 1]
      BY <3>1
    <3>3. h[k] = Level(g, k)
      BY <2>1
    <3> HIDE DEF h
    <3> QED BY <3>2, <3>3, LevelDepends
  <2>4. h = [k \in 0..m + 1 |-> Level(h, k)]
    <3>1. DOMAIN h = 0..m + 1 /\ h = [k \in DOMAIN h |-> h[k]]
      OBVIOUS
    <3> HIDE DEF h
    <3> QED BY <2>3, <3>1
  <2> HIDE DEF h
  <2>5. P(m + 1)
    BY <2>4
  <2>6. m + 1 \in Nat
    BY <2>2
  <2> HIDE DEF P
  <2> QED BY <2>5, <2>6
<1>3. S = Nat
  <2> HIDE DEF P
  <2> QED BY <1>1, <1>2, SetInduction
<1>4. P(n)
  <2> HIDE DEF P
  <2> QED BY <1>3
<1> QED BY <1>4

LEMMA HangingIs ==
  Cardinality(Drivers) \in Nat =>
    Hanging = [k \in 0..Cardinality(Drivers) |-> Level(Hanging, k)]
<1>1. Hanging = CHOOSE g : g = [k \in 0..Cardinality(Drivers) |-> Level(g, k)]
  BY DEF Hanging, Level, Strung
<1> QED BY <1>1, LevelsExist

\* Whatever hangs on a driver is a driver.
LEMMA HangingIn ==
  ASSUME CoreAssumption, discovered \in Seq(Drivers), NEW D \in SUBSET Drivers
  PROVE  /\ Cardinality(Drivers) \in Nat
         /\ \A d \in Drivers : Hanging[Cardinality(Drivers)][D][d] \in Seq(Drivers)
<1>1. Cardinality(Drivers) \in Nat
  BY FS_CardinalityType DEF CoreAssumption
<1>2. PICK N : N = Cardinality(Drivers)
  OBVIOUS
<1> DEFINE T == {k \in Nat : k =< N => \A d \in Drivers : Hanging[k][D][d] \in Seq(Drivers)}
<1>3. ASSUME NEW k \in 0..N
      PROVE  Hanging[k] = Level(Hanging, k)
  <2>1. Hanging = [j \in 0..N |-> Level(Hanging, j)]
    BY <1>1, <1>2, HangingIs
  <2> QED BY <2>1
<1>4. 0 \in T
  <2>1. Hanging[0] = Level(Hanging, 0)
    BY <1>1, <1>2, <1>3
  <2>2. \A d \in Drivers : Hanging[0][D][d] = <<d>>
    BY <2>1 DEF Level
  <2>3. ASSUME NEW d \in Drivers
        PROVE  Hanging[0][D][d] \in Seq(Drivers)
    <3>1. <<d>> \in Seq(Drivers)
      OBVIOUS
    <3> QED BY <2>2, <3>1
  <2> QED BY <2>3
<1>5. ASSUME NEW k \in T
      PROVE  k + 1 \in T
  <2>1. k \in Nat
    OBVIOUS
  <2>2. SUFFICES ASSUME k + 1 =< N, NEW d \in Drivers
                 PROVE  Hanging[k + 1][D][d] \in Seq(Drivers)
    BY <2>1
  <2>3. k + 1 \in 0..N /\ k + 1 # 0 /\ (k + 1) - 1 = k /\ k =< N
    BY <1>1, <1>2, <2>1, <2>2
  <2>4. \A e \in Drivers : Hanging[k][D][e] \in Seq(Drivers)
    BY <2>3
  <2>5. Hanging[k + 1] = Level(Hanging, k + 1)
    BY <1>3, <2>3
  <2>6. ASSUME NEW s \in Seq(Drivers)
        PROVE  Strung(Hanging[k][D], s) \in Seq(Drivers)
    <3>1. [i \in DOMAIN s |-> Hanging[k][D][s[i]]] \in Seq(Seq(Drivers))
      <4>1. DOMAIN s = 1..Len(s) /\ Len(s) \in Nat /\ \A i \in 1..Len(s) : s[i] \in Drivers
        OBVIOUS
      <4>2. \A i \in 1..Len(s) : Hanging[k][D][s[i]] \in Seq(Drivers)
        BY <2>4, <4>1
      <4> HIDE DEF T
      <4> QED BY <4>1, <4>2, IsASeq
    <3> QED BY <3>1, FlattenIn DEF Strung
  <2>7. ASSUME NEW B
        PROVE  Only(discovered, B) \in Seq(Drivers)
    <3>1. Only(discovered, B) \in Seq(Drivers \cap B)
      BY OnlyIn
    <3>2. Drivers \cap B \subseteq Drivers
      OBVIOUS
    <3> QED BY <3>1, <3>2, SeqMonotonic
  <2>8. <<d>> \in Seq(Drivers)
    OBVIOUS
  <2>9. PICK x : x = Only(discovered, {b \in D : Before[b] = d})
    OBVIOUS
  <2>10. PICK y : y = Only(discovered, {b \in D : After[b] = d})
    OBVIOUS
  <2>11. Hanging[k + 1][D][d] = Strung(Hanging[k][D], x) \o <<d>> \o Strung(Hanging[k][D], y)
    BY <2>3, <2>5, <2>9, <2>10 DEF Level
  <2>12. x \in Seq(Drivers) /\ y \in Seq(Drivers)
    BY <2>7, <2>9, <2>10
  <2>13. Strung(Hanging[k][D], x) \in Seq(Drivers) /\ Strung(Hanging[k][D], y) \in Seq(Drivers)
    BY <2>6, <2>12
  <2> QED BY <2>8, <2>11, <2>13, ConcatProperties
<1>6. T = Nat
  <2> HIDE DEF T
  <2>1. T \in SUBSET Nat
    BY DEF T
  <2> QED BY <1>4, <1>5, <2>1, SetInduction
<1>7. N \in T
  <2> HIDE DEF T
  <2> QED BY <1>1, <1>2, <1>6
<1>8. \A d \in Drivers : Hanging[N][D][d] \in Seq(Drivers)
  BY <1>1, <1>2, <1>7
<1> QED BY <1>1, <1>2, <1>8

-----------------------------------------------------------------------------
(* How a step changes the stack: all frames but the top one keep what they    *)
(* are about; a handler that returns, or the entry point that conveys a       *)
(* message, leaves a note in them.                                            *)

USE DEF Depth

Same(f, g) ==
  /\ f.at = g.at /\ f.type = g.type /\ f.up = g.up /\ f.who = g.who /\ f.flag = g.flag
  /\ f.at \notin Requests => f.n = g.n

Rest(t) ==
  /\ t \in Seq(Frames) /\ Len(t) >= Depth - 1
  /\ \A i \in 1..Depth - 1 : Same(t[i], stack[i])

LEMMA Appended ==
  ASSUME NEW S, NEW s \in Seq(S), NEW e \in S
  PROVE  /\ Append(s, e) \in Seq(S) /\ Len(Append(s, e)) = Len(s) + 1
         /\ Append(s, e)[Len(s) + 1] = e
         /\ \A i \in 1..Len(s) : Append(s, e)[i] = s[i]
BY AppendProperties

LEMMA TopFacts ==
  ASSUME TypedStack, Chain(stack)
  PROVE  /\ Depth \in Nat \ {0} /\ DOMAIN stack = 1..Depth
         /\ \A i \in 1..Depth : stack[i] \in Frames
         /\ Top \in Frames /\ Shape(Top)
         /\ Depth = 1 => Top.at = "dxe"
         /\ Depth # 1 => /\ Depth - 1 \in 1..Depth /\ Caller \in Frames /\ Shape(Caller)
                         /\ Fits(Caller, Top)
<1>1. Depth \in Nat \ {0} /\ DOMAIN stack = 1..Depth /\ \A i \in 1..Depth : stack[i] \in Frames
  BY DEF TypedStack, Chain
<1>2. Top \in Frames /\ Shape(Top)
  <2>1. Depth \in 1..Depth
    BY <1>1
  <2> QED BY <1>1, <2>1 DEF Chain, Top
<1>3. Depth = 1 => Top.at = "dxe"
  BY DEF Chain, Top
<1>4. ASSUME Depth # 1
      PROVE  /\ Depth - 1 \in 1..Depth /\ Caller \in Frames /\ Shape(Caller)
             /\ Fits(Caller, Top)
  <2>1. Depth - 1 \in 1..Depth - 1 /\ Depth - 1 \in 1..Depth /\ (Depth - 1) + 1 = Depth
    BY <1>1, <1>4
  <2>2. Shape(stack[Depth - 1]) /\ Fits(stack[Depth - 1], stack[Depth])
    <3>1. Fits(stack[Depth - 1], stack[(Depth - 1) + 1])
      BY <2>1 DEF Chain
    <3>2. Shape(stack[Depth - 1])
      BY <2>1 DEF Chain
    <3> QED BY <2>1, <3>1, <3>2
  <2> QED BY <1>1, <2>1, <2>2 DEF Top, Caller
<1> QED BY <1>1, <1>2, <1>3, <1>4

LEMMA Becoming ==
  ASSUME TypedStack, stack # <<>>, NEW f \in Frames,
         NEW t, t = [stack EXCEPT ![Depth] = f]
  PROVE  Rest(t) /\ Len(t) = Depth /\ t[Depth] = f /\ \A i \in 1..Depth - 1 : t[i] = stack[i]
<1>1. Depth \in Nat \ {0} /\ stack \in Seq(Frames)
  BY DEF TypedStack
<1>2. t \in Seq(Frames) /\ Len(t) = Depth /\ t[Depth] = f
  BY <1>1, ExceptSeq
<1>3. \A i \in 1..Depth - 1 : t[i] = stack[i]
  BY <1>1, ExceptSeq
<1>4. Len(t) >= Depth - 1
  BY <1>1, <1>2
<1>5. \A i \in 1..Depth - 1 : Same(t[i], stack[i])
  BY <1>3 DEF Same
<1> QED BY <1>2, <1>3, <1>4, <1>5 DEF Rest

Called(f, c) == Append([stack EXCEPT ![Depth] = f], c)

LEMMA Calling ==
  ASSUME TypedStack, stack # <<>>, NEW f \in Frames, NEW c \in Frames,
         NEW t, t = Called(f, c)
  PROVE  Rest(t) /\ Len(t) = Depth + 1 /\ t[Depth] = f /\ t[Depth + 1] = c
         /\ \A i \in 1..Depth - 1 : t[i] = stack[i]
<1>1. Depth \in Nat \ {0}
  BY DEF TypedStack
<1>2. PICK u : u = [stack EXCEPT ![Depth] = f] /\ t = Append(u, c)
  BY DEF Called
<1>3. Rest(u) /\ Len(u) = Depth /\ u[Depth] = f /\ \A i \in 1..Depth - 1 : u[i] = stack[i]
  BY <1>2, Becoming
<1>4. u \in Seq(Frames) /\ \A i \in 1..Depth - 1 : Same(u[i], stack[i])
  BY <1>3 DEF Rest
<1>5. /\ t \in Seq(Frames) /\ Len(t) = Depth + 1 /\ t[Depth + 1] = c
      /\ \A i \in 1..Depth : t[i] = u[i]
  <2>1. u \in Seq(Frames) /\ Depth = Len(u) /\ t = Append(u, c)
    BY <1>2, <1>3, <1>4
  <2>2. /\ Append(u, c) \in Seq(Frames) /\ Len(Append(u, c)) = Len(u) + 1
        /\ Append(u, c)[Len(u) + 1] = c
        /\ \A i \in 1..Len(u) : Append(u, c)[i] = u[i]
    <3>1. u \in Seq(Frames) /\ c \in Frames
      BY <1>4
    <3> QED BY ONLY <3>1, Appended
  <2> QED BY <2>1, <2>2
<1>6. t[Depth] = f /\ \A i \in 1..Depth - 1 : t[i] = u[i]
  BY <1>1, <1>3, <1>5
<1>7. Len(t) >= Depth - 1
  BY <1>1, <1>5
<1>8. \A i \in 1..Depth - 1 : Same(t[i], stack[i])
  BY <1>4, <1>6
<1> QED BY <1>3, <1>5, <1>6, <1>7, <1>8 DEF Rest

LEMMA Returning ==
  ASSUME TypedStack, Depth > 1, NEW f \in Frames, Same(f, Caller),
         NEW t, t = Append(SubSeq(stack, 1, Depth - 2), f)
  PROVE  /\ Rest(t) /\ Len(t) = Depth - 1 /\ t[Depth - 1] = f
         /\ \A i \in 1..Depth - 2 : t[i] = stack[i]
<1>1. Depth \in Nat /\ stack \in Seq(Frames) /\ Depth - 2 \in Nat
  BY DEF TypedStack
<1>2. PICK u : u = SubSeq(stack, 1, Depth - 2)
  OBVIOUS
<1>3. /\ u \in Seq(Frames) /\ Len(u) = Depth - 2
      /\ \A i \in 1..Depth - 2 : u[i] = stack[i]
  <2>1. \A i \in 1..Depth - 2 : i \in 1..Depth
    BY <1>1
  <2>2. /\ u \in Seq(Frames)
        /\ Len(u) = IF 1 <= Depth - 2 THEN (Depth - 2) - 1 + 1 ELSE 0
        /\ \A i \in 1..(Depth - 2) - 1 + 1 : u[i] = stack[1 + i - 1]
    <3>1. \A i \in 1..Depth - 2 : stack[i] \in Frames
      BY <1>1, <2>1
    <3>2. 1 \in Int /\ Depth - 2 \in Int
      BY <1>1
    <3> QED BY <1>2, <3>1, <3>2, SubSeqProperties
  <2>3. Len(u) = Depth - 2
    <3>1. Len(u) = IF 1 <= Depth - 2 THEN (Depth - 2) - 1 + 1 ELSE 0
      BY <2>2
    <3>2. \A k \in Nat : (IF 1 <= k THEN k - 1 + 1 ELSE 0) = k
      OBVIOUS
    <3> QED BY <1>1, <3>1, <3>2
  <2>4. \A i \in 1..Depth - 2 : i \in 1..(Depth - 2) - 1 + 1 /\ 1 + i - 1 = i
    BY <1>1
  <2> QED BY <2>2, <2>3, <2>4
<1>4. (Depth - 2) + 1 = Depth - 1
  BY <1>1
<1>5. /\ t \in Seq(Frames) /\ Len(t) = Depth - 1 /\ t[Depth - 1] = f
      /\ \A i \in 1..Depth - 2 : t[i] = u[i]
  <2>1. u \in Seq(Frames) /\ Depth - 2 = Len(u) /\ t = Append(u, f)
    BY <1>2, <1>3
  <2>2. /\ Append(u, f) \in Seq(Frames) /\ Len(Append(u, f)) = Len(u) + 1
        /\ Append(u, f)[Len(u) + 1] = f
        /\ \A i \in 1..Len(u) : Append(u, f)[i] = u[i]
    BY <2>1, Appended
  <2> QED BY <1>4, <2>1, <2>2
<1>6. ASSUME NEW i \in 1..Depth - 1
      PROVE  Same(t[i], stack[i])
  <2>1. CASE i = Depth - 1
    BY <1>5, <2>1 DEF Caller
  <2>2. CASE i # Depth - 1
    <3>1. i \in 1..Depth - 2
      BY <1>1, <2>2
    <3> QED BY <1>3, <1>5, <3>1 DEF Same
  <2> QED BY <2>1, <2>2
<1> QED BY <1>1, <1>3, <1>5, <1>6 DEF Rest

\* HandlerReturns.
LEMMA HandlerDone ==
  ASSUME TypedStack, Depth > 1, NEW ret \in Statuses, NEW reply \in Replies, NEW t,
         t = [i \in 1..Depth - 1 |->
                IF i = Depth - 1 THEN [stack[i] EXCEPT !.ret = ret]
                ELSE IF i = Top.up THEN [stack[i] EXCEPT !.reply = reply]
                ELSE stack[i]]
  PROVE  Rest(t) /\ Len(t) = Depth - 1
<1>1. Depth \in Nat /\ stack \in Seq(Frames) /\ Depth - 1 \in Nat
  BY DEF TypedStack
<1>2. ASSUME NEW i \in 1..Depth - 1
      PROVE  t[i] \in Frames /\ Same(t[i], stack[i])
  <2>1. stack[i] \in Frames
    BY <1>1
  <2>2. \/ t[i] = [stack[i] EXCEPT !.ret = ret]
        \/ t[i] = [stack[i] EXCEPT !.reply = reply]
        \/ t[i] = stack[i]
    OBVIOUS
  <2>3. [stack[i] EXCEPT !.ret = ret] \in Frames /\ Same([stack[i] EXCEPT !.ret = ret], stack[i])
    BY <2>1 DEF Frames, Same
  <2>4. /\ [stack[i] EXCEPT !.reply = reply] \in Frames
        /\ Same([stack[i] EXCEPT !.reply = reply], stack[i])
    BY <2>1 DEF Frames, Same
  <2>5. Same(stack[i], stack[i])
    BY DEF Same
  <2> QED BY <2>1, <2>2, <2>3, <2>4, <2>5
<1>3. DOMAIN t = 1..Depth - 1 /\ \A i \in 1..Depth - 1 : t[i] \in Frames
  BY <1>2
<1>4. t = [i \in 1..Depth - 1 |-> t[i]]
  OBVIOUS
<1>5. t \in Seq(Frames) /\ Len(t) = Depth - 1
  BY <1>1, <1>3, <1>4, IsASeq
<1> QED BY <1>1, <1>2, <1>5 DEF Rest

-----------------------------------------------------------------------------
(* Types of everything but the stack.                                         *)

LEMMA DataInit ==
  ASSUME CoreAssumption, Init
  PROVE  DataOK
<1>1. \A t \in Types : handlers[t] \in Seq(Keepers(t))
  <2>1. ASSUME NEW t \in Types
        PROVE  handlers[t] \in Seq(Keepers(t))
    <3>1. CASE t \in CoreTypes
      <4>1. handlers[t] = <<t>> /\ Keepers(t) = {t}
        BY <3>1 DEF Init, Keepers
      <4>2. <<t>> \in Seq({t})
        OBVIOUS
      <4> QED BY <4>1, <4>2
    <3>2. CASE t \notin CoreTypes
      <4>1. handlers[t] = <<>>
        BY <3>2 DEF Init
      <4> QED BY <4>1
    <3> QED BY <3>1, <3>2
  <2> QED BY <2>1
<1>2. volumes \in Seq(Volumes)
  BY DEF Init, CoreAssumption
<1>3. smis \in 0..MaxSmis /\ events \in 0..MaxEvents /\ calls \in 0..MaxCalls
  BY DEF Init, CoreAssumption
<1>4. DOMAIN handlers = Types
  BY DEF Init
<1>5. /\ {entry, inSmm, opened, locked, mSmmLocked, closed, legacy, request, running} \subseteq BOOLEAN
      /\ buffer \in Nat /\ size \in Nat /\ status \in {"success", "notfound"}
  BY DEF Init
<1>6. /\ ready = {} /\ known = {} /\ dependent = {} /\ initialized = {} /\ unread = {}
      /\ discovered \in Seq(Drivers) /\ scheduled \in Seq(Drivers) /\ started \in Seq(Drivers)
  BY DEF Init
<1> QED BY <1>1, <1>2, <1>3, <1>4, <1>5, <1>6 DEF DataOK

\* The lists after a handler of a driver, or of the core, unregistered itself.
LEMMA WithoutIn ==
  ASSUME DataOK, NEW t \in Types, NEW h
  PROVE  Without(t, h) \in Seq(Keepers(t))
<1>1. handlers[t] \in Seq(Keepers(t))
  BY DEF DataOK
<1>2. PICK T : T = ToSet(handlers[t]) \ {h}
  OBVIOUS
<1>3. Only(handlers[t], T) \in Seq(Keepers(t) \cap T)
  BY <1>1, OnlyIn
<1>4. Keepers(t) \cap T \subseteq Keepers(t)
  OBVIOUS
<1>5. Only(handlers[t], T) \in Seq(Keepers(t))
  BY <1>3, <1>4, SeqMonotonic
<1> QED BY <1>2, <1>5 DEF Without

Lists(h) == DOMAIN h = Types /\ \A t \in Types : h[t] \in Seq(Keepers(t))

LEMMA ListsChange ==
  ASSUME NEW h, Lists(h), NEW t, NEW s, t \in Types => s \in Seq(Keepers(t))
  PROVE  Lists([h EXCEPT ![t] = s])
BY DEF Lists

LEMMA DataStep ==
  ASSUME CoreAssumption, DataOK, TypedStack, Chain(stack), Next
  PROVE  DataOK'
<1> USE DEF private, window, lists, world, bounds
<1>1. Lists(handlers)
  BY DEF DataOK, Lists
<1>2. Top \in Frames /\ Shape(Top)
  BY TopFacts
<1>a1. CASE PutBuffer
  BY <1>2, <1>a1, TopFacts DEF PutBuffer, DataOK
<1>a2. CASE PutSize
  BY <1>2, <1>a2, TopFacts DEF PutSize, DataOK
<1>a3. CASE Trigger
  BY <1>2, <1>a3, TopFacts DEF Trigger, DataOK
<1>a4. CASE Sent
  BY <1>2, <1>a4, TopFacts DEF Sent, DataOK
<1>a5. CASE Refuse
  BY <1>2, <1>a5, TopFacts DEF Refuse, DataOK
<1>a6. CASE Direct
  BY <1>2, <1>a6, TopFacts DEF Direct, DataOK
<1>a7. CASE DirectEnds
  BY <1>2, <1>a7, TopFacts DEF DirectEnds, DataOK, Frames
<1>a8. CASE Answered
  BY <1>2, <1>a8, TopFacts DEF Answered, DataOK
<1>a9. CASE EntryConveys
  BY <1>2, <1>a9, TopFacts DEF EntryConveys, DataOK
<1>a10. CASE SyncEnds
  BY <1>2, <1>a10, TopFacts DEF SyncEnds, DataOK
<1>a11. CASE EntryAlone
  BY <1>2, <1>a11, TopFacts DEF EntryAlone, DataOK
<1>a12. CASE EntryEnds
  BY <1>2, <1>a12, TopFacts DEF EntryEnds, DataOK
<1>a13. CASE ManageBegins
  BY <1>2, <1>a13, TopFacts DEF ManageBegins, DataOK
<1>a14. CASE Managed
  BY <1>2, <1>a14, TopFacts DEF Managed, DataOK
<1>a15. CASE LegacyBootHandler
  BY <1>2, <1>a15, TopFacts DEF LegacyBootHandler, DataOK
<1>a16. CASE EndOfDxeHandler
  BY <1>2, <1>a16, TopFacts DEF EndOfDxeHandler, DataOK
<1>a17. CASE DispatcherBegins
  BY <1>2, <1>a17, TopFacts DEF DispatcherBegins, DataOK
<1>a18. CASE DispatcherEnds
  BY <1>2, <1>a18, TopFacts DEF DispatcherEnds, DataOK, Reread
<1>a19. CASE DispatcherRestarts
  BY <1>2, <1>a19, TopFacts DEF DispatcherRestarts, DataOK
<1>a20. CASE StartCalls
  BY <1>2, <1>a20, TopFacts DEF StartCalls, DataOK
<1>a21. CASE StartEnds
  BY <1>2, <1>a21, TopFacts DEF StartEnds, DataOK
<1>a22. CASE NotifyPosts
  BY <1>2, <1>a22, TopFacts DEF NotifyPosts, DataOK
<1>a23. CASE DispatchAgain
  BY <1>2, <1>a23, TopFacts DEF DispatchAgain, DataOK
<1>a24. CASE NotifyLocks
  BY <1>2, <1>a24, TopFacts DEF NotifyLocks, DataOK
<1>a25. CASE NotifyEnds
  BY <1>2, <1>a25, TopFacts DEF NotifyEnds, DataOK
<1>a26. CASE Smi
  BY <1>2, <1>a26, TopFacts DEF Smi, DataOK
<1>b1. CASE DriverHandler
  <2>1. Lists(handlers')
    <3>1. CASE handlers' = handlers
      BY <1>1, <3>1
    <3>2. CASE handlers' = [handlers EXCEPT ![Caller.type] = Without(Caller.type, Top.who)]
      <4>1. PICK y, w : y = Caller.type /\ w = Without(Caller.type, Top.who)
        OBVIOUS
      <4>2. y \in Types => w \in Seq(Keepers(y))
        BY <4>1, WithoutIn
      <4>3. Lists([handlers EXCEPT ![y] = w])
        BY <1>1, <4>2, ListsChange
      <4> QED BY <3>2, <4>1, <4>3
    <3> QED BY <1>b1, <3>1, <3>2 DEF DriverHandler
  <2> QED BY <1>b1, <2>1 DEF DriverHandler, DataOK, Lists
<1>b2. CASE ReadyToLockHandler
  <2>1. PICK h : h = [handlers EXCEPT !["dispatch"] = Without("dispatch", "dispatch")]
    OBVIOUS
  <2>2. Lists(h)
    BY <1>1, <2>1, WithoutIn, ListsChange
  <2>3. handlers' = [h EXCEPT !["lock"] = Without("lock", "lock")]
    BY <1>b2, <2>1 DEF ReadyToLockHandler
  <2>4. Lists(handlers')
    BY <2>2, <2>3, WithoutIn, ListsChange
  <2>5. ready' = ready \cup {"SmmReadyToLock"}
    BY <1>b2 DEF ReadyToLockHandler
  <2> QED BY <1>b2, <2>4, <2>5 DEF ReadyToLockHandler, DataOK, Lists
<1>b3. CASE FindVolume
  <2>1. PICK v : v = volumes[Top.n]
    OBVIOUS
  <2>2. v \in Volumes
    <3>1. Top.n \in Nat /\ Top.n # 0
      BY <1>2, <1>b3 DEF FindVolume, At, Frames, Shape
    <3>2. Top.n <= Len(volumes) /\ volumes \in Seq(Volumes)
      BY <1>b3 DEF FindVolume, DataOK
    <3> QED BY <2>1, <3>1, <3>2
  <2>3. Files[v] \in Seq(Drivers) /\ Apriori[v] \in Seq(Drivers)
    BY <2>2 DEF CoreAssumption
  <2>4. /\ known' \subseteq Volumes /\ request' \in BOOLEAN
        /\ discovered' = discovered \/ discovered' = discovered \o Files[v]
        /\ dependent' \subseteq dependent \cup ToSet(Files[v])
        /\ unread' \subseteq unread \cup ToSet(Files[v])
        /\ scheduled' = scheduled \/ scheduled' = scheduled \o Apriori[v]
    <3>1. CASE v \in known \cup NoPath
      BY <1>b3, <2>1, <2>2, <3>1 DEF FindVolume, DataOK
    <3>2. CASE v \notin known \cup NoPath
      <4>1. /\ known' = known \cup {v} /\ request' = (request \/ Files[v] # <<>>)
            /\ discovered' = discovered \o Files[v] /\ scheduled' = scheduled \o Apriori[v]
            /\ dependent' = dependent \cup {d \in ToSet(Files[v]) \ ToSet(Apriori[v]) : Readable(d)}
            /\ unread' = unread \cup {d \in ToSet(Files[v]) : ~Readable(d)}
        BY <1>b3, <2>1, <3>2 DEF FindVolume
      <4>2. known \subseteq Volumes
        BY DEF DataOK
      <4> QED BY <2>2, <4>1, <4>2
    <3> QED BY <3>1, <3>2
  <2>5. discovered' \in Seq(Drivers) /\ scheduled' \in Seq(Drivers)
    <3>1. discovered \in Seq(Drivers) /\ scheduled \in Seq(Drivers)
      BY DEF DataOK
    <3>2. /\ discovered \o Files[v] \in Seq(Drivers)
          /\ scheduled \o Apriori[v] \in Seq(Drivers)
      BY <2>3, <3>1, ConcatProperties
    <3> QED BY <2>4, <3>1, <3>2
  <2>6. ToSet(Files[v]) \subseteq Drivers
    BY <2>3 DEF ToSet
  <2>7. dependent' \subseteq Drivers /\ unread' \subseteq Drivers
    BY <2>4, <2>6 DEF DataOK
  <2> QED BY <1>b3, <2>4, <2>5, <2>7 DEF FindVolume, DataOK
<1>b4. CASE Drain
  <2>1. PICK d : d = Head(scheduled)
    OBVIOUS
  <2>2. d \in Drivers /\ Tail(scheduled) \in Seq(Drivers)
    BY <1>b4, <2>1, HeadTailProperties DEF Drain, DataOK
  <2>3. /\ initialized' = initialized \cup {d} /\ scheduled' = Tail(scheduled)
        /\ started' = started \/ started' = Append(started, d)
    BY <1>b4, <2>1, Zenon DEF Drain
  <2>4. started' \in Seq(Drivers)
    <3>1. started \in Seq(Drivers)
      BY DEF DataOK
    <3>2. Append(started, d) \in Seq(Drivers)
      BY <2>2, <3>1, AppendProperties
    <3> QED BY <2>3, <3>1, <3>2
  <2>5. initialized' \subseteq Drivers /\ scheduled' \in Seq(Drivers)
    BY <2>2, <2>3 DEF DataOK
  <2> QED BY <1>b4, <2>4, <2>5 DEF Drain, DataOK
<1>b5. CASE Search
  <2>1. PICK can : can = Only(discovered, {d \in dependent \cup Reread : SmmIsSchedulable(d)})
    OBVIOUS
  <2>2. can \in Seq(Drivers)
    <3>1. PICK T : T = {d \in dependent \cup Reread : SmmIsSchedulable(d)}
      OBVIOUS
    <3>2. can \in Seq(Drivers \cap T)
      BY <2>1, <3>1, OnlyIn DEF DataOK
    <3> QED BY <3>2, SeqMonotonic
  <2>3. discovered \in Seq(Drivers)
    BY DEF DataOK
  <2>4. PICK N : N = Cardinality(Drivers)
    OBVIOUS
  <2>5. \A e : DependentAt(e) \in SUBSET Drivers
    BY DEF DataOK, DependentAt, Reread
  <2>6. PICK s : s = [i \in DOMAIN can |-> Hanging[N][DependentAt(can[i])][can[i]]]
    OBVIOUS
  <2>7. s \in Seq(Seq(Drivers))
    <3>1. DOMAIN can = 1..Len(can) /\ Len(can) \in Nat /\ \A i \in 1..Len(can) : can[i] \in Drivers
      BY <2>2
    <3>2. ASSUME NEW i \in 1..Len(can)
          PROVE  s[i] \in Seq(Drivers)
      <4>1. PICK D \in SUBSET Drivers : D = DependentAt(can[i])
        BY <2>5
      <4>2. \A d \in Drivers : Hanging[N][D][d] \in Seq(Drivers)
        BY <2>3, <2>4, HangingIn
      <4>3. s[i] = Hanging[N][D][can[i]]
        BY <2>6, <3>1, <4>1
      <4> QED BY <3>1, <4>2, <4>3
    <3>3. DOMAIN s = 1..Len(can) /\ s = [i \in 1..Len(can) |-> s[i]]
      BY <2>6, <3>1
    <3> QED BY <3>1, <3>2, <3>3, IsASeq
  <2>8. scheduled' = FlattenSeq(s)
    BY <1>b5, <2>1, <2>4, <2>6 DEF Search
  <2>9. scheduled' \in Seq(Drivers)
    BY <2>7, <2>8, FlattenIn
  <2>10. dependent' \subseteq Drivers /\ unread' \subseteq Drivers
    BY <1>b5 DEF Search, DataOK, Reread
  <2> QED BY <1>b5, <2>9, <2>10 DEF Search, DataOK
<1>b6. CASE StartDriver
  <2>1. PICK d : d = Top.who
    OBVIOUS
  <2>2. d \in Drivers
    BY <1>2, <1>b6, <2>1 DEF StartDriver, At, Shape, Starting
  <2>3. Lists(handlers')
    <3>1. CASE Registers[d] = NoType
      BY <1>1, <1>b6, <2>1, <3>1 DEF StartDriver
    <3>2. CASE Registers[d] # NoType
      <4>1. PICK r : r = Registers[d]
        OBVIOUS
      <4>2. r \in UserTypes \cup {"root"} /\ r \in Types /\ Keepers(r) = Drivers
        BY <2>2, <3>2, <4>1 DEF CoreAssumption, Types, Keepers, CoreTypes
      <4>3. handlers[r] \in Seq(Drivers)
        BY <1>1, <4>2 DEF Lists
      <4>4. Append(handlers[r], d) \in Seq(Keepers(r))
        BY <2>2, <4>2, <4>3, AppendProperties
      <4>5. handlers' = [handlers EXCEPT ![r] = Append(handlers[r], d)]
        BY <1>b6, <2>1, <3>2, <4>1 DEF StartDriver
      <4> QED BY <1>1, <4>4, <4>5, ListsChange
    <3> QED BY <3>1, <3>2
  <2>4. ready' \subseteq Protocols \cup {"SmmReadyToLock", "SmmEndOfDxe"}
    <3>1. Installs[d] \subseteq Protocols
      BY <2>2 DEF CoreAssumption
    <3> QED BY <1>b6, <2>1, <3>1 DEF StartDriver, DataOK
  <2>5. entry' \in BOOLEAN
    BY <1>b6 DEF StartDriver, DataOK
  <2> QED BY <1>b6, <2>3, <2>4, <2>5 DEF StartDriver, DataOK, Lists
<1>b7. ASSUME NEW v \in Volumes, AddVolume(v)
       PROVE  DataOK'
  <2>1. volumes' \in Seq(Volumes)
    BY <1>b7, AppendProperties DEF AddVolume, DataOK
  <2> QED BY <1>b7, <2>1 DEF AddVolume, DataOK
<1>b8. ASSUME NEW t \in UserTypes, CallCommunicate(t)
       PROVE  DataOK'
  <2>1. calls' \in 0..MaxCalls
    BY <1>b8 DEF CallCommunicate, DataOK, CoreAssumption
  <2> QED BY <1>b8, <2>1 DEF CallCommunicate, DataOK
<1>b9. ASSUME NEW e \in Events, Signal(e)
       PROVE  DataOK'
  <2>1. events' \in 0..MaxEvents
    BY <1>b9 DEF Signal, DataOK, CoreAssumption
  <2> QED BY <1>b9, <2>1 DEF Signal, DataOK
<1> QED BY <1>a1, <1>a2, <1>a3, <1>a4, <1>a5, <1>a6, <1>a7, <1>a8, <1>a9, <1>a10, <1>a11, <1>a12, <1>a13, <1>a14, <1>a15, <1>a16, <1>a17, <1>a18, <1>a19, <1>a20, <1>a21, <1>a22, <1>a23, <1>a24, <1>a25, <1>a26, <1>b1, <1>b2, <1>b3, <1>b4, <1>b5, <1>b6, <1>b7, <1>b8, <1>b9 DEF Next, Core

-----------------------------------------------------------------------------
(* Which frames stand on which.                                               *)

LEMMA SameFrames ==
  ASSUME NEW f, NEW g, NEW h, NEW k, Same(f, g), Same(h, k)
  PROVE  /\ Shape(f) <=> Shape(g)
         /\ Served(f) <=> Served(g)
         /\ Fits(f, h) <=> Fits(g, k)
         /\ Above(f, h) <=> Above(g, k)
<1>1. Shape(f) <=> Shape(g)
  BY DEF Same, Shape, Requests
<1>2. Served(f) <=> Served(g)
  BY DEF Same, Served
<1>3. Fits(f, h) <=> Fits(g, k)
  BY DEF Same, Fits
<1>4. Above(f, h) <=> Above(g, k)
  BY <1>2 DEF Same, Above
<1> QED BY <1>1, <1>2, <1>3, <1>4

LEMMA SameItself == \A f : Same(f, f)
BY DEF Same

\* What a frame must be to stand at place p, on the frames below the top.
Placed(g, p, en) ==
  /\ Shape(g)
  /\ g.at \in Requests /\ g.flag => p = 2
  /\ g.at \in Entries \cup Requests => en
  /\ g.at = "direct" /\ g.type = "legacy" => ~en
  /\ \A i \in 1..Depth - 1 : Above(stack[i], g)

LEMMA TopPlaced ==
  ASSUME TypedStack, Structure(stack, entry)
  PROVE  Placed(Top, Depth, entry)
<1>1. Depth \in Nat \ {0} /\ Depth \in 1..Depth
  BY TopFacts DEF Structure
<1>2. Shape(Top)
  BY TopFacts DEF Structure
<1>3. \A i \in 1..Depth - 1 : Above(stack[i], stack[Depth])
  <2>1. ASSUME NEW i \in 1..Depth - 1
        PROVE  Above(stack[i], stack[Depth])
    <3>1. i \in 1..Len(stack) /\ Depth \in 1..Len(stack) /\ i < Depth
      BY <1>1
    <3> QED BY <3>1 DEF Structure, Nested
  <2> QED BY <2>1
<1>4. Top.at \in Requests /\ Top.flag => Depth = 2
  BY <1>1 DEF Structure, Interrupted, Top
<1>5. /\ Top.at \in Entries \cup Requests => entry
      /\ Top.at = "direct" /\ Top.type = "legacy" => ~entry
  BY <1>1 DEF Structure, NoSmis, Top
<1> QED BY <1>2, <1>3, <1>4, <1>5 DEF Placed, Top

LEMMA FirstBelow == \A k \in Nat : k # 0 /\ k # 1 => 1 \in 1..k - 1
OBVIOUS

\* Frames that are placed as these are leave the stack in order.
LEMMA Structured ==
  ASSUME TypedStack, Structure(stack, entry), NEW t, Rest(t),
         NEW en, entry => en,
         (en /\ ~entry) => \A i \in 1..Depth - 1 :
                             ~(stack[i].at = "direct" /\ stack[i].type = "legacy"),
         Len(t) \in {Depth - 1, Depth, Depth + 1}, Len(t) # 0,
         Len(t) >= Depth => /\ Placed(t[Depth], Depth, en)
                            /\ Depth > 1 => Fits(Caller, t[Depth])
                            /\ Depth = 1 => t[Depth].at = "dxe",
         Len(t) = Depth + 1 => /\ Placed(t[Depth + 1], Depth + 1, en)
                               /\ Fits(t[Depth], t[Depth + 1])
                               /\ Above(t[Depth], t[Depth + 1])
  PROVE  Structure(t, en)
<1>1. /\ Depth \in Nat \ {0} /\ Len(t) \in Nat \ {0}
      /\ \A i \in 1..Depth - 1 : i \in 1..Len(stack)
  BY DEF TypedStack, Structure, Chain, Rest
<1>2. \A i \in 1..Depth - 1 : Same(t[i], stack[i])
  BY DEF Rest
<1>3. \A i \in 1..Len(t) : i \in 1..Depth - 1 \/ i = Depth \/ (i = Depth + 1 /\ Len(t) = Depth + 1)
  BY <1>1
<1>4. \A i \in 1..Len(t) : i = Depth => Len(t) >= Depth
  BY <1>1
<1>5. \A i \in 1..Len(t) : i \notin 1..Depth - 1 => Placed(t[i], i, en)
  <2>1. ASSUME NEW i \in 1..Len(t), i \notin 1..Depth - 1
        PROVE  Placed(t[i], i, en)
    BY <1>3, <1>4, <2>1
  <2> QED BY <2>1
<1>6. ASSUME NEW i \in 1..Len(t)
      PROVE  /\ Shape(t[i])
             /\ t[i].at \in Requests /\ t[i].flag => i = 2
             /\ t[i].at \in Entries \cup Requests => en
             /\ t[i].at = "direct" /\ t[i].type = "legacy" => ~en
  <2>1. CASE i \in 1..Depth - 1
    <3>1. Same(t[i], stack[i]) /\ i \in 1..Len(stack)
      BY <1>1, <1>2, <2>1
    <3>2. Shape(t[i])
      BY <3>1, SameFrames DEF Structure, Chain
    <3>3. t[i].at \in Requests /\ t[i].flag => i = 2
      BY <3>1 DEF Structure, Interrupted, Same
    <3>4. t[i].at \in Entries \cup Requests => en
      BY <3>1 DEF Structure, NoSmis, Same
    <3>5. t[i].at = "direct" /\ t[i].type = "legacy" => ~en
      BY <2>1, <3>1 DEF Structure, NoSmis, Same
    <3> QED BY <3>2, <3>3, <3>4, <3>5
  <2>2. CASE i \notin 1..Depth - 1
    BY <1>5, <2>2 DEF Placed
  <2> QED BY <2>1, <2>2
<1>7. ASSUME NEW i \in 1..Len(t) - 1
      PROVE  Fits(t[i], t[i + 1])
  <2>1. i \in 1..Len(t) /\ i + 1 \in 1..Len(t)
    BY <1>1
  <2>2. CASE i + 1 \in 1..Depth - 1
    <3>1. i \in 1..Depth - 1 /\ i \in 1..Len(stack) - 1
      BY <1>1, <2>1, <2>2
    <3>2. Fits(stack[i], stack[i + 1])
      <4>1. \A k \in 1..Len(stack) - 1 : Fits(stack[k], stack[k + 1])
        BY DEF Structure, Chain
      <4> QED BY <3>1, <4>1
    <3>3. Same(t[i], stack[i]) /\ Same(t[i + 1], stack[i + 1])
      BY <1>2, <2>2, <3>1
    <3> QED BY <3>2, <3>3, SameFrames
  <2>3. CASE i + 1 = Depth
    <3>1. Depth > 1 /\ i = Depth - 1 /\ i \in 1..Depth - 1 /\ Len(t) >= Depth
      BY <1>1, <2>1, <2>3
    <3>2. Fits(stack[i], t[i + 1])
      <4>1. Fits(stack[Depth - 1], t[Depth])
        BY <3>1 DEF Caller
      <4> QED BY <2>3, <3>1, <4>1
    <3>3. Same(t[i], stack[i]) /\ Same(t[i + 1], t[i + 1])
      BY <1>2, <3>1, SameItself
    <3> QED BY <3>2, <3>3, SameFrames
  <2>4. CASE i + 1 = Depth + 1
    <3>1. i = Depth /\ Len(t) = Depth + 1
      BY <1>1, <1>3, <2>1, <2>4
    <3>2. Fits(t[Depth], t[Depth + 1])
      BY <3>1
    <3> QED BY <3>1, <3>2
  <2> QED BY <1>1, <1>3, <2>1, <2>2, <2>3, <2>4
<1>8. t # <<>> /\ t[1].at = "dxe"
  <2>1. t # <<>>
    BY <1>1 DEF Rest
  <2>2. CASE Depth = 1
    <3>1. Len(t) >= Depth
      BY <1>1, <2>2
    <3>2. t[Depth].at = "dxe"
      BY <2>2, <3>1
    <3> QED BY <2>1, <2>2, <3>2
  <2>3. CASE Depth # 1
    <3>1. 1 \in 1..Depth - 1 /\ stack[1].at = "dxe"
      <4>1. stack[1].at = "dxe"
        BY DEF Structure, Chain
      <4>2. Depth \in Nat /\ Depth # 0
        BY <1>1
      <4>3. 1 \in 1..Depth - 1
        BY <2>3, <4>2, FirstBelow
      <4> QED BY <4>1, <4>3
    <3>2. Same(t[1], stack[1])
      BY <1>2, <3>1
    <3> QED BY <2>1, <3>1, <3>2 DEF Same
  <2> QED BY <2>1, <2>2, <2>3
<1>9. ASSUME NEW i \in 1..Len(t), NEW j \in 1..Len(t), i < j
      PROVE  Above(t[i], t[j])
  <2>1. CASE j \in 1..Depth - 1
    <3>1. i \in 1..Depth - 1 /\ i \in 1..Len(stack) /\ j \in 1..Len(stack)
      BY <1>1, <1>9, <2>1
    <3>2. Above(stack[i], stack[j])
      BY <1>9, <3>1 DEF Structure, Nested
    <3>3. Same(t[i], stack[i]) /\ Same(t[j], stack[j])
      BY <1>2, <2>1, <3>1
    <3> QED BY <3>2, <3>3, SameFrames
  <2>2. CASE j \notin 1..Depth - 1 /\ i \in 1..Depth - 1
    <3>1. Above(stack[i], t[j])
      BY <1>5, <2>2 DEF Placed
    <3>2. Same(t[i], stack[i])
      BY <1>2, <2>2
    <3> QED BY <3>1, <3>2, SameFrames, SameItself
  <2>3. CASE i \notin 1..Depth - 1
    <3>1. i \in {Depth, Depth + 1} /\ j \in 1..Depth - 1 \cup {Depth, Depth + 1}
          /\ (j = Depth + 1 => Len(t) = Depth + 1)
      BY <1>3, <1>9, <2>3
    <3>2. i = Depth /\ j = Depth + 1 /\ Len(t) = Depth + 1
      BY <1>1, <1>9, <3>1
    <3>3. Above(t[Depth], t[Depth + 1])
      BY <3>2
    <3> QED BY <3>2, <3>3
  <2> QED BY <2>1, <2>2, <2>3
<1>10. Chain(t)
  BY <1>6, <1>7, <1>8 DEF Chain
<1>11. Nested(t)
  BY <1>9 DEF Nested
<1>12. Interrupted(t) /\ NoSmis(t, en)
  BY <1>6 DEF Interrupted, NoSmis
<1> QED BY <1>10, <1>11, <1>12 DEF Structure

\* No frame below the top is at the entry point, walks the root handlers, or
\* conveys the message of a legacy boot, if something else is on the top.
LEMMA FreeBelow ==
  ASSUME TypedStack, Structure(stack, entry), Top.at \notin Walks \cup {"handler", "legacy"}
  PROVE  \A i \in 1..Depth - 1 :
           /\ stack[i].at \notin {"entry", "root"}
           /\ ~(stack[i].at = "direct" /\ stack[i].type = "legacy")
<1>1. \A i \in 1..Depth - 1 : Above(stack[i], Top)
  BY TopPlaced DEF Placed
<1> QED BY <1>1 DEF Above, Walks

LEMMA AboveFree ==
  ASSUME NEW f, f.at \notin {"entry", "root"}, ~(f.at = "direct" /\ f.type = "legacy"), NEW g,
         f.at = "sync" => g.at \notin Entries \cup Requests,
         Served(f) /\ g.at = "direct" => g.flag,
         f.at \in Requests /\ g.at \in Requests => f.flag
  PROVE  Above(f, g)
BY DEF Above, Entries

Plain(g) == g.at \notin Entries \cup Requests \cup {"direct"}

LEMMA PlainPlaced ==
  ASSUME TypedStack, Structure(stack, entry), Top.at \notin Walks \cup {"handler", "legacy"},
         NEW g, Shape(g), Plain(g), NEW p, NEW en
  PROVE  Placed(g, p, en)
<1>1. ASSUME NEW i \in 1..Depth - 1
      PROVE  Above(stack[i], g)
  <2>1. /\ stack[i].at \notin {"entry", "root"}
        /\ ~(stack[i].at = "direct" /\ stack[i].type = "legacy")
    BY FreeBelow
  <2>2. g.at \notin Entries /\ g.at \notin Requests /\ g.at # "direct"
    BY DEF Plain
  <2> QED BY <2>1, <2>2, AboveFree
<1> QED BY <1>1 DEF Placed, Plain

\* InSmm is not concerned when no served frame and no direct dispatch comes or goes.
Aside(g) == g.at \notin {"sync", "root", "direct"}

LEMMA SmmKept ==
  ASSUME TypedStack, Structure(stack, entry), NEW t, Rest(t),
         InSmmIs(stack, inSmm), DirectIs(stack, entry, inSmm), NEW en, entry => en,
         Aside(Top), \A i \in 1..Len(t) : i \in 1..Depth - 1 \/ Aside(t[i])
  PROVE  InSmmIs(t, inSmm) /\ DirectIs(t, en, inSmm)
<1>1. /\ Depth \in Nat \ {0} /\ Len(t) \in Nat
      /\ \A i \in 1..Depth - 1 : i \in 1..Len(stack) /\ i \in 1..Len(t)
  BY DEF TypedStack, Structure, Chain, Rest
<1>2. \A i \in 1..Depth - 1 : Same(t[i], stack[i])
  BY DEF Rest
<1>3. \A i \in 1..Len(stack) : i \in 1..Depth - 1 \/ i = Depth
  BY <1>1
<1>4. \A i \in 1..Len(stack) : Served(stack[i]) \/ stack[i].at = "direct" => i \in 1..Depth - 1
  BY <1>3 DEF Served, Aside, Top
<1>5. \A i \in 1..Len(t) : Served(t[i]) \/ t[i].at = "direct" => i \in 1..Depth - 1
  BY DEF Served, Aside
<1>6. \A i \in 1..Depth - 1 : /\ Served(t[i]) <=> Served(stack[i])
                              /\ t[i].at = stack[i].at /\ t[i].flag = stack[i].flag
  BY <1>2 DEF Served, Same
<1>7. (\E i \in 1..Len(t) : Served(t[i])) => inSmm
  BY <1>1, <1>5, <1>6 DEF InSmmIs
<1>8. inSmm => \E i \in 1..Len(t) : Served(t[i]) \/ t[i].at = "direct"
  <2>1. SUFFICES ASSUME inSmm
                 PROVE  \E i \in 1..Len(t) : Served(t[i]) \/ t[i].at = "direct"
    OBVIOUS
  <2>2. PICK i \in 1..Len(stack) : Served(stack[i]) \/ stack[i].at = "direct"
    BY <2>1 DEF InSmmIs
  <2>3. i \in 1..Depth - 1
    BY <1>4, <2>2
  <2>4. Served(t[i]) \/ t[i].at = "direct"
    BY <1>6, <2>2, <2>3
  <2> QED BY <1>1, <2>3, <2>4
<1>9. ASSUME NEW j \in 1..Len(t), t[j].at = "direct", t[j].flag
      PROVE  \E i \in 1..j - 1 : Served(t[i]) \/ t[i].at = "direct"
  <2>1. j \in 1..Depth - 1
    BY <1>5, <1>9
  <2>2. stack[j].at = "direct" /\ stack[j].flag /\ j \in 1..Len(stack)
    BY <1>1, <1>6, <1>9, <2>1
  <2>3. PICK i \in 1..j - 1 : Served(stack[i]) \/ stack[i].at = "direct"
    BY <2>2 DEF InSmmIs
  <2>4. i \in 1..Depth - 1
    BY <1>1, <2>1
  <2>5. Served(t[i]) \/ t[i].at = "direct"
    BY <1>6, <2>3, <2>4
  <2> QED BY <2>5
<1>10. ASSUME ~en
       PROVE  /\ (\E i \in 1..Len(t) : t[i].at = "direct") => inSmm
              /\ \A i, j \in 1..Len(t) :
                   i < j /\ t[i].at = "direct" /\ t[j].at = "direct" => t[j].flag
  <2>1. ~entry
    BY <1>10
  <2>2. (\E i \in 1..Len(t) : t[i].at = "direct") => inSmm
    BY <1>1, <1>5, <1>6, <2>1 DEF DirectIs
  <2>3. ASSUME NEW i \in 1..Len(t), NEW j \in 1..Len(t), i < j,
               t[i].at = "direct", t[j].at = "direct"
        PROVE  t[j].flag
    <3>1. i \in 1..Depth - 1 /\ j \in 1..Depth - 1
      BY <1>5, <2>3
    <3>2. /\ i \in 1..Len(stack) /\ j \in 1..Len(stack)
          /\ stack[i].at = "direct" /\ stack[j].at = "direct"
      BY <1>1, <1>6, <2>3, <3>1
    <3>3. stack[j].flag
      BY <2>1, <2>3, <3>2 DEF DirectIs
    <3> QED BY <1>6, <3>1, <3>3
  <2> QED BY <2>2, <2>3
<1> QED BY <1>7, <1>8, <1>9, <1>10 DEF InSmmIs, DirectIs

\* What a walk knows of its message.
LEMMA ConveyedKept ==
  ASSUME TypedStack, Structure(stack, entry), NEW t, Rest(t), Conveyed(stack, buffer),
         NEW b, b = buffer \/ \A i \in 1..Depth - 1 : stack[i].at # "sync",
         Len(t) \in {Depth - 1, Depth, Depth + 1},
         Len(t) >= Depth /\ t[Depth].at \in Walks =>
           Top.at \in Walks /\ t[Depth].up = Top.up /\ t[Depth].type = Top.type,
         Len(t) = Depth + 1 /\ t[Depth + 1].at \in Walks =>
           /\ t[Depth].at = "direct" => t[Depth + 1].up = Depth
           /\ t[Depth].at = "sync" =>
                /\ b \in 1..Depth - 1 /\ t[b].at \in Requests
                /\ t[Depth + 1].up = b /\ t[Depth + 1].type = t[b].type
  PROVE  Conveyed(t, b)
<1>1. /\ Depth \in Nat \ {0} /\ Len(t) \in Nat
      /\ \A i \in 1..Depth - 1 : i \in 1..Len(stack) /\ i \in 1..Len(t)
  BY DEF TypedStack, Structure, Chain, Rest
<1>2. \A i \in 1..Depth - 1 : Same(t[i], stack[i])
  BY DEF Rest
<1>3. ASSUME NEW i \in 1..Len(t) - 1, t[i + 1].at \in Walks
      PROVE  /\ t[i].at = "direct" => t[i + 1].up = i
             /\ t[i].at = "sync" => /\ b \in 1..i /\ t[b].at \in Requests
                                    /\ t[i + 1].up = b /\ t[i + 1].type = t[b].type
  <2>1. CASE i = Depth
    <3>1. Len(t) = Depth + 1
      BY <1>1, <2>1
    <3>2. t[Depth + 1].at \in Walks
      BY <1>3, <2>1
    <3>3. /\ t[Depth].at = "direct" => t[Depth + 1].up = Depth
          /\ t[Depth].at = "sync" =>
                /\ b \in 1..Depth - 1 /\ t[b].at \in Requests
                /\ t[Depth + 1].up = b /\ t[Depth + 1].type = t[b].type
      BY <3>1, <3>2
    <3>4. 1..Depth - 1 \subseteq 1..Depth
      BY <1>1
    <3> QED BY <2>1, <3>3, <3>4
  <2>2. CASE i # Depth
    <3>1. i \in 1..Depth - 1 /\ i \in 1..Len(stack) - 1
      BY <1>1, <2>2
    <3>2. stack[i + 1].at \in Walks /\ t[i + 1].up = stack[i + 1].up
          /\ t[i + 1].type = stack[i + 1].type
      <4>1. CASE i + 1 = Depth
        <5>1. Len(t) >= Depth /\ t[Depth].at \in Walks
          BY <1>1, <1>3, <4>1
        <5> QED BY <4>1, <5>1 DEF Top
      <4>2. CASE i + 1 # Depth
        <5>1. i + 1 \in 1..Depth - 1
          BY <1>1, <3>1, <4>2
        <5>2. Same(t[i + 1], stack[i + 1])
          BY <1>2, <5>1
        <5> QED BY <1>3, <5>2 DEF Same
      <4> QED BY <4>1, <4>2
    <3>3. /\ stack[i].at = "direct" => stack[i + 1].up = i
          /\ stack[i].at = "sync" =>
               /\ buffer \in 1..i /\ stack[buffer].at \in Requests
               /\ stack[i + 1].up = buffer /\ stack[i + 1].type = stack[buffer].type
      BY <3>1, <3>2 DEF Conveyed
    <3>4. t[i].at = stack[i].at
      BY <1>2, <3>1 DEF Same
    <3>5. ASSUME t[i].at = "sync"
          PROVE  /\ b \in 1..i /\ t[b].at \in Requests
                 /\ t[i + 1].up = b /\ t[i + 1].type = t[b].type
      <4>1. b = buffer
        BY <3>1, <3>4, <3>5
      <4>2. b \in 1..i /\ b \in 1..Depth - 1
        BY <1>1, <3>1, <3>3, <3>4, <3>5, <4>1
      <4>3. Same(t[b], stack[b])
        BY <1>2, <4>2
      <4> QED BY <3>2, <3>3, <3>4, <3>5, <4>1, <4>2, <4>3 DEF Same
    <3> QED BY <3>2, <3>3, <3>4, <3>5
  <2> QED BY <2>1, <2>2
<1> QED BY <1>3 DEF Conveyed

\* The three ways in which a step that does not concern InSmm changes the stack.
LEMMA StepsKept ==
  ASSUME TypedStack, Control, NEW t, Rest(t), NEW en, entry => en,
         (en /\ ~entry) => \A i \in 1..Depth - 1 :
                             ~(stack[i].at = "direct" /\ stack[i].type = "legacy"),
         NEW b, b = buffer \/ \A i \in 1..Depth - 1 : stack[i].at # "sync",
         Aside(Top), Len(t) \in {Depth - 1, Depth, Depth + 1}, Len(t) # 0,
         Len(t) >= Depth => /\ Placed(t[Depth], Depth, en) /\ Aside(t[Depth])
                            /\ Depth > 1 => Fits(Caller, t[Depth])
                            /\ Depth = 1 => t[Depth].at = "dxe"
                            /\ t[Depth].at \in Walks =>
                                 /\ Top.at \in Walks
                                 /\ t[Depth].up = Top.up /\ t[Depth].type = Top.type,
         Len(t) = Depth + 1 => /\ Placed(t[Depth + 1], Depth + 1, en) /\ Aside(t[Depth + 1])
                               /\ Fits(t[Depth], t[Depth + 1])
                               /\ Above(t[Depth], t[Depth + 1])
  PROVE  t \in Seq(Frames) /\ Controlled(t, en, inSmm, b)
<1>1. /\ Structure(stack, entry) /\ Conveyed(stack, buffer)
      /\ InSmmIs(stack, inSmm) /\ DirectIs(stack, entry, inSmm)
  BY DEF Control, Controlled
<1>2. Depth \in Nat \ {0} /\ Len(t) \in Nat /\ t \in Seq(Frames)
  <2>1. Chain(stack)
    BY <1>1 DEF Structure
  <2>2. Depth \in Nat \ {0}
    BY <2>1, TopFacts, Zenon
  <2>3. t \in Seq(Frames)
    BY DEF Rest
  <2>4. Len(t) \in Nat
    BY <2>3, LenProperties, Zenon
  <2> QED BY <2>2, <2>3, <2>4
<1>3. Structure(t, en)
  BY <1>1, Structured
<1>4. \A i \in 1..Len(t) : i \in 1..Depth - 1 \/ Aside(t[i])
  <2>1. ASSUME NEW i \in 1..Len(t), i \notin 1..Depth - 1
        PROVE  Aside(t[i])
    <3>1. CASE i = Depth
      <4>1. Len(t) >= Depth
        BY <1>2, <3>1
      <4> QED BY <3>1, <4>1
    <3>2. CASE i = Depth + 1
      <4>1. Len(t) = Depth + 1
        BY <1>2, <3>2
      <4> QED BY <3>2, <4>1
    <3> QED BY <1>2, <2>1, <3>1, <3>2
  <2> QED BY <2>1
<1>5. InSmmIs(t, inSmm) /\ DirectIs(t, en, inSmm)
  BY <1>1, <1>4, SmmKept
<1>6. Conveyed(t, b)
  <2>1. Len(t) >= Depth /\ t[Depth].at \in Walks =>
          Top.at \in Walks /\ t[Depth].up = Top.up /\ t[Depth].type = Top.type
    OBVIOUS
  <2>2. Len(t) = Depth + 1 /\ t[Depth + 1].at \in Walks =>
          t[Depth].at # "direct" /\ t[Depth].at # "sync"
    <3>1. Len(t) = Depth + 1 => Len(t) >= Depth
      BY <1>2
    <3> QED BY <3>1 DEF Aside
  <2> QED BY <1>1, <2>1, <2>2, ConveyedKept
<1> QED BY <1>2, <1>3, <1>5, <1>6 DEF Controlled

LEMMA PopKept ==
  ASSUME TypedStack, Control, Depth > 1, Aside(Top), NEW t, Rest(t), Len(t) = Depth - 1
  PROVE  t \in Seq(Frames) /\ Controlled(t, entry, inSmm, buffer)
<1>1. Depth \in Nat /\ Len(t) # 0 /\ Len(t) # Depth /\ Len(t) # Depth + 1 /\ ~(Len(t) >= Depth)
  BY DEF TypedStack
<1>2. Len(t) \in {Depth - 1, Depth, Depth + 1}
  OBVIOUS
<1> QED BY <1>1, <1>2, StepsKept

LEMMA TopKept ==
  ASSUME TypedStack, Control, NEW t, Rest(t), NEW en, entry => en,
         (en /\ ~entry) => \A i \in 1..Depth - 1 :
                             ~(stack[i].at = "direct" /\ stack[i].type = "legacy"),
         NEW b, b = buffer \/ \A i \in 1..Depth - 1 : stack[i].at # "sync",
         Aside(Top), Len(t) = Depth, NEW f, f = t[Depth],
         Placed(f, Depth, en), Aside(f), Depth > 1, Fits(Caller, f),
         f.at \in Walks => Top.at \in Walks /\ f.up = Top.up /\ f.type = Top.type
  PROVE  t \in Seq(Frames) /\ Controlled(t, en, inSmm, b)
<1>1. Depth \in Nat /\ Len(t) # 0 /\ Len(t) # Depth - 1 /\ Len(t) # Depth + 1 /\ Depth # 1
  <2>1. Depth \in Nat
    BY DEF TypedStack
  <2>2. \A k \in Nat : k > 1 => k # 0 /\ k # k - 1 /\ k # k + 1 /\ k # 1
    OBVIOUS
  <2>3. Depth > 1 /\ Len(t) = Depth
    OBVIOUS
  <2> QED BY <2>1, <2>2, <2>3
<1>2. Len(t) \in {Depth - 1, Depth, Depth + 1}
  OBVIOUS
<1> QED BY <1>1, <1>2, StepsKept

LEMMA PushKept ==
  ASSUME TypedStack, Control, NEW t, Rest(t), Aside(Top), Len(t) = Depth + 1,
         NEW f, f = t[Depth], Placed(f, Depth, entry), Aside(f),
         Depth > 1 => Fits(Caller, f), Depth = 1 => f.at = "dxe",
         f.at \in Walks => Top.at \in Walks /\ f.up = Top.up /\ f.type = Top.type,
         NEW c, c = t[Depth + 1], Placed(c, Depth + 1, entry), Aside(c),
         Fits(f, c), Above(f, c)
  PROVE  t \in Seq(Frames) /\ Controlled(t, entry, inSmm, buffer)
<1>1. Depth \in Nat /\ Len(t) # 0 /\ Len(t) # Depth - 1 /\ Len(t) # Depth
  BY DEF TypedStack
<1>2. Len(t) \in {Depth - 1, Depth, Depth + 1}
  OBVIOUS
<1> QED BY <1>1, <1>2, StepsKept

\* While InSmm is not set nobody is being served.
LEMMA OutsideSmm ==
  ASSUME TypedStack, Control, ~inSmm
  PROVE  \A i \in 1..Depth : ~Served(stack[i]) /\ stack[i].at # "sync"
<1>1. InSmmIs(stack, inSmm) /\ Chain(stack)
  BY DEF Control, Controlled, Structure
<1>2. ASSUME NEW i \in 1..Depth
      PROVE  ~Served(stack[i]) /\ stack[i].at # "sync"
  <2>1. ~Served(stack[i])
    BY <1>1 DEF InSmmIs
  <2>2. Shape(stack[i])
    BY <1>1 DEF Chain
  <2> QED BY <2>1, <2>2 DEF Served, Shape
<1> QED BY <1>2

LEMMA ControlFacts ==
  ASSUME TypedStack, Control
  PROVE  /\ Structure(stack, entry) /\ Chain(stack) /\ stack # <<>>
         /\ Depth \in Nat \ {0} /\ Depth \in 1..Depth
         /\ Top \in Frames /\ Shape(Top) /\ Placed(Top, Depth, entry)
         /\ Depth = 1 => Top.at = "dxe"
         /\ Depth > 1 => Caller \in Frames /\ Shape(Caller) /\ Fits(Caller, Top)
         /\ Top.at # "dxe" => Depth > 1
<1>1. Structure(stack, entry) /\ Chain(stack) /\ stack # <<>>
  BY DEF Control, Controlled, Structure, Chain
<1>2. /\ Depth \in Nat \ {0} /\ Top \in Frames /\ Shape(Top)
      /\ Depth = 1 => Top.at = "dxe"
      /\ Depth # 1 => Caller \in Frames /\ Shape(Caller) /\ Fits(Caller, Top)
  BY <1>1, TopFacts, Zenon
<1>3. Placed(Top, Depth, entry)
  BY <1>1, TopPlaced
<1>4. Depth \in 1..Depth /\ (Depth # 1 <=> Depth > 1)
  <2>1. Depth \in Nat \ {0}
    BY <1>2
  <2>2. \A k \in Nat \ {0} : k \in 1..k /\ (k # 1 <=> k > 1)
    OBVIOUS
  <2> QED BY <2>1, <2>2
<1> QED BY <1>1, <1>2, <1>3, <1>4

\* Frames that are no walk, no request, no entry and no direct dispatch.
Ordinary(g) == g.at \notin Entries \cup Requests \cup Walks \cup {"direct"}
FreeTop == Top.at \notin Walks \cup {"handler", "legacy"} /\ Aside(Top)

LEMMA OrdinaryPlaced ==
  ASSUME TypedStack, Control, FreeTop, NEW g, Shape(g), Ordinary(g)
  PROVE  /\ Aside(g) /\ g.at \notin Walks
         /\ \A p, en : Placed(g, p, en)
<1>1. Plain(g) /\ Aside(g) /\ g.at \notin Walks
  BY DEF Ordinary, Plain, Aside, Entries
<1>2. Structure(stack, entry)
  BY ControlFacts
<1>3. \A p, en : Placed(g, p, en)
  BY <1>1, <1>2, PlainPlaced DEF FreeTop
<1> QED BY <1>1, <1>3

LEMMA BecomeOrdinary ==
  ASSUME TypedStack, Control, FreeTop, Depth > 1, NEW f \in Frames, Become(f),
         Shape(f), Ordinary(f), Fits(Caller, f), NEW en, entry => en
  PROVE  stack' \in Seq(Frames) /\ Controlled(stack', en, inSmm, buffer)
<1>1. PICK t : t = stack'
  OBVIOUS
<1>2. Structure(stack, entry) /\ stack # <<>>
  BY ControlFacts
<1>3. Rest(t) /\ Len(t) = Depth /\ t[Depth] = f
  <2>1. t = [stack EXCEPT ![Depth] = f]
    BY <1>1 DEF Become
  <2> QED BY <1>2, <2>1, Becoming
<1>4. Placed(f, Depth, en) /\ Aside(f) /\ f.at \notin Walks
  BY OrdinaryPlaced
<1>5. \A i \in 1..Depth - 1 : ~(stack[i].at = "direct" /\ stack[i].type = "legacy")
  BY <1>2, FreeBelow DEF FreeTop
<1>6. t \in Seq(Frames) /\ Controlled(t, en, inSmm, buffer)
  BY <1>3, <1>4, <1>5, TopKept DEF FreeTop
<1> QED BY <1>1, <1>6

LEMMA CallOrdinary ==
  ASSUME TypedStack, Control, FreeTop, NEW f \in Frames, NEW c \in Frames, Call(f, c),
         Shape(f), Ordinary(f), Depth > 1 => Fits(Caller, f), Depth = 1 => f.at = "dxe",
         Shape(c), Ordinary(c), Fits(f, c)
  PROVE  stack' \in Seq(Frames) /\ Controlled(stack', entry, inSmm, buffer)
<1>1. PICK t : t = stack'
  OBVIOUS
<1>2. Structure(stack, entry) /\ stack # <<>>
  BY ControlFacts
<1>3. Rest(t) /\ Len(t) = Depth + 1 /\ t[Depth] = f /\ t[Depth + 1] = c
  <2>1. t = Called(f, c)
    BY <1>1 DEF Call, Called
  <2> QED BY <1>2, <2>1, Calling
<1>4. Placed(f, Depth, entry) /\ Aside(f) /\ f.at \notin Walks
  BY OrdinaryPlaced
<1>5. Placed(c, Depth + 1, entry) /\ Aside(c) /\ c.at \notin Walks
  BY OrdinaryPlaced
<1>6. Above(f, c)
  BY DEF Above, Ordinary, Served, Entries
<1>7. t \in Seq(Frames) /\ Controlled(t, entry, inSmm, buffer)
  BY <1>3, <1>4, <1>5, <1>6, PushKept DEF FreeTop
<1> QED BY <1>1, <1>7

LEMMA ReturnKept ==
  ASSUME TypedStack, Control, Depth > 1, Aside(Top), NEW f \in Frames, Same(f, Caller), Return(f)
  PROVE  stack' \in Seq(Frames) /\ Controlled(stack', entry, inSmm, buffer)
<1>1. PICK t : t = stack'
  OBVIOUS
<1>2. Rest(t) /\ Len(t) = Depth - 1
  <2>1. t = Append(SubSeq(stack, 1, Depth - 2), f)
    BY <1>1 DEF Return
  <2> QED BY <2>1, Returning
<1>3. t \in Seq(Frames) /\ Controlled(t, entry, inSmm, buffer)
  BY <1>2, PopKept
<1> QED BY <1>1, <1>3

LEMMA HandlerKept ==
  ASSUME TypedStack, Control, Depth > 1, Aside(Top),
         NEW ret \in Statuses, NEW reply \in Replies, HandlerReturns(ret, reply)
  PROVE  stack' \in Seq(Frames) /\ Controlled(stack', entry, inSmm, buffer)
<1>1. PICK t : t = stack'
  OBVIOUS
<1>2. Rest(t) /\ Len(t) = Depth - 1
  <2>1. t = [i \in 1..Depth - 1 |->
               IF i = Depth - 1 THEN [stack[i] EXCEPT !.ret = ret]
               ELSE IF i = Top.up THEN [stack[i] EXCEPT !.reply = reply]
               ELSE stack[i]]
    BY <1>1 DEF HandlerReturns
  <2> QED BY <2>1, HandlerDone
<1>3. t \in Seq(Frames) /\ Controlled(t, entry, inSmm, buffer)
  BY <1>2, PopKept
<1> QED BY <1>1, <1>3

\* The callers of a handler, of a walk, and of Communicate with what they are told.
LEMMA Told ==
  ASSUME NEW f \in Frames
  PROVE  /\ \A r \in Statuses : LET g == [f EXCEPT !.ret = r] IN g \in Frames /\ Same(g, f)
         /\ \A r \in Replies : LET g == [f EXCEPT !.reply = r] IN g \in Frames /\ Same(g, f)
         /\ Same(f, f)
BY DEF Frames, Same

LEMMA Held ==
  ASSUME stack' \in Seq(Frames), Controlled(stack', entry', inSmm', buffer')
  PROVE  TypedStack' /\ Control'
BY DEF TypedStack, Control

\* The frame of a Communicate that goes on, and a new one.
LEMMA PostingGoesOn ==
  ASSUME NEW f, NEW g, Shape(g), g.at \in Posting, f.at \in Posting \ {"communicate"},
         f.type = g.type
  PROVE  Shape(f) /\ \A h : Fits(h, g) => Fits(h, f)
<1>1. Shape(f)
  BY DEF Shape, Posting, Requests, Walks, Notifying, Starting
<1>2. \A h : Fits(h, g) => Fits(h, f)
  BY DEF Fits, Posting, Requests, Walks, Notifying, Starting, HandlerLabels
<1> QED BY <1>1, <1>2

LEMMA FrameIs ==
  ASSUME NEW at \in Labels, NEW type \in Types \cup Events \cup {NoType},
         NEW c, c = Frame(at, type)
  PROVE  /\ c \in Frames /\ c.at = at /\ c.type = type /\ ~c.flag /\ c.up = 0
         /\ c.n = 0 /\ c.ret = "none" /\ c.reply = "clear"
BY DEF Frame, Frames, Statuses, Replies

LEMMA NewMessage ==
  ASSUME NEW type \in CoreTypes \cup UserTypes, NEW c, c = Communicate(type)
  PROVE  /\ c \in Frames /\ Shape(c) /\ Ordinary(c)
         /\ c.at = "communicate" /\ c.type = type
<1>1. type \in Types \cup Events \cup {NoType} /\ "communicate" \in Labels
  BY DEF Types, Labels
<1>2. c \in Frames /\ c.at = "communicate" /\ c.type = type /\ ~c.flag
  BY <1>1, FrameIs DEF Communicate
<1>3. Shape(c) /\ Ordinary(c)
  BY <1>2 DEF Shape, Posting, Requests, Walks, Notifying, Starting, Ordinary, Entries
<1> QED BY <1>2, <1>3

LEMMA AnswersKept ==
  ASSUME DataOK, TypedStack, Control, Sent \/ Refuse
  PROVE  TypedStack' /\ Control'
<1>1. Top \in Frames /\ Shape(Top) /\ Depth > 1 /\ Fits(Caller, Top) /\ Top.at \in {"sent", "communicate"}
  BY ControlFacts DEF Sent, Refuse, At
<1>2. FreeTop
  BY <1>1 DEF FreeTop, Walks, Aside
<1>3. status \in Statuses /\ "invalid" \in Statuses
  BY DEF DataOK, Statuses
<1>4. PICK r \in Statuses : Become([Top EXCEPT !.at = "answered", !.ret = r])
  BY <1>3 DEF Sent, Refuse
<1>5. PICK f : f = [Top EXCEPT !.at = "answered", !.ret = r]
  OBVIOUS
<1>6. f \in Frames /\ f.at = "answered" /\ f.type = Top.type
  BY <1>1, <1>5 DEF Frames, Labels
<1>7. Shape(f) /\ Fits(Caller, f)
  BY <1>1, <1>6, PostingGoesOn DEF Posting, Requests
<1>8. Ordinary(f)
  BY <1>6 DEF Ordinary, Entries, Requests, Walks
<1>9. stack' \in Seq(Frames) /\ Controlled(stack', entry, inSmm, buffer)
  BY <1>1, <1>2, <1>4, <1>5, <1>6, <1>7, <1>8, BecomeOrdinary
<1>10. entry' = entry /\ inSmm' = inSmm /\ buffer' = buffer
  BY DEF Sent, Refuse, private
<1> QED BY <1>9, <1>10, Held

\* Whoever is answered, or whose function has ended, leaves the stack as it was.
LEMMA ReturnsKept ==
  ASSUME DataOK, TypedStack, Control, Answered \/ StartEnds \/ NotifyEnds
  PROVE  TypedStack' /\ Control'
<1>1. Top \in Frames /\ Depth > 1 /\ Caller \in Frames
  BY ControlFacts DEF Answered, StartEnds, NotifyEnds, At
<1>2. Aside(Top)
  BY DEF Answered, StartEnds, NotifyEnds, At, Aside
<1>3. PICK f : Return(f) /\ f \in Frames /\ Same(f, Caller)
  <2>1. CASE Answered
    <3>1. Top.reply \in Replies
      BY <1>1 DEF Frames
    <3> QED BY <1>1, <2>1, <3>1, Told DEF Answered
  <2>2. CASE StartEnds
    <3>1. "entered" \in Statuses /\ "none" \in Statuses
      BY DEF Statuses
    <3> QED BY <1>1, <2>2, <3>1, Told DEF StartEnds
  <2>3. CASE NotifyEnds
    BY <1>1, <2>3, Told DEF NotifyEnds
  <2> QED BY <2>1, <2>2, <2>3
<1>4. stack' \in Seq(Frames) /\ Controlled(stack', entry, inSmm, buffer)
  BY <1>1, <1>2, <1>3, ReturnKept
<1>5. entry' = entry /\ inSmm' = inSmm /\ buffer' = buffer
  BY DEF Answered, StartEnds, NotifyEnds, private
<1> QED BY <1>4, <1>5, Held

LEMMA HandlersKept ==
  ASSUME DataOK, TypedStack, Control,
         \/ DriverHandler \/ ReadyToLockHandler \/ LegacyBootHandler \/ EndOfDxeHandler
         \/ DispatcherEnds \/ DispatcherRestarts
  PROVE  TypedStack' /\ Control'
<1>1. Depth > 1
  BY ControlFacts DEF DriverHandler, ReadyToLockHandler, LegacyBootHandler, EndOfDxeHandler,
       DispatcherEnds, DispatcherRestarts, At
<1>2. Aside(Top)
  BY DEF DriverHandler, ReadyToLockHandler, LegacyBootHandler, EndOfDxeHandler,
       DispatcherEnds, DispatcherRestarts, At, Aside
<1>3. \E ret \in Statuses, reply \in Replies : HandlerReturns(ret, reply)
  <2>1. {"success", "pending", "quiesced", "source_pending", "notfound"} \subseteq Statuses
        /\ {"handled", "success", "restart"} \subseteq Replies
    BY DEF Statuses, Replies
  <2>2. CASE DriverHandler
    BY <2>1, <2>2 DEF DriverHandler
  <2>3. CASE ReadyToLockHandler
    BY <2>1, <2>3 DEF ReadyToLockHandler
  <2>4. CASE LegacyBootHandler \/ EndOfDxeHandler
    BY <2>1, <2>4 DEF LegacyBootHandler, EndOfDxeHandler
  <2>5. CASE DispatcherEnds \/ DispatcherRestarts
    BY <2>1, <2>5 DEF DispatcherEnds, DispatcherRestarts
  <2> QED BY <2>2, <2>3, <2>4, <2>5
<1>4. stack' \in Seq(Frames) /\ Controlled(stack', entry, inSmm, buffer)
  BY <1>1, <1>2, <1>3, HandlerKept
<1>5. entry' = entry /\ inSmm' = inSmm /\ buffer' = buffer
  BY DEF DriverHandler, ReadyToLockHandler, LegacyBootHandler, EndOfDxeHandler,
       DispatcherEnds, DispatcherRestarts, private
<1> QED BY <1>4, <1>5, Held

\* What stands on a frame, and on what it stands, does not depend on its other fields.
LEMMA Alike ==
  ASSUME NEW f, NEW g, f.at = g.at, f.type = g.type, f.up = g.up, f.flag = g.flag
  PROVE  \A h : (Fits(h, f) <=> Fits(h, g)) /\ (Fits(f, h) <=> Fits(g, h))
BY DEF Fits

LEMMA Unmoved ==
  ASSUME TypedStack, Control, UNCHANGED <<stack, entry, inSmm, buffer>>
  PROVE  TypedStack' /\ Control'
BY DEF TypedStack, Control

LEMMA FindVolumeGoesOn ==
  ASSUME CoreAssumption, DataOK, TypedStack, Control, FindVolume
  PROVE  \E k \in Nat \ {0} : Become([Top EXCEPT !.n = k])
<1>1. Top \in Frames /\ Shape(Top) /\ Top.at = "find" /\ Top.n <= Len(volumes)
  BY ControlFacts DEF FindVolume, At
<1>2. Top.n \in Nat /\ Top.n # 0
  BY <1>1 DEF Frames, Shape
<1>3. volumes[Top.n] \in Volumes
  <2>1. Top.n \in 1..Len(volumes)
    BY <1>1, <1>2
  <2> QED BY <2>1 DEF DataOK
<1>4. \A k \in Nat : k + 1 \in Nat \ {0} /\ k + 2 \in Nat \ {0}
  OBVIOUS
<1>5. Apriori[volumes[Top.n]] \in Seq(Drivers)
  BY <1>3 DEF CoreAssumption
<1>6. Len(Apriori[volumes[Top.n]]) \in Nat
  BY <1>5, LenProperties
<1> QED BY <1>2, <1>4, <1>6 DEF FindVolume

LEMMA FindVolumeKept ==
  ASSUME CoreAssumption, DataOK, TypedStack, Control, FindVolume
  PROVE  TypedStack' /\ Control'
<1>1. /\ Top \in Frames /\ Shape(Top) /\ Depth > 1 /\ Fits(Caller, Top) /\ Top.at = "find"
      /\ Top.n <= Len(volumes)
  BY ControlFacts DEF FindVolume, At
<1>2. FreeTop
  BY <1>1 DEF FreeTop, Walks, Aside
<1>3. PICK k \in Nat \ {0} : Become([Top EXCEPT !.n = k])
  BY FindVolumeGoesOn
<1>4. PICK f : f = [Top EXCEPT !.n = k]
  OBVIOUS
<1>5. /\ f \in Frames /\ f.n = k /\ f.at = Top.at /\ f.type = Top.type /\ f.up = Top.up
      /\ f.flag = Top.flag
  BY <1>1, <1>4 DEF Frames
<1>6. Shape(f) /\ Fits(Caller, f) /\ Ordinary(f)
  <2>1. Shape(f)
    BY <1>1, <1>5 DEF Shape, Posting, Requests, Walks, Notifying, Starting
  <2>2. Fits(Caller, f)
    BY <1>1, <1>5, Alike
  <2>3. Ordinary(f)
    BY <1>1, <1>5 DEF Ordinary, Entries, Requests, Walks
  <2> QED BY <2>1, <2>2, <2>3
<1>7. stack' \in Seq(Frames) /\ Controlled(stack', entry, inSmm, buffer)
  BY <1>1, <1>2, <1>3, <1>4, <1>5, <1>6, BecomeOrdinary
<1>8. entry' = entry /\ inSmm' = inSmm /\ buffer' = buffer
  BY DEF FindVolume, private
<1> QED BY <1>7, <1>8, Held

LEMMA DispatcherBeginsKept ==
  ASSUME DataOK, TypedStack, Control, DispatcherBegins
  PROVE  TypedStack' /\ Control'
<1>1. /\ Top \in Frames /\ Shape(Top) /\ Depth > 1 /\ Fits(Caller, Top) /\ Top.at = "find"
  BY ControlFacts DEF DispatcherBegins, At
<1>2. FreeTop /\ Aside(Top)
  BY <1>1 DEF FreeTop, Walks, Aside
<1>3. stack' \in Seq(Frames) /\ Controlled(stack', entry, inSmm, buffer)
  <2>1. CASE request /\ ~running
    <3>1. PICK f : f = [Top EXCEPT !.at = "drain"]
      OBVIOUS
    <3>2. f \in Frames /\ f.at = "drain" /\ f.up = Top.up
      BY <1>1, <3>1 DEF Frames, Labels
    <3>3. Shape(f) /\ Ordinary(f)
      BY <3>2 DEF Shape, Posting, Requests, Walks, Notifying, Starting, Entries, Ordinary
    <3>4. Fits(Caller, f)
      <4>1. Caller.at = "managing" /\ Top.up = Caller.up /\ Caller.type = "dispatch"
        BY <1>1 DEF Fits, HandlerLabels, CoreHandlers, CoreTypes
      <4> QED BY <3>2, <4>1 DEF Fits, HandlerLabels, CoreTypes, Posting, Requests, Walks,
                                Notifying, Starting
    <3>5. Become(f)
      BY <2>1, <3>1 DEF DispatcherBegins
    <3> QED BY <1>1, <1>2, <3>2, <3>3, <3>4, <3>5, BecomeOrdinary
  <2>2. CASE ~(request /\ ~running)
    <3>1. "success" \in Statuses /\ "error" \in Replies
      BY DEF Statuses, Replies
    <3>2. HandlerReturns("success", "error")
      BY <2>2 DEF DispatcherBegins
    <3> QED BY <1>1, <1>2, <3>1, <3>2, HandlerKept
  <2> QED BY <2>1, <2>2
<1>4. entry' = entry /\ inSmm' = inSmm /\ buffer' = buffer
  BY DEF DispatcherBegins, private
<1> QED BY <1>3, <1>4, Held

LEMMA DrainKept ==
  ASSUME DataOK, TypedStack, Control, Drain
  PROVE  TypedStack' /\ Control'
<1>1. /\ Top \in Frames /\ Shape(Top) /\ Depth > 1 /\ Fits(Caller, Top) /\ Top.at = "drain"
  BY ControlFacts DEF Drain, At
<1>2. entry' = entry /\ inSmm' = inSmm /\ buffer' = buffer
  BY DEF Drain, private
<1>3. CASE stack' = stack
  BY <1>2, <1>3, Unmoved DEF Drain
<1>4. CASE stack' # stack
  <2>1. PICK d : d = Head(scheduled)
    OBVIOUS
  <2>2. d \in Drivers
    BY <2>1, HeadTailProperties DEF Drain, DataOK
  <2>3. PICK c : c = [Frame("start", NoType) EXCEPT !.who = d, !.flag = entry]
    OBVIOUS
  <2>4. Frame("start", NoType) \in Frames
    <3>1. "start" \in Labels /\ NoType \in Types \cup Events \cup {NoType}
      BY DEF Labels
    <3> QED BY <3>1, FrameIs
  <2>5. c \in Frames /\ c.at = "start" /\ c.who = d
    <3>1. entry \in BOOLEAN
      BY DEF DataOK
    <3> QED BY <2>2, <2>3, <2>4, <3>1 DEF Frame, Frames
  <2>6. Shape(c) /\ Ordinary(c)
    BY <2>2, <2>5 DEF Shape, Posting, Requests, Walks, Notifying, Starting, Entries, Ordinary
  <2>7. Fits(Top, c)
    BY <1>1, <2>5 DEF Fits, HandlerLabels, Posting, Requests, Walks, Notifying, Starting
  <2>8. FreeTop /\ Ordinary(Top) /\ Depth # 1
    <3>1. FreeTop /\ Ordinary(Top)
      BY <1>1 DEF FreeTop, Walks, Aside, Ordinary, Entries, Requests
    <3>2. Depth = 1 => Top.at = "dxe"
      BY ControlFacts
    <3> QED BY <1>1, <3>1, <3>2
  <2>9. Call(Top, c)
    BY <1>4, <2>1, <2>3 DEF Drain
  <2>10. stack' \in Seq(Frames) /\ Controlled(stack', entry, inSmm, buffer)
    BY <1>1, <2>5, <2>6, <2>7, <2>8, <2>9, CallOrdinary
  <2> QED BY <1>2, <2>10, Held
<1> QED BY <1>3, <1>4

LEMMA StartDriverKept ==
  ASSUME DataOK, TypedStack, Control, StartDriver
  PROVE  TypedStack' /\ Control'
<1>1. /\ Top \in Frames /\ Shape(Top) /\ Depth > 1 /\ Fits(Caller, Top) /\ Top.at = "start"
  BY ControlFacts DEF StartDriver, At
<1>2. PICK l : l = IF Calls[Top.who] = NoType THEN "started" ELSE "calls"
  OBVIOUS
<1>3. PICK f : f = [Top EXCEPT !.at = l]
  OBVIOUS
<1>4. /\ f \in Frames /\ f.at = l /\ f.who = Top.who
  BY <1>1, <1>2, <1>3 DEF Frames, Labels
<1>5. l = "started" \/ (l = "calls" /\ Calls[Top.who] # NoType)
  BY <1>2
<1>6. Top.who \in Drivers
  BY <1>1 DEF Shape, Starting
<1>7. Shape(f) /\ Ordinary(f)
  BY <1>4, <1>5, <1>6 DEF Shape, Posting, Requests, Walks, Notifying, Starting, Entries, Ordinary
<1>8. Caller.at = "drain"
  BY <1>1 DEF Fits, Starting
<1>9. Fits(Caller, f)
  BY <1>4, <1>5, <1>8 DEF Fits, HandlerLabels, Posting, Requests, Walks, Notifying, Starting
<1>10. FreeTop
  BY <1>1 DEF FreeTop, Walks, Aside
<1>11. Become(f)
  BY <1>2, <1>3 DEF StartDriver
<1>12. entry => entry'
  BY DEF StartDriver
<1>13. stack' \in Seq(Frames) /\ Controlled(stack', entry', inSmm, buffer)
  BY <1>1, <1>4, <1>7, <1>9, <1>10, <1>11, <1>12, BecomeOrdinary
<1>14. inSmm' = inSmm /\ buffer' = buffer
  BY DEF StartDriver, private
<1> QED BY <1>13, <1>14, Held

\* A frame on top that calls Communicate, or is notified.
LEMMA PostsKept ==
  ASSUME TypedStack, Control, FreeTop, NEW f \in Frames, Shape(f), Ordinary(f),
         Depth > 1 => Fits(Caller, f), Depth = 1 => f.at = "dxe",
         NEW type \in CoreTypes \cup UserTypes,
         \/ f.at \in {"dxe", "started"} /\ type \in UserTypes
         \/ f.at \in {"again", "notified"} /\ type = IF f.type = "boot" THEN "lock" ELSE f.type,
         Call(f, Communicate(type))
  PROVE  stack' \in Seq(Frames) /\ Controlled(stack', entry, inSmm, buffer)
<1>1. PICK c : c = Communicate(type)
  OBVIOUS
<1>2. /\ c \in Frames /\ Shape(c) /\ Ordinary(c)
      /\ c.at = "communicate" /\ c.type = type
  BY <1>1, NewMessage
<1>3. Fits(f, c)
  BY <1>2 DEF Fits, Posting, Requests, Walks, Notifying, Starting, HandlerLabels
<1> QED BY <1>1, <1>2, <1>3, CallOrdinary

LEMMA StartCallsKept ==
  ASSUME CoreAssumption, DataOK, TypedStack, Control, StartCalls
  PROVE  TypedStack' /\ Control'
<1>1. /\ Top \in Frames /\ Shape(Top) /\ Depth > 1 /\ Fits(Caller, Top) /\ Top.at = "calls"
      /\ (Depth = 1 => Top.at = "dxe")
  BY ControlFacts DEF StartCalls, At
<1>2. FreeTop
  BY <1>1 DEF FreeTop, Walks, Aside
<1>3. PICK f : f = [Top EXCEPT !.at = "started"]
  OBVIOUS
<1>4. f \in Frames /\ f.at = "started" /\ f.who = Top.who
  BY <1>1, <1>3 DEF Frames, Labels
<1>5. Top.who \in Drivers /\ Calls[Top.who] # NoType
  BY <1>1 DEF Shape, Starting
<1>6. Shape(f) /\ Ordinary(f)
  BY <1>4, <1>5 DEF Shape, Posting, Requests, Walks, Notifying, Starting, Entries, Ordinary
<1>7. Fits(Caller, f)
  <2>1. Caller.at = "drain"
    BY <1>1 DEF Fits, Starting
  <2> QED BY <1>4, <2>1 DEF Fits, HandlerLabels, Posting, Requests, Walks, Notifying, Starting
<1>8. PICK type : type = Calls[Top.who]
  OBVIOUS
<1>9. type \in UserTypes /\ type \in CoreTypes \cup UserTypes
  BY <1>5, <1>8 DEF CoreAssumption
<1>10. Call(f, Communicate(type)) /\ Depth # 1
  BY <1>1, <1>3, <1>8 DEF StartCalls
<1>11. stack' \in Seq(Frames) /\ Controlled(stack', entry, inSmm, buffer)
  BY <1>2, <1>4, <1>6, <1>7, <1>9, <1>10, PostsKept
<1>12. entry' = entry /\ inSmm' = inSmm /\ buffer' = buffer
  BY DEF StartCalls, private
<1> QED BY <1>11, <1>12, Held

\* A notification function that posts its message.
LEMMA NotifiedPosts ==
  ASSUME TypedStack, Control, Top.at = "notify", NEW l \in {"again", "notified"},
         l = "again" => Top.type = "dispatch",
         NEW type, type = IF Top.type = "boot" THEN "lock" ELSE Top.type,
         Call([Top EXCEPT !.at = l], Communicate(type))
  PROVE  stack' \in Seq(Frames) /\ Controlled(stack', entry, inSmm, buffer)
<1>1. /\ Top \in Frames /\ Shape(Top) /\ Depth > 1 /\ Fits(Caller, Top)
      /\ (Depth = 1 => Top.at = "dxe")
  BY ControlFacts
<1>2. FreeTop /\ Depth # 1
  BY <1>1 DEF FreeTop, Walks, Aside
<1>3. PICK f : f = [Top EXCEPT !.at = l]
  OBVIOUS
<1>4. f \in Frames /\ f.at = l /\ f.type = Top.type
  <2>1. l \in Labels
    BY DEF Labels
  <2> QED BY <1>1, <1>3, <2>1 DEF Frames
<1>5. Top.type \in Events
  BY <1>1 DEF Shape, Notifying
<1>6. Shape(f) /\ Ordinary(f)
  BY <1>4, <1>5 DEF Shape, Posting, Requests, Walks, Notifying, Starting, Entries, Ordinary
<1>7. Fits(Caller, f)
  <2>1. Caller.at = "dxe" \/ (Caller.at \in Requests /\ Caller.flag)
    BY <1>1 DEF Fits, Notifying
  <2> QED BY <1>4, <2>1 DEF Fits, HandlerLabels, Posting, Requests, Walks, Notifying, Starting
<1>8. type \in CoreTypes \cup UserTypes
  BY <1>5 DEF Events, CoreTypes
<1>9. Call(f, Communicate(type))
  BY <1>3
<1> QED BY <1>2, <1>4, <1>6, <1>7, <1>8, <1>9, PostsKept

LEMMA NotifyPostsKept ==
  ASSUME DataOK, TypedStack, Control, NotifyPosts
  PROVE  TypedStack' /\ Control'
<1>1. Top.at = "notify" /\ Top.type \notin {"lock", "boot"}
  BY DEF NotifyPosts, At
<1>2. PICK l : l = IF Top.type = "dispatch" THEN "again" ELSE "notified"
  OBVIOUS
<1>3. l \in {"again", "notified"} /\ (l = "again" => Top.type = "dispatch")
  BY <1>2
<1>4. PICK type : type = Top.type
  OBVIOUS
<1>5. type = (IF Top.type = "boot" THEN "lock" ELSE Top.type)
  BY <1>1, <1>4
<1>6. Call([Top EXCEPT !.at = l], Communicate(type))
  BY <1>2, <1>4 DEF NotifyPosts
<1>7. stack' \in Seq(Frames) /\ Controlled(stack', entry, inSmm, buffer)
  BY <1>1, <1>3, <1>5, <1>6, NotifiedPosts
<1>8. entry' = entry /\ inSmm' = inSmm /\ buffer' = buffer
  BY DEF NotifyPosts, private
<1> QED BY <1>7, <1>8, Held

LEMMA NotifyLocksKept ==
  ASSUME DataOK, TypedStack, Control, NotifyLocks
  PROVE  TypedStack' /\ Control'
<1>1. Top.at = "notify" /\ Top.type \in {"lock", "boot"}
  BY DEF NotifyLocks, At
<1>2. stack' \in Seq(Frames) /\ Controlled(stack', entry, inSmm, buffer)
  <2>1. CASE mSmmLocked
    <3>1. Return(Caller)
      BY <2>1 DEF NotifyLocks
    <3>2. Depth > 1 /\ Caller \in Frames /\ Aside(Top) /\ Same(Caller, Caller)
      BY <1>1, ControlFacts, SameItself DEF Aside
    <3> QED BY <3>1, <3>2, ReturnKept
  <2>2. CASE ~mSmmLocked
    <3>1. Call([Top EXCEPT !.at = "notified"], Communicate("lock"))
      BY <2>2 DEF NotifyLocks
    <3>2. "lock" = (IF Top.type = "boot" THEN "lock" ELSE Top.type)
      BY <1>1
    <3>3. "notified" \in {"again", "notified"} /\ ("notified" = "again" => Top.type = "dispatch")
      OBVIOUS
    <3> QED BY <1>1, <3>1, <3>2, <3>3, NotifiedPosts
  <2> QED BY <2>1, <2>2
<1>3. entry' = entry /\ inSmm' = inSmm /\ buffer' = buffer
  BY DEF NotifyLocks, private
<1> QED BY <1>2, <1>3, Held

LEMMA DispatchAgainKept ==
  ASSUME DataOK, TypedStack, Control, DispatchAgain
  PROVE  TypedStack' /\ Control'
<1>1. /\ Top \in Frames /\ Shape(Top) /\ Depth > 1 /\ Fits(Caller, Top) /\ Top.at = "again"
      /\ Caller \in Frames
  BY ControlFacts DEF DispatchAgain, At
<1>2. FreeTop /\ Aside(Top)
  BY <1>1 DEF FreeTop, Walks, Aside
<1>3. stack' \in Seq(Frames) /\ Controlled(stack', entry, inSmm, buffer)
  <2>1. CASE Top.reply = "restart"
    <3>1. PICK f : f = [Top EXCEPT !.at = "notify", !.reply = "clear"]
      OBVIOUS
    <3>2. f \in Frames /\ f.at = "notify" /\ f.type = Top.type
      BY <1>1, <3>1 DEF Frames, Labels, Replies
    <3>3. Top.type \in Events
      BY <1>1 DEF Shape, Notifying
    <3>4. Shape(f) /\ Ordinary(f)
      BY <3>2, <3>3 DEF Shape, Posting, Requests, Walks, Notifying, Starting, Entries, Ordinary
    <3>5. Fits(Caller, f)
      <4>1. Caller.at = "dxe" \/ (Caller.at \in Requests /\ Caller.flag)
        BY <1>1 DEF Fits, Notifying
      <4> QED BY <3>2, <4>1 DEF Fits, HandlerLabels, Posting, Requests, Walks, Notifying, Starting
    <3>6. Become(f)
      BY <2>1, <3>1 DEF DispatchAgain
    <3> QED BY <1>1, <1>2, <3>2, <3>4, <3>5, <3>6, BecomeOrdinary
  <2>2. CASE Top.reply # "restart"
    <3>1. Return(Caller) /\ Same(Caller, Caller)
      BY <2>2, SameItself DEF DispatchAgain
    <3> QED BY <1>1, <1>2, <3>1, ReturnKept
  <2> QED BY <2>1, <2>2
<1>4. entry' = entry /\ inSmm' = inSmm /\ buffer' = buffer
  BY DEF DispatchAgain, private
<1> QED BY <1>3, <1>4, Held

LEMMA CallCommunicateKept ==
  ASSUME DataOK, TypedStack, Control, NEW type \in UserTypes, CallCommunicate(type)
  PROVE  TypedStack' /\ Control'
<1>1. /\ Top \in Frames /\ Shape(Top) /\ (Depth > 1 => Fits(Caller, Top)) /\ Top.at = "dxe"
  BY ControlFacts DEF CallCommunicate, Dxe, At
<1>2. FreeTop /\ Ordinary(Top)
  BY <1>1 DEF FreeTop, Walks, Aside, Ordinary, Entries, Requests
<1>3. type \in CoreTypes \cup UserTypes /\ Call(Top, Communicate(type))
  BY DEF CallCommunicate
<1>4. stack' \in Seq(Frames) /\ Controlled(stack', entry, inSmm, buffer)
  BY <1>1, <1>2, <1>3, PostsKept
<1>5. entry' = entry /\ inSmm' = inSmm /\ buffer' = buffer
  BY DEF CallCommunicate, private
<1> QED BY <1>4, <1>5, Held

LEMMA SignalsDxeKept ==
  ASSUME DataOK, TypedStack, Control, NEW event \in Events, Signal(event), Dxe
  PROVE  TypedStack' /\ Control'
<1>1. /\ Top \in Frames /\ Shape(Top) /\ (Depth > 1 => Fits(Caller, Top)) /\ Top.at = "dxe"
  BY ControlFacts DEF Dxe, At
<1>2. FreeTop /\ Ordinary(Top)
  BY <1>1 DEF FreeTop, Walks, Aside, Ordinary, Entries, Requests
<1>3. PICK c : c = Frame("notify", event)
  OBVIOUS
<1>4. c \in Frames /\ c.at = "notify" /\ c.type = event
  <2>1. "notify" \in Labels /\ event \in Types \cup Events \cup {NoType}
    BY DEF Labels
  <2> QED BY <1>3, <2>1, FrameIs
<1>5. Shape(c) /\ Ordinary(c)
  BY <1>4 DEF Shape, Posting, Requests, Walks, Notifying, Starting, Entries, Ordinary
<1>6. Fits(Top, c)
  BY <1>1, <1>4 DEF Fits, HandlerLabels, Posting, Requests, Walks, Notifying, Starting
<1>7. Call(Top, c)
  BY <1>1, <1>3 DEF Signal
<1>8. stack' \in Seq(Frames) /\ Controlled(stack', entry, inSmm, buffer)
  BY <1>1, <1>2, <1>4, <1>5, <1>6, <1>7, CallOrdinary
<1>9. entry' = entry /\ inSmm' = inSmm /\ buffer' = buffer
  BY DEF Signal, private
<1> QED BY <1>8, <1>9, Held

-----------------------------------------------------------------------------
(* Walks over handlers.                                                       *)

LEMMA WalkPlaced ==
  ASSUME TypedStack, Control, Top.at \in Walks, NEW f, f.at \in Walks, f.type = Top.type,
         f.up = Top.up, f.at = "managing" => f.who \in Keepers(f.type)
  PROVE  Shape(f) /\ Placed(f, Depth, entry) /\ Fits(Caller, f) /\ Aside(f)
<1>1. /\ Shape(Top) /\ Placed(Top, Depth, entry) /\ Depth > 1 /\ Fits(Caller, Top)
  BY ControlFacts DEF Walks
<1>2. Shape(f)
  BY <1>1 DEF Shape, Posting, Requests, Walks, Notifying, Starting
<1>3. \A i \in 1..Depth - 1 : Above(stack[i], f)
  <2>1. ASSUME NEW i \in 1..Depth - 1
        PROVE  Above(stack[i], f)
    <3>1. Above(stack[i], Top)
      BY <1>1 DEF Placed
    <3> QED BY <3>1 DEF Above, Walks, Entries, Requests
  <2> QED BY <2>1
<1>4. Placed(f, Depth, entry)
  BY <1>2, <1>3 DEF Placed, Walks, Entries, Requests
<1>5. Fits(Caller, f)
  BY <1>1 DEF Fits, HandlerLabels, Posting, Requests, Walks, Notifying, Starting
<1>6. Aside(f)
  BY DEF Aside, Walks
<1> QED BY <1>2, <1>4, <1>5, <1>6

\* The frame of a handler.
LEMMA HandlerIs ==
  ASSUME Drivers \cap CoreTypes = {},
         NEW type \in Types, NEW h \in Keepers(type), NEW up \in Nat,
         NEW c, c = HandlerFrame(h, up)
  PROVE  /\ c \in Frames /\ c.up = up /\ c.who = h /\ c.type = NoType
         /\ c.ret = "none" /\ ~c.flag /\ c.n = 1
         /\ IF type \in CoreTypes THEN c.at = CoreHandlers[type]
            ELSE c.at = "handler" /\ h \in Drivers
<1>1. IF type \in CoreTypes THEN h = type ELSE h \in Drivers /\ h \notin CoreTypes
  BY DEF Keepers
<1>2. PICK l : l = IF h \in CoreTypes THEN CoreHandlers[h] ELSE "handler"
  OBVIOUS
<1>3. l \in Labels
  BY <1>2 DEF Labels, CoreHandlers, CoreTypes
<1>4. PICK g : g = Frame(l, NoType)
  OBVIOUS
<1>5. g \in Frames /\ g.at = l /\ g.type = NoType /\ g.ret = "none" /\ ~g.flag
  <2>1. NoType \in Types \cup Events \cup {NoType}
    OBVIOUS
  <2> QED BY <1>3, <1>4, <2>1, FrameIs
<1>6. c = [g EXCEPT !.up = up, !.who = h, !.n = 1]
  BY <1>2, <1>4 DEF HandlerFrame
<1>7. h \in CoreTypes \cup Drivers \cup {NoDriver}
  BY <1>1
<1>8. /\ c \in Frames /\ c.up = up /\ c.who = h /\ c.type = NoType /\ c.at = l
      /\ c.ret = "none" /\ ~c.flag /\ c.n = 1
  <2>1. c \in Frames
    BY ONLY up \in Nat, <1>5, <1>6, <1>7 DEF Frames
  <2>2. c.up = up /\ c.who = h /\ c.n = 1
    BY <1>5, <1>6 DEF Frames
  <2>3. c.type = g.type /\ c.at = g.at /\ c.ret = g.ret /\ c.flag = g.flag
    BY <1>5, <1>6 DEF Frames
  <2> QED BY <1>5, <2>1, <2>2, <2>3
<1> QED BY <1>1, <1>2, <1>8

LEMMA WalkCalls ==
  ASSUME Drivers \cap CoreTypes = {}, TypedStack, Control, Top.at \in Walks,
         NEW h \in Keepers(Top.type), NEW f \in Frames, f.at = "managing", f.who = h,
         f.type = Top.type, f.up = Top.up, Call(f, HandlerFrame(h, Top.up))
  PROVE  stack' \in Seq(Frames) /\ Controlled(stack', entry, inSmm, buffer)
<1>1. /\ Top \in Frames /\ Shape(Top) /\ Placed(Top, Depth, entry) /\ stack # <<>>
      /\ Depth > 1 /\ (Depth = 1 => Top.at = "dxe")
  BY ControlFacts DEF Walks
<1>2. Top.type \in Types /\ Top.up \in Nat
  BY <1>1 DEF Shape, Frames
<1>3. PICK c : c = HandlerFrame(h, Top.up)
  OBVIOUS
<1>4. /\ c \in Frames /\ c.up = Top.up
      /\ IF Top.type \in CoreTypes THEN c.at = CoreHandlers[Top.type]
         ELSE c.at = "handler" /\ c.who \in Drivers
      /\ c.n = 1
  <2>1. PICK type \in Types, up \in Nat : type = Top.type /\ up = Top.up
    BY <1>2
  <2>2. h \in Keepers(type) /\ c = HandlerFrame(h, up)
    BY <1>3, <2>1
  <2>3. /\ c \in Frames /\ c.up = up /\ c.n = 1 /\ c.who = h
        /\ IF type \in CoreTypes THEN c.at = CoreHandlers[type]
           ELSE c.at = "handler" /\ h \in Drivers
    BY <2>2, HandlerIs
  <2> QED BY <2>1, <2>3
<1>5. c.at \in {"handler", "find", "lock", "legacy", "enddxe"} /\ c.n # 0
  BY <1>4 DEF CoreHandlers, CoreTypes
<1>6. Shape(c)
  BY <1>4, <1>5 DEF Shape, Posting, Requests, Walks, Notifying, Starting, CoreHandlers, CoreTypes
<1>7. Fits(f, c)
  <2>1. c.at = "handler" => Top.type \notin CoreTypes
    BY <1>4 DEF CoreHandlers, CoreTypes
  <2> QED BY <1>4, <1>5, <2>1 DEF Fits, HandlerLabels, Posting, Requests, Walks, Notifying, Starting
<1>8. ASSUME NEW i \in 1..Depth - 1
      PROVE  Above(stack[i], c)
  <2>1. Above(stack[i], Top)
    BY <1>1 DEF Placed
  <2>2. stack[i].at \in {"entry", "root"} => c.at = "handler"
    <3>1. stack[i].at \in {"entry", "root"} => Top.type = "root"
      BY <2>1 DEF Above, Walks
    <3> QED BY <1>4, <3>1 DEF CoreTypes
  <2>3. stack[i].at = "direct" /\ stack[i].type = "legacy" => c.at = "legacy"
    <3>1. stack[i].at = "direct" /\ stack[i].type = "legacy" => Top.type = "legacy"
      BY <2>1 DEF Above, Walks
    <3> QED BY <1>4, <3>1 DEF CoreTypes, CoreHandlers
  <2> QED BY <1>5, <2>2, <2>3 DEF Above, Walks, Entries, Requests
<1>9. Placed(c, Depth + 1, entry) /\ Aside(c)
  BY <1>5, <1>6, <1>8 DEF Placed, Aside, Entries, Requests
<1>10. Above(f, c)
  BY DEF Above, Served, Entries, Requests
<1>11. Shape(f) /\ Placed(f, Depth, entry) /\ Fits(Caller, f) /\ Aside(f)
  BY WalkPlaced DEF Walks
<1>12. PICK t : t = stack'
  OBVIOUS
<1>13. Rest(t) /\ Len(t) = Depth + 1 /\ t[Depth] = f /\ t[Depth + 1] = c
  <2>1. t = Called(f, c)
    BY <1>3, <1>12 DEF Call, Called
  <2> QED BY <1>1, <1>4, <2>1, Calling
<1>14. Aside(Top) /\ Depth # 1
  BY <1>1 DEF Aside, Walks
<1>15. t \in Seq(Frames) /\ Controlled(t, entry, inSmm, buffer)
  BY <1>4, <1>7, <1>9, <1>10, <1>11, <1>13, <1>14, PushKept
<1> QED BY <1>12, <1>15

LEMMA ManageBeginsKept ==
  ASSUME Drivers \cap CoreTypes = {}, DataOK, TypedStack, Control, ManageBegins
  PROVE  TypedStack' /\ Control'
<1>1. /\ Top \in Frames /\ Shape(Top) /\ Depth > 1 /\ Top.at = "manage"
      /\ Caller \in Frames
  BY ControlFacts DEF ManageBegins, At
<1>2. Top.at \in Walks /\ Aside(Top)
  BY <1>1 DEF Walks, Aside
<1>3. stack' \in Seq(Frames) /\ Controlled(stack', entry, inSmm, buffer)
  <2>1. CASE handlers[Top.type] = <<>>
    <3>1. Return([Caller EXCEPT !.ret = "notfound"])
      BY <2>1 DEF ManageBegins
    <3>2. "notfound" \in Statuses
      BY DEF Statuses
    <3>3. PICK f : f = [Caller EXCEPT !.ret = "notfound"]
      OBVIOUS
    <3>4. f \in Frames /\ Same(f, Caller)
      BY <1>1, <3>2, <3>3, Told
    <3> QED BY <1>1, <1>2, <3>1, <3>3, <3>4, ReturnKept
  <2>2. CASE handlers[Top.type] # <<>>
    <3>1. PICK h : h = Head(handlers[Top.type])
      OBVIOUS
    <3>2. handlers[Top.type] \in Seq(Keepers(Top.type))
      BY <1>1 DEF Shape, Walks, DataOK
    <3>3. h \in Keepers(Top.type)
      BY <2>2, <3>1, <3>2, HeadTailProperties
    <3>4. PICK f : f = [Top EXCEPT !.at = "managing", !.who = h]
      OBVIOUS
    <3>5. h \in CoreTypes \cup Drivers
      BY <3>3 DEF Keepers
    <3>6. /\ f \in Frames /\ f.at = "managing" /\ f.who = h /\ f.type = Top.type
          /\ f.up = Top.up
      BY <1>1, <3>4, <3>5 DEF Frames, Labels
    <3>7. Call(f, HandlerFrame(h, Top.up))
      BY <2>2, <3>1, <3>4 DEF ManageBegins
    <3> QED BY <1>2, <3>3, <3>6, <3>7, WalkCalls
  <2> QED BY <2>1, <2>2
<1>4. entry' = entry /\ inSmm' = inSmm /\ buffer' = buffer
  BY DEF ManageBegins, private
<1> QED BY <1>3, <1>4, Held

\* The handler behind one that is on the list.
LEMMA NextHandler ==
  ASSUME DataOK, NEW type \in Types, NEW h, Registered(h, type),
         Position(h, type) # Len(handlers[type])
  PROVE  handlers[type][Position(h, type) + 1] \in Keepers(type)
<1>1. PICK p : p = Position(h, type)
  OBVIOUS
<1>2. p \in DOMAIN handlers[type]
  BY <1>1 DEF Position, Registered
<1>3. handlers[type] \in Seq(Keepers(type))
  BY DEF DataOK
<1>4. p + 1 \in 1..Len(handlers[type])
  BY <1>1, <1>2, <1>3
<1> QED BY <1>1, <1>3, <1>4

\* A walk ends, has lost its place, or goes on to the next handler; it reports success
\* when a handler has returned it.
LEMMA ManagedDoes ==
  ASSUME DataOK, TypedStack, Control, Managed, NEW good,
         good = (Top.flag \/ Top.ret \in {"success", "quiesced"})
  PROVE  \/ \E r \in Statuses :
              (r = "success" => good) /\ Return([Caller EXCEPT !.ret = r])
         \/ Become([Top EXCEPT !.at = "astray"])
         \/ \E h \in Keepers(Top.type) :
              Call([Top EXCEPT !.who = h, !.flag = good], HandlerFrame(h, Top.up))
<1>1. Top \in Frames /\ Shape(Top) /\ Top.at = "managing"
  BY ControlFacts DEF Managed, At
<1>2. Top.type \in Types /\ Top.ret \in Statuses /\ "success" \in Statuses
  BY <1>1 DEF Shape, Frames, Statuses, Walks
<1>3. CASE Stops
  <2>1. Return([Caller EXCEPT !.ret = Top.ret])
    BY <1>3 DEF Managed
  <2>2. Top.ret = "success" => good
    OBVIOUS
  <2> QED BY <1>2, <2>1, <2>2
<1>4. CASE ~Stops /\ ~Registered(Top.who, Top.type)
  BY <1>4 DEF Managed
<1>5. CASE /\ ~Stops /\ Registered(Top.who, Top.type)
           /\ Position(Top.who, Top.type) = Len(handlers[Top.type])
  <2>1. PICK r : r = IF good THEN "success" ELSE Top.ret
    OBVIOUS
  <2>2. Return([Caller EXCEPT !.ret = r])
    BY <1>5, <2>1 DEF Managed
  <2>3. r \in Statuses
    BY <1>2, <2>1
  <2>4. r = "success" => good
    BY <2>1
  <2> QED BY <2>2, <2>3, <2>4
<1>6. CASE /\ ~Stops /\ Registered(Top.who, Top.type)
           /\ Position(Top.who, Top.type) # Len(handlers[Top.type])
  <2>1. PICK h : h = handlers[Top.type][Position(Top.who, Top.type) + 1]
    OBVIOUS
  <2>2. h \in Keepers(Top.type)
    BY <1>2, <1>6, <2>1, NextHandler
  <2>3. Call([Top EXCEPT !.who = h, !.flag = good], HandlerFrame(h, Top.up))
    BY <1>6, <2>1 DEF Managed
  <2> QED BY <2>2, <2>3
<1> QED BY <1>3, <1>4, <1>5, <1>6

LEMMA ManagedKept ==
  ASSUME Drivers \cap CoreTypes = {}, DataOK, TypedStack, Control, Managed
  PROVE  TypedStack' /\ Control'
<1>1. /\ Top \in Frames /\ Shape(Top) /\ Depth > 1 /\ Top.at = "managing"
      /\ Caller \in Frames /\ stack # <<>>
  BY ControlFacts DEF Managed, At
<1>2. Top.at \in Walks /\ Aside(Top)
  BY <1>1 DEF Walks, Aside
<1>3. Top.type \in Types /\ Top.ret \in Statuses /\ "success" \in Statuses
  BY <1>1, <1>2 DEF Shape, Frames, Statuses
<1>4. \/ \E r \in Statuses : Return([Caller EXCEPT !.ret = r])
      \/ Become([Top EXCEPT !.at = "astray"])
      \/ \E h \in Keepers(Top.type), g \in BOOLEAN :
           Call([Top EXCEPT !.who = h, !.flag = g], HandlerFrame(h, Top.up))
  <2>1. PICK g \in BOOLEAN : g = (Top.flag \/ Top.ret \in {"success", "quiesced"})
    OBVIOUS
  <2>2. \/ \E r \in Statuses :
              (r = "success" => g) /\ Return([Caller EXCEPT !.ret = r])
        \/ Become([Top EXCEPT !.at = "astray"])
        \/ \E h \in Keepers(Top.type) :
              Call([Top EXCEPT !.who = h, !.flag = g], HandlerFrame(h, Top.up))
    BY <2>1, ManagedDoes
  <2> QED BY <2>2
<1>5. stack' \in Seq(Frames) /\ Controlled(stack', entry, inSmm, buffer)
  <2>1. CASE \E r \in Statuses : Return([Caller EXCEPT !.ret = r])
    <3>1. PICK r \in Statuses : Return([Caller EXCEPT !.ret = r])
      BY <2>1
    <3>2. PICK f : f = [Caller EXCEPT !.ret = r]
      OBVIOUS
    <3>3. f \in Frames /\ Same(f, Caller)
      BY <1>1, <3>2, Told
    <3> QED BY <1>1, <1>2, <3>1, <3>2, <3>3, ReturnKept
  <2>2. CASE Become([Top EXCEPT !.at = "astray"])
    <3>1. PICK f : f = [Top EXCEPT !.at = "astray"]
      OBVIOUS
    <3>2. f \in Frames /\ f.at = "astray" /\ f.type = Top.type /\ f.up = Top.up
      BY <1>1, <3>1 DEF Frames
    <3>3. PICK t : t = stack'
      OBVIOUS
    <3>4. Rest(t) /\ Len(t) = Depth /\ t[Depth] = f
      <4>1. t = [stack EXCEPT ![Depth] = f]
        BY <2>2, <3>1, <3>3 DEF Become
      <4> QED BY <1>1, <3>2, <4>1, Becoming
    <3>5. Placed(f, Depth, entry) /\ Fits(Caller, f) /\ Aside(f)
      BY <1>2, <3>2, WalkPlaced DEF Walks
    <3>6. t \in Seq(Frames) /\ Controlled(t, entry, inSmm, buffer)
      BY <1>1, <1>2, <3>2, <3>4, <3>5, TopKept
    <3> QED BY <3>3, <3>6
  <2>3. CASE \E h \in Keepers(Top.type), g \in BOOLEAN :
               Call([Top EXCEPT !.who = h, !.flag = g], HandlerFrame(h, Top.up))
    <3>1. PICK h \in Keepers(Top.type), g \in BOOLEAN :
            Call([Top EXCEPT !.who = h, !.flag = g], HandlerFrame(h, Top.up))
      BY <2>3
    <3>2. PICK f : f = [Top EXCEPT !.who = h, !.flag = g]
      OBVIOUS
    <3>3. h \in CoreTypes \cup Drivers
      BY <3>1 DEF Keepers
    <3>4. /\ f \in Frames /\ f.at = "managing" /\ f.who = h /\ f.type = Top.type
          /\ f.up = Top.up
      BY <1>1, <3>2, <3>3 DEF Frames
    <3>5. Call(f, HandlerFrame(h, Top.up))
      BY <3>1, <3>2
    <3> QED BY <1>2, <3>1, <3>4, <3>5, WalkCalls
  <2> QED BY <1>4, <2>1, <2>2, <2>3
<1>6. entry' = entry /\ inSmm' = inSmm /\ buffer' = buffer
  BY DEF Managed, private
<1> QED BY <1>5, <1>6, Held

-----------------------------------------------------------------------------
(* Steps that bring a request, an SMI or a direct dispatch, or end it.        *)

LEMMA SmmIs ==
  ASSUME TypedStack, Control, NEW t, Rest(t), NEW sm, NEW en, entry => en,
         \A i \in 1..Depth - 1 : Served(stack[i]) => sm,
         \A i \in 1..Len(t) : i \notin 1..Depth - 1 /\ Served(t[i]) => sm,
         sm => \E i \in 1..Len(t) : Served(t[i]) \/ t[i].at = "direct",
         \A j \in 1..Len(t) : j \notin 1..Depth - 1 /\ t[j].at = "direct" =>
           /\ j = Depth
           /\ t[j].flag => \E i \in 1..Depth - 1 : Served(stack[i]) \/ stack[i].at = "direct"
           /\ ~en => \A i \in 1..Depth - 1 : stack[i].at = "direct" => t[j].flag,
         ~en => ((\E i \in 1..Len(t) : t[i].at = "direct") => sm)
  PROVE  InSmmIs(t, sm) /\ DirectIs(t, en, sm)
<1>1. InSmmIs(stack, inSmm) /\ DirectIs(stack, entry, inSmm) /\ Chain(stack)
  BY DEF Control, Controlled, Structure
<1>2. /\ Depth \in Nat \ {0} /\ Len(t) \in Nat
      /\ \A i \in 1..Depth - 1 : i \in 1..Len(stack) /\ i \in 1..Len(t)
  BY <1>1 DEF TypedStack, Chain, Rest
<1>3. \A i \in 1..Depth - 1 : /\ Served(t[i]) <=> Served(stack[i])
                              /\ t[i].at = stack[i].at /\ t[i].flag = stack[i].flag
  BY DEF Rest, Served, Same
<1>4. (\E i \in 1..Len(t) : Served(t[i])) => sm
  BY <1>3
<1>5. ASSUME NEW j \in 1..Len(t), t[j].at = "direct", t[j].flag
      PROVE  \E i \in 1..j - 1 : Served(t[i]) \/ t[i].at = "direct"
  <2>1. CASE j \in 1..Depth - 1
    <3>1. stack[j].at = "direct" /\ stack[j].flag /\ j \in 1..Len(stack)
      BY <1>2, <1>3, <1>5, <2>1
    <3>2. PICK i \in 1..j - 1 : Served(stack[i]) \/ stack[i].at = "direct"
      BY <1>1, <3>1 DEF InSmmIs
    <3>3. i \in 1..Depth - 1
      BY <1>2, <2>1
    <3> QED BY <1>3, <3>2, <3>3
  <2>2. CASE j \notin 1..Depth - 1
    <3>1. j = Depth
      BY <1>5, <2>2
    <3>2. PICK i \in 1..Depth - 1 : Served(stack[i]) \/ stack[i].at = "direct"
      BY <1>5, <2>2
    <3>3. Served(t[i]) \/ t[i].at = "direct"
      BY <1>3, <3>2
    <3> QED BY <3>1, <3>3
  <2> QED BY <2>1, <2>2
<1>6. ASSUME ~en, NEW i \in 1..Len(t), NEW j \in 1..Len(t), i < j,
             t[i].at = "direct", t[j].at = "direct"
      PROVE  t[j].flag
  <2>1. CASE j \in 1..Depth - 1
    <3>1. i \in 1..Depth - 1 /\ i \in 1..Len(stack) /\ j \in 1..Len(stack)
      BY <1>2, <1>6, <2>1
    <3>2. stack[i].at = "direct" /\ stack[j].at = "direct"
      BY <1>3, <1>6, <2>1, <3>1
    <3>3. stack[j].flag
      BY <1>1, <1>6, <3>1, <3>2 DEF DirectIs
    <3> QED BY <1>3, <2>1, <3>3
  <2>2. CASE j \notin 1..Depth - 1
    <3>1. j = Depth
      BY <1>6, <2>2
    <3>2. i \in 1..Depth - 1
      BY <1>2, <1>6, <3>1
    <3>3. stack[i].at = "direct"
      BY <1>3, <1>6, <3>2
    <3> QED BY <1>6, <2>2, <3>2, <3>3
  <2> QED BY <2>1, <2>2
<1> QED BY <1>4, <1>5, <1>6 DEF InSmmIs, DirectIs

LEMMA PushDone ==
  ASSUME TypedStack, Control, NEW t, Rest(t), Len(t) = Depth + 1,
         NEW f, f = t[Depth], Placed(f, Depth, entry),
         Depth > 1 => Fits(Caller, f), Depth = 1 => f.at = "dxe",
         f.at \in Walks => Top.at \in Walks /\ f.up = Top.up /\ f.type = Top.type,
         NEW c, c = t[Depth + 1], Placed(c, Depth + 1, entry), Fits(f, c), Above(f, c),
         NEW b, b = buffer \/ \A i \in 1..Depth - 1 : stack[i].at # "sync",
         c.at \in Walks => /\ f.at = "direct" => c.up = Depth
                           /\ f.at = "sync" => /\ b \in 1..Depth - 1 /\ t[b].at \in Requests
                                               /\ c.up = b /\ c.type = t[b].type,
         NEW sm, InSmmIs(t, sm), DirectIs(t, entry, sm)
  PROVE  t \in Seq(Frames) /\ Controlled(t, entry, sm, b)
<1>1. Structure(stack, entry) /\ Conveyed(stack, buffer)
  BY DEF Control, Controlled
<1>2. Depth \in Nat /\ Len(t) # 0 /\ Len(t) # Depth - 1 /\ Len(t) # Depth
  BY DEF TypedStack
<1>3. Len(t) \in {Depth - 1, Depth, Depth + 1}
  OBVIOUS
<1>4. Structure(t, entry)
  BY <1>1, <1>2, <1>3, Structured
<1>5. Conveyed(t, b)
  BY <1>1, <1>2, <1>3, ConveyedKept
<1> QED BY <1>4, <1>5 DEF Controlled, Rest

\* Under a notification there is DXE code, and at most the message it interrupted.
LEMMA BelowNotified ==
  ASSUME Chain(stack), Interrupted(stack), Depth \in Nat, NEW k \in 1..Depth,
         stack[k].at \in Notifying
  PROVE  \A i \in 1..k - 1 : stack[i].at \in Requests \cup {"dxe"}
<1>1. \A i \in 1..Depth - 1 : Fits(stack[i], stack[i + 1])
  BY DEF Chain
<1>2. stack[1].at = "dxe" /\ k # 1
  BY DEF Chain, Notifying
<1>3. k - 1 \in 1..Depth - 1 /\ (k - 1) + 1 = k /\ k - 1 \in 1..Depth
  BY <1>2
<1>4. Fits(stack[k - 1], stack[k])
  <2>1. Fits(stack[k - 1], stack[(k - 1) + 1])
    BY <1>1, <1>3
  <2> QED BY <1>3, <2>1
<1>5. stack[k - 1].at = "dxe" \/ (stack[k - 1].at \in Requests /\ stack[k - 1].flag)
  BY <1>4 DEF Fits
<1>6. CASE stack[k - 1].at = "dxe"
  <2>1. k - 1 = 1
    <3>1. SUFFICES ASSUME k - 1 # 1
                   PROVE  FALSE
      OBVIOUS
    <3>2. k - 2 \in 1..Depth - 1 /\ (k - 2) + 1 = k - 1
      BY <1>3, <3>1
    <3>3. Fits(stack[k - 2], stack[(k - 2) + 1])
      BY <1>1, <3>2
    <3>4. Fits(stack[k - 2], stack[k - 1])
      BY <3>2, <3>3
    <3> QED BY <1>6, <3>4 DEF Fits
  <2>2. \A i \in 1..k - 1 : i = 1
    BY <2>1
  <2> QED BY <1>2, <2>2
<1>7. CASE stack[k - 1].at \in Requests /\ stack[k - 1].flag
  <2>1. k - 1 = 2
    BY <1>3, <1>7 DEF Interrupted
  <2>2. \A i \in 1..k - 1 : i = 1 \/ i = k - 1
    BY <2>1
  <2> QED BY <1>2, <1>7, <2>2
<1> QED BY <1>5, <1>6, <1>7

\* A message of a legacy boot is sent by the notification of that event only.
LEMMA LegacyAlone ==
  ASSUME TypedStack, Control, Top.at = "communicate", Top.type = "legacy"
  PROVE  \A i \in 1..Depth : stack[i].at \in Requests \cup {"dxe", "notified", "communicate"}
<1>1. /\ Shape(Top) /\ Depth > 1 /\ Fits(Caller, Top) /\ Shape(Caller) /\ Chain(stack)
      /\ Interrupted(stack) /\ Depth \in Nat
  <2>1. Interrupted(stack)
    BY DEF Control, Controlled, Structure
  <2> QED BY <2>1, ControlFacts
<1>2. Caller.at \in {"again", "notified"} /\ Caller.type = "legacy"
  <2>1. Top.at \in Posting
    BY DEF Posting
  <2>2. "legacy" \notin UserTypes
    BY CoreAssumption DEF CoreTypes
  <2> QED BY <1>1, <2>1, <2>2 DEF Fits
<1>3. Caller.at = "notified"
  BY <1>1, <1>2 DEF Shape
<1>4. Depth - 1 \in 1..Depth /\ stack[Depth - 1].at \in Notifying
  BY <1>1, <1>3 DEF Caller, Notifying
<1>5. \A i \in 1..(Depth - 1) - 1 : stack[i].at \in Requests \cup {"dxe"}
  BY <1>1, <1>4, BelowNotified
<1>6. \A i \in 1..Depth : i \in 1..(Depth - 1) - 1 \/ i = Depth - 1 \/ i = Depth
  BY <1>1
<1> QED BY <1>3, <1>5, <1>6 DEF Caller, Top

\* Outside SMM no request is below a Communicate that is not interrupted.
LEMMA NoOtherRequest ==
  ASSUME TypedStack, Control, ~inSmm, Top.at = "communicate"
  PROVE  \A i \in 1..Depth - 1 : stack[i].at \in Requests => stack[i].flag
<1>1. Chain(stack) /\ Structure(stack, entry) /\ Depth \in Nat
  BY ControlFacts
<1>2. ASSUME NEW i \in 1..Depth - 1, stack[i].at \in Requests, ~stack[i].flag
      PROVE  FALSE
  <2>1. Fits(stack[i], stack[i + 1]) /\ i + 1 \in 1..Depth
    <3>1. i + 1 \in 1..Depth
      BY <1>1
    <3> QED BY <1>1, <3>1 DEF Chain
  <2>2. stack[i + 1] \in Frames
    BY <2>1 DEF TypedStack
  <2>3. stack[i + 1].at \in Labels \cup {"astray"}
    BY <2>2 DEF Frames
  <2>4. stack[i + 1].at \in Entries
    BY <1>2, <2>1, <2>3 DEF Fits, Posting, Requests, Notifying, Walks, HandlerLabels, Starting,
         Labels, Entries
  <2>5. i + 1 \in 1..Depth - 1
    <3>1. i + 1 # Depth
      BY <2>4 DEF Top, Entries
    <3> QED BY <1>1, <2>1, <3>1
  <2>6. stack[i + 1].at \notin {"entry", "root"}
    BY <1>1, <2>5, FreeBelow DEF Walks
  <2>7. stack[i + 1].at # "sync"
    BY <2>1, OutsideSmm
  <2> QED BY <2>4, <2>6, <2>7 DEF Entries
<1> QED BY <1>2

\* A Communicate goes on in another state.
LEMMA RequestPlaced ==
  ASSUME TypedStack, Control, NEW f, f.at \in Requests, f.type = Top.type, Shape(f), entry,
         f.flag => Depth = 2,
         (Top.at \in Requests /\ f.flag = Top.flag) \/ (Top.at = "communicate" /\ ~inSmm)
  PROVE  Placed(f, Depth, entry) /\ Aside(f) /\ f.at \notin Walks
<1>1. Structure(stack, entry) /\ Placed(Top, Depth, entry)
  BY ControlFacts
<1>2. ASSUME NEW i \in 1..Depth - 1
      PROVE  Above(stack[i], f)
  <2>1. /\ stack[i].at \notin {"entry", "root"}
        /\ ~(stack[i].at = "direct" /\ stack[i].type = "legacy")
    BY <1>1, FreeBelow DEF Walks, Requests
  <2>2. CASE Top.at \in Requests
    <3>1. Above(stack[i], Top)
      BY <1>1 DEF Placed
    <3> QED BY <2>1, <2>2, <3>1 DEF Above, Requests, Entries
  <2>3. CASE Top.at = "communicate" /\ ~inSmm
    <3>1. i \in 1..Depth
      BY ControlFacts
    <3>2. stack[i].at # "sync"
      BY <2>3, <3>1, OutsideSmm
    <3>3. stack[i].at \in Requests => stack[i].flag
      BY <2>3, NoOtherRequest
    <3> QED BY <2>1, <3>2, <3>3 DEF Above, Requests, Entries
  <2> QED BY <2>2, <2>3
<1>3. f.at # "direct" /\ f.at \notin Entries /\ Aside(f) /\ f.at \notin Walks
  BY DEF Requests, Entries, Aside, Walks
<1> QED BY <1>2, <1>3 DEF Placed

LEMMA PutsKept ==
  ASSUME DataOK, TypedStack, Control, PutBuffer \/ PutSize
  PROVE  TypedStack' /\ Control'
<1>1. /\ Top \in Frames /\ Shape(Top) /\ Placed(Top, Depth, entry) /\ Depth > 1 /\ Depth \in Nat
      /\ Fits(Caller, Top) /\ stack # <<>>
      /\ Top.at \in {"communicate", "size"}
  BY ControlFacts DEF PutBuffer, PutSize, At
<1>2. PICK l \in {"size", "trigger"} : Become([Top EXCEPT !.at = l])
  BY DEF PutBuffer, PutSize
<1>3. PICK f : f = [Top EXCEPT !.at = l]
  OBVIOUS
<1>4. f \in Frames /\ f.at = l /\ f.type = Top.type /\ f.flag = Top.flag
  <2>1. l \in Labels
    BY DEF Labels
  <2> QED BY <1>1, <1>3, <2>1 DEF Frames
<1>5. Shape(f) /\ Fits(Caller, f)
  BY <1>1, <1>4, PostingGoesOn DEF Posting, Requests
<1>6. /\ (Top.at \in Requests /\ f.flag = Top.flag) \/ (Top.at = "communicate" /\ ~inSmm)
      /\ entry /\ (f.flag => Depth = 2)
  <2>1. CASE PutBuffer
    <3>1. Top.at = "communicate" /\ ~inSmm /\ entry
      BY <2>1 DEF PutBuffer, At
    <3>2. ~Top.flag
      BY <1>1, <3>1 DEF Shape
    <3> QED BY <1>4, <3>1, <3>2
  <2>2. CASE PutSize
    <3>1. Top.at \in Requests
      BY <2>2 DEF PutSize, At, Requests
    <3> QED BY <1>1, <1>4, <3>1 DEF Placed
  <2> QED BY <2>1, <2>2
<1>7. Placed(f, Depth, entry) /\ Aside(f) /\ f.at \notin Walks
  <2>1. f.at \in Requests
    BY <1>4 DEF Requests
  <2> QED BY <1>4, <1>5, <1>6, <2>1, RequestPlaced
<1>8. PICK b : b = buffer'
  OBVIOUS
<1>9. b = buffer \/ \A i \in 1..Depth - 1 : stack[i].at # "sync"
  <2>1. CASE PutBuffer
    <3>1. ~inSmm /\ \A i \in 1..Depth - 1 : i \in 1..Depth
      BY <1>1, <2>1 DEF PutBuffer
    <3> QED BY <3>1, OutsideSmm
  <2>2. CASE PutSize
    BY <1>8, <2>2 DEF PutSize
  <2> QED BY <2>1, <2>2
<1>10. PICK t : t = stack'
  OBVIOUS
<1>11. Rest(t) /\ Len(t) = Depth /\ t[Depth] = f
  <2>1. t = [stack EXCEPT ![Depth] = f]
    BY <1>2, <1>3, <1>10 DEF Become
  <2> QED BY <1>1, <1>4, <2>1, Becoming
<1>12. Aside(Top)
  BY <1>1 DEF Aside
<1>13. t \in Seq(Frames) /\ Controlled(t, entry, inSmm, b)
  BY <1>1, <1>5, <1>7, <1>9, <1>11, <1>12, TopKept
<1>14. entry' = entry /\ inSmm' = inSmm
  BY DEF PutBuffer, PutSize, private
<1> QED BY <1>8, <1>10, <1>13, <1>14, Held

LEMMA EntryFrame ==
  ASSUME NEW c, c = Frame("entry", NoType)
  PROVE  /\ c \in Frames /\ Shape(c) /\ c.at = "entry" /\ ~c.flag /\ Aside(c)
         /\ \A f : Fits(f, c)
<1>1. "entry" \in Labels /\ NoType \in Types \cup Events \cup {NoType}
  BY DEF Labels
<1>2. c \in Frames /\ c.at = "entry" /\ ~c.flag
  BY <1>1, FrameIs
<1>3. Shape(c) /\ Aside(c)
  BY <1>2 DEF Shape, Posting, Requests, Walks, Notifying, Starting, Aside
<1>4. \A f : Fits(f, c)
  BY <1>2 DEF Fits, Posting, Requests, Walks, Notifying, Starting, HandlerLabels
<1> QED BY <1>2, <1>3, <1>4

LEMMA TriggerKept ==
  ASSUME DataOK, TypedStack, Control, Trigger
  PROVE  TypedStack' /\ Control'
<1>1. /\ Top \in Frames /\ Shape(Top) /\ Placed(Top, Depth, entry) /\ Depth > 1 /\ Depth \in Nat
      /\ Fits(Caller, Top) /\ stack # <<>> /\ Structure(stack, entry)
      /\ Top.at = "trigger" /\ (Depth = 1 => Top.at = "dxe")
  BY ControlFacts DEF Trigger, At
<1>2. PICK f : f = [Top EXCEPT !.at = "sent"]
  OBVIOUS
<1>3. f \in Frames /\ f.at = "sent" /\ f.type = Top.type /\ f.flag = Top.flag
  BY <1>1, <1>2 DEF Frames, Labels
<1>4. Shape(f) /\ Fits(Caller, f)
  BY <1>1, <1>3, PostingGoesOn DEF Posting, Requests
<1>5. Top.at \in Requests /\ f.at \in Requests
  BY <1>1, <1>3 DEF Requests
<1>6. entry /\ (f.flag => Depth = 2)
  BY <1>1, <1>3, <1>5 DEF Placed
<1>7. Placed(f, Depth, entry) /\ Aside(f) /\ f.at \notin Walks
  BY <1>3, <1>4, <1>5, <1>6, RequestPlaced
<1>8. PICK c : c = Frame("entry", NoType)
  OBVIOUS
<1>9. c \in Frames /\ Shape(c) /\ c.at = "entry" /\ ~c.flag /\ Aside(c) /\ Fits(f, c)
  BY <1>8, EntryFrame
<1>10. ASSUME NEW i \in 1..Depth - 1
       PROVE  Above(stack[i], c)
  <2>1. Above(stack[i], Top)
    BY <1>1 DEF Placed
  <2>2. /\ stack[i].at \notin {"entry", "root"}
        /\ ~(stack[i].at = "direct" /\ stack[i].type = "legacy")
    BY <1>1, FreeBelow DEF Walks
  <2> QED BY <1>5, <1>9, <2>1, <2>2 DEF Above, Entries, Requests
<1>11. Above(f, c)
  BY <1>3, <1>9 DEF Above, Served, Entries, Requests
<1>12. Placed(c, Depth + 1, entry)
  BY <1>6, <1>9, <1>10 DEF Placed, Requests
<1>13. PICK t : t = stack'
  OBVIOUS
<1>14. Rest(t) /\ Len(t) = Depth + 1 /\ t[Depth] = f /\ t[Depth + 1] = c
  <2>1. t = Called(f, c)
    BY <1>2, <1>8, <1>13 DEF Trigger, Call, Called
  <2> QED BY <1>1, <1>3, <1>9, <2>1, Calling
<1>15. Aside(Top) /\ Depth # 1
  BY <1>1 DEF Aside
<1>16. t \in Seq(Frames) /\ Controlled(t, entry, inSmm, buffer)
  BY <1>4, <1>7, <1>9, <1>11, <1>12, <1>14, <1>15, PushKept
<1>17. entry' = entry /\ inSmm' = inSmm /\ buffer' = buffer
  BY DEF Trigger, private
<1> QED BY <1>13, <1>16, <1>17, Held

\* The frame of SmiManage.
Conveying(type, up) == [Manage(type) EXCEPT !.up = up]

LEMMA ManageIs ==
  ASSUME NEW type \in Types, NEW up \in Nat, NEW c, c = Conveying(type, up)
  PROVE  /\ c \in Frames /\ Shape(c) /\ c.at = "manage" /\ c.type = type /\ c.up = up
         /\ c.at \in Walks /\ Aside(c) /\ ~c.flag /\ c.ret = "none" /\ c.reply = "clear"
<1>1. PICK g : g = Frame("manage", type)
  OBVIOUS
<1>2. g \in Frames /\ g.at = "manage" /\ g.type = type /\ ~g.flag /\ g.ret = "none" /\ g.reply = "clear"
  <2>1. "manage" \in Labels /\ type \in Types \cup Events \cup {NoType}
    BY DEF Labels
  <2> QED BY <1>1, <2>1, FrameIs
<1>3. c = [g EXCEPT !.up = up]
  BY <1>1 DEF Manage, Conveying
<1>4. /\ c \in Frames /\ c.at = "manage" /\ c.type = type /\ c.up = up /\ ~c.flag
      /\ c.ret = "none" /\ c.reply = "clear"
  BY <1>2, <1>3 DEF Frames
<1>5. Shape(c)
  BY <1>4 DEF Shape, Posting, Requests, Walks, Notifying, Starting
<1>6. c.at \in Walks /\ Aside(c)
  BY <1>4 DEF Walks, Aside
<1> QED BY <1>4, <1>5, <1>6

\* A walk begins where no other message is being conveyed.
LEMMA ManagePlaced ==
  ASSUME TypedStack, Control, Top.at \notin Walks \cup {"handler", "legacy"},
         NEW c, c.at = "manage", Shape(c)
  PROVE  Placed(c, Depth + 1, entry)
<1>1. Structure(stack, entry)
  BY ControlFacts
<1>2. ASSUME NEW i \in 1..Depth - 1
      PROVE  Above(stack[i], c)
  <2>1. /\ stack[i].at \notin {"entry", "root"}
        /\ ~(stack[i].at = "direct" /\ stack[i].type = "legacy")
    BY <1>1, FreeBelow
  <2> QED BY <2>1, AboveFree DEF Entries, Requests
<1> QED BY <1>2 DEF Placed, Entries, Requests

Dispatched == [Top EXCEPT !.at = "direct", !.flag = inSmm, !.n = @ + 1]

LEMMA DirectKept ==
  ASSUME DataOK, TypedStack, Control, Direct
  PROVE  TypedStack' /\ Control'
<1>1. /\ Top \in Frames /\ Shape(Top) /\ Placed(Top, Depth, entry) /\ Depth > 1 /\ Depth \in Nat
      /\ Fits(Caller, Top) /\ stack # <<>> /\ Structure(stack, entry)
      /\ Top.at = "communicate" /\ (Depth = 1 => Top.at = "dxe")
  BY ControlFacts DEF Direct, At
<1>2. PICK f : f = Dispatched
  OBVIOUS
<1>3. f \in Frames /\ f.at = "direct" /\ f.type = Top.type /\ (f.flag <=> inSmm)
  <2>1. inSmm \in BOOLEAN
    BY DEF DataOK
  <2>2. Top.n + 1 \in Nat
    BY <1>1 DEF Frames
  <2>3. PICK g : g = [Top EXCEPT !.at = "direct", !.n = @ + 1]
    OBVIOUS
  <2>4. g \in Frames /\ g.at = "direct" /\ g.type = Top.type
    BY <1>1, <2>2, <2>3 DEF Frames, Labels
  <2>5. f = [g EXCEPT !.flag = inSmm]
    BY <1>1, <1>2, <2>3 DEF Frames, Dispatched
  <2>6. f \in Frames /\ f.at = g.at /\ f.type = g.type
    BY <2>1, <2>4, <2>5 DEF Frames
  <2>7. f.flag = inSmm
    BY <2>4, <2>5 DEF Frames
  <2> QED BY <2>4, <2>6, <2>7
<1>4. Shape(f) /\ Fits(Caller, f)
  BY <1>1, <1>3, PostingGoesOn DEF Posting, Requests
<1>5. PICK c : c = Conveying(Top.type, Depth)
  OBVIOUS
<1>6. Top.type \in Types /\ Top.type \in CoreTypes \cup UserTypes
  BY <1>1 DEF Shape, Posting, Types
<1>7. /\ c \in Frames /\ Shape(c) /\ c.at = "manage" /\ c.type = Top.type /\ c.up = Depth
      /\ c.at \in Walks
  <2>1. PICK type \in Types, up \in Nat : type = Top.type /\ up = Depth
    BY <1>1, <1>6
  <2>2. c = Conveying(type, up)
    BY <1>5, <2>1
  <2> QED BY <2>1, <2>2, ManageIs
<1>8. \A i \in 1..Depth : inSmm \/ (~Served(stack[i]) /\ stack[i].at # "sync")
  BY OutsideSmm
<1>9. Top.type = "legacy" => ~inSmm /\ ~entry
  <2>1. SUFFICES ASSUME Top.type = "legacy"
                 PROVE  ~inSmm
    BY DEF Direct
  <2>2. \A i \in 1..Depth : stack[i].at \in Requests \cup {"dxe", "notified", "communicate"}
    BY <1>1, <2>1, LegacyAlone
  <2>3. \A i \in 1..Depth : ~(Served(stack[i]) \/ stack[i].at = "direct")
    BY <2>2 DEF Served, Requests
  <2> QED BY <2>3 DEF Control, Controlled, InSmmIs
<1>10. Placed(f, Depth, entry)
  <2>1. ASSUME NEW i \in 1..Depth - 1
        PROVE  Above(stack[i], f)
    <3>1. /\ stack[i].at \notin {"entry", "root"}
          /\ ~(stack[i].at = "direct" /\ stack[i].type = "legacy")
      BY <1>1, FreeBelow DEF Walks
    <3>2. Served(stack[i]) => f.flag
      BY <1>1, <1>3, <1>8
    <3> QED BY <1>3, <3>1, <3>2, AboveFree DEF Entries, Requests
  <2> QED BY <1>3, <1>4, <1>9, <2>1 DEF Placed, Entries, Requests
<1>11. Placed(c, Depth + 1, entry)
  BY <1>1, <1>7, ManagePlaced DEF Walks
<1>12. Fits(f, c)
  BY <1>3, <1>7 DEF Fits, Posting, Requests, Notifying, Walks, HandlerLabels, Starting
<1>13. Above(f, c)
  BY <1>3, <1>7 DEF Above, Entries, Requests, Served, Walks
<1>14. PICK t : t = stack'
  OBVIOUS
<1>15. Rest(t) /\ Len(t) = Depth + 1 /\ t[Depth] = f /\ t[Depth + 1] = c
  <2>1. Call(Dispatched, Conveying(Top.type, Depth))
    BY DEF Direct, Dispatched, Conveying, Manage
  <2>2. t = Called(f, c)
    BY <1>2, <1>5, <1>14, <2>1 DEF Call, Called
  <2> QED BY <1>1, <1>3, <1>7, <2>2, Calling
<1>16. \A i \in 1..Len(t) : i \in 1..Depth - 1 \/ i = Depth \/ i = Depth + 1
  BY <1>1, <1>15
<1>17. Depth \in 1..Len(t)
  BY <1>1, <1>15
<1>18. InSmmIs(t, TRUE) /\ DirectIs(t, entry, TRUE)
  <2>1. \E i \in 1..Len(t) : Served(t[i]) \/ t[i].at = "direct"
    BY <1>3, <1>15, <1>17
  <2>2. inSmm => \E i \in 1..Depth - 1 : Served(stack[i]) \/ stack[i].at = "direct"
    <3>1. inSmm => \E i \in 1..Depth : Served(stack[i]) \/ stack[i].at = "direct"
      BY DEF Control, Controlled, InSmmIs
    <3>2. ~(Served(stack[Depth]) \/ stack[Depth].at = "direct")
      BY <1>1 DEF Top, Served
    <3>3. \A i \in 1..Depth : i \in 1..Depth - 1 \/ i = Depth
      BY <1>1
    <3> QED BY <3>1, <3>2, <3>3
  <2>3. ~entry => \A i \in 1..Depth - 1 : stack[i].at = "direct" => inSmm
    <3>1. DirectIs(stack, entry, inSmm)
      BY DEF Control, Controlled
    <3>2. \A i \in 1..Depth - 1 : i \in 1..Len(stack)
      BY <1>1
    <3> QED BY <3>1, <3>2 DEF DirectIs
  <2>4. \A j \in 1..Len(t) : j \notin 1..Depth - 1 /\ t[j].at = "direct" =>
          /\ j = Depth
          /\ t[j].flag => \E i \in 1..Depth - 1 : Served(stack[i]) \/ stack[i].at = "direct"
          /\ ~entry => \A i \in 1..Depth - 1 : stack[i].at = "direct" => t[j].flag
    BY <1>3, <1>7, <1>15, <1>16, <2>2, <2>3
  <2> QED BY <1>15, <2>1, <2>4, SmmIs
<1>19. f.at \notin Walks /\ f.at # "sync" /\ Depth # 1
  BY <1>1, <1>3 DEF Walks
<1>20. t \in Seq(Frames) /\ Controlled(t, entry, TRUE, buffer)
  BY <1>4, <1>7, <1>10, <1>11, <1>12, <1>13, <1>15, <1>18, <1>19, PushDone
<1>21. entry' = entry /\ inSmm' = TRUE /\ buffer' = buffer
  BY DEF Direct
<1> QED BY <1>14, <1>20, <1>21, Held

LEMMA DirectEndsKept ==
  ASSUME DataOK, TypedStack, Control, DirectEnds
  PROVE  TypedStack' /\ Control'
<1>1. /\ Top \in Frames /\ Shape(Top) /\ Placed(Top, Depth, entry) /\ Depth > 1 /\ Depth \in Nat
      /\ Fits(Caller, Top) /\ stack # <<>> /\ Structure(stack, entry)
      /\ Top.at = "direct" /\ Depth \in 1..Depth
  BY ControlFacts DEF DirectEnds, At
<1>2. PICK r : r = IF Top.ret = "success" THEN "success" ELSE "notfound"
  OBVIOUS
<1>3. PICK f : f = [Top EXCEPT !.at = "answered", !.flag = FALSE, !.ret = r]
  OBVIOUS
<1>4. f \in Frames /\ f.at = "answered" /\ f.type = Top.type
  <2>1. r \in Statuses
    BY <1>2 DEF Statuses
  <2> QED BY <1>1, <1>3, <2>1 DEF Frames, Labels
<1>5. Shape(f) /\ Fits(Caller, f)
  BY <1>1, <1>4, PostingGoesOn DEF Posting, Requests
<1>6. Placed(f, Depth, entry) /\ Aside(f) /\ f.at \notin Walks
  <2>1. Plain(f) /\ Aside(f) /\ f.at \notin Walks
    BY <1>4 DEF Plain, Entries, Requests, Aside, Walks
  <2> QED BY <1>1, <1>5, <2>1, PlainPlaced DEF Walks
<1>7. PICK t : t = stack'
  OBVIOUS
<1>8. Rest(t) /\ Len(t) = Depth /\ t[Depth] = f
  <2>1. t = [stack EXCEPT ![Depth] = f]
    <3>1. Become([Top EXCEPT !.at = "answered", !.flag = FALSE,
                             !.ret = IF @ = "success" THEN "success" ELSE "notfound"])
      BY DEF DirectEnds
    <3>2. [Top EXCEPT !.at = "answered", !.flag = FALSE,
                      !.ret = IF @ = "success" THEN "success" ELSE "notfound"] = f
      BY <1>1, <1>2, <1>3 DEF Frames
    <3> QED BY <1>7, <3>1, <3>2 DEF Become
  <2> QED BY <1>1, <1>4, <2>1, Becoming
<1>9. PICK sm : sm = Top.flag
  OBVIOUS
<1>10. /\ InSmmIs(stack, inSmm) /\ DirectIs(stack, entry, inSmm)
       /\ \A i \in 1..Depth - 1 : i \in 1..Len(stack) /\ i \in 1..Len(t) /\ i < Depth
       /\ \A i \in 1..Len(t) : i \in 1..Depth - 1 \/ i = Depth
  BY <1>1, <1>8 DEF Control, Controlled
<1>11. \A i \in 1..Depth - 1 : /\ Served(t[i]) <=> Served(stack[i])
                               /\ t[i].at = stack[i].at
  BY <1>8 DEF Rest, Served, Same
<1>12. InSmmIs(t, sm) /\ DirectIs(t, entry, sm)
  <2>1. \A i \in 1..Depth - 1 : Served(stack[i]) => sm
    <3>1. \A i \in 1..Depth - 1 : Above(stack[i], Top)
      BY <1>1 DEF Placed
    <3> QED BY <1>1, <1>9, <3>1 DEF Above
  <2>2. \A i \in 1..Len(t) : i \notin 1..Depth - 1 => ~Served(t[i]) /\ t[i].at # "direct"
    BY <1>4, <1>8, <1>10 DEF Served
  <2>3. sm => \E i \in 1..Len(t) : Served(t[i]) \/ t[i].at = "direct"
    <3>1. SUFFICES ASSUME Top.flag
                   PROVE  \E i \in 1..Len(t) : Served(t[i]) \/ t[i].at = "direct"
      BY <1>9
    <3>2. \E i \in 1..Depth - 1 : Served(stack[i]) \/ stack[i].at = "direct"
      <4>1. stack[Depth].at = "direct" /\ stack[Depth].flag
        BY <1>1, <3>1 DEF Top
      <4> QED BY <1>1, <1>10, <4>1 DEF InSmmIs
    <3> QED BY <1>10, <1>11, <3>2
  <2>4. ~entry => ((\E i \in 1..Len(t) : t[i].at = "direct") => sm)
    <3>1. SUFFICES ASSUME ~entry, NEW i \in 1..Len(t), t[i].at = "direct"
                   PROVE  Top.flag
      BY <1>9
    <3>2. i \in 1..Depth - 1 /\ stack[i].at = "direct"
      BY <1>11, <2>2, <3>1
    <3>3. i \in 1..Len(stack) /\ Depth \in 1..Len(stack) /\ i < Depth
      BY <1>1, <1>10, <3>2
    <3>4. stack[Depth].at = "direct"
      BY <1>1 DEF Top
    <3>5. stack[Depth].flag
      BY <1>10, <3>1, <3>2, <3>3, <3>4 DEF DirectIs
    <3> QED BY <3>5 DEF Top
  <2> QED BY <1>8, <2>1, <2>2, <2>3, <2>4, SmmIs
<1>13. Structure(t, entry) /\ Conveyed(t, buffer)
  <2>1. Conveyed(stack, buffer)
    BY DEF Control, Controlled
  <2>2. /\ Len(t) \in {Depth - 1, Depth, Depth + 1} /\ Len(t) # 0 /\ Len(t) # Depth + 1
        /\ Depth # 1
    BY <1>1, <1>8
  <2>3. Structure(t, entry)
    BY <1>1, <1>5, <1>6, <1>8, <2>2, Structured
  <2>4. Conveyed(t, buffer)
    BY <1>1, <1>6, <1>8, <2>1, <2>2, ConveyedKept
  <2> QED BY <2>3, <2>4
<1>14. t \in Seq(Frames) /\ Controlled(t, entry, sm, buffer)
  BY <1>8, <1>12, <1>13 DEF Controlled, Rest
<1>15. entry' = entry /\ inSmm' = sm /\ buffer' = buffer
  BY <1>9 DEF DirectEnds
<1> QED BY <1>7, <1>14, <1>15, Held

\* Nobody is below an SMI handler who is served, or who posts a message of a legacy boot.
LEMMA BelowEntry ==
  ASSUME TypedStack, Control, Top.at \in Entries
  PROVE  /\ entry
         /\ \A i \in 1..Depth - 1 :
              /\ stack[i].at \notin Entries /\ ~Served(stack[i])
              /\ ~(stack[i].at = "direct" /\ stack[i].type = "legacy")
<1>1. Placed(Top, Depth, entry)
  BY ControlFacts
<1>2. entry
  BY <1>1 DEF Placed
<1>3. ASSUME NEW i \in 1..Depth - 1
      PROVE  /\ stack[i].at \notin Entries /\ ~Served(stack[i])
             /\ ~(stack[i].at = "direct" /\ stack[i].type = "legacy")
  <2>1. Above(stack[i], Top)
    BY <1>1 DEF Placed
  <2>2. stack[i].at \notin Entries
    BY <2>1 DEF Above
  <2>3. ~(stack[i].at = "direct" /\ stack[i].type = "legacy")
    BY <2>1 DEF Above, Entries, Walks
  <2> QED BY <2>2, <2>3 DEF Served, Entries
<1> QED BY <1>2, <1>3

\* The SMI handler goes on to another state, where it walks over a list.
LEMMA EntryGoesOn ==
  ASSUME TypedStack, Control, Top.at \in {"entry", "sync"},
         NEW f \in Frames, f.at \in {"sync", "root"}, Shape(f),
         NEW c \in Frames, c.at = "manage", Shape(c), Fits(f, c),
         f.at = "root" => c.type = "root",
         NEW t, Rest(t), Len(t) = Depth + 1, t[Depth] = f, t[Depth + 1] = c,
         NEW b, NEW sm, ~f.flag => sm, sm => ~f.flag \/ inSmm, f.flag => Top.at = "entry",
         (\E i \in 1..Depth : Served(stack[i])) => sm,
         f.at = "sync" => /\ b = buffer /\ b \in 1..Depth - 1 /\ t[b].at \in Requests
                          /\ c.up = b /\ c.type = t[b].type
  PROVE  t \in Seq(Frames) /\ Controlled(t, entry, sm, b)
<1>1. /\ Placed(Top, Depth, entry) /\ Depth > 1 /\ Depth \in Nat
      /\ Fits(Caller, Top) /\ stack # <<>> /\ Structure(stack, entry)
      /\ (Depth = 1 => Top.at = "dxe")
  BY ControlFacts
<1>2. /\ entry
      /\ \A i \in 1..Depth - 1 :
           /\ stack[i].at \notin Entries /\ ~Served(stack[i])
           /\ ~(stack[i].at = "direct" /\ stack[i].type = "legacy")
  BY BelowEntry DEF Entries
<1>3. Placed(f, Depth, entry)
  <2>1. ASSUME NEW i \in 1..Depth - 1
        PROVE  Above(stack[i], f)
    <3>1. stack[i].at \notin Entries /\ ~(stack[i].at = "direct" /\ stack[i].type = "legacy")
      BY <1>2
    <3> QED BY <3>1, AboveFree DEF Entries, Requests
  <2> QED BY <1>2, <2>1 DEF Placed, Requests
<1>4. Placed(c, Depth + 1, entry)
  BY ManagePlaced DEF Walks
<1>5. Fits(Caller, f)
  BY DEF Fits, Posting, Requests, Notifying, Walks, HandlerLabels, Starting
<1>6. Above(f, c)
  BY DEF Above, Entries, Requests, Walks
<1>7. \A i \in 1..Len(t) : i \in 1..Depth - 1 \/ i = Depth \/ i = Depth + 1
  BY <1>1
<1>8. Depth \in 1..Len(t) /\ \A i \in 1..Depth - 1 : i \in 1..Len(t) /\ i \in 1..Depth
  BY <1>1
<1>9. \A i \in 1..Depth - 1 : /\ Served(t[i]) <=> Served(stack[i])
                              /\ t[i].at = stack[i].at
  BY DEF Rest, Served, Same
<1>10. InSmmIs(t, sm) /\ DirectIs(t, entry, sm)
  <2>1. \A i \in 1..Depth - 1 : Served(stack[i]) => sm
    BY <1>2
  <2>2. \A i \in 1..Len(t) : i \notin 1..Depth - 1 /\ Served(t[i]) => sm
    <3>1. ~Served(c)
      BY DEF Served
    <3> QED BY <1>7, <3>1 DEF Served
  <2>3. sm => \E i \in 1..Len(t) : Served(t[i]) \/ t[i].at = "direct"
    <3>1. CASE ~f.flag
      BY <1>8, <3>1 DEF Served
    <3>2. CASE f.flag /\ sm
      <4>1. PICK i \in 1..Depth : Served(stack[i]) \/ stack[i].at = "direct"
        BY <3>2 DEF Control, Controlled, InSmmIs
      <4>2. CASE i = Depth
        <5>1. Top.at \in {"sync", "root", "direct"}
          BY <4>1, <4>2 DEF Top, Served
        <5> QED BY <3>2, <5>1
      <4>3. CASE i # Depth
        <5>1. i \in 1..Depth - 1
          BY <1>1, <4>3
        <5> QED BY <1>8, <1>9, <4>1, <5>1
      <4> QED BY <4>2, <4>3
    <3> QED BY <3>1, <3>2
  <2>4. \A j \in 1..Len(t) : j \notin 1..Depth - 1 => t[j].at # "direct"
    BY <1>7
  <2> QED BY <1>2, <2>1, <2>2, <2>3, <2>4, SmmIs
<1>11. f.at \notin Walks /\ Depth # 1 /\ f.at # "direct"
  BY <1>1 DEF Walks
<1>12. b = buffer \/ \A i \in 1..Depth - 1 : stack[i].at # "sync"
  BY <1>2 DEF Entries
<1>13. t \in Seq(Frames) /\ Controlled(t, entry, sm, b)
  BY <1>3, <1>4, <1>5, <1>6, <1>10, <1>11, <1>12, PushDone
<1> QED BY <1>13

\* The stack when the entry point conveys the request of frame b.
LEMMA Below ==
  \A k \in Nat : /\ \A i \in 1..k - 1 : i \in 1..k /\ i # k /\ i < k
                 /\ \A i \in 1..k : i # k => i \in 1..k - 1
OBVIOUS

Bumped(f) == [f EXCEPT !.n = @ + 1]
Labelled(f, l) == [f EXCEPT !.at = l]
Synced(b, c) == Append([stack EXCEPT ![Depth].at = "sync", ![b].n = @ + 1], c)

LEMMA Syncing ==
  ASSUME TypedStack, stack # <<>>, Top.at = "entry", NEW b \in 1..Depth, stack[b].at \in Requests,
         NEW c \in Frames, NEW t, t = Synced(b, c), NEW f, f = Labelled(Top, "sync")
  PROVE  /\ Rest(t) /\ Len(t) = Depth + 1 /\ t[Depth] = f /\ t[Depth + 1] = c
         /\ b \in 1..Depth - 1 /\ f \in Frames
         /\ t[b] = Bumped(stack[b])
         /\ \A i \in 1..Depth - 1 : i # b => t[i] = stack[i]
<1>1. Depth \in Nat \ {0} /\ Depth \in 1..Depth /\ DOMAIN stack = 1..Depth
      /\ \A i \in 1..Depth : stack[i] \in Frames
  BY DEF TypedStack
<1>2. b # Depth
  BY DEF Top, Requests
<1>3. PICK u : u = [stack EXCEPT ![Depth].at = "sync", ![b].n = @ + 1]
  OBVIOUS
<1>4. PICK v : v = [stack EXCEPT ![Depth] = f]
  OBVIOUS
<1>5. f \in Frames
  <2>1. f = [Top EXCEPT !.at = "sync"]
    BY DEF Labelled
  <2> QED BY <1>1, <2>1 DEF Frames, Labels, Top
<1>6. Rest(v) /\ Len(v) = Depth /\ v[Depth] = f
  BY <1>4, <1>5, Becoming
<1>7. PICK g : g = [stack[b] EXCEPT !.n = @ + 1]
  OBVIOUS
<1>8. g \in Frames /\ Same(g, stack[b])
  <2>1. stack[b] \in Frames
    BY <1>1
  <2>2. stack[b].n + 1 \in Nat
    BY <2>1 DEF Frames
  <2> QED BY <1>7, <2>1, <2>2 DEF Frames, Same
<1>9. u = [v EXCEPT ![b] = g]
  <2>1. v[b] = stack[b] /\ DOMAIN v = 1..Depth
    BY <1>1, <1>2, <1>4
  <2>2. f = [stack[Depth] EXCEPT !.at = "sync"]
    BY DEF Labelled, Top
  <2> QED BY <1>1, <1>2, <1>3, <1>4, <1>7, <2>1, <2>2
<1>10. v \in Seq(Frames) /\ \A i \in 1..Depth - 1 : v[i] = stack[i]
  <2>1. \A i \in 1..Depth - 1 : i \in 1..Depth /\ i # Depth
    BY <1>1, Below
  <2> QED BY <1>1, <1>4, <1>6, <2>1 DEF Rest
<1>11. u \in Seq(Frames) /\ Len(u) = Depth /\ u[b] = g /\ u[Depth] = f
       /\ \A i \in 1..Depth - 1 : i # b => u[i] = stack[i]
  <2>1. u \in Seq(Frames) /\ Len(u) = Len(v)
    BY <1>6, <1>8, <1>9, <1>10, ExceptSeq
  <2>2. DOMAIN v = 1..Depth
    BY <1>6, <1>10
  <2>3. \A i \in 1..Depth - 1 : i \in 1..Depth
    BY <1>1, Below
  <2> QED BY <1>1, <1>2, <1>6, <1>9, <1>10, <2>1, <2>2, <2>3
<1>12. t = Append(u, c)
  BY <1>3 DEF Synced
<1>13. /\ t \in Seq(Frames) /\ Len(t) = Depth + 1 /\ t[Depth + 1] = c
       /\ \A i \in 1..Depth : t[i] = u[i]
  <2>1. /\ Append(u, c) \in Seq(Frames) /\ Len(Append(u, c)) = Len(u) + 1
        /\ Append(u, c)[Len(u) + 1] = c
        /\ \A i \in 1..Len(u) : Append(u, c)[i] = u[i]
    <3>1. u \in Seq(Frames) /\ c \in Frames
      BY <1>11
    <3> QED BY ONLY <3>1, Appended
  <2> QED BY <1>11, <1>12, <2>1
<1>14. b \in 1..Depth - 1 /\ \A i \in 1..Depth - 1 : i \in 1..Depth
  BY <1>1, <1>2, Below
<1>15. Rest(t)
  <2>1. \A i \in 1..Depth - 1 : Same(t[i], stack[i])
    <3>1. ASSUME NEW i \in 1..Depth - 1
          PROVE  Same(t[i], stack[i])
      <4>1. t[i] = u[i]
        BY <1>13, <1>14
      <4>2. CASE i = b
        BY <1>8, <1>11, <4>1, <4>2
      <4>3. CASE i # b
        BY <1>11, <4>1, <4>3, SameItself
      <4> QED BY <4>2, <4>3
    <3> QED BY <3>1
  <2>2. Len(t) >= Depth - 1
    BY <1>1, <1>13
  <2> QED BY <1>13, <2>1, <2>2 DEF Rest
<1>16. g = Bumped(stack[b])
  BY <1>7 DEF Bumped
<1> QED BY <1>1, <1>5, <1>11, <1>13, <1>14, <1>15, <1>16

LEMMA EntryConveysKept ==
  ASSUME DataOK, TypedStack, Control, Pending(stack, buffer, size), EntryConveys
  PROVE  TypedStack' /\ Control'
<1>1. /\ Top \in Frames /\ Shape(Top) /\ Depth \in Nat \ {0} /\ stack # <<>> /\ Chain(stack)
      /\ Top.at = "entry"
  BY ControlFacts DEF EntryConveys, At
<1>2. buffer \in 1..Depth /\ stack[buffer].at \in Requests
  BY DEF Pending, EntryConveys
<1>3. PICK b \in 1..Depth : b = buffer
  BY <1>2
<1>4. stack[b].at \in Requests /\ Shape(stack[b])
  BY <1>1, <1>2, <1>3 DEF Chain
<1>5. PICK type : type = stack[b].type
  OBVIOUS
<1>6. type \in CoreTypes \cup UserTypes /\ type \in Types /\ b \in Nat
  BY <1>4, <1>5 DEF Shape, Posting, Types
<1>7. PICK c : c = Conveying(type, b)
  OBVIOUS
<1>8. c \in Frames /\ Shape(c) /\ c.at = "manage" /\ c.type = type /\ c.up = b /\ c.at \in Walks
  BY <1>6, <1>7, ManageIs
<1>9. PICK t : t = stack'
  OBVIOUS
<1>10. t = Synced(b, c)
  <2>1. stack' = Append([stack EXCEPT ![Depth].at = "sync", ![buffer].n = @ + 1],
                        Conveying(stack[buffer].type, buffer))
    BY DEF EntryConveys, Conveying
  <2>2. c = Conveying(stack[buffer].type, buffer)
    BY <1>3, <1>5, <1>7
  <2>3. stack' = Append([stack EXCEPT ![Depth].at = "sync", ![buffer].n = @ + 1], c)
    BY <2>1, <2>2
  <2> QED BY <1>3, <1>9, <2>3 DEF Synced
<1>11. PICK f : f = [Top EXCEPT !.at = "sync"]
  OBVIOUS
<1>12. /\ Rest(t) /\ Len(t) = Depth + 1 /\ t[Depth] = f /\ t[Depth + 1] = c
       /\ b \in 1..Depth - 1 /\ f \in Frames
  <2>1. /\ stack # <<>> /\ Top.at = "entry" /\ stack[b].at \in Requests /\ c \in Frames
        /\ t = Synced(b, c) /\ f = Labelled(Top, "sync")
    BY <1>1, <1>4, <1>8, <1>10, <1>11 DEF Labelled
  <2> QED BY <2>1, Syncing
<1>13. f.at = "sync" /\ ~f.flag
  <2>1. f.at = "sync" /\ f.flag = Top.flag
    BY <1>1, <1>11 DEF Frames
  <2>2. ~Top.flag
    BY <1>1 DEF Shape
  <2> QED BY <2>1, <2>2
<1>14. Shape(f)
  BY <1>13 DEF Shape, Posting, Requests, Walks, Notifying, Starting
<1>15. Fits(f, c)
  BY <1>6, <1>8, <1>13 DEF Fits, Posting, Requests, Notifying, Walks, HandlerLabels, Starting
<1>16. t[b].at \in Requests /\ c.type = t[b].type
  <2>1. Same(t[b], stack[b])
    BY <1>12 DEF Rest
  <2> QED BY <1>4, <1>5, <1>8, <2>1 DEF Same
<1>17. t \in Seq(Frames) /\ Controlled(t, entry, TRUE, b)
  BY <1>1, <1>3, <1>8, <1>12, <1>13, <1>14, <1>15, <1>16, EntryGoesOn
<1>18. entry' = entry /\ inSmm' = TRUE /\ buffer' = b
  BY <1>3 DEF EntryConveys
<1> QED BY <1>9, <1>17, <1>18, Held

LEMMA RootFrame ==
  ASSUME Top \in Frames, Top.at \in {"entry", "sync"}, NEW fl \in BOOLEAN,
         NEW f, f = [Top EXCEPT !.at = "root", !.flag = fl]
  PROVE  f \in Frames /\ f.at = "root" /\ (f.flag <=> fl) /\ Shape(f)
<1>1. f \in Frames /\ f.at = "root"
  BY DEF Frames, Labels
<1>2. f.flag = fl
  BY DEF Frames
<1>3. Shape(f)
  BY <1>1 DEF Shape, Posting, Requests, Walks, Notifying, Starting
<1> QED BY <1>1, <1>2, <1>3

LEMMA RootWalk ==
  ASSUME NEW c, c = Manage("root")
  PROVE  /\ c \in Frames /\ Shape(c) /\ c.at = "manage" /\ c.type = "root"
         /\ \A f : f.at = "root" => Fits(f, c)
<1>1. "manage" \in Labels /\ "root" \in Types /\ "root" \in Types \cup Events \cup {NoType}
  BY DEF Labels, Types
<1>2. c \in Frames /\ c.at = "manage" /\ c.type = "root" /\ c.up = 0
  BY <1>1, FrameIs DEF Manage
<1>3. Shape(c)
  BY <1>1, <1>2 DEF Shape, Posting, Requests, Walks, Notifying, Starting
<1>4. \A f : f.at = "root" => Fits(f, c)
  BY <1>2 DEF Fits, Posting, Requests, Notifying, Walks, HandlerLabels, Starting
<1> QED BY <1>2, <1>3, <1>4

LEMMA RootsKept ==
  ASSUME DataOK, TypedStack, Control, SyncEnds \/ EntryAlone
  PROVE  TypedStack' /\ Control'
<1>1. /\ Top \in Frames /\ Shape(Top) /\ Depth \in Nat \ {0} /\ stack # <<>>
      /\ Top.at \in {"entry", "sync"}
  BY ControlFacts DEF SyncEnds, EntryAlone, At
<1>2. PICK fl \in BOOLEAN : fl = IF Top.at = "sync" THEN FALSE ELSE legacy
  BY DEF DataOK
<1>3. PICK f : f = [Top EXCEPT !.at = "root", !.flag = fl]
  OBVIOUS
<1>4. f \in Frames /\ f.at = "root" /\ (f.flag <=> fl) /\ Shape(f)
  BY <1>1, <1>3, RootFrame
<1>5. PICK c : c = Manage("root")
  OBVIOUS
<1>6. c \in Frames /\ Shape(c) /\ c.at = "manage" /\ c.type = "root" /\ Fits(f, c)
  BY <1>4, <1>5, RootWalk
<1>7. Call(f, c)
  <2>1. CASE SyncEnds
    <3>1. Call([Top EXCEPT !.at = "root"], Manage("root")) /\ Top.at = "sync"
      BY <2>1 DEF SyncEnds, At
    <3>2. ~Top.flag /\ Top.flag \in BOOLEAN
      BY <1>1, <3>1 DEF Shape, Frames
    <3>3. Top.flag = fl
      BY <1>2, <3>1, <3>2
    <3>4. f = [Top EXCEPT !.at = "root"]
      BY <1>1, <1>3, <3>3 DEF Frames
    <3> QED BY <1>5, <3>1, <3>4
  <2>2. CASE EntryAlone
    <3>1. Call([Top EXCEPT !.at = "root", !.flag = legacy], Manage("root")) /\ Top.at = "entry"
      BY <2>2 DEF EntryAlone, At
    <3> QED BY <1>2, <1>3, <1>5, <3>1
  <2> QED BY <2>1, <2>2
<1>8. PICK t : t = stack'
  OBVIOUS
<1>9. Rest(t) /\ Len(t) = Depth + 1 /\ t[Depth] = f /\ t[Depth + 1] = c
  <2>1. t = Called(f, c)
    BY <1>7, <1>8 DEF Call, Called
  <2> QED BY <1>1, <1>4, <1>6, <2>1, Calling
<1>10. PICK b : b = buffer'
  OBVIOUS
<1>11. PICK sm : sm = inSmm'
  OBVIOUS
<1>12. inSmm \in BOOLEAN /\ legacy \in BOOLEAN
  BY DEF DataOK
<1>13. (\E i \in 1..Depth : Served(stack[i])) => inSmm
  BY DEF Control, Controlled, InSmmIs
<1>14. (\E i \in 1..Depth : Served(stack[i])) => sm
  <2>1. inSmm => sm
    BY <1>11, <1>12 DEF SyncEnds, EntryAlone
  <2> QED BY <1>13, <2>1
<1>15. ~f.flag => sm
  <2>1. CASE SyncEnds
    <3>1. Served(Top)
      BY <1>1, <2>1 DEF SyncEnds, At, Served, Shape
    <3>2. \E i \in 1..Depth : Served(stack[i])
      BY <1>1, <3>1 DEF Top
    <3> QED BY <1>14, <3>2
  <2>2. CASE EntryAlone
    <3>1. ~legacy => inSmm' = TRUE
      BY <2>2 DEF EntryAlone
    <3>2. Top.at = "entry"
      BY <2>2 DEF EntryAlone, At
    <3> QED BY <1>2, <1>4, <1>11, <3>1, <3>2
  <2> QED BY <2>1, <2>2
<1>16. sm => ~f.flag \/ inSmm
  <2>1. CASE SyncEnds
    BY <1>11, <2>1 DEF SyncEnds
  <2>2. CASE EntryAlone
    <3>1. legacy => inSmm' = inSmm
      BY <2>2 DEF EntryAlone
    <3> QED BY <1>2, <1>4, <1>11, <3>1
  <2> QED BY <2>1, <2>2
<1>17. f.flag => Top.at = "entry"
  BY <1>1, <1>2, <1>4
<1>18. t \in Seq(Frames) /\ Controlled(t, entry, sm, b)
  BY <1>1, <1>4, <1>6, <1>9, <1>14, <1>15, <1>16, <1>17, EntryGoesOn
<1>19. entry' = entry
  BY DEF SyncEnds, EntryAlone
<1> QED BY <1>8, <1>10, <1>11, <1>18, <1>19, Held

LEMMA EntryEndsKept ==
  ASSUME DataOK, TypedStack, Control, EntryEnds
  PROVE  TypedStack' /\ Control'
<1>1. /\ Top \in Frames /\ Depth \in Nat \ {0} /\ Depth > 1 /\ stack # <<>> /\ Structure(stack, entry)
      /\ Top.at = "root" /\ Caller \in Frames
  BY ControlFacts DEF EntryEnds, At
<1>2. entry /\ \A i \in 1..Depth - 1 : ~Served(stack[i])
  BY <1>1, BelowEntry DEF Entries
<1>3. PICK t : t = stack'
  OBVIOUS
<1>4. Rest(t) /\ Len(t) = Depth - 1
  <2>1. t = Append(SubSeq(stack, 1, Depth - 2), Caller)
    BY <1>3 DEF EntryEnds, Return
  <2> QED BY <1>1, <2>1, Returning, SameItself
<1>5. PICK sm : sm = inSmm'
  OBVIOUS
<1>6. \A i \in 1..Depth - 1 : /\ Served(t[i]) <=> Served(stack[i])
                              /\ t[i].at = stack[i].at
  BY <1>4 DEF Rest, Served, Same
<1>7. sm => \E i \in 1..Len(t) : Served(t[i]) \/ t[i].at = "direct"
  <2>1. SUFFICES ASSUME sm
                 PROVE  \E i \in 1..Len(t) : Served(t[i]) \/ t[i].at = "direct"
    OBVIOUS
  <2>2. Top.flag /\ inSmm
    <3>1. inSmm' = IF Top.flag THEN inSmm ELSE FALSE
      BY DEF EntryEnds
    <3> QED BY <1>5, <2>1, <3>1
  <2>3. PICK i \in 1..Depth : Served(stack[i]) \/ stack[i].at = "direct"
    BY <2>2 DEF Control, Controlled, InSmmIs
  <2>4. i # Depth
    BY <1>1, <2>2, <2>3 DEF Top, Served
  <2>5. i \in 1..Depth - 1
    BY <1>1, <2>4
  <2> QED BY <1>4, <1>6, <2>3, <2>5
<1>8. InSmmIs(t, sm) /\ DirectIs(t, entry, sm)
  <2>1. \A i \in 1..Len(t) : i \in 1..Depth - 1
    BY <1>4
  <2> QED BY <1>2, <1>4, <1>7, <2>1, SmmIs
<1>9. Structure(t, entry) /\ Conveyed(t, buffer)
  <2>1. Conveyed(stack, buffer)
    BY DEF Control, Controlled
  <2>2. /\ Len(t) \in {Depth - 1, Depth, Depth + 1} /\ Len(t) # 0 /\ Len(t) # Depth + 1
        /\ ~(Len(t) >= Depth)
    BY <1>1, <1>4
  <2>3. Structure(t, entry)
    BY <1>1, <1>4, <2>2, Structured
  <2>4. Conveyed(t, buffer)
    BY <1>1, <1>4, <2>1, <2>2, ConveyedKept
  <2> QED BY <2>3, <2>4
<1>10. t \in Seq(Frames) /\ Controlled(t, entry, sm, buffer)
  BY <1>4, <1>8, <1>9 DEF Controlled, Rest
<1>11. entry' = entry /\ buffer' = buffer
  BY DEF EntryEnds
<1> QED BY <1>3, <1>5, <1>10, <1>11, Held

LEMMA SmiKept ==
  ASSUME DataOK, TypedStack, Control, Smi
  PROVE  TypedStack' /\ Control'
<1>1. /\ Top \in Frames /\ Placed(Top, Depth, entry) /\ Depth \in Nat \ {0} /\ stack # <<>>
      /\ (Depth > 1 => Fits(Caller, Top)) /\ (Depth = 1 => Top.at = "dxe")
      /\ Depth \in 1..Depth /\ Structure(stack, entry)
  BY ControlFacts
<1>2. entry /\ DOMAIN stack = 1..Depth
  BY <1>1 DEF Smi, TypedStack
<1>3. ASSUME NEW i \in 1..Depth
      PROVE  /\ stack[i].at \notin Entries
             /\ ~(stack[i].at = "direct" /\ stack[i].type = "legacy")
  <2>1. stack[i].at \notin Entries
    BY <1>2 DEF Smi, InSmi, Entries
  <2>2. ~(stack[i].at = "direct" /\ stack[i].type = "legacy")
    BY <1>1, <1>2 DEF Structure, NoSmis
  <2> QED BY <2>1, <2>2
<1>4. PICK c : c = Frame("entry", NoType)
  OBVIOUS
<1>5. c \in Frames /\ Shape(c) /\ c.at = "entry" /\ ~c.flag /\ Aside(c) /\ Fits(Top, c)
  BY <1>4, EntryFrame
<1>6. ASSUME NEW i \in 1..Depth
      PROVE  Above(stack[i], c)
  BY <1>3, <1>5, AboveFree DEF Entries, Requests, Served
<1>7. Placed(c, Depth + 1, entry) /\ Above(Top, c)
  <2>1. Above(Top, c)
    BY <1>1, <1>6 DEF Top
  <2>2. \A i \in 1..Depth - 1 : i \in 1..Depth
    BY <1>1, Below
  <2> QED BY <1>2, <1>5, <1>6, <2>1, <2>2 DEF Placed, Requests
<1>8. PICK t : t = stack'
  OBVIOUS
<1>9. Rest(t) /\ Len(t) = Depth + 1 /\ t[Depth] = Top /\ t[Depth + 1] = c
  <2>1. t = Called(Top, c)
    BY <1>4, <1>8 DEF Smi, Call, Called
  <2> QED BY <1>1, <1>5, <2>1, Calling
<1>10. \A i \in 1..Depth : t[i].at = stack[i].at /\ (Served(t[i]) <=> Served(stack[i]))
  <2>1. \A i \in 1..Depth : i \in 1..Depth - 1 \/ i = Depth
    BY <1>1, Below
  <2>2. \A i \in 1..Depth - 1 : Same(t[i], stack[i])
    BY <1>9 DEF Rest
  <2>3. t[Depth] = stack[Depth]
    BY <1>9 DEF Top
  <2> QED BY <2>1, <2>2, <2>3 DEF Same, Served
<1>11. InSmmIs(t, inSmm) /\ DirectIs(t, entry, inSmm)
  <2>1. InSmmIs(stack, inSmm)
    BY DEF Control, Controlled
  <2>2. \A i \in 1..Len(t) : i \in 1..Depth \/ i = Depth + 1
    BY <1>1, <1>9
  <2>3. \A i \in 1..Depth : ~Served(stack[i])
    BY <1>3 DEF Served, Entries
  <2>4. \A i \in 1..Depth - 1 : Served(stack[i]) => inSmm
    BY <1>1, <2>3, Below
  <2>5. ~Served(c) /\ c.at # "direct"
    BY <1>5 DEF Served
  <2>6. \A i \in 1..Len(t) : i \notin 1..Depth - 1 /\ Served(t[i]) => inSmm
    BY <1>9, <1>10, <2>2, <2>3, <2>5
  <2>7. inSmm => \E i \in 1..Len(t) : Served(t[i]) \/ t[i].at = "direct"
    <3>1. inSmm => \E i \in 1..Depth : Served(stack[i]) \/ stack[i].at = "direct"
      BY <2>1 DEF InSmmIs
    <3>2. \A i \in 1..Depth : i \in 1..Len(t)
      BY <1>1, <1>9
    <3> QED BY <1>10, <3>1, <3>2
  <2>8. \A j \in 1..Len(t) : j \notin 1..Depth - 1 /\ t[j].at = "direct" => j = Depth
    <3>1. \A i \in 1..Depth : i \in 1..Depth - 1 \/ i = Depth
      BY <1>1, Below
    <3> QED BY <1>9, <2>2, <2>5, <3>1
  <2>9. t[Depth].at = "direct" /\ t[Depth].flag =>
          \E i \in 1..Depth - 1 : Served(stack[i]) \/ stack[i].at = "direct"
    <3>1. t[Depth] = stack[Depth]
      BY <1>9 DEF Top
    <3> QED BY <1>1, <2>1, <3>1 DEF InSmmIs
  <2> QED BY <1>2, <1>9, <2>4, <2>6, <2>7, <2>8, <2>9, SmmIs
<1>12. c.at \notin Walks
  BY <1>5 DEF Walks
<1>13. t \in Seq(Frames) /\ Controlled(t, entry, inSmm, buffer)
  BY <1>1, <1>5, <1>7, <1>9, <1>11, <1>12, PushDone
<1>14. entry' = entry /\ inSmm' = inSmm /\ buffer' = buffer
  BY DEF Smi, private
<1> QED BY <1>8, <1>13, <1>14, Held

LEMMA InterruptsKept ==
  ASSUME DataOK, TypedStack, Control, NEW event \in Events, Depth = 2, Top.at \in Requests,
         Call([Top EXCEPT !.flag = TRUE], Frame("notify", event))
  PROVE  stack' \in Seq(Frames) /\ Controlled(stack', entry, inSmm, buffer)
<1>1. /\ Top \in Frames /\ Shape(Top) /\ Placed(Top, Depth, entry) /\ stack # <<>>
      /\ Depth # 1 /\ Fits(Caller, Top) /\ stack[1].at = "dxe" /\ Aside(Top)
  <2>1. Chain(stack) /\ Aside(Top) /\ Depth > 1 /\ Depth # 1
    BY ControlFacts DEF Aside, Requests
  <2> QED BY <2>1, ControlFacts DEF Chain
<1>2. PICK f : f = [Top EXCEPT !.flag = TRUE]
  OBVIOUS
<1>3. f \in Frames /\ f.at = Top.at /\ f.type = Top.type /\ f.flag
  BY <1>1, <1>2 DEF Frames
<1>4. Shape(f) /\ Fits(Caller, f)
  BY <1>1, <1>3, PostingGoesOn DEF Posting, Requests
<1>5. PICK c : c = Frame("notify", event)
  OBVIOUS
<1>6. c \in Frames /\ c.at = "notify" /\ c.type = event
  <2>1. "notify" \in Labels /\ event \in Types \cup Events \cup {NoType}
    BY DEF Labels
  <2> QED BY <1>5, <2>1, FrameIs
<1>7. Shape(c) /\ Aside(c) /\ Fits(f, c)
  BY <1>3, <1>6 DEF Shape, Posting, Requests, Walks, Notifying, Starting, Aside, Fits, HandlerLabels
<1>8. Placed(f, Depth, entry) /\ Placed(c, Depth + 1, entry)
  <2>1. \A i \in 1..Depth - 1 : i = 1
    OBVIOUS
  <2>2. \A g : Above(stack[1], g)
    BY <1>1 DEF Above, Entries, Requests, Served
  <2> QED BY <1>1, <1>3, <1>4, <1>6, <1>7, <2>1, <2>2 DEF Placed, Requests, Entries
<1>9. Above(f, c)
  BY <1>3, <1>6 DEF Above, Entries, Requests, Served
<1>10. PICK t : t = stack'
  OBVIOUS
<1>11. Rest(t) /\ Len(t) = Depth + 1 /\ t[Depth] = f /\ t[Depth + 1] = c
  <2>1. t = Called(f, c)
    BY <1>2, <1>5, <1>10 DEF Call, Called
  <2> QED BY <1>1, <1>3, <1>6, <2>1, Calling
<1>12. Aside(f) /\ f.at \notin Walks
  BY <1>3 DEF Aside, Requests, Walks
<1>13. t \in Seq(Frames) /\ Controlled(t, entry, inSmm, buffer)
  BY <1>1, <1>4, <1>7, <1>8, <1>9, <1>11, <1>12, PushKept
<1> QED BY <1>10, <1>13

\* Who stands on whom, when InSmm is set, and what a walk knows: after every step.
LEMMA ControlStep ==
  ASSUME CoreAssumption, DataOK, TypedStack, Control, Pending(stack, buffer, size), Next
  PROVE  TypedStack' /\ Control'
<1>1. CASE PutBuffer \/ PutSize
  BY <1>1, PutsKept
<1>2. CASE Trigger
  BY <1>2, TriggerKept
<1>3. CASE Sent \/ Refuse
  BY <1>3, AnswersKept
<1>4. CASE Direct
  BY <1>4, DirectKept
<1>5. CASE DirectEnds
  BY <1>5, DirectEndsKept
<1>6. CASE Answered \/ StartEnds \/ NotifyEnds
  BY <1>6, ReturnsKept
<1>7. CASE EntryConveys
  BY <1>7, EntryConveysKept
<1>8. CASE SyncEnds \/ EntryAlone
  BY <1>8, RootsKept
<1>9. CASE EntryEnds
  BY <1>9, EntryEndsKept
<1>10. Drivers \cap CoreTypes = {}
  BY DEF CoreAssumption
<1>11. CASE ManageBegins
  BY <1>10, <1>11, ManageBeginsKept
<1>12. CASE Managed
  BY <1>10, <1>12, ManagedKept
<1>13. CASE \/ DriverHandler \/ ReadyToLockHandler \/ LegacyBootHandler \/ EndOfDxeHandler
            \/ DispatcherEnds \/ DispatcherRestarts
  BY <1>13, HandlersKept
<1>14. CASE FindVolume
  BY <1>14, FindVolumeKept
<1>15. CASE DispatcherBegins
  BY <1>15, DispatcherBeginsKept
<1>16. CASE Drain
  BY <1>16, DrainKept
<1>17. CASE Search
  BY <1>17, Unmoved DEF Search, private
<1>18. CASE StartDriver
  BY <1>18, StartDriverKept
<1>19. CASE StartCalls
  BY <1>19, StartCallsKept
<1>20. CASE NotifyPosts
  BY <1>20, NotifyPostsKept
<1>21. CASE DispatchAgain
  BY <1>21, DispatchAgainKept
<1>22. CASE NotifyLocks
  BY <1>22, NotifyLocksKept
<1>23. ASSUME NEW v \in Volumes, AddVolume(v)
       PROVE  TypedStack' /\ Control'
  BY <1>23, Unmoved DEF AddVolume, private
<1>24. ASSUME NEW type \in UserTypes, CallCommunicate(type)
       PROVE  TypedStack' /\ Control'
  BY <1>24, CallCommunicateKept
<1>25. ASSUME NEW event \in Events, Signal(event)
       PROVE  TypedStack' /\ Control'
  <2>1. CASE Dxe
    BY <1>25, <2>1, SignalsDxeKept
  <2>2. CASE ~Dxe
    <3>1. /\ Depth = 2 /\ Top.at \in Requests
          /\ Call([Top EXCEPT !.flag = TRUE], Frame("notify", event))
      BY <1>25, <2>2 DEF Signal, Requests
    <3>2. stack' \in Seq(Frames) /\ Controlled(stack', entry, inSmm, buffer)
      BY <3>1, InterruptsKept
    <3>3. entry' = entry /\ inSmm' = inSmm /\ buffer' = buffer
      BY <1>25 DEF Signal, private
    <3> QED BY <3>2, <3>3, Held
  <2> QED BY <2>1, <2>2
<1>26. CASE Smi
  BY <1>26, SmiKept
<1> QED BY <1>1, <1>2, <1>3, <1>4, <1>5, <1>6, <1>7, <1>8, <1>9, <1>11, <1>12, <1>13, <1>14,
           <1>15, <1>16, <1>17, <1>18, <1>19, <1>20, <1>21, <1>22, <1>23, <1>24, <1>25, <1>26
        DEF Next, Core

-----------------------------------------------------------------------------
(* Whose request is stored, and what has become of a message.                 *)

\* A frame below the top after a step: nothing is taken back of what it was told.
Carries(f, g) == Same(f, g) /\ (g.at \in Posting /\ g.reply # "clear" => f.reply # "clear")
Steady(f, g) == f.n = g.n /\ f.ret = g.ret

\* Where frames are on the stack.
LEMMA WalkUp ==
  ASSUME TypedStack, Control, NEW i \in 1..Depth, stack[i].at \in Walks
  PROVE  /\ stack[i].up \in Nat /\ stack[i].up < i
         /\ stack[i].up # 0 => stack[stack[i].up].at \in Posting
<1>1. Chain(stack) /\ Depth \in Nat \ {0} /\ Conveyed(stack, buffer)
  BY ControlFacts DEF Control, Controlled
<1>2. stack[i] \in Frames
  BY DEF TypedStack
<1>3. stack[i].up \in Nat
  BY <1>2 DEF Frames
<1>4. i # 1
  BY <1>1 DEF Chain, Walks
<1>5. i - 1 \in 1..Depth - 1 /\ (i - 1) + 1 = i
  BY <1>1, <1>4
<1>6. PICK p \in 1..Depth - 1 : p = i - 1 /\ i = p + 1
  BY <1>5
<1>7. Fits(stack[p], stack[i])
  BY <1>1, <1>6 DEF Chain
<1>8. /\ stack[p].at = "direct" => stack[i].up = p
      /\ stack[p].at = "sync" => /\ stack[i].up \in 1..p
                                 /\ stack[stack[i].up].at \in Requests
  BY <1>1, <1>6 DEF Conveyed
<1>9. stack[p].at = "root" => stack[i].up = 0
  BY <1>7 DEF Fits
<1>10. stack[p].at \in {"direct", "sync", "root"}
  BY <1>7 DEF Fits
<1>11. \A k \in 0..p : k < i
  BY <1>6
<1>12. p \in 0..p /\ 0 \in 0..p /\ \A k \in 1..p : k \in 0..p
  OBVIOUS
<1>13. stack[i].up \in 0..p
  BY <1>8, <1>9, <1>10, <1>12
<1>14. stack[i].up # 0 => stack[stack[i].up].at \in Posting
  BY <1>8, <1>9, <1>10 DEF Posting
<1> QED BY <1>3, <1>11, <1>13, <1>14

\* Every frame below the top is what it was, but for what it was told.
Carried(t) ==
  /\ t \in Seq(Frames) /\ Len(t) >= Depth - 1
  /\ \A i \in 1..Depth - 1 :
       Carries(t[i], stack[i]) /\ (Steady(t[i], stack[i]) \/ Fated(t, i, buffer, status))

LEMMA SyncsKept ==
  ASSUME TypedStack, stack # <<>>, NEW t, t \in Seq(Frames), Len(t) >= Depth - 1,
         \A i \in 1..Depth - 1 : t[i].at = stack[i].at, Top.at # "sync",
         \A i \in Depth..Len(t) : t[i].at # "sync"
  PROVE  Syncs(t) <=> Syncs(stack)
<1>1. Depth \in Nat \ {0} /\ Len(t) \in Nat
  BY DEF TypedStack
<1>2. \A i \in 1..Depth : i \in 1..Depth - 1 \/ i = Depth
  BY <1>1, Below
<1>3. \A i \in 1..Depth - 1 : i \in 1..Depth /\ i \in 1..Len(t)
  BY <1>1
<1>4. \A i \in 1..Len(t) : i \in 1..Depth - 1 \/ i \in Depth..Len(t)
  BY <1>1
<1>5. ASSUME Syncs(t)
      PROVE  Syncs(stack)
  <2>1. PICK i \in 1..Len(t) : t[i].at = "sync"
    BY <1>5 DEF Syncs
  <2> QED BY <1>3, <1>4, <2>1 DEF Syncs
<1>6. ASSUME Syncs(stack)
      PROVE  Syncs(t)
  <2>1. PICK i \in 1..Depth : stack[i].at = "sync"
    BY <1>6 DEF Syncs
  <2>2. i \in 1..Depth - 1
    BY <1>2, <2>1 DEF Top
  <2> QED BY <1>3, <2>1, <2>2 DEF Syncs
<1> QED BY <1>5, <1>6

\* The fate of the messages below the top.
LEMMA FateBelow ==
  ASSUME TypedStack, Control, Pending(stack, buffer, size), Fate(stack, buffer, status),
         NEW t, Carried(t),
         Syncs(t) <=> Syncs(stack), NEW i \in 1..Depth - 1
  PROVE  Fated(t, i, buffer, status)
<1>1. SUFFICES ASSUME Steady(t[i], stack[i])
               PROVE  Fated(t, i, buffer, status)
  BY DEF Carried
<1>2. Depth \in Nat /\ i \in 1..Depth
  BY ControlFacts
<1>3. Fated(stack, i, buffer, status)
  BY <1>2 DEF Fate
<1>4. Carries(t[i], stack[i])
  BY DEF Carried
<1>5. /\ t[i].at = stack[i].at /\ t[i].up = stack[i].up /\ (t[i].flag <=> stack[i].flag)
      /\ t[i].n = stack[i].n /\ t[i].ret = stack[i].ret
      /\ stack[i].at \in Posting /\ stack[i].reply # "clear" => t[i].reply # "clear"
  BY <1>1, <1>4 DEF Carries, Steady, Same
<1>6. Alone(t[i])
  BY <1>3, <1>5 DEF Fated, Alone, Posting
<1>7. Sending(t, i, buffer, status)
  BY <1>3, <1>5 DEF Fated, Sending, Posting
<1>8. \A k \in 1..i - 1 :
        stack[k].at \in Posting /\ stack[k].reply # "clear" => t[k].reply # "clear"
  <2>1. \A k \in 1..i - 1 : k \in 1..Depth - 1
    BY <1>2
  <2> QED BY <2>1 DEF Carried, Carries
<1>9. Serving(t, i, buffer)
  <2>1. SUFFICES ASSUME t[i].at = "sync"
                 PROVE  /\ buffer \in 1..i - 1
                        /\ t[i].ret = "success" => t[buffer].reply # "clear"
    BY DEF Serving
  <2>2. /\ buffer \in 1..i - 1
        /\ t[i].ret = "success" => stack[buffer].reply # "clear"
    BY <1>3, <1>5, <2>1 DEF Fated, Serving
  <2>3. stack[buffer].at \in Posting
    BY <2>2 DEF Pending, Posting
  <2> QED BY <1>8, <2>2, <2>3
<1>10. Walking(t, i)
  <2>1. SUFFICES ASSUME t[i].at \in Walks, t[i].up # 0,
                        t[i].flag \/ t[i].ret \in {"success", "quiesced"}
                 PROVE  t[t[i].up].reply # "clear"
    BY DEF Walking
  <2>2. PICK u : u = stack[i].up
    OBVIOUS
  <2>3. stack[u].reply # "clear"
    BY <1>3, <1>5, <2>1, <2>2 DEF Fated, Walking
  <2>4. u \in Nat /\ u < i /\ stack[u].at \in Posting
    BY <1>2, <1>5, <2>1, <2>2, WalkUp
  <2>5. u \in 1..i - 1
    BY <1>2, <1>5, <2>1, <2>2, <2>4
  <2>6. t[u].reply # "clear"
    BY <1>8, <2>3, <2>4, <2>5
  <2> QED BY <1>5, <2>2, <2>6
<1> QED BY <1>6, <1>7, <1>9, <1>10 DEF Fated

\* The stored request, when no Communicate and no SMI handler begins or ends.
LEMMA PendingKept ==
  ASSUME TypedStack, Control, Pending(stack, buffer, size), NEW t, Rest(t),
         Top.at \notin Requests \cup {"entry", "sync"},
         \A i \in Depth..Len(t) : t[i].at \notin Requests \cup {"root"}
  PROVE  Pending(t, buffer, size)
<1>1. Depth \in Nat \ {0} /\ Len(t) \in Nat /\ Len(t) >= Depth - 1
  BY ControlFacts DEF Rest
<1>2. SUFFICES ASSUME buffer # 0
               PROVE  Pending(t, buffer, size)
  BY DEF Pending
<1>3. PICK b \in 1..Depth : b = buffer
  BY <1>2 DEF Pending
<1>4. stack[b].at \in Requests
  BY <1>2, <1>3 DEF Pending
<1>5. b \in 1..Depth - 1
  <2>1. b # Depth
    BY <1>4 DEF Top
  <2> QED BY <1>1, <2>1, Below
<1>6. \A i \in 1..Depth - 1 : t[i].at = stack[i].at
  BY DEF Rest, Same
<1>7. \A i \in 1..Len(t) : i \in 1..Depth - 1 \/ i \in Depth..Len(t)
  BY <1>1
<1>8. b \in 1..Len(t) /\ t[b].at \in Requests
  BY <1>1, <1>4, <1>5, <1>6
<1>9. ASSUME NEW j \in b + 1..Len(t)
      PROVE  t[j].at \notin Requests
  <2>1. j \in 1..Len(t)
    OBVIOUS
  <2>2. CASE j \in 1..Depth - 1
    <3>1. j \in b + 1..Depth
      BY <1>1, <2>2
    <3> QED BY <1>2, <1>3, <1>6, <2>2, <3>1 DEF Pending
  <2>3. CASE j \in Depth..Len(t)
    BY <2>3
  <2> QED BY <1>7, <2>1, <2>2, <2>3
<1>10. t[b].at \in {"trigger", "sent"} => size = b
  BY <1>2, <1>3, <1>5, <1>6 DEF Pending
<1>11. ASSUME t[b].at = "sent"
       PROVE  b < Len(t) /\ t[b + 1].at \in {"entry", "sync"}
  <2>1. stack[b + 1].at \in {"entry", "sync"} /\ b + 1 \in 1..Depth
    BY <1>1, <1>2, <1>3, <1>5, <1>6, <1>11 DEF Pending
  <2>2. b + 1 # Depth
    BY <2>1 DEF Top
  <2>3. b + 1 \in 1..Depth - 1
    BY <1>1, <2>1, <2>2, Below
  <2>4. b < Len(t)
    BY <1>1, <2>3
  <2> QED BY <1>6, <2>1, <2>3, <2>4
<1>12. ASSUME NEW j \in 1..Len(t)
       PROVE  t[j].at # "root"
  <2>1. CASE j \in 1..Depth - 1
    <3>1. j \in 1..Depth
      BY <1>1, <2>1, Below
    <3> QED BY <1>2, <1>6, <2>1, <3>1 DEF Pending
  <2>2. CASE j \in Depth..Len(t)
    BY <2>2
  <2> QED BY <1>7, <2>1, <2>2
<1> QED BY <1>3, <1>8, <1>9, <1>10, <1>11, <1>12 DEF Pending

\* The stored request, when a device, a notification or SmiManage comes in.
LEMMA PendingPushed ==
  ASSUME TypedStack, Control, Pending(stack, buffer, size), NEW t, Rest(t), Len(t) = Depth + 1,
         t[Depth].at = Top.at \/ (Top.at = "entry" /\ t[Depth].at = "sync"),
         t[Depth + 1].at \notin Requests \cup {"root"}
  PROVE  Pending(t, buffer, size)
<1>1. Depth \in Nat \ {0} /\ Len(t) \in Nat /\ Depth \in 1..Depth
  BY ControlFacts DEF Rest
<1>2. SUFFICES ASSUME buffer # 0
               PROVE  Pending(t, buffer, size)
  BY DEF Pending
<1>3. PICK b \in 1..Depth : b = buffer
  BY <1>2 DEF Pending
<1>4. stack[b].at \in Requests
  BY <1>2, <1>3 DEF Pending
<1>5. \A i \in 1..Depth : i \in 1..Depth - 1 \/ i = Depth
  BY <1>1, Below
<1>6. \A i \in 1..Depth : \/ t[i].at = stack[i].at
                          \/ stack[i].at = "entry" /\ t[i].at = "sync"
  <2>1. \A i \in 1..Depth - 1 : t[i].at = stack[i].at
    BY DEF Rest, Same
  <2> QED BY <1>5, <2>1 DEF Top
<1>7. \A i \in 1..Len(t) : i \in 1..Depth \/ i = Depth + 1
  BY <1>1
<1>8. b \in 1..Len(t) /\ t[b].at = stack[b].at /\ t[b].at \in Requests
  <2>1. b \in 1..Len(t)
    BY <1>1
  <2> QED BY <1>4, <1>6, <2>1 DEF Requests
<1>9. ASSUME NEW j \in b + 1..Len(t)
      PROVE  t[j].at \notin Requests
  <2>1. j \in 1..Len(t)
    OBVIOUS
  <2>2. CASE j \in 1..Depth
    <3>1. stack[j].at \notin Requests
      <4>1. j \in b + 1..Depth
        BY <1>1, <2>2
      <4> QED BY <1>2, <1>3, <4>1 DEF Pending
    <3> QED BY <1>6, <2>2, <3>1 DEF Requests
  <2>3. CASE j = Depth + 1
    BY <2>3
  <2> QED BY <1>7, <2>1, <2>2, <2>3
<1>10. t[b].at \in {"trigger", "sent"} => size = b
  BY <1>2, <1>3, <1>8 DEF Pending
<1>11. ASSUME t[b].at = "sent"
       PROVE  b < Len(t) /\ t[b + 1].at \in {"entry", "sync"}
  <2>1. stack[b + 1].at \in {"entry", "sync"} /\ b < Depth
    BY <1>2, <1>3, <1>8, <1>11 DEF Pending
  <2>2. b + 1 \in 1..Depth /\ b < Len(t)
    BY <1>1, <2>1
  <2> QED BY <1>6, <2>1, <2>2
<1>12. ASSUME NEW j \in 1..Len(t)
       PROVE  t[j].at # "root"
  <2>1. CASE j \in 1..Depth
    <3>1. stack[j].at # "root"
      BY <1>2, <2>1 DEF Pending
    <3> QED BY <1>6, <2>1, <3>1
  <2>2. CASE j = Depth + 1
    BY <2>2
  <2> QED BY <1>7, <2>1, <2>2
<1> QED BY <1>3, <1>8, <1>9, <1>10, <1>11, <1>12 DEF Pending

\* A frame that may be there after a legacy boot.
LegacyFrame(f) == f.at \in LegacyLabels /\ (f.at \in Walks => f.type \in {"legacy", "root"})

LEMMA LegacyKept ==
  ASSUME TypedStack, Control, InLegacy(stack, buffer, legacy), NEW t, Rest(t),
         NEW b, b = 0 \/ ~legacy \/ (b = buffer /\ Top.at # "sync"),
         legacy => \A i \in Depth..Len(t) : LegacyFrame(t[i])
  PROVE  InLegacy(t, b, legacy)
<1>1. Depth \in Nat \ {0} /\ Len(t) \in Nat /\ Len(t) >= Depth - 1
  BY ControlFacts DEF Rest
<1>2. SUFFICES ASSUME legacy
               PROVE  InLegacy(t, b, legacy)
  BY DEF InLegacy
<1>3. ASSUME NEW i \in 1..Len(t)
      PROVE  LegacyFrame(t[i])
  <2>1. CASE i \in 1..Depth - 1
    <3>1. Same(t[i], stack[i]) /\ i \in 1..Depth
      BY <1>1, <2>1, Below DEF Rest
    <3>2. LegacyFrame(stack[i])
      BY <1>2, <3>1 DEF InLegacy, LegacyFrame
    <3> QED BY <3>1, <3>2 DEF Same, LegacyFrame
  <2>2. CASE i \in Depth..Len(t)
    BY <1>2, <2>2
  <2> QED BY <1>1, <2>1, <2>2
<1>4. ASSUME b # 0
      PROVE  Syncs(t)
  <2>1. Syncs(stack)
    BY <1>2, <1>4 DEF InLegacy
  <2>2. PICK i \in 1..Depth : stack[i].at = "sync"
    BY <2>1 DEF Syncs
  <2>3. i # Depth
    BY <1>2, <1>4, <2>2 DEF Top
  <2>4. i \in 1..Depth - 1
    BY <1>1, <2>3, Below
  <2>5. i \in 1..Len(t) /\ t[i].at = "sync"
    BY <1>1, <2>2, <2>4 DEF Rest, Same
  <2> QED BY <2>5 DEF Syncs
<1> QED BY <1>3, <1>4 DEF InLegacy, LegacyFrame

LEMMA NoLegacy ==
  ASSUME TypedStack, Control, Requested, Top.at \notin LegacyLabels
  PROVE  ~legacy
<1>1. Depth \in 1..Depth
  BY ControlFacts
<1>2. InLegacy(stack, buffer, legacy)
  BY DEF Requested, Asked
<1> QED BY <1>1, <1>2 DEF InLegacy, Top

\* Frames that begin or go on without a message being sent or served.
Quiet(t, i) ==
  /\ Alone(t[i]) /\ Walking(t, i) /\ t[i].at \notin Requests \cup {"sync", "root"}
  /\ legacy => LegacyFrame(t[i])

LEMMA AskedKept ==
  ASSUME TypedStack, Control, Requested, NEW t, Carried(t),
         Top.at \notin Requests \cup {"entry", "sync"},
         \A i \in Depth..Len(t) : Quiet(t, i)
  PROVE  Asked(t, buffer, size, legacy, status)
<1>1. /\ Depth \in Nat \ {0} /\ Len(t) \in Nat /\ Len(t) >= Depth - 1 /\ stack # <<>>
      /\ t \in Seq(Frames) /\ Rest(t)
  <2>1. Rest(t) /\ t \in Seq(Frames) /\ Len(t) >= Depth - 1
    BY DEF Carried, Rest, Carries
  <2>2. Len(t) \in Nat
    BY <2>1
  <2> QED BY <2>1, <2>2, ControlFacts
<1>2. Pending(t, buffer, size)
  <2>1. Pending(stack, buffer, size)
    BY DEF Requested, Asked
  <2>2. \A i \in Depth..Len(t) : t[i].at \notin Requests \cup {"root"}
    BY DEF Quiet
  <2> QED BY <1>1, <2>1, <2>2, PendingKept
<1>3. InLegacy(t, buffer, legacy)
  <2>1. InLegacy(stack, buffer, legacy)
    BY DEF Requested, Asked
  <2>2. legacy => \A i \in Depth..Len(t) : LegacyFrame(t[i])
    BY DEF Quiet
  <2>3. Top.at # "sync"
    OBVIOUS
  <2> QED BY <1>1, <2>1, <2>2, <2>3, LegacyKept
<1>4. Syncs(t) <=> Syncs(stack)
  <2>1. \A i \in 1..Depth - 1 : t[i].at = stack[i].at
    BY <1>1 DEF Rest, Same
  <2>2. \A i \in Depth..Len(t) : t[i].at # "sync"
    BY DEF Quiet
  <2>3. Top.at # "sync"
    OBVIOUS
  <2> QED BY <1>1, <2>1, <2>2, <2>3, SyncsKept
<1>5. \A i \in 1..Depth - 1 : Fated(t, i, buffer, status)
  <2>1. Pending(stack, buffer, size) /\ Fate(stack, buffer, status)
    BY DEF Requested, Asked
  <2> QED BY <1>4, <2>1, FateBelow
<1>6. \A i \in Depth..Len(t) : Fated(t, i, buffer, status)
  BY DEF Quiet, Fated, Sending, Serving
<1>7. \A i \in 1..Len(t) : i \in 1..Depth - 1 \/ i \in Depth..Len(t)
  BY <1>1
<1>8. Fate(t, buffer, status)
  BY <1>5, <1>6, <1>7 DEF Fate
<1> QED BY <1>2, <1>3, <1>8 DEF Asked

\* What a walk believes of the message that it conveys is true.
Believes(f) ==
  f.at \in Walks /\ f.up # 0 /\ (f.flag \/ f.ret \in {"success", "quiesced"}) =>
    f.up \in 1..Depth - 1 /\ stack[f.up].reply # "clear"
Quieted(f) ==
  /\ Alone(f) /\ Believes(f) /\ f.at \notin Requests \cup {"sync", "root"}
  /\ legacy => LegacyFrame(f)
Silent(f) == f.at \notin Requests \cup Entries \cup Walks \cup {"communicate", "direct", "answered"}

LEMMA SilentIs ==
  ASSUME NEW f, Silent(f), ~legacy \/ f.at \in LegacyLabels
  PROVE  Quieted(f)
BY DEF Quieted, Silent, Alone, Believes, LegacyFrame, Entries, Walks

LEMMA BelievesIs ==
  ASSUME NEW t, \A i \in 1..Depth - 1 : t[i] = stack[i], NEW i, Quieted(t[i])
  PROVE  Quiet(t, i)
BY DEF Quiet, Quieted, Believes, Walking

LEMMA UnchangedCarried ==
  ASSUME NEW t, t \in Seq(Frames), Len(t) >= Depth - 1, \A i \in 1..Depth - 1 : t[i] = stack[i]
  PROVE  Carried(t)
BY DEF Carried, Carries, Steady, Same

Asking == Asked(stack', buffer, size, legacy, status)

LEMMA BecomeQuiet ==
  ASSUME TypedStack, Control, Requested, Top.at \notin Requests \cup {"entry", "sync"},
         NEW f \in Frames, Quieted(f), Become(f)
  PROVE  Asking
<1>1. stack # <<>> /\ Depth \in Nat
  BY ControlFacts
<1>2. PICK t : t = stack'
  OBVIOUS
<1>3. Rest(t) /\ Len(t) = Depth /\ t[Depth] = f /\ \A i \in 1..Depth - 1 : t[i] = stack[i]
  <2>1. t = [stack EXCEPT ![Depth] = f]
    BY <1>2 DEF Become
  <2> QED BY ONLY TypedStack, f \in Frames, <1>1, <2>1, Becoming, Zenon
<1>4. Carried(t)
  BY <1>3, UnchangedCarried DEF Rest
<1>5. \A i \in Depth..Len(t) : Quiet(t, i)
  <2>1. Quiet(t, Depth)
    BY <1>3, BelievesIs
  <2>2. \A i \in Depth..Len(t) : i = Depth
    BY <1>1, <1>3
  <2> QED BY <2>1, <2>2
<1>6. Asked(t, buffer, size, legacy, status)
  BY <1>4, <1>5, AskedKept
<1> QED BY <1>2, <1>6 DEF Asking

LEMMA CallQuiet ==
  ASSUME TypedStack, Control, Requested, Top.at \notin Requests \cup {"entry", "sync"},
         NEW f \in Frames, Quieted(f), NEW c \in Frames, Quieted(c), Call(f, c)
  PROVE  Asking
<1>1. stack # <<>> /\ Depth \in Nat
  BY ControlFacts
<1>2. PICK t : t = stack'
  OBVIOUS
<1>3. /\ Rest(t) /\ Len(t) = Depth + 1 /\ t[Depth] = f /\ t[Depth + 1] = c
      /\ \A i \in 1..Depth - 1 : t[i] = stack[i]
  <2>1. t = Called(f, c)
    BY <1>2 DEF Call, Called
  <2> QED BY <1>1, <2>1, Calling
<1>4. Carried(t)
  BY <1>3, UnchangedCarried DEF Rest
<1>5. \A i \in Depth..Len(t) : Quiet(t, i)
  <2>1. Quiet(t, Depth) /\ Quiet(t, Depth + 1)
    BY <1>3, BelievesIs
  <2>2. \A i \in Depth..Len(t) : i = Depth \/ i = Depth + 1
    BY <1>1, <1>3
  <2> QED BY <2>1, <2>2
<1>6. Asked(t, buffer, size, legacy, status)
  BY <1>4, <1>5, AskedKept
<1> QED BY <1>2, <1>6 DEF Asking

\* The callee returns, and the caller is no walk.
LEMMA ReturnQuiet ==
  ASSUME TypedStack, Control, Requested, Depth > 1, Top.at \notin Requests \cup {"entry", "sync"},
         NEW f \in Frames, Carries(f, Caller), Return(f),
         \/ Steady(f, Caller)
         \/ /\ Alone(f) /\ f.at \notin Requests \cup Walks
            /\ f.at = "sync" => /\ buffer \in 1..Depth - 2
                                /\ f.ret = "success" => stack[buffer].reply # "clear"
  PROVE  Asking
<1>1. stack # <<>> /\ Depth \in Nat /\ Same(f, Caller)
  BY ControlFacts DEF Carries
<1>2. PICK t : t = stack'
  OBVIOUS
<1>3. /\ Rest(t) /\ Len(t) = Depth - 1 /\ t[Depth - 1] = f
      /\ \A i \in 1..Depth - 2 : t[i] = stack[i]
  <2>1. t = Append(SubSeq(stack, 1, Depth - 2), f)
    BY <1>2 DEF Return
  <2>2. Depth > 1 /\ Same(f, Caller)
    BY <1>1
  <2> QED BY ONLY TypedStack, f \in Frames, <2>1, <2>2, Returning, Zenon
<1>4. \A i \in 1..Depth - 1 : i \in 1..Depth - 2 \/ i = Depth - 1
  BY <1>1
<1>5. Steady(f, Caller) \/ Fated(t, Depth - 1, buffer, status)
  <2>1. SUFFICES ASSUME ~Steady(f, Caller)
                 PROVE  Fated(t, Depth - 1, buffer, status)
    OBVIOUS
  <2>2. Alone(t[Depth - 1]) /\ t[Depth - 1].at \notin Requests \cup Walks
    BY <1>3, <2>1
  <2>3. Serving(t, Depth - 1, buffer)
    <3>1. SUFFICES ASSUME f.at = "sync"
                   PROVE  /\ buffer \in 1..(Depth - 1) - 1
                          /\ f.ret = "success" => t[buffer].reply # "clear"
      BY <1>3 DEF Serving
    <3>2. /\ buffer \in 1..Depth - 2
          /\ f.ret = "success" => stack[buffer].reply # "clear"
      BY <2>1, <3>1
    <3>3. (Depth - 1) - 1 = Depth - 2
      BY <1>1
    <3> QED BY <1>3, <3>2, <3>3
  <2> QED BY <2>2, <2>3 DEF Fated, Sending, Walking
<1>6. Carried(t)
  <2>1. \A i \in 1..Depth - 1 :
          Carries(t[i], stack[i]) /\ (Steady(t[i], stack[i]) \/ Fated(t, i, buffer, status))
    <3>1. \A i \in 1..Depth - 2 : Carries(t[i], stack[i]) /\ Steady(t[i], stack[i])
      BY <1>3 DEF Carries, Steady, Same
    <3>2. Carries(t[Depth - 1], stack[Depth - 1])
      BY <1>3 DEF Caller
    <3>3. \/ Steady(t[Depth - 1], stack[Depth - 1])
          \/ Fated(t, Depth - 1, buffer, status)
      BY <1>3, <1>5 DEF Caller
    <3> QED BY <1>4, <3>1, <3>2, <3>3
  <2> QED BY <1>3, <2>1 DEF Carried, Rest
<1>7. \A i \in Depth..Len(t) : Quiet(t, i)
  BY <1>1, <1>3
<1>8. Asked(t, buffer, size, legacy, status)
  BY <1>6, <1>7, AskedKept
<1> QED BY <1>2, <1>8 DEF Asking

\* A handler returns, and has not left the caller of Communicate without an answer.
LEMMA HandlerQuiet ==
  ASSUME TypedStack, Control, Requested, Depth > 1, Top.at \in HandlerLabels,
         NEW ret \in Statuses, NEW reply \in Replies, reply # "clear", HandlerReturns(ret, reply)
  PROVE  Asking
<1>1. /\ stack # <<>> /\ Depth \in Nat /\ Caller.at = "managing" /\ Top.up = Caller.up
      /\ DOMAIN stack = 1..Depth /\ \A i \in 1..Depth : stack[i] \in Frames
  <2>1. Fits(Caller, Top) /\ stack # <<>> /\ Depth \in Nat
    BY ControlFacts
  <2>2. DOMAIN stack = 1..Depth /\ \A i \in 1..Depth : stack[i] \in Frames
    BY DEF TypedStack
  <2> QED BY <2>1, <2>2 DEF Fits
<1>2. Depth - 1 \in 1..Depth /\ Depth - 1 \in 1..Depth - 1 /\ Caller = stack[Depth - 1]
  BY <1>1 DEF Caller
<1>3. Caller.up \in Nat /\ Caller.up < Depth - 1
  BY <1>1, <1>2, WalkUp DEF Walks
<1>4. PICK t : t = stack'
  OBVIOUS
<1>5. t = [i \in 1..Depth - 1 |->
               IF i = Depth - 1 THEN [stack[i] EXCEPT !.ret = ret]
               ELSE IF i = Top.up THEN [stack[i] EXCEPT !.reply = reply]
               ELSE stack[i]]
  BY <1>4 DEF HandlerReturns
<1>6. Rest(t) /\ Len(t) = Depth - 1
  BY <1>5, HandlerDone
<1>7. ASSUME NEW i \in 1..Depth - 1
      PROVE  /\ Carries(t[i], stack[i])
             /\ i # Depth - 1 => Steady(t[i], stack[i])
             /\ i = Top.up /\ i # Depth - 1 => t[i].reply # "clear"
  <2>1. stack[i] \in Frames
    BY <1>1, Below
  <2>2. Same(t[i], stack[i])
    BY <1>6 DEF Rest
  <2>3. CASE i = Depth - 1
    <3>1. t[i] = [stack[i] EXCEPT !.ret = ret]
      BY <1>5, <2>3
    <3>2. t[i].reply = stack[i].reply
      BY <2>1, <3>1 DEF Frames
    <3> QED BY <2>2, <2>3, <3>2 DEF Carries
  <2>4. CASE i # Depth - 1 /\ i = Top.up
    <3>1. t[i] = [stack[i] EXCEPT !.reply = reply]
      BY <1>5, <2>4
    <3>2. t[i].reply = reply /\ t[i].n = stack[i].n /\ t[i].ret = stack[i].ret
      BY <2>1, <3>1 DEF Frames
    <3> QED BY <2>2, <2>4, <3>2 DEF Carries, Steady
  <2>5. CASE i # Depth - 1 /\ i # Top.up
    <3>1. t[i] = stack[i]
      BY <1>5, <2>5
    <3> QED BY <2>2, <2>5, <3>1 DEF Carries, Steady
  <2> QED BY <2>3, <2>4, <2>5
<1>8. Fated(t, Depth - 1, buffer, status)
  <2>1. t[Depth - 1].at = "managing" /\ t[Depth - 1].up = Caller.up
    BY <1>1, <1>2, <1>6 DEF Rest, Same
  <2>2. Caller.up # 0 => t[Caller.up].reply # "clear"
    <3>1. Caller.up # 0 => Caller.up \in 1..Depth - 1 /\ Caller.up # Depth - 1
      BY <1>1, <1>3
    <3> QED BY <1>1, <1>7, <3>1
  <2> QED BY <2>1, <2>2 DEF Fated, Alone, Sending, Serving, Walking, Requests
<1>9. Carried(t)
  <2>1. t \in Seq(Frames) /\ Len(t) >= Depth - 1
    BY <1>6 DEF Rest
  <2> QED BY <1>7, <1>8, <2>1 DEF Carried
<1>10. \A i \in Depth..Len(t) : Quiet(t, i)
  BY <1>1, <1>6
<1>11. Top.at \notin Requests \cup {"entry", "sync"}
  BY DEF HandlerLabels, Requests
<1>12. Asked(t, buffer, size, legacy, status)
  BY <1>9, <1>10, <1>11, AskedKept
<1> QED BY <1>4, <1>12 DEF Asking

LEMMA AskedHeld ==
  ASSUME Asked(stack', buffer', size', legacy', status')
  PROVE  Requested'
BY DEF Requested

LEMMA AskingHeld ==
  ASSUME Asking, buffer' = buffer, size' = size, status' = status, legacy' = legacy
  PROVE  Requested'
BY DEF Asking, Requested

LEMMA AskedUnmoved ==
  ASSUME Requested, stack' = stack, buffer' = buffer, size' = size, status' = status,
         legacy' = legacy
  PROVE  Requested'
BY DEF Requested

LEMMA Relabelled ==
  ASSUME NEW f \in Frames, NEW l \in Labels, NEW g, g = [f EXCEPT !.at = l]
  PROVE  /\ g \in Frames /\ g.at = l /\ g.type = f.type /\ g.up = f.up /\ g.who = f.who
         /\ g.n = f.n /\ (g.flag <=> f.flag) /\ g.reply = f.reply /\ g.ret = f.ret
BY DEF Frames

\* A message that has just been posted.
LEMMA MessageQuiet ==
  ASSUME ~legacy, NEW type \in CoreTypes \cup UserTypes, NEW c, c = Communicate(type)
  PROVE  c \in Frames /\ Quieted(c)
<1>1. "communicate" \in Labels /\ type \in Types \cup Events \cup {NoType}
  BY DEF Labels, Types
<1>2. c \in Frames /\ c.at = "communicate" /\ c.n = 0 /\ c.ret = "none"
  BY <1>1, FrameIs DEF Communicate
<1> QED BY <1>2 DEF Quieted, Alone, Believes, Walks, Requests

\* What the dispatcher, drivers and notification functions do.
Working == {"find", "drain", "start", "calls", "started", "notify", "again"}

LEMMA WorkingTop ==
  ASSUME TypedStack, Control, Requested, Top.at \in Working
  PROVE  /\ ~legacy /\ Top.at \notin Requests \cup {"entry", "sync"}
         /\ Top \in Frames /\ Shape(Top) /\ Depth > 1 /\ Caller \in Frames
<1>1. Top.at \notin LegacyLabels /\ Top.at \notin Requests \cup {"entry", "sync"} /\ Top.at # "dxe"
  BY DEF Working, LegacyLabels, Requests, Entries, Walks
<1> QED BY <1>1, NoLegacy, ControlFacts

LEMMA WorkingSilent ==
  ASSUME NEW f, f.at \in Working \cup {"dxe", "notified", "lock", "legacy", "enddxe", "handler"},
         ~legacy
  PROVE  Quieted(f)
BY SilentIs DEF Working, Silent, Requests, Entries, Walks

LEMMA FindVolumeAsked ==
  ASSUME CoreAssumption, DataOK, TypedStack, Control, Requested, FindVolume
  PROVE  Requested'
<1>1. Top.at = "find" /\ Top.at \in Working
  BY DEF FindVolume, At, Working
<1>2. ~legacy /\ Top.at \notin Requests \cup {"entry", "sync"} /\ Top \in Frames
  BY <1>1, WorkingTop
<1>3. PICK k \in Nat \ {0} : Become([Top EXCEPT !.n = k])
  BY FindVolumeGoesOn
<1>4. PICK f : f = [Top EXCEPT !.n = k]
  OBVIOUS
<1>5. f \in Frames /\ f.at = "find"
  BY <1>1, <1>2, <1>4 DEF Frames
<1>6. Quieted(f)
  BY <1>2, <1>5, WorkingSilent DEF Working
<1>7. Asking
  BY <1>2, <1>3, <1>4, <1>5, <1>6, BecomeQuiet
<1> QED BY <1>7, AskingHeld DEF FindVolume, private

LEMMA DispatcherBeginsAsked ==
  ASSUME DataOK, TypedStack, Control, Requested, DispatcherBegins
  PROVE  Requested'
<1>1. Top.at = "find" /\ Top.at \in Working /\ Top.at \in HandlerLabels
  BY DEF DispatcherBegins, At, Working, HandlerLabels
<1>2. ~legacy /\ Top.at \notin Requests \cup {"entry", "sync"} /\ Top \in Frames /\ Depth > 1
  BY <1>1, WorkingTop
<1>3. CASE request /\ ~running
  <2>1. PICK f : f = [Top EXCEPT !.at = "drain"]
    OBVIOUS
  <2>2. f \in Frames /\ f.at = "drain"
    BY <1>2, <2>1 DEF Frames, Labels
  <2>3. Quieted(f)
    BY <1>2, <2>2, WorkingSilent DEF Working
  <2>4. Become(f)
    BY <1>3, <2>1 DEF DispatcherBegins
  <2>5. Asking
    BY <1>2, <2>2, <2>3, <2>4, BecomeQuiet
  <2> QED BY <2>5, AskingHeld DEF DispatcherBegins, private
<1>4. CASE ~(request /\ ~running)
  <2>1. "success" \in Statuses /\ "error" \in Replies /\ "error" # "clear"
    BY DEF Statuses, Replies
  <2>2. HandlerReturns("success", "error")
    BY <1>4 DEF DispatcherBegins
  <2>3. Asking
    BY <1>1, <1>2, <2>1, <2>2, HandlerQuiet
  <2> QED BY <2>3, AskingHeld DEF DispatcherBegins, private
<1> QED BY <1>3, <1>4

LEMMA DrainAsked ==
  ASSUME DataOK, TypedStack, Control, Requested, Drain
  PROVE  Requested'
<1>1. Top.at \in Working
  BY DEF Drain, At, Working
<1>2. ~legacy /\ Top.at \notin Requests \cup {"entry", "sync"} /\ Top \in Frames
  BY <1>1, WorkingTop
<1>3. CASE stack' = stack
  BY <1>3, AskedUnmoved DEF Drain, private
<1>4. CASE stack' # stack
  <2>1. PICK d : d = Head(scheduled)
    OBVIOUS
  <2>2. d \in Drivers
    <3>1. scheduled \in Seq(Drivers) /\ scheduled # <<>>
      BY DEF DataOK, Drain
    <3> QED BY <2>1, <3>1, HeadTailProperties
  <2>3. PICK g : g = Frame("start", NoType)
    OBVIOUS
  <2>4. g \in Frames /\ g.at = "start"
    <3>1. "start" \in Labels /\ NoType \in Types \cup Events \cup {NoType}
      BY DEF Labels
    <3> QED BY <2>3, <3>1, FrameIs
  <2>5. PICK c : c = [g EXCEPT !.who = d, !.flag = entry]
    OBVIOUS
  <2>6. c \in Frames /\ c.at = "start"
    <3>1. entry \in BOOLEAN
      BY DEF DataOK
    <3> QED BY <2>2, <2>4, <2>5, <3>1 DEF Frames
  <2>7. Call(Top, c)
    BY <1>4, <2>1, <2>3, <2>5 DEF Drain
  <2>8. Quieted(c) /\ Quieted(Top)
    BY <1>1, <1>2, <2>6, WorkingSilent DEF Working
  <2>9. Asking
    BY <1>2, <2>6, <2>7, <2>8, CallQuiet
  <2> QED BY <2>9, AskingHeld DEF Drain, private
<1> QED BY <1>3, <1>4

LEMMA StartDriverAsked ==
  ASSUME DataOK, TypedStack, Control, Requested, StartDriver
  PROVE  Requested'
<1>1. Top.at \in Working
  BY DEF StartDriver, At, Working
<1>2. ~legacy /\ Top.at \notin Requests \cup {"entry", "sync"} /\ Top \in Frames
  BY <1>1, WorkingTop
<1>3. PICK l \in {"started", "calls"} : Become([Top EXCEPT !.at = l])
  BY DEF StartDriver
<1>4. PICK f : f = [Top EXCEPT !.at = l]
  OBVIOUS
<1>5. f \in Frames /\ f.at = l
  <2>1. l \in Labels
    BY DEF Labels
  <2> QED BY <1>2, <1>4, <2>1, Relabelled
<1>6. Quieted(f)
  BY <1>2, <1>5, WorkingSilent DEF Working
<1>7. Asking
  BY <1>2, <1>3, <1>4, <1>5, <1>6, BecomeQuiet
<1> QED BY <1>7, AskingHeld DEF StartDriver, private

LEMMA PostsAsked ==
  ASSUME TypedStack, Control, Requested, Top.at \notin Requests \cup {"entry", "sync"}, ~legacy,
         NEW f \in Frames, f.at \in Working \cup {"dxe", "notified"},
         NEW type \in CoreTypes \cup UserTypes, Call(f, Communicate(type))
  PROVE  Asking
<1>1. PICK c : c = Communicate(type)
  OBVIOUS
<1>2. c \in Frames /\ Quieted(c)
  BY <1>1, MessageQuiet
<1>3. Quieted(f)
  BY WorkingSilent
<1> QED BY <1>1, <1>2, <1>3, CallQuiet

LEMMA StartCallsAsked ==
  ASSUME CoreAssumption, DataOK, TypedStack, Control, Requested, StartCalls
  PROVE  Requested'
<1>1. Top.at = "calls" /\ Top.at \in Working
  BY DEF StartCalls, At, Working
<1>2. ~legacy /\ Top.at \notin Requests \cup {"entry", "sync"} /\ Top \in Frames /\ Shape(Top)
  BY <1>1, WorkingTop
<1>3. PICK f : f = [Top EXCEPT !.at = "started"]
  OBVIOUS
<1>4. f \in Frames /\ f.at = "started"
  <2>1. "started" \in Labels
    BY DEF Labels
  <2> QED BY <1>2, <1>3, <2>1, Relabelled
<1>5. PICK type : type = Calls[Top.who]
  OBVIOUS
<1>6. type \in CoreTypes \cup UserTypes
  <2>1. Top.who \in Drivers /\ Calls[Top.who] # NoType
    BY <1>1, <1>2 DEF Shape, Starting
  <2> QED BY <1>5, <2>1 DEF CoreAssumption
<1>7. Call(f, Communicate(type))
  BY <1>3, <1>5 DEF StartCalls
<1>8. Asking
  BY <1>2, <1>4, <1>6, <1>7, PostsAsked DEF Working
<1> QED BY <1>8, AskingHeld DEF StartCalls, private

LEMMA NotifiedAsked ==
  ASSUME TypedStack, Control, Requested, Top.at = "notify", NEW l \in {"again", "notified"},
         NEW type \in CoreTypes, Call([Top EXCEPT !.at = l], Communicate(type))
  PROVE  Asking
<1>1. Top.at \in Working
  BY DEF Working
<1>2. ~legacy /\ Top.at \notin Requests \cup {"entry", "sync"} /\ Top \in Frames
  BY <1>1, WorkingTop
<1>3. PICK f : f = [Top EXCEPT !.at = l]
  OBVIOUS
<1>4. f \in Frames /\ f.at = l
  <2>1. l \in Labels
    BY DEF Labels
  <2> QED BY <1>2, <1>3, <2>1, Relabelled
<1>5. Call(f, Communicate(type)) /\ type \in CoreTypes \cup UserTypes
  BY <1>3
<1> QED BY <1>2, <1>4, <1>5, PostsAsked DEF Working

LEMMA NotifyPostsAsked ==
  ASSUME TypedStack, Control, Requested, NotifyPosts
  PROVE  Requested'
<1>1. Top.at = "notify" /\ Top.type \notin {"lock", "boot"}
  BY DEF NotifyPosts, At
<1>2. Top.type \in CoreTypes
  <2>1. Shape(Top)
    BY ControlFacts
  <2> QED BY <1>1, <2>1 DEF Shape, Notifying, Events
<1>3. PICK l \in {"again", "notified"} : Call([Top EXCEPT !.at = l], Communicate(Top.type))
  BY DEF NotifyPosts
<1>4. PICK type \in CoreTypes : type = Top.type
  BY <1>2
<1>5. Asking
  BY <1>1, <1>3, <1>4, NotifiedAsked
<1> QED BY <1>5, AskingHeld DEF NotifyPosts, private

\* A function returns, and its caller is told nothing.
LEMMA ReturnsAsked ==
  ASSUME TypedStack, Control, Requested, Depth > 1, Top.at \notin Requests \cup {"entry", "sync"},
         Return(Caller)
  PROVE  Asking
<1>1. Caller \in Frames /\ Carries(Caller, Caller) /\ Steady(Caller, Caller)
  BY ControlFacts DEF Carries, Steady, Same
<1> QED BY <1>1, ReturnQuiet

LEMMA NotifyLocksAsked ==
  ASSUME TypedStack, Control, Requested, NotifyLocks
  PROVE  Requested'
<1>1. Top.at = "notify" /\ Top.at \in Working
  BY DEF NotifyLocks, At, Working
<1>2. Top.at \notin Requests \cup {"entry", "sync"} /\ Depth > 1
  BY <1>1, WorkingTop
<1>3. Asking
  <2>1. CASE mSmmLocked
    <3>1. Return(Caller)
      BY <2>1 DEF NotifyLocks
    <3> QED BY <1>2, <3>1, ReturnsAsked
  <2>2. CASE ~mSmmLocked
    <3>1. Call([Top EXCEPT !.at = "notified"], Communicate("lock"))
      BY <2>2 DEF NotifyLocks
    <3>2. "lock" \in CoreTypes
      BY DEF CoreTypes
    <3> QED BY <1>1, <3>1, <3>2, NotifiedAsked
  <2> QED BY <2>1, <2>2
<1> QED BY <1>3, AskingHeld DEF NotifyLocks, private

LEMMA DispatchAgainAsked ==
  ASSUME TypedStack, Control, Requested, DispatchAgain
  PROVE  Requested'
<1>1. Top.at \in Working
  BY DEF DispatchAgain, At, Working
<1>2. /\ ~legacy /\ Top.at \notin Requests \cup {"entry", "sync"} /\ Depth > 1
      /\ Top \in Frames
  BY <1>1, WorkingTop
<1>3. Asking
  <2>1. CASE Top.reply = "restart"
    <3>1. PICK f : f = [Top EXCEPT !.at = "notify", !.reply = "clear"]
      OBVIOUS
    <3>2. f \in Frames /\ f.at = "notify"
      BY <1>2, <3>1 DEF Frames, Labels, Replies
    <3>3. Become(f) /\ Quieted(f)
      BY <1>2, <2>1, <3>1, <3>2, WorkingSilent DEF DispatchAgain, Working
    <3> QED BY <1>2, <3>2, <3>3, BecomeQuiet
  <2>2. CASE Top.reply # "restart"
    <3>1. Return(Caller)
      BY <2>2 DEF DispatchAgain
    <3> QED BY <1>2, <3>1, ReturnsAsked
  <2> QED BY <2>1, <2>2
<1> QED BY <1>3, AskingHeld DEF DispatchAgain, private

\* DXE code calls Communicate, or an event of it is signalled.
LEMMA DxeAsked ==
  ASSUME TypedStack, Control, Requested, Dxe,
         \/ \E type \in UserTypes : Call(Top, Communicate(type))
         \/ \E event \in Events : Call(Top, Frame("notify", event))
  PROVE  Asking
<1>1. ~legacy /\ Top.at = "dxe" /\ Top \in Frames /\ Top.at \notin Requests \cup {"entry", "sync"}
  BY ControlFacts DEF Dxe, At, Requests
<1>2. CASE \E type \in UserTypes : Call(Top, Communicate(type))
  <2>1. PICK type \in UserTypes : Call(Top, Communicate(type))
    BY <1>2
  <2>2. type \in CoreTypes \cup UserTypes
    BY <2>1
  <2> QED BY <1>1, <2>1, <2>2, PostsAsked
<1>3. CASE \E event \in Events : Call(Top, Frame("notify", event))
  <2>1. PICK event \in Events : Call(Top, Frame("notify", event))
    BY <1>3
  <2>2. PICK c : c = Frame("notify", event)
    OBVIOUS
  <2>3. c \in Frames /\ c.at = "notify"
    <3>1. "notify" \in Labels /\ event \in Types \cup Events \cup {NoType}
      BY DEF Labels
    <3> QED BY <2>2, <3>1, FrameIs
  <2>4. Quieted(c) /\ Quieted(Top)
    BY <1>1, <2>3, WorkingSilent DEF Working
  <2> QED BY <1>1, <2>1, <2>2, <2>3, <2>4, CallQuiet
<1> QED BY <1>2, <1>3

LEMMA EndsAsked ==
  ASSUME TypedStack, Control, Requested, Answered \/ StartEnds \/ NotifyEnds \/ EntryEnds
  PROVE  Requested'
<1>1. /\ Depth > 1 /\ Caller \in Frames /\ Top \in Frames /\ Fits(Caller, Top)
      /\ Top.at \in {"answered", "started", "notified", "root"}
  BY ControlFacts DEF Answered, StartEnds, NotifyEnds, EntryEnds, At
<1>2. Top.at \notin Requests \cup {"entry", "sync"}
  BY <1>1 DEF Requests
<1>3. Asking
  <2>1. CASE Answered
    <3>1. PICK f : f = [Caller EXCEPT !.reply = Top.reply]
      OBVIOUS
    <3>2. Top.at = "answered" /\ Return(f)
      BY <2>1, <3>1 DEF Answered, At
    <3>3. Caller.at \notin Posting
      BY <1>1, <3>2 DEF Fits, Posting, Requests
    <3>4. /\ f \in Frames /\ Same(f, Caller) /\ Steady(f, Caller)
      BY <1>1, <3>1 DEF Frames, Same, Steady
    <3>5. Carries(f, Caller)
      BY <3>3, <3>4 DEF Carries
    <3> QED BY <1>1, <1>2, <3>2, <3>4, <3>5, ReturnQuiet
  <2>2. CASE StartEnds
    <3>1. PICK r \in {"entered", "none"} : Return([Caller EXCEPT !.ret = r])
      BY <2>2 DEF StartEnds
    <3>2. PICK f : f = [Caller EXCEPT !.ret = r]
      OBVIOUS
    <3>3. Caller.at = "drain"
      BY <1>1, <2>2 DEF StartEnds, At, Fits, Starting
    <3>4. /\ f \in Frames /\ Same(f, Caller) /\ f.reply = Caller.reply /\ f.at = "drain"
      BY <1>1, <3>2, <3>3 DEF Frames, Same, Statuses
    <3>5. Carries(f, Caller)
      BY <3>4 DEF Carries
    <3>6. Alone(f) /\ f.at \notin Requests \cup Walks /\ f.at # "sync"
      BY <3>4 DEF Alone, Requests, Walks
    <3> QED BY <1>1, <1>2, <3>1, <3>2, <3>4, <3>5, <3>6, ReturnQuiet
  <2>3. CASE NotifyEnds \/ EntryEnds
    BY <1>1, <1>2, <2>3, ReturnsAsked DEF NotifyEnds, EntryEnds
  <2> QED BY <2>1, <2>2, <2>3
<1>4. buffer' = buffer /\ size' = size /\ status' = status /\ legacy' = legacy
  BY DEF Answered, StartEnds, NotifyEnds, EntryEnds, private
<1> QED BY <1>3, <1>4, AskingHeld

\* What has become of the message of the frame on top, and of its caller.
LEMMA TopFated ==
  ASSUME TypedStack, Control, Requested
  PROVE  /\ Fated(stack, Depth, buffer, status)
         /\ Depth > 1 => Fated(stack, Depth - 1, buffer, status)
         /\ legacy => LegacyFrame(Top)
<1>1. Depth \in 1..Depth /\ Depth \in Nat \ {0}
  BY ControlFacts
<1>2. Fate(stack, buffer, status) /\ InLegacy(stack, buffer, legacy)
  BY DEF Requested, Asked
<1>3. Depth > 1 => Depth - 1 \in 1..Depth
  BY <1>1
<1>4. legacy => LegacyFrame(Top)
  BY <1>1, <1>2 DEF InLegacy, LegacyFrame, Top
<1> QED BY <1>1, <1>2, <1>3, <1>4 DEF Fate

LEMMA RefuseAsked ==
  ASSUME DataOK, TypedStack, Control, Requested, Refuse
  PROVE  Requested'
<1>1. Top.at = "communicate" /\ Top \in Frames /\ Top.at \notin Requests \cup {"entry", "sync"}
  BY ControlFacts DEF Refuse, At, Requests
<1>2. ~legacy
  BY <1>1, NoLegacy DEF LegacyLabels, Requests, Entries, Walks
<1>3. PICK f : f = [Top EXCEPT !.at = "answered", !.ret = "invalid"]
  OBVIOUS
<1>4. f \in Frames /\ f.at = "answered" /\ f.ret = "invalid"
  BY <1>1, <1>3 DEF Frames, Labels, Statuses
<1>5. Quieted(f)
  BY <1>2, <1>4 DEF Quieted, Alone, Believes, Walks, Requests
<1>6. Become(f)
  BY <1>3 DEF Refuse
<1>7. Asking
  BY <1>1, <1>4, <1>5, <1>6, BecomeQuiet
<1> QED BY <1>7, AskingHeld DEF Refuse, private

LEMMA DirectAsked ==
  ASSUME DataOK, TypedStack, Control, Requested, Direct
  PROVE  Requested'
<1>1. /\ Top.at = "communicate" /\ Top \in Frames /\ Top.at \notin Requests \cup {"entry", "sync"}
      /\ Shape(Top) /\ Depth \in Nat
  BY ControlFacts DEF Direct, At, Requests
<1>2. ~legacy
  BY <1>1, NoLegacy DEF LegacyLabels, Requests, Entries, Walks
<1>3. Top.n = 0 /\ Top.ret = "none"
  <2>1. Alone(Top)
    BY TopFated DEF Fated, Top
  <2> QED BY <1>1, <2>1 DEF Alone
<1>4. PICK f : f = Dispatched
  OBVIOUS
<1>5. f \in Frames /\ f.at = "direct" /\ f.n = 1 /\ f.ret = "none"
  <2>1. inSmm \in BOOLEAN
    BY DEF DataOK
  <2>2. f = [Top EXCEPT !.at = "direct", !.flag = inSmm, !.n = 1]
    BY <1>1, <1>3, <1>4 DEF Dispatched, Frames
  <2> QED BY <1>1, <1>3, <2>1, <2>2 DEF Frames, Labels
<1>6. PICK c : c = Conveying(Top.type, Depth)
  OBVIOUS
<1>7. c \in Frames /\ c.at = "manage" /\ ~c.flag /\ c.ret = "none"
  <2>1. PICK type \in Types, up \in Nat : type = Top.type /\ up = Depth
    BY <1>1 DEF Shape, Posting, Types
  <2>2. c = Conveying(type, up)
    BY <1>6, <2>1
  <2> QED BY <2>1, <2>2, ManageIs
<1>8. Quieted(f) /\ Quieted(c)
  BY <1>2, <1>5, <1>7 DEF Quieted, Alone, Believes, Walks, Requests
<1>9. Call(f, c)
  BY <1>4, <1>6 DEF Direct, Dispatched, Conveying, Manage
<1>10. Asking
  BY <1>1, <1>5, <1>7, <1>8, <1>9, CallQuiet
<1> QED BY <1>10, AskingHeld DEF Direct

LEMMA DirectEndsAsked ==
  ASSUME DataOK, TypedStack, Control, Requested, DirectEnds
  PROVE  Requested'
<1>1. /\ Top.at = "direct" /\ Top \in Frames /\ Top.at \notin Requests \cup {"entry", "sync"}
  BY ControlFacts DEF DirectEnds, At, Requests
<1>2. Top.n = 1 /\ (Top.ret = "success" => Top.reply # "clear")
  <2>1. Alone(Top)
    BY TopFated DEF Fated, Top
  <2> QED BY <1>1, <2>1 DEF Alone
<1>3. PICK r : r = IF Top.ret = "success" THEN "success" ELSE "notfound"
  OBVIOUS
<1>4. PICK f : f = [Top EXCEPT !.at = "answered", !.flag = FALSE, !.ret = r]
  OBVIOUS
<1>5. f \in Frames /\ f.at = "answered" /\ f.ret = r /\ f.n = Top.n /\ f.reply = Top.reply
  <2>1. r \in Statuses
    BY <1>3 DEF Statuses
  <2> QED BY <1>1, <1>4, <2>1 DEF Frames, Labels
<1>6. Become(f)
  <2>1. Become([Top EXCEPT !.at = "answered", !.flag = FALSE,
                           !.ret = IF @ = "success" THEN "success" ELSE "notfound"])
    BY DEF DirectEnds
  <2>2. [Top EXCEPT !.at = "answered", !.flag = FALSE,
                    !.ret = IF @ = "success" THEN "success" ELSE "notfound"] = f
    BY <1>1, <1>3, <1>4 DEF Frames
  <2> QED BY <2>1, <2>2
<1>7. Quieted(f)
  <2>1. r = "success" => f.reply # "clear"
    BY <1>2, <1>3, <1>5
  <2>2. LegacyFrame(f) /\ f.at \notin Requests \cup {"sync", "root"} /\ f.at \notin Walks
    BY <1>5 DEF LegacyFrame, LegacyLabels, Walks, Requests
  <2> QED BY <1>2, <1>5, <2>1, <2>2 DEF Quieted, Alone, Believes
<1>8. Asking
  BY <1>1, <1>5, <1>6, <1>7, BecomeQuiet
<1> QED BY <1>8, AskingHeld DEF DirectEnds

\* A walk over a list tells its caller what came of it.
LEMMA WalkTells ==
  ASSUME TypedStack, Control, Requested, Top.at \in Walks, NEW r \in Statuses,
         r = "success" => Top.flag \/ Top.ret \in {"success", "quiesced"},
         Return([Caller EXCEPT !.ret = r])
  PROVE  Asking
<1>1. /\ Depth > 1 /\ Depth \in Nat /\ Caller \in Frames /\ Fits(Caller, Top)
      /\ Top.at \notin Requests \cup {"entry", "sync"}
  BY ControlFacts DEF Walks, Requests
<1>2. Caller.at \in {"direct", "sync", "root"}
  BY <1>1 DEF Fits
<1>3. Fated(stack, Depth, buffer, status) /\ Fated(stack, Depth - 1, buffer, status)
  BY <1>1, TopFated
<1>4. r = "success" /\ Top.up # 0 => stack[Top.up].reply # "clear"
  BY <1>3 DEF Fated, Walking, Top
<1>5. /\ Caller.at = "direct" => Top.up = Depth - 1
      /\ Caller.at = "sync" => Top.up = buffer
  <2>1. Conveyed(stack, buffer)
    BY DEF Control, Controlled
  <2>2. Depth - 1 \in 1..Depth - 1 /\ (Depth - 1) + 1 = Depth
    BY <1>1
  <2>3. \A i \in 1..Depth - 1 : i + 1 = Depth =>
          /\ stack[i].at = "direct" => Top.up = i
          /\ stack[i].at = "sync" => Top.up = buffer
    BY <2>1 DEF Conveyed, Top
  <2> QED BY <2>2, <2>3 DEF Caller
<1>6. PICK f : f = [Caller EXCEPT !.ret = r]
  OBVIOUS
<1>7. /\ f \in Frames /\ Same(f, Caller) /\ f.at = Caller.at /\ f.n = Caller.n
      /\ f.reply = Caller.reply /\ f.ret = r
  BY <1>1, <1>6 DEF Frames, Same
<1>8. Carries(f, Caller)
  BY <1>7 DEF Carries
<1>9. Alone(f)
  <2>1. CASE Caller.at = "direct"
    <3>1. Caller.n = 1
      BY <1>3, <2>1 DEF Fated, Alone, Caller
    <3>2. r = "success" => Caller.reply # "clear"
      <4>0. \A k \in Nat : k > 1 => k - 1 # 0
        OBVIOUS
      <4>1. Depth - 1 # 0
        BY <1>1, <4>0
      <4> QED BY <1>4, <1>5, <2>1, <4>1 DEF Caller
    <3> QED BY <1>7, <2>1, <3>1, <3>2 DEF Alone
  <2>2. CASE Caller.at \in {"sync", "root"}
    BY <1>7, <2>2 DEF Alone
  <2> QED BY <1>2, <2>1, <2>2
<1>10. f.at = "sync" => /\ buffer \in 1..Depth - 2
                        /\ f.ret = "success" => stack[buffer].reply # "clear"
  <2>1. SUFFICES ASSUME Caller.at = "sync"
                 PROVE  /\ buffer \in 1..Depth - 2
                        /\ r = "success" => stack[buffer].reply # "clear"
    BY <1>7
  <2>2. buffer \in 1..(Depth - 1) - 1
    BY <1>3, <2>1 DEF Fated, Serving, Caller
  <2>3. buffer \in 1..Depth - 2 /\ buffer # 0
    BY <1>1, <2>2
  <2> QED BY <1>4, <1>5, <2>1, <2>3
<1>11. f.at \notin Requests \cup Walks
  BY <1>2, <1>7 DEF Requests, Walks
<1>12. Return(f)
  BY <1>6
<1> QED BY <1>1, <1>7, <1>8, <1>9, <1>10, <1>11, <1>12, ReturnQuiet

\* A walk goes on, with the frame of the next handler on top.
LEMMA WalkCallsQuiet ==
  ASSUME Drivers \cap CoreTypes = {}, TypedStack, Control, Requested, Top.at \in Walks,
         NEW h \in Keepers(Top.type), NEW f \in Frames, f.at = "managing",
         f.type = Top.type, f.up = Top.up,
         f.flag \/ f.ret \in {"success", "quiesced"} =>
           Top.flag \/ Top.ret \in {"success", "quiesced"},
         Call(f, HandlerFrame(h, Top.up))
  PROVE  Asking
<1>1. /\ Top \in Frames /\ Shape(Top) /\ Depth > 1 /\ Depth \in Nat /\ Depth \in 1..Depth
      /\ Top.at \notin Requests \cup {"entry", "sync"}
  BY ControlFacts DEF Walks, Requests
<1>2. Top.type \in Types /\ Top.up \in Nat
  BY <1>1 DEF Shape, Frames
<1>3. PICK c : c = HandlerFrame(h, Top.up)
  OBVIOUS
<1>4. /\ c \in Frames
      /\ IF Top.type \in CoreTypes THEN c.at = CoreHandlers[Top.type]
         ELSE c.at = "handler" /\ h \in Drivers
  <2>1. PICK type \in Types, up \in Nat : type = Top.type /\ up = Top.up
    BY <1>2
  <2>2. h \in Keepers(type) /\ c = HandlerFrame(h, up)
    BY <1>3, <2>1
  <2>3. /\ c \in Frames
        /\ IF type \in CoreTypes THEN c.at = CoreHandlers[type]
           ELSE c.at = "handler" /\ h \in Drivers
    BY <2>2, HandlerIs
  <2> QED BY <2>1, <2>3
<1>5. Fated(stack, Depth, buffer, status) /\ (legacy => LegacyFrame(Top))
  BY TopFated
<1>6. Quieted(f)
  <2>1. Alone(f)
    BY DEF Alone
  <2>2. Believes(f)
    <3>1. SUFFICES ASSUME f.up # 0, f.flag \/ f.ret \in {"success", "quiesced"}
                   PROVE  f.up \in 1..Depth - 1 /\ stack[f.up].reply # "clear"
      BY DEF Believes
    <3>2. stack[Top.up].reply # "clear"
      BY <1>5, <3>1 DEF Fated, Walking, Top
    <3>3. Top.up < Depth
      <4>1. \A i \in 1..Depth : stack[i].at \in Walks => stack[i].up < i
        BY WalkUp
      <4> QED BY <1>1, <4>1 DEF Top
    <3>4. Top.up \in 1..Depth - 1
      BY <1>1, <1>2, <3>1, <3>3
    <3> QED BY <3>2, <3>4
  <2>3. f.at \notin Requests \cup {"sync", "root"}
    BY DEF Requests
  <2>4. legacy => LegacyFrame(f)
    BY <1>5 DEF LegacyFrame, LegacyLabels, Walks
  <2> QED BY <2>1, <2>2, <2>3, <2>4 DEF Quieted
<1>7. Quieted(c)
  <2>1. c.at \in {"handler", "find", "lock", "legacy", "enddxe"}
    BY <1>4 DEF CoreHandlers, CoreTypes
  <2>2. Silent(c)
    BY <2>1 DEF Silent, Requests, Entries, Walks
  <2>3. ~legacy \/ c.at \in LegacyLabels
    <3>1. SUFFICES ASSUME legacy
                   PROVE  c.at \in LegacyLabels
      OBVIOUS
    <3>2. Top.type = "legacy" \/ Top.type = "root"
      BY <1>5, <3>1 DEF LegacyFrame
    <3>3. c.at = "legacy" \/ c.at = "handler"
      BY <1>4, <3>2 DEF CoreHandlers, CoreTypes
    <3> QED BY <3>3 DEF LegacyLabels
  <2> QED BY <2>2, <2>3, SilentIs
<1>8. Call(f, c)
  BY <1>3
<1> QED BY <1>1, <1>4, <1>6, <1>7, <1>8, CallQuiet

LEMMA ManageBeginsAsked ==
  ASSUME Drivers \cap CoreTypes = {}, DataOK, TypedStack, Control, Requested, ManageBegins
  PROVE  Requested'
<1>1. Top.at = "manage" /\ Top.at \in Walks /\ Top \in Frames /\ Shape(Top)
  BY ControlFacts DEF ManageBegins, At, Walks
<1>2. Asking
  <2>1. CASE handlers[Top.type] = <<>>
    <3>1. Return([Caller EXCEPT !.ret = "notfound"])
      BY <2>1 DEF ManageBegins
    <3>2. "notfound" \in Statuses
      BY DEF Statuses
    <3> QED BY <1>1, <3>1, <3>2, WalkTells
  <2>2. CASE handlers[Top.type] # <<>>
    <3>1. PICK h : h = Head(handlers[Top.type])
      OBVIOUS
    <3>2. handlers[Top.type] \in Seq(Keepers(Top.type))
      BY <1>1 DEF Shape, DataOK
    <3>3. h \in Keepers(Top.type)
      BY <2>2, <3>1, <3>2, HeadTailProperties
    <3>4. PICK f : f = [Top EXCEPT !.at = "managing", !.who = h]
      OBVIOUS
    <3>5. h \in CoreTypes \cup Drivers
      BY <3>3 DEF Keepers
    <3>6. /\ f \in Frames /\ f.at = "managing" /\ f.type = Top.type /\ f.up = Top.up
          /\ (f.flag <=> Top.flag) /\ f.ret = Top.ret
      BY <1>1, <3>4, <3>5 DEF Frames, Labels
    <3>7. Call(f, HandlerFrame(h, Top.up))
      BY <2>2, <3>1, <3>4 DEF ManageBegins
    <3> QED BY <1>1, <3>3, <3>6, <3>7, WalkCallsQuiet
  <2> QED BY <2>1, <2>2
<1> QED BY <1>2, AskingHeld DEF ManageBegins, private

LEMMA ManagedAsked ==
  ASSUME Drivers \cap CoreTypes = {}, DataOK, TypedStack, Control, Requested, Managed
  PROVE  Requested'
<1>1. Top.at = "managing" /\ Top.at \in Walks /\ Top \in Frames /\ Shape(Top)
      /\ Top.at \notin Requests \cup {"entry", "sync"}
  BY ControlFacts DEF Managed, At, Walks, Requests
<1>2. PICK good \in BOOLEAN : good = (Top.flag \/ Top.ret \in {"success", "quiesced"})
  OBVIOUS
<1>3. \/ \E r \in Statuses :
            (r = "success" => good) /\ Return([Caller EXCEPT !.ret = r])
      \/ Become([Top EXCEPT !.at = "astray"])
      \/ \E h \in Keepers(Top.type) :
            Call([Top EXCEPT !.who = h, !.flag = good], HandlerFrame(h, Top.up))
  BY <1>2, ManagedDoes
<1>4. Asking
  <2>1. CASE \E r \in Statuses : (r = "success" => good) /\ Return([Caller EXCEPT !.ret = r])
    <3>1. PICK r \in Statuses : (r = "success" => good) /\ Return([Caller EXCEPT !.ret = r])
      BY <2>1
    <3> QED BY <1>1, <1>2, <3>1, WalkTells
  <2>2. CASE Become([Top EXCEPT !.at = "astray"])
    <3>1. PICK f : f = [Top EXCEPT !.at = "astray"]
      OBVIOUS
    <3>2. /\ f \in Frames /\ f.at = "astray" /\ f.type = Top.type /\ f.up = Top.up
          /\ (f.flag <=> Top.flag) /\ f.ret = Top.ret
      BY <1>1, <3>1 DEF Frames
    <3>3. Fated(stack, Depth, buffer, status) /\ (legacy => LegacyFrame(Top))
      BY TopFated
    <3>4. Believes(f)
      <4>1. SUFFICES ASSUME f.up # 0, f.flag \/ f.ret \in {"success", "quiesced"}
                     PROVE  f.up \in 1..Depth - 1 /\ stack[f.up].reply # "clear"
        BY DEF Believes
      <4>2. stack[Top.up].reply # "clear"
        BY <1>1, <3>2, <3>3, <4>1 DEF Fated, Walking, Top
      <4>3. \A i \in 1..Depth : stack[i].at \in Walks => stack[i].up < i
        BY WalkUp
      <4>4. Top.up < Depth /\ Top.up \in Nat /\ Depth \in Nat
        BY <1>1, <4>3, ControlFacts DEF Top, Frames
      <4>5. Top.up \in 1..Depth - 1
        BY <3>2, <4>1, <4>4
      <4> QED BY <3>2, <4>2, <4>5
    <3>5. Alone(f) /\ f.at \notin Requests \cup {"sync", "root"}
      BY <3>2 DEF Alone, Requests
    <3>6. legacy => LegacyFrame(f)
      BY <1>1, <3>2, <3>3 DEF LegacyFrame, LegacyLabels, Walks
    <3>7. Quieted(f)
      BY <3>4, <3>5, <3>6 DEF Quieted
    <3> QED BY <1>1, <2>2, <3>1, <3>2, <3>7, BecomeQuiet
  <2>3. CASE \E h \in Keepers(Top.type) :
               Call([Top EXCEPT !.who = h, !.flag = good], HandlerFrame(h, Top.up))
    <3>1. PICK h \in Keepers(Top.type) :
            Call([Top EXCEPT !.who = h, !.flag = good], HandlerFrame(h, Top.up))
      BY <2>3
    <3>2. PICK f : f = [Top EXCEPT !.who = h, !.flag = good]
      OBVIOUS
    <3>3. h \in CoreTypes \cup Drivers
      BY <3>1 DEF Keepers
    <3>4. /\ f \in Frames /\ f.at = "managing" /\ f.type = Top.type /\ f.up = Top.up
          /\ f.flag = good /\ f.ret = Top.ret
      BY <1>1, <1>2, <3>2, <3>3 DEF Frames
    <3>5. Call(f, HandlerFrame(h, Top.up))
      BY <3>1, <3>2
    <3>6. f.flag \/ f.ret \in {"success", "quiesced"} =>
            Top.flag \/ Top.ret \in {"success", "quiesced"}
      BY <1>2, <3>4
    <3> QED BY <1>1, <3>1, <3>4, <3>5, <3>6, WalkCallsQuiet
  <2> QED BY <1>3, <2>1, <2>2, <2>3
<1> QED BY <1>4, AskingHeld DEF Managed, private

\* The handlers of the core and of drivers.
LEMMA HandlersAsked ==
  ASSUME TypedStack, Control, Requested,
         \/ DriverHandler \/ ReadyToLockHandler \/ LegacyBootHandler \/ EndOfDxeHandler
         \/ DispatcherEnds \/ DispatcherRestarts
  PROVE  Asking
<1>1. Depth > 1
  BY ControlFacts DEF DriverHandler, ReadyToLockHandler, LegacyBootHandler, EndOfDxeHandler,
       DispatcherEnds, DispatcherRestarts, At
<1>2. Top.at \in HandlerLabels
  BY DEF DriverHandler, ReadyToLockHandler, LegacyBootHandler, EndOfDxeHandler,
       DispatcherEnds, DispatcherRestarts, At, HandlerLabels
<1>3. \E ret \in Statuses, reply \in Replies \ {"clear"} : HandlerReturns(ret, reply)
  <2>1. {"success", "pending", "quiesced", "source_pending", "notfound"} \subseteq Statuses
        /\ {"handled", "success", "restart"} \subseteq Replies \ {"clear"}
    BY DEF Statuses, Replies
  <2>2. CASE DriverHandler
    BY <2>1, <2>2 DEF DriverHandler
  <2>3. CASE ReadyToLockHandler
    BY <2>1, <2>3 DEF ReadyToLockHandler
  <2>4. CASE LegacyBootHandler \/ EndOfDxeHandler
    BY <2>1, <2>4 DEF LegacyBootHandler, EndOfDxeHandler
  <2>5. CASE DispatcherEnds \/ DispatcherRestarts
    BY <2>1, <2>5 DEF DispatcherEnds, DispatcherRestarts
  <2> QED BY <2>2, <2>3, <2>4, <2>5
<1>4. PICK ret \in Statuses, reply \in Replies : reply # "clear" /\ HandlerReturns(ret, reply)
  BY <1>3
<1> QED BY <1>1, <1>2, <1>4, HandlerQuiet

\* What is on the stack when the message of a legacy boot is handled.
LEMMA LegacyStack ==
  ASSUME DataOK, TypedStack, Control, Requested, Top.at = "legacy", ~legacy
  PROVE  /\ \A i \in 1..Depth : LegacyFrame(stack[i])
         /\ buffer # 0 => Syncs(stack)
<1>1. /\ Depth > 1 /\ Depth \in Nat /\ Fits(Caller, Top) /\ Chain(stack) /\ Structure(stack, entry)
      /\ Interrupted(stack) /\ Nested(stack) /\ Conveyed(stack, buffer) /\ NoSmis(stack, entry)
  <2>1. /\ Structure(stack, entry) /\ Interrupted(stack) /\ Nested(stack)
        /\ Conveyed(stack, buffer) /\ NoSmis(stack, entry)
    BY DEF Control, Controlled, Structure
  <2> QED BY <2>1, ControlFacts
<1>2. \A i \in 1..Depth - 1 : Fits(stack[i], stack[i + 1])
  BY <1>1 DEF Chain
<1>3. Caller.at = "managing" /\ Caller.type = "legacy"
  <2>1. Caller.at = "managing" /\ Caller.type \in CoreTypes /\ CoreHandlers[Caller.type] = "legacy"
    BY <1>1 DEF Fits, HandlerLabels
  <2> QED BY <2>1 DEF CoreHandlers, CoreTypes
<1>4. PICK m \in 1..Depth : m = Depth - 1 /\ m + 1 = Depth /\ stack[m] = Caller
  BY <1>1 DEF Caller
<1>5. m # 1
  BY <1>1, <1>3, <1>4 DEF Chain
<1>6. PICK k \in 1..Depth - 2 : k = Depth - 2 /\ k + 1 = m
  BY <1>1, <1>4, <1>5
<1>7. k \in 1..Depth /\ k \in 1..Depth - 1 /\ k \in Nat /\ m \in 1..Depth - 1
  BY <1>1, <1>4, <1>6
<1>8. Fits(stack[k], stack[m])
  BY <1>2, <1>6, <1>7
<1>9. (stack[k].at = "direct" /\ stack[k].type = "legacy") \/ stack[k].at = "sync"
  BY <1>3, <1>4, <1>8 DEF Fits, Walks
<1>10. LegacyFrame(stack[m]) /\ LegacyFrame(stack[Depth])
  BY <1>3, <1>4 DEF LegacyFrame, LegacyLabels, Walks, Top
<1>11. \A i \in 1..Depth : i \in 1..k \/ i = m \/ i = Depth
  BY <1>1, <1>4, <1>6
<1>12. ASSUME NEW p \in 1..k, stack[p].at \in Posting, stack[p].type = "legacy"
       PROVE  \A i \in 1..p - 1 : stack[i].at \in Requests \cup {"dxe", "notified"}
  <2>1. p # 1
    BY <1>1, <1>12 DEF Chain, Posting, Requests
  <2>2. PICK q \in 1..Depth - 1 : q + 1 = p /\ q = p - 1
    BY <1>1, <1>7, <2>1
  <2>3. Fits(stack[q], stack[p]) /\ Shape(stack[q])
    BY <1>1, <1>2, <2>2 DEF Chain
  <2>4. "legacy" \notin UserTypes
    BY CoreAssumption DEF CoreTypes
  <2>5. stack[q].at = "notified"
    BY <1>12, <2>3, <2>4 DEF Fits, Shape
  <2>6. \A i \in 1..q - 1 : stack[i].at \in Requests \cup {"dxe"}
    <3>1. q \in 1..Depth /\ stack[q].at \in Notifying
      BY <1>1, <2>2, <2>5 DEF Notifying
    <3> QED BY <1>1, <3>1, BelowNotified
  <2>7. \A i \in 1..p - 1 : i \in 1..q - 1 \/ i = q
    BY <2>2
  <2> QED BY <2>5, <2>6, <2>7
<1>13. \A l \in Requests \cup {"dxe", "notified"} : l \in LegacyLabels /\ l \notin Walks
  BY DEF LegacyLabels, Requests, Walks
<1>14. CASE stack[k].at = "direct" /\ stack[k].type = "legacy"
  <2>1. \A i \in 1..k - 1 : stack[i].at \in Requests \cup {"dxe", "notified"}
    <3>1. k \in 1..k /\ stack[k].at \in Posting
      BY <1>7, <1>14 DEF Posting
    <3> QED BY <1>12, <1>14, <3>1
  <2>2. \A i \in 1..k : i \in 1..k - 1 \/ i = k
    BY <1>7
  <2>3. \A i \in 1..Depth : LegacyFrame(stack[i])
    <3>1. \A i \in 1..k - 1 : LegacyFrame(stack[i])
      BY <1>13, <2>1 DEF LegacyFrame
    <3>2. LegacyFrame(stack[k])
      BY <1>14 DEF LegacyFrame, LegacyLabels, Walks
    <3> QED BY <1>10, <1>11, <2>2, <3>1, <3>2
  <2>4. buffer = 0
    <3>1. ~entry
      BY <1>1, <1>7, <1>14 DEF NoSmis
    <3>2. Pending(stack, buffer, size)
      BY DEF Requested, Asked
    <3>3. SUFFICES ASSUME buffer # 0
                   PROVE  FALSE
      OBVIOUS
    <3>4. buffer \in 1..Depth /\ stack[buffer].at \in Requests
      BY <3>2, <3>3 DEF Pending
    <3> QED BY <1>1, <3>1, <3>4 DEF NoSmis
  <2> QED BY <2>3, <2>4
<1>15. CASE stack[k].at = "sync"
  <2>1. Syncs(stack)
    BY <1>7, <1>15 DEF Syncs
  <2>2. /\ buffer \in 1..k /\ stack[buffer].at \in Requests /\ stack[buffer].type = "legacy"
    BY <1>1, <1>3, <1>4, <1>6, <1>7, <1>15 DEF Conveyed, Walks
  <2>3. PICK b \in 1..k : b = buffer
    BY <2>2
  <2>4. b # k
    BY <1>15, <2>2, <2>3 DEF Requests
  <2>5. \A i \in 1..b - 1 : stack[i].at \in Requests \cup {"dxe", "notified"}
    BY <1>12, <2>2, <2>3 DEF Posting
  <2>6. b + 1 \in 1..k /\ b + 1 \in 1..Depth /\ b \in 1..Depth - 1 /\ b \in 1..Depth
    BY <1>1, <1>7, <2>4
  <2>7. ~stack[b].flag
    <3>1. SUFFICES ASSUME stack[b].flag
                   PROVE  FALSE
      OBVIOUS
    <3>2. b = 2
      BY <1>1, <2>2, <2>3, <2>6, <3>1 DEF Interrupted
    <3>3. Fits(stack[1], stack[2])
      BY <1>2, <2>6, <3>2
    <3>4. stack[1].at = "dxe" /\ stack[2].at \in Posting /\ stack[2].type = "legacy"
      BY <1>1, <2>2, <2>3, <3>2 DEF Chain, Posting
    <3>5. "legacy" \notin UserTypes
      BY CoreAssumption DEF CoreTypes
    <3> QED BY <3>3, <3>4, <3>5 DEF Fits
  <2>8. stack[b + 1].at \in Entries
    <3>1. Fits(stack[b], stack[b + 1])
      BY <1>2, <2>6
    <3>2. stack[b + 1].at \in Labels \cup {"astray"}
      <4>1. stack[b + 1] \in Frames
        BY <2>6 DEF TypedStack
      <4> QED BY <4>1 DEF Frames
    <3>3. stack[b].at \in Requests
      BY <2>2, <2>3
    <3> QED BY <2>7, <3>1, <3>2, <3>3
         DEF Fits, Posting, Requests, Notifying, Walks, HandlerLabels, Starting, Labels, Entries
  <2>9. b + 1 = k
    <3>1. SUFFICES ASSUME b + 1 # k
                   PROVE  FALSE
      OBVIOUS
    <3>2. b + 1 < k
      BY <1>7, <2>6, <3>1
    <3>3. Above(stack[b + 1], stack[k])
      BY <1>1, <1>7, <2>6, <3>2 DEF Nested
    <3> QED BY <1>15, <2>8, <3>3 DEF Above, Entries
  <2>10. \A i \in 1..k : i \in 1..b - 1 \/ i = b \/ i = k
    BY <2>6, <2>9
  <2>11. \A i \in 1..Depth : LegacyFrame(stack[i])
    <3>1. \A i \in 1..b - 1 : LegacyFrame(stack[i])
      BY <1>13, <2>5 DEF LegacyFrame
    <3>2. LegacyFrame(stack[b])
      BY <1>13, <2>2, <2>3 DEF LegacyFrame
    <3>3. LegacyFrame(stack[k])
      BY <1>15 DEF LegacyFrame, LegacyLabels, Walks, Entries
    <3> QED BY <1>10, <1>11, <2>10, <3>1, <3>2, <3>3
  <2> QED BY <2>1, <2>11
<1> QED BY <1>9, <1>14, <1>15

LEMMA LegacyBootAsked ==
  ASSUME DataOK, TypedStack, Control, Requested, LegacyBootHandler
  PROVE  Requested'
<1>1. Asking
  BY HandlersAsked
<1>2. legacy' /\ buffer' = buffer /\ size' = size /\ status' = status
  BY DEF LegacyBootHandler, private
<1>3. CASE legacy
  BY <1>1, <1>2, <1>3, AskingHeld DEF LegacyBootHandler, DataOK
<1>4. CASE ~legacy
  <2>1. PICK t : t = stack'
    OBVIOUS
  <2>2. Top.at = "legacy" /\ Depth > 1 /\ Depth \in Nat
    BY ControlFacts DEF LegacyBootHandler, At
  <2>3. /\ \A i \in 1..Depth : LegacyFrame(stack[i])
        /\ buffer # 0 => Syncs(stack)
    BY <1>4, <2>2, LegacyStack
  <2>4. Rest(t) /\ Len(t) = Depth - 1
    <3>1. "success" \in Statuses /\ "handled" \in Replies
      BY DEF Statuses, Replies
    <3>2. t = [i \in 1..Depth - 1 |->
                 IF i = Depth - 1 THEN [stack[i] EXCEPT !.ret = "success"]
                 ELSE IF i = Top.up THEN [stack[i] EXCEPT !.reply = "handled"]
                 ELSE stack[i]]
      BY <2>1 DEF LegacyBootHandler, HandlerReturns
    <3> QED BY <2>2, <3>1, <3>2, HandlerDone
  <2>5. \A i \in 1..Depth - 1 : i \in 1..Depth
    BY <2>2, Below
  <2>6. \A i \in 1..Len(t) : LegacyFrame(t[i])
    BY <2>3, <2>4, <2>5 DEF Rest, Same, LegacyFrame
  <2>7. buffer # 0 => Syncs(t)
    <3>1. SUFFICES ASSUME buffer # 0
                   PROVE  Syncs(t)
      OBVIOUS
    <3>2. PICK i \in 1..Depth : stack[i].at = "sync"
      BY <2>3, <3>1 DEF Syncs
    <3>3. i # Depth
      BY <2>2, <3>2 DEF Top
    <3>4. i \in 1..Depth - 1
      BY <2>2, <3>3, Below
    <3> QED BY <2>4, <3>2, <3>4 DEF Syncs, Rest, Same
  <2>8. InLegacy(t, buffer, legacy')
    BY <2>6, <2>7 DEF InLegacy, LegacyFrame
  <2>9. Asked(t, buffer, size, legacy', status)
    BY <1>1, <2>1, <2>8 DEF Asking, Asked
  <2> QED BY <1>2, <2>1, <2>9, AskedHeld
<1> QED BY <1>3, <1>4

-----------------------------------------------------------------------------
(* Requests: stored, sent, served and answered.                               *)

\* The fate of a frame that stays, when another request is stored or served.
LEMMA FateOf ==
  ASSUME TypedStack, Control, Requested, NEW t, NEW n \in 0..Depth,
         \A k \in 1..n : Carries(t[k], stack[k]),
         NEW i \in 1..n, t[i].ret = stack[i].ret, NEW b, NEW st,
         Sending(t, i, b, st), Serving(t, i, b)
  PROVE  Fated(t, i, b, st)
<1>1. Depth \in Nat /\ i \in 1..Depth /\ n \in Nat
  BY ControlFacts
<1>2. Fated(stack, i, buffer, status)
  BY <1>1 DEF Requested, Asked, Fate
<1>3. Carries(t[i], stack[i]) /\ Same(t[i], stack[i])
  BY DEF Carries
<1>4. Alone(t[i])
  <2>1. Alone(stack[i])
    BY <1>2 DEF Fated
  <2>2. stack[i].at = "answered" /\ stack[i].reply # "clear" => t[i].reply # "clear"
    BY <1>3 DEF Carries, Posting
  <2>3. stack[i].at = "direct" /\ stack[i].reply # "clear" => t[i].reply # "clear"
    BY <1>3 DEF Carries, Posting
  <2> QED BY <1>3, <2>1, <2>2, <2>3 DEF Alone, Same, Requests
<1>5. Walking(t, i)
  <2>1. SUFFICES ASSUME t[i].at \in Walks, t[i].up # 0,
                        t[i].flag \/ t[i].ret \in {"success", "quiesced"}
                 PROVE  t[t[i].up].reply # "clear"
    BY DEF Walking
  <2>2. /\ stack[i].at \in Walks /\ t[i].up = stack[i].up /\ stack[i].up # 0
        /\ stack[i].flag \/ stack[i].ret \in {"success", "quiesced"}
    BY <1>3, <2>1 DEF Same
  <2>3. PICK u : u = stack[i].up
    OBVIOUS
  <2>4. u \in Nat /\ u < i /\ u # 0 /\ stack[u].at \in Posting
    BY <1>1, <2>2, <2>3, WalkUp
  <2>5. u \in 1..n
    BY <1>1, <2>4
  <2>6. stack[u].reply # "clear"
    BY <1>2, <2>2, <2>3 DEF Fated, Walking
  <2>7. t[u].reply # "clear"
    BY <2>4, <2>5, <2>6 DEF Carries
  <2> QED BY <2>2, <2>3, <2>7
<1> QED BY <1>4, <1>5 DEF Fated

\* A request that was stored earlier has been sent once, or been interrupted before.
LEMMA SentBefore ==
  ASSUME TypedStack, Control, Requested, NEW i \in 1..Depth, stack[i].at \in Requests, stack[i].flag
  PROVE  stack[i].n = 1 \/ (stack[i].flag /\ stack[i].n = 0)
<1>1. Sending(stack, i, buffer, status)
  BY DEF Requested, Asked, Fate, Fated
<1> QED BY <1>1 DEF Sending

\* The stack after a step of the frame on the top.
LEMMA Became ==
  ASSUME TypedStack, stack # <<>>, NEW f \in Frames, Become(f), NEW t, t = stack'
  PROVE  Rest(t) /\ Len(t) = Depth /\ t[Depth] = f /\ \A i \in 1..Depth - 1 : t[i] = stack[i]
<1>1. stack # <<>> /\ Depth \in Nat
  BY DEF TypedStack
<1>2. t = [stack EXCEPT ![Depth] = f]
  BY DEF Become
<1> QED BY ONLY TypedStack, f \in Frames, <1>1, <1>2, Becoming, Zenon

LEMMA PutBufferAsked ==
  ASSUME DataOK, TypedStack, Control, Requested, PutBuffer
  PROVE  Requested'
<1>1. /\ Top \in Frames /\ Depth > 1 /\ Depth \in Nat /\ Depth \in 1..Depth /\ stack # <<>>
      /\ Structure(stack, entry) /\ Top.at = "communicate" /\ ~inSmm
  BY ControlFacts DEF PutBuffer, At
<1>2. PICK f : f = Labelled(Top, "size")
  OBVIOUS
<1>3. f \in Frames /\ f.at = "size" /\ f.n = Top.n
  <2>1. f = [Top EXCEPT !.at = "size"]
    BY <1>2 DEF Labelled
  <2> QED BY <1>1, <2>1 DEF Frames, Labels
<1>4. PICK t : t = stack'
  OBVIOUS
<1>5. Rest(t) /\ Len(t) = Depth /\ t[Depth] = f /\ \A i \in 1..Depth - 1 : t[i] = stack[i]
  <2>1. Become(f)
    BY <1>2, <1>4 DEF PutBuffer, Labelled
  <2>2. stack # <<>> /\ f \in Frames
    BY <1>1, <1>3
  <2> QED BY <1>4, <2>1, <2>2, Became
<1>6. \A i \in 1..Depth - 1 : /\ i \in 1..Depth /\ i # Depth
                              /\ stack[i].at \notin {"root", "sync"}
                              /\ stack[i].at \in Requests => stack[i].flag
  <2>1. \A i \in 1..Depth - 1 : i \in 1..Depth /\ i # Depth
    BY <1>1, Below
  <2>2. \A i \in 1..Depth - 1 : stack[i].at # "root"
    BY <1>1, FreeBelow DEF Walks
  <2>3. \A i \in 1..Depth - 1 : stack[i].at # "sync"
    BY <1>1, <2>1, OutsideSmm
  <2>4. \A i \in 1..Depth - 1 : stack[i].at \in Requests => stack[i].flag
    BY <1>1, NoOtherRequest
  <2> QED BY <2>1, <2>2, <2>3, <2>4
<1>7. \A i \in 1..Depth : i \in 1..Depth - 1 \/ i = Depth
  BY <1>1, Below
<1>8. ~Syncs(t)
  BY <1>3, <1>5, <1>6, <1>7 DEF Syncs
<1>9. Pending(t, Depth, size)
  <2>1. \A j \in Depth + 1..Len(t) : FALSE
    BY <1>1, <1>5
  <2>2. \A j \in 1..Len(t) : t[j].at # "root"
    BY <1>3, <1>5, <1>6, <1>7
  <2> QED BY <1>1, <1>3, <1>5, <2>1, <2>2 DEF Pending, Requests
<1>10. InLegacy(t, Depth, legacy)
  <2>1. ~legacy
    BY <1>1, NoLegacy DEF LegacyLabels, Requests, Entries, Walks
  <2> QED BY <2>1 DEF InLegacy
<1>11. Fated(t, Depth, Depth, status)
  <2>1. Top.n = 0
    <3>1. Alone(Top)
      BY <1>1 DEF Requested, Asked, Fate, Fated, Top
    <3> QED BY <1>1, <3>1 DEF Alone
  <2> QED BY <1>3, <1>5, <1>8, <2>1 DEF Fated, Alone, Sending, Serving, Walking, Walks
<1>12. ASSUME NEW i \in 1..Depth - 1
       PROVE  Fated(t, i, Depth, status)
  <2>1. Sending(t, i, Depth, status)
    BY <1>5, <1>6, SentBefore DEF Sending
  <2>2. Serving(t, i, Depth)
    BY <1>5, <1>6 DEF Serving
  <2>3. Depth - 1 \in 0..Depth
    BY <1>1
  <2>4. \A k \in 1..Depth - 1 : Carries(t[k], stack[k])
    BY <1>5 DEF Carries, Same
  <2> QED BY <1>5, <2>1, <2>2, <2>3, <2>4, FateOf
<1>13. Fate(t, Depth, status)
  BY <1>5, <1>7, <1>11, <1>12 DEF Fate
<1>14. buffer' = Depth /\ size' = size /\ status' = status /\ legacy' = legacy
  BY DEF PutBuffer
<1> QED BY <1>4, <1>9, <1>10, <1>13, <1>14, AskedHeld DEF Asked

\* The request on the top is the one that is stored, if there is any.
LEMMA TopIsStored ==
  ASSUME TypedStack, Control, Requested, Top.at \in Requests
  PROVE  buffer = 0 \/ buffer = Depth
<1>1. Depth \in Nat /\ Depth \in 1..Depth
  BY ControlFacts
<1>2. SUFFICES ASSUME buffer # 0, buffer # Depth
               PROVE  FALSE
  OBVIOUS
<1>3. PICK b \in 1..Depth : b = buffer
  BY <1>2 DEF Requested, Asked, Pending
<1>4. Depth \in b + 1..Depth
  BY <1>1, <1>2, <1>3
<1> QED BY <1>2, <1>3, <1>4 DEF Requested, Asked, Pending, Top

\* A request goes on, and an SMI or a notification may come in.
LEMMA RequestGoesOn ==
  ASSUME TypedStack, Control, Requested, Top.at \in Requests,
         NEW f \in Frames, f.at \in Requests, f.n = Top.n, f.reply = Top.reply, Top.flag => f.flag,
         NEW t, Rest(t), Len(t) >= Depth, t[Depth] = f, \A i \in 1..Depth - 1 : t[i] = stack[i],
         \A i \in Depth + 1..Len(t) : t[i].at = "notify" \/ (t[i].at = "entry" /\ t[i].ret = "none")
  PROVE  Fate(t, buffer, status)
<1>1. /\ Depth \in Nat \ {0} /\ Depth \in 1..Depth /\ stack # <<>> /\ Top \in Frames
      /\ t \in Seq(Frames) /\ Len(t) \in Nat
  BY ControlFacts DEF Rest
<1>2. Syncs(t) <=> Syncs(stack)
  <2>1. \A i \in Depth..Len(t) : i = Depth \/ i \in Depth + 1..Len(t)
    BY <1>1
  <2>2. \A i \in Depth..Len(t) : t[i].at # "sync"
    BY <2>1 DEF Requests
  <2>3. Top.at # "sync" /\ (\A i \in 1..Depth - 1 : t[i].at = stack[i].at)
        /\ Len(t) >= Depth - 1
    BY <1>1 DEF Requests, Rest
  <2> QED BY <1>1, <2>2, <2>3, SyncsKept
<1>3. \A i \in 1..Depth - 1 : Fated(t, i, buffer, status)
  <2>1. Carried(t)
    <3>1. Len(t) >= Depth - 1
      BY DEF Rest
    <3> QED BY <1>1, <3>1, UnchangedCarried
  <2>2. Pending(stack, buffer, size) /\ Fate(stack, buffer, status)
    BY DEF Requested, Asked
  <2> QED BY <1>2, <2>1, <2>2, FateBelow
<1>4. Fated(t, Depth, buffer, status)
  <2>1. Sending(stack, Depth, buffer, status) /\ stack[Depth] = Top
    BY <1>1 DEF Requested, Asked, Fate, Fated, Top
  <2>2. Sending(t, Depth, buffer, status)
    BY <1>2, <2>1 DEF Sending
  <2> QED BY <2>2 DEF Fated, Alone, Serving, Walking, Requests, Walks
<1>5. \A i \in Depth + 1..Len(t) : Fated(t, i, buffer, status)
  BY DEF Fated, Alone, Sending, Serving, Walking, Requests, Walks
<1>6. \A i \in 1..Len(t) : i \in 1..Depth - 1 \/ i = Depth \/ i \in Depth + 1..Len(t)
  BY <1>1
<1> QED BY <1>3, <1>4, <1>5, <1>6 DEF Fate

LEMMA PutSizeAsked ==
  ASSUME DataOK, TypedStack, Control, Requested, PutSize
  PROVE  Requested'
<1>1. /\ Depth \in Nat /\ Depth > 1 /\ Depth \in 1..Depth /\ stack # <<>> /\ Top \in Frames
      /\ Top.at = "size" /\ Top.at \in Requests /\ Top.at # "sync"
  BY ControlFacts DEF PutSize, At, Requests
<1>2. PICK f : f = [Top EXCEPT !.at = "trigger"]
  OBVIOUS
<1>3. /\ f \in Frames /\ f.at = "trigger" /\ f.n = Top.n /\ f.reply = Top.reply
      /\ f.flag = Top.flag
  BY <1>1, <1>2 DEF Frames, Labels
<1>4. PICK t : t = stack'
  OBVIOUS
<1>5. Rest(t) /\ Len(t) = Depth /\ t[Depth] = f /\ \A i \in 1..Depth - 1 : t[i] = stack[i]
  <2>1. Become(f)
    BY <1>4, <1>2 DEF PutSize
  <2>2. stack # <<>> /\ f \in Frames
    BY <1>1, <1>3
  <2> QED BY <1>4, <2>1, <2>2, Became
<1>6. Fate(t, buffer, status)
  <2>1. Len(t) >= Depth /\ \A i \in Depth + 1..Len(t) : FALSE
    BY <1>1, <1>5
  <2> QED
    <3>1. f.at \in Requests /\ (Top.flag => f.flag)
      BY <1>3 DEF Requests
    <3> QED BY <1>1, <1>3, <1>5, <2>1, <3>1, RequestGoesOn
<1>7. InLegacy(t, buffer, legacy)
  <2>1. \A i \in Depth..Len(t) : i = Depth
    BY <1>1, <1>5
  <2>2. LegacyFrame(f)
    BY <1>3 DEF LegacyFrame, LegacyLabels, Requests, Walks
  <2>3. InLegacy(stack, buffer, legacy)
    BY DEF Requested, Asked
  <2> QED BY <1>1, <1>5, <2>1, <2>2, <2>3, LegacyKept
<1>8. Pending(t, buffer, Depth)
  <2>1. SUFFICES ASSUME buffer # 0
                 PROVE  Pending(t, buffer, Depth)
    BY DEF Pending
  <2>2. buffer = Depth
    BY <1>1, <2>1, TopIsStored
  <2>3. \A j \in Depth + 1..Len(t) : FALSE
    BY <1>1, <1>5
  <2>4. \A j \in 1..Depth : j \in 1..Depth - 1 \/ j = Depth
    BY <1>1, Below
  <2>5. \A j \in 1..Depth - 1 : j \in 1..Depth
    BY <1>1, Below
  <2>6. \A j \in 1..Depth : stack[j].at # "root"
    BY <2>1 DEF Requested, Asked, Pending
  <2>7. \A j \in 1..Len(t) : t[j].at # "root"
    BY <1>3, <1>5, <2>4, <2>5, <2>6
  <2>8. buffer \in 1..Len(t) /\ t[buffer].at = "trigger" /\ buffer = Depth
    BY <1>1, <1>3, <1>5, <2>2
  <2> QED BY <2>2, <2>3, <2>7, <2>8 DEF Pending, Requests
<1>9. buffer' = buffer /\ size' = Depth /\ status' = status /\ legacy' = legacy
  BY DEF PutSize
<1> QED BY <1>4, <1>6, <1>7, <1>8, <1>9, AskedHeld DEF Asked

LEMMA TriggerAsked ==
  ASSUME DataOK, TypedStack, Control, Requested, Trigger
  PROVE  Requested'
<1>1. /\ Depth \in Nat /\ Depth > 1 /\ Depth \in 1..Depth /\ stack # <<>> /\ Top \in Frames
      /\ Top.at = "trigger" /\ Top.at \in Requests /\ Top.at # "sync"
  BY ControlFacts DEF Trigger, At, Requests
<1>2. PICK f : f = [Top EXCEPT !.at = "sent"]
  OBVIOUS
<1>3. /\ f \in Frames /\ f.at = "sent" /\ f.n = Top.n /\ f.reply = Top.reply
      /\ f.flag = Top.flag
  BY <1>1, <1>2 DEF Frames, Labels
<1>4. PICK c : c = Frame("entry", NoType)
  OBVIOUS
<1>5. c \in Frames /\ c.at = "entry" /\ c.ret = "none"
  <2>1. "entry" \in Labels /\ NoType \in Types \cup Events \cup {NoType}
    BY DEF Labels
  <2> QED BY <1>4, <2>1, FrameIs
<1>6. PICK t : t = stack'
  OBVIOUS
<1>7. /\ Rest(t) /\ Len(t) = Depth + 1 /\ t[Depth] = f /\ t[Depth + 1] = c
      /\ \A i \in 1..Depth - 1 : t[i] = stack[i]
  <2>1. t = Called(f, c)
    BY <1>2, <1>4, <1>6 DEF Trigger, Call, Called
  <2> QED BY <1>1, <1>3, <1>5, <2>1, Calling
<1>8. Fate(t, buffer, status)
  <2>1. Len(t) >= Depth /\ \A i \in Depth + 1..Len(t) : i = Depth + 1
    BY <1>1, <1>7
  <2>2. \A i \in Depth + 1..Len(t) : t[i].at = "notify" \/ (t[i].at = "entry" /\ t[i].ret = "none")
    BY <1>5, <1>7, <2>1
  <2>3. f.at \in Requests /\ (Top.flag => f.flag)
    BY <1>3 DEF Requests
  <2> QED BY <1>1, <1>3, <1>7, <2>1, <2>2, <2>3, RequestGoesOn
<1>9. InLegacy(t, buffer, legacy)
  <2>1. \A i \in Depth..Len(t) : i = Depth \/ i = Depth + 1
    BY <1>1, <1>7
  <2>2. LegacyFrame(f) /\ LegacyFrame(c)
    BY <1>3, <1>5 DEF LegacyFrame, LegacyLabels, Requests, Entries, Walks
  <2>3. InLegacy(stack, buffer, legacy)
    BY DEF Requested, Asked
  <2>4. \A i \in Depth..Len(t) : LegacyFrame(t[i])
    BY <1>7, <2>1, <2>2
  <2> QED BY <1>1, <1>7, <2>3, <2>4, LegacyKept
<1>10. Pending(t, buffer, size)
  <2>1. SUFFICES ASSUME buffer # 0
                 PROVE  Pending(t, buffer, size)
    BY DEF Pending
  <2>2. buffer = Depth
    BY <1>1, <2>1, TopIsStored
  <2>3. size = Depth
    BY <1>1, <2>1, <2>2 DEF Requested, Asked, Pending, Top
  <2>4. \A j \in Depth + 1..Len(t) : j = Depth + 1
    BY <1>1, <1>7
  <2>5. \A j \in 1..Len(t) : j \in 1..Depth - 1 \/ j = Depth \/ j = Depth + 1
    BY <1>1, <1>7
  <2>6. \A j \in 1..Depth - 1 : j \in 1..Depth
    BY <1>1, Below
  <2>7. \A j \in 1..Depth : stack[j].at # "root"
    BY <2>1 DEF Requested, Asked, Pending
  <2>8. \A j \in 1..Len(t) : t[j].at # "root"
    BY <1>3, <1>5, <1>7, <2>5, <2>6, <2>7
  <2>9. buffer \in 1..Len(t) /\ t[buffer].at = "sent" /\ size = buffer /\ buffer < Len(t)
    BY <1>1, <1>3, <1>7, <2>2, <2>3
  <2>10. t[buffer + 1].at = "entry"
    BY <1>5, <1>7, <2>2
  <2>11. \A j \in buffer + 1..Len(t) : t[j].at \notin Requests
    BY <1>5, <1>7, <2>2, <2>4 DEF Requests
  <2> QED BY <2>8, <2>9, <2>10, <2>11 DEF Pending, Requests
<1>11. buffer' = buffer /\ size' = size /\ status' = status /\ legacy' = legacy
  BY DEF Trigger, private
<1> QED BY <1>6, <1>8, <1>9, <1>10, <1>11, AskedHeld DEF Asked

LEMMA SentAsked ==
  ASSUME DataOK, TypedStack, Control, Requested, Sent
  PROVE  Requested'
<1>1. /\ Depth \in Nat \ {0} /\ Depth > 1 /\ Depth \in 1..Depth /\ stack # <<>> /\ Top \in Frames
      /\ Top.at = "sent" /\ Top.at \in Requests /\ Top.at # "sync"
  BY ControlFacts DEF Sent, At, Requests
<1>2. status \in Statuses
  BY DEF DataOK, Statuses
<1>3. PICK f : f = [Top EXCEPT !.at = "answered", !.ret = status]
  OBVIOUS
<1>4. /\ f \in Frames /\ f.at = "answered" /\ f.n = Top.n /\ f.reply = Top.reply
      /\ f.flag = Top.flag /\ f.ret = status
  BY <1>1, <1>2, <1>3 DEF Frames, Labels
<1>5. PICK t : t = stack'
  OBVIOUS
<1>6. Rest(t) /\ Len(t) = Depth /\ t[Depth] = f /\ \A i \in 1..Depth - 1 : t[i] = stack[i]
  <2>1. Become(f)
    BY <1>3, <1>5 DEF Sent
  <2>2. stack # <<>> /\ f \in Frames
    BY <1>1, <1>4
  <2> QED BY <1>5, <2>1, <2>2, Became
<1>7. buffer = 0
  <2>1. buffer = 0 \/ buffer = Depth
    BY <1>1, TopIsStored
  <2>2. ~(Depth < Depth)
    BY <1>1
  <2> QED BY <1>1, <2>1, <2>2 DEF Requested, Asked, Pending, Top
<1>8. \A i \in Depth..Len(t) : i = Depth
  BY <1>1, <1>6
<1>9. InLegacy(t, buffer, legacy)
  <2>1. LegacyFrame(f)
    BY <1>4 DEF LegacyFrame, LegacyLabels, Walks
  <2>2. InLegacy(stack, buffer, legacy)
    BY DEF Requested, Asked
  <2> QED BY <1>1, <1>6, <1>8, <2>1, <2>2, LegacyKept
<1>10. \A i \in 1..Depth - 1 : Fated(t, i, buffer, status)
  <2>1. t \in Seq(Frames) /\ Len(t) >= Depth - 1
    BY <1>6 DEF Rest
  <2>2. Carried(t)
    BY <1>6, <2>1, UnchangedCarried
  <2>3. \A i \in Depth..Len(t) : t[i].at # "sync"
    BY <1>4, <1>6, <1>8
  <2>4. Syncs(t) <=> Syncs(stack)
    BY <1>1, <1>6, <2>1, <2>3, SyncsKept
  <2>5. Pending(stack, buffer, size) /\ Fate(stack, buffer, status)
    BY DEF Requested, Asked
  <2> QED BY <2>2, <2>4, <2>5, FateBelow
<1>11. Fated(t, Depth, buffer, status)
  <2>1. Sending(stack, Depth, buffer, status) /\ stack[Depth] = Top
    BY <1>1 DEF Requested, Asked, Fate, Fated, Top
  <2>2. buffer # Depth
    BY <1>1, <1>7
  <2>3. /\ Top.n = 1 \/ (Top.flag /\ Top.n = 0)
        /\ ~Top.flag /\ status = "success" => Top.reply # "clear"
    BY <1>1, <2>1, <2>2 DEF Sending
  <2>4. Alone(f)
    BY <1>4, <2>3 DEF Alone
  <2> QED BY <1>4, <1>6, <2>4 DEF Fated, Sending, Serving, Walking, Requests, Walks
<1>12. \A i \in 1..Len(t) : i \in 1..Depth - 1 \/ i = Depth
  BY <1>1, <1>6
<1>13. Asked(t, buffer, size, legacy, status)
  BY <1>7, <1>9, <1>10, <1>11, <1>12 DEF Asked, Fate, Pending
<1>14. buffer' = buffer /\ size' = size /\ status' = status /\ legacy' = legacy
  BY DEF Sent, private
<1> QED BY <1>5, <1>13, <1>14, AskedHeld

\* A notification comes in, in the middle of a Communicate.
LEMMA InterruptsAsked ==
  ASSUME DataOK, TypedStack, Control, Requested, NEW event \in Events, ~legacy,
         Top.at \in Requests, Call([Top EXCEPT !.flag = TRUE], Frame("notify", event))
  PROVE  Asking
<1>1. /\ Depth \in Nat \ {0} /\ Depth \in 1..Depth /\ stack # <<>> /\ Top \in Frames
  BY ControlFacts
<1>2. PICK f : f = [Top EXCEPT !.flag = TRUE]
  OBVIOUS
<1>3. f \in Frames /\ f.at = Top.at /\ f.n = Top.n /\ f.reply = Top.reply /\ f.flag
  BY <1>1, <1>2 DEF Frames
<1>4. PICK c : c = Frame("notify", event)
  OBVIOUS
<1>5. c \in Frames /\ c.at = "notify"
  <2>1. "notify" \in Labels /\ event \in Types \cup Events \cup {NoType}
    BY DEF Labels
  <2> QED BY <1>4, <2>1, FrameIs
<1>6. PICK t : t = stack'
  OBVIOUS
<1>7. /\ Rest(t) /\ Len(t) = Depth + 1 /\ t[Depth] = f /\ t[Depth + 1] = c
      /\ \A i \in 1..Depth - 1 : t[i] = stack[i]
  <2>1. t = Called(f, c)
    BY <1>2, <1>4, <1>6 DEF Call, Called
  <2> QED BY <1>1, <1>3, <1>5, <2>1, Calling
<1>8. Fate(t, buffer, status)
  <2>1. Len(t) >= Depth /\ \A i \in Depth + 1..Len(t) : i = Depth + 1
    BY <1>1, <1>7
  <2>2. \A i \in Depth + 1..Len(t) : t[i].at = "notify" \/ (t[i].at = "entry" /\ t[i].ret = "none")
    BY <1>5, <1>7, <2>1
  <2>3. f.at \in Requests /\ (Top.flag => f.flag)
    BY <1>3
  <2> QED BY <1>3, <1>7, <2>1, <2>2, <2>3, RequestGoesOn
<1>9. Pending(t, buffer, size)
  <2>1. Pending(stack, buffer, size)
    BY DEF Requested, Asked
  <2>2. t[Depth].at = Top.at /\ t[Depth + 1].at \notin Requests \cup {"root"}
    BY <1>3, <1>5, <1>7 DEF Requests
  <2> QED BY <1>7, <2>1, <2>2, PendingPushed
<1>10. Asked(t, buffer, size, legacy, status)
  BY <1>8, <1>9 DEF Asked, InLegacy
<1> QED BY <1>6, <1>10 DEF Asking

LEMMA SignalAsked ==
  ASSUME CoreAssumption, DataOK, TypedStack, Control, Requested, NEW event \in Events, Signal(event)
  PROVE  Requested'
<1>1. Asking
  <2>1. CASE Dxe
    <3>1. Call(Top, Frame("notify", event))
      BY <2>1 DEF Signal, Dxe, At
    <3> QED BY <2>1, <3>1, DxeAsked
  <2>2. CASE ~Dxe
    <3>1. /\ ~legacy /\ Top.at \in Requests
          /\ Call([Top EXCEPT !.flag = TRUE], Frame("notify", event))
      BY <2>2 DEF Signal, Requests
    <3> QED BY <3>1, InterruptsAsked
  <2> QED BY <2>1, <2>2
<1>2. buffer' = buffer /\ size' = size /\ status' = status /\ legacy' = legacy
  BY DEF Signal, private
<1> QED BY <1>1, <1>2, AskingHeld

\* A device raises an SMI.
LEMMA SmiAsked ==
  ASSUME DataOK, TypedStack, Control, Requested, Smi
  PROVE  Requested'
<1>1. /\ Depth \in Nat \ {0} /\ Depth \in 1..Depth /\ stack # <<>> /\ Top \in Frames
      /\ DOMAIN stack = 1..Depth
  BY ControlFacts DEF TypedStack
<1>2. \A i \in 1..Depth : stack[i].at # "sync"
  BY <1>1 DEF Smi, InSmi
<1>3. Top.at # "sync" /\ ~Syncs(stack)
  BY <1>1, <1>2 DEF Top, Syncs
<1>4. PICK c : c = Frame("entry", NoType)
  OBVIOUS
<1>5. c \in Frames /\ c.at = "entry" /\ c.ret = "none"
  <2>1. "entry" \in Labels /\ NoType \in Types \cup Events \cup {NoType}
    BY DEF Labels
  <2> QED BY <1>4, <2>1, FrameIs
<1>6. PICK t : t = stack'
  OBVIOUS
<1>7. /\ Rest(t) /\ Len(t) = Depth + 1 /\ t[Depth] = Top /\ t[Depth + 1] = c
      /\ \A i \in 1..Depth - 1 : t[i] = stack[i]
  <2>1. t = Called(Top, c)
    BY <1>4, <1>6 DEF Smi, Call, Called
  <2> QED BY <1>1, <1>5, <2>1, Calling
<1>8. \A i \in 1..Depth : t[i] = stack[i]
  <2>1. \A i \in 1..Depth : i \in 1..Depth - 1 \/ i = Depth
    BY <1>1, Below
  <2> QED BY <1>7, <2>1 DEF Top
<1>9. \A i \in 1..Len(t) : i \in 1..Depth \/ i = Depth + 1
  BY <1>1, <1>7
<1>10. ~Syncs(t)
  BY <1>2, <1>5, <1>7, <1>8, <1>9 DEF Syncs
<1>11. ASSUME NEW i \in 1..Depth
       PROVE  Fated(t, i, buffer, status)
  <2>1. Fated(stack, i, buffer, status)
    BY DEF Requested, Asked, Fate
  <2>2. Sending(t, i, buffer, status)
    BY <1>3, <1>8, <1>10, <2>1 DEF Fated, Sending
  <2>3. Serving(t, i, buffer)
    BY <1>2, <1>8 DEF Serving
  <2>4. Depth \in 0..Depth
    BY <1>1
  <2>5. \A k \in 1..Depth : Carries(t[k], stack[k])
    BY <1>8 DEF Carries, Same
  <2>6. t[i].ret = stack[i].ret
    BY <1>8
  <2> QED BY <2>2, <2>3, <2>4, <2>5, <2>6, FateOf
<1>12. Fated(t, Depth + 1, buffer, status)
  BY <1>5, <1>7 DEF Fated, Alone, Sending, Serving, Walking, Requests, Walks
<1>13. Pending(t, buffer, size)
  <2>1. Pending(stack, buffer, size)
    BY DEF Requested, Asked
  <2>2. t[Depth].at = Top.at /\ t[Depth + 1].at \notin Requests \cup {"root"}
    BY <1>5, <1>7 DEF Requests
  <2> QED BY <1>7, <2>1, <2>2, PendingPushed
<1>14. InLegacy(t, buffer, legacy)
  <2>1. \A i \in Depth..Len(t) : i = Depth \/ i = Depth + 1
    <3>1. \A k \in Nat : \A i \in k..k + 1 : i = k \/ i = k + 1
      OBVIOUS
    <3>2. Depth \in Nat /\ Len(t) = Depth + 1
      BY <1>1, <1>7
    <3> QED BY <3>1, <3>2
  <2>2. InLegacy(stack, buffer, legacy)
    BY DEF Requested, Asked
  <2>3. legacy => LegacyFrame(Top)
    BY <1>1, <2>2 DEF InLegacy, LegacyFrame, Top
  <2>4. LegacyFrame(c)
    BY <1>5 DEF LegacyFrame, LegacyLabels, Requests, Entries, Walks
  <2>5. legacy => \A i \in Depth..Len(t) : LegacyFrame(t[i])
    BY <1>7, <2>1, <2>3, <2>4
  <2> QED BY <1>3, <1>7, <2>2, <2>5, LegacyKept
<1>15. Fate(t, buffer, status)
  BY <1>9, <1>7, <1>11, <1>12 DEF Fate
<1>16. buffer' = buffer /\ size' = size /\ status' = status /\ legacy' = legacy
  BY DEF Smi, private
<1> QED BY <1>6, <1>13, <1>14, <1>15, <1>16, AskedHeld DEF Asked

\* The entry point gives the stored request to SmiManage: once.
LEMMA EntryConveysAsked ==
  ASSUME DataOK, TypedStack, Control, Requested, EntryConveys
  PROVE  Requested'
<1>1. /\ Top \in Frames /\ Depth \in Nat \ {0} /\ Depth \in 1..Depth /\ stack # <<>>
      /\ Chain(stack) /\ Top.at = "entry" /\ Top.at \in Entries
  BY ControlFacts DEF EntryConveys, At, Entries
<1>2. /\ buffer \in 1..Depth /\ stack[buffer].at \in Requests /\ ~legacy
      /\ Pending(stack, buffer, size)
  BY DEF Requested, Asked, Pending, EntryConveys
<1>3. PICK b \in 1..Depth : b = buffer
  BY <1>2
<1>4. PICK c : c = Conveying(stack[b].type, b)
  OBVIOUS
<1>5. c \in Frames /\ c.at = "manage" /\ ~c.flag /\ c.ret = "none"
  <2>1. stack[b].at \in Requests /\ Shape(stack[b])
    BY <1>1, <1>2, <1>3 DEF Chain
  <2>2. PICK type : type = stack[b].type
    OBVIOUS
  <2>3. type \in Types /\ b \in Nat
    BY <2>1, <2>2 DEF Shape, Posting, Types
  <2>4. c = Conveying(type, b)
    BY <1>4, <2>2
  <2> QED BY <2>3, <2>4, ManageIs
<1>6. PICK t : t = stack'
  OBVIOUS
<1>7. PICK f : f = Labelled(Top, "sync")
  OBVIOUS
<1>8. /\ Rest(t) /\ Len(t) = Depth + 1 /\ t[Depth] = f /\ t[Depth + 1] = c
      /\ b \in 1..Depth - 1 /\ f \in Frames /\ t[b] = Bumped(stack[b])
      /\ \A i \in 1..Depth - 1 : i # b => t[i] = stack[i]
  <2>1. t = Synced(b, c)
    <3>1. stack' = Append([stack EXCEPT ![Depth].at = "sync", ![buffer].n = @ + 1],
                          Conveying(stack[buffer].type, buffer))
      BY DEF EntryConveys, Conveying
    <3>2. c = Conveying(stack[buffer].type, buffer)
      BY <1>3, <1>4
    <3>3. stack' = Append([stack EXCEPT ![Depth].at = "sync", ![buffer].n = @ + 1], c)
      BY <3>1, <3>2
    <3> QED BY <1>3, <1>6, <3>3 DEF Synced
  <2>2. stack # <<>> /\ Top.at = "entry" /\ stack[b].at \in Requests
    BY <1>1, <1>2, <1>3
  <2> QED BY <1>5, <1>7, <2>1, <2>2, Syncing
<1>9. f.at = "sync" /\ f.ret = "none"
  <2>1. f.at = "sync" /\ f.ret = Top.ret
    BY <1>1, <1>7 DEF Frames, Labelled
  <2>2. Alone(Top)
    BY <1>1 DEF Requested, Asked, Fate, Fated, Top
  <2> QED BY <1>1, <2>1, <2>2 DEF Alone
<1>10. Syncs(t)
  <2>1. Depth \in 1..Len(t)
    BY <1>1, <1>8
  <2> QED BY <1>8, <1>9, <2>1 DEF Syncs
<1>11. \A i \in 1..Depth - 1 : i \in 1..Depth /\ stack[i].at \notin Entries
  BY <1>1, BelowEntry, Below
<1>12. ~Syncs(stack)
  <2>1. \A i \in 1..Depth : i \in 1..Depth - 1 \/ i = Depth
    BY <1>1, Below
  <2> QED BY <1>1, <1>11, <2>1 DEF Syncs, Entries, Top
<1>13. stack[b] \in Frames /\ stack[b].n = 0
  <2>1. stack[b] \in Frames
    BY DEF TypedStack
  <2>2. Sending(stack, b, buffer, status)
    BY DEF Requested, Asked, Fate, Fated
  <2> QED BY <1>2, <1>3, <1>12, <2>1, <2>2 DEF Sending
<1>14. /\ t[b].n = 1 /\ t[b].at = stack[b].at /\ t[b].reply = stack[b].reply
       /\ t[b].ret = stack[b].ret
  <2>1. t[b] = [stack[b] EXCEPT !.n = @ + 1]
    BY <1>8 DEF Bumped
  <2>2. stack[b].n + 1 = 1
    BY <1>13
  <2> QED BY <1>13, <2>1, <2>2 DEF Frames
<1>15. \A i \in 1..Depth - 1 : Carries(t[i], stack[i]) /\ t[i].ret = stack[i].ret
  <2>1. ASSUME NEW i \in 1..Depth - 1
        PROVE  Carries(t[i], stack[i]) /\ t[i].ret = stack[i].ret
    <3>1. Same(t[i], stack[i])
      BY <1>8 DEF Rest
    <3>2. t[i].reply = stack[i].reply /\ t[i].ret = stack[i].ret
      BY <1>8, <1>14
    <3> QED BY <3>1, <3>2 DEF Carries
  <2> QED BY <2>1
<1>16. ASSUME NEW i \in 1..Depth - 1
       PROVE  Fated(t, i, buffer, status)
  <2>1. Fated(stack, i, buffer, status)
    BY <1>11 DEF Requested, Asked, Fate
  <2>2. Sending(t, i, buffer, status)
    <3>1. CASE i = b
      BY <1>3, <1>10, <1>14, <3>1 DEF Sending
    <3>2. CASE i # b
      <4>1. t[i] = stack[i]
        BY <1>8, <3>2
      <4> QED BY <1>3, <2>1, <3>2, <4>1 DEF Fated, Sending
    <3> QED BY <3>1, <3>2
  <2>3. Serving(t, i, buffer)
    <3>1. t[i].at = stack[i].at
      BY <1>15 DEF Carries, Same
    <3> QED BY <1>11, <3>1 DEF Serving, Entries
  <2>4. Depth - 1 \in 0..Depth
    BY <1>1
  <2>5. (\A k \in 1..Depth - 1 : Carries(t[k], stack[k])) /\ t[i].ret = stack[i].ret
    BY <1>15
  <2> QED BY <2>2, <2>3, <2>4, <2>5, FateOf
<1>17. Fated(t, Depth, buffer, status)
  BY <1>3, <1>8, <1>9 DEF Fated, Alone, Sending, Serving, Walking, Requests, Walks
<1>18. Fated(t, Depth + 1, buffer, status)
  BY <1>5, <1>8 DEF Fated, Alone, Sending, Serving, Walking, Requests, Walks
<1>19. Fate(t, buffer, status)
  <2>1. \A i \in 1..Len(t) : i \in 1..Depth - 1 \/ i = Depth \/ i = Depth + 1
    BY <1>1, <1>8
  <2> QED BY <1>16, <1>17, <1>18, <2>1 DEF Fate
<1>20. Pending(t, buffer, size)
  <2>1. /\ t[Depth].at = Top.at \/ (Top.at = "entry" /\ t[Depth].at = "sync")
        /\ t[Depth + 1].at \notin Requests \cup {"root"}
    BY <1>1, <1>5, <1>8, <1>9 DEF Requests
  <2> QED BY <1>2, <1>8, <2>1, PendingPushed
<1>21. buffer' = buffer /\ size' = size /\ status' = status /\ legacy' = legacy
  BY DEF EntryConveys
<1> QED BY <1>2, <1>6, <1>19, <1>20, <1>21, AskedHeld DEF Asked, InLegacy

\* The frame of an SMI handler walks the root handlers.
LEMMA RootCalled ==
  ASSUME TypedStack, Control, Top.at \in {"entry", "sync"}, NEW f \in Frames, f.at = "root",
         Call(f, Manage("root")), NEW t, t = stack', NEW b, NEW st
  PROVE  /\ Rest(t) /\ Len(t) = Depth + 1 /\ t[Depth] = f
         /\ \A i \in 1..Depth - 1 : t[i] = stack[i] /\ i \in 1..Depth
         /\ \A i \in 1..Len(t) : i \in 1..Depth - 1 \/ i \in Depth..Len(t)
         /\ \A i \in Depth..Len(t) : /\ Fated(t, i, b, st) /\ LegacyFrame(t[i])
                                     /\ t[i].at # "sync"
<1>1. Depth \in Nat \ {0} /\ stack # <<>>
  BY ControlFacts
<1>2. PICK c : c = Manage("root")
  OBVIOUS
<1>3. c \in Frames /\ c.at = "manage" /\ c.type = "root" /\ ~c.flag /\ c.ret = "none"
  <2>1. "manage" \in Labels /\ "root" \in Types \cup Events \cup {NoType}
    BY DEF Labels, Types
  <2> QED BY <1>2, <2>1, FrameIs DEF Manage
<1>4. /\ Rest(t) /\ Len(t) = Depth + 1 /\ t[Depth] = f /\ t[Depth + 1] = c
      /\ \A i \in 1..Depth - 1 : t[i] = stack[i]
  <2>1. t = Called(f, c)
    BY <1>2 DEF Call, Called
  <2> QED BY <1>1, <1>3, <2>1, Calling
<1>5. \A i \in 1..Depth - 1 : i \in 1..Depth
  BY <1>1, Below
<1>6. \A k \in Nat \ {0} : /\ \A i \in 1..k + 1 : i \in 1..k - 1 \/ i \in k..k + 1
                           /\ \A i \in k..k + 1 : i = k \/ i = k + 1
  OBVIOUS
<1>7. /\ \A i \in 1..Len(t) : i \in 1..Depth - 1 \/ i \in Depth..Len(t)
      /\ \A i \in Depth..Len(t) : i = Depth \/ i = Depth + 1
  BY <1>1, <1>4, <1>6
<1>8. Fated(t, Depth, b, st) /\ LegacyFrame(f)
  BY <1>4 DEF Fated, Alone, Sending, Serving, Walking, Requests, Walks,
       LegacyFrame, LegacyLabels, Entries
<1>9. Fated(t, Depth + 1, b, st) /\ LegacyFrame(c)
  BY <1>3, <1>4 DEF Fated, Alone, Sending, Serving, Walking, Requests, Walks,
       LegacyFrame, LegacyLabels
<1>10. f.at # "sync" /\ c.at # "sync"
  BY <1>3
<1> QED BY <1>4, <1>5, <1>7, <1>8, <1>9, <1>10

\* The request has been served: its status is stored, and it is no longer there.
LEMMA SyncEndsAsked ==
  ASSUME DataOK, TypedStack, Control, Requested, SyncEnds
  PROVE  Requested'
<1>1. /\ Top \in Frames /\ Depth \in Nat \ {0} /\ Depth \in 1..Depth /\ Structure(stack, entry)
      /\ Top.at = "sync" /\ Top.at \in Entries
  BY ControlFacts DEF SyncEnds, At, Entries
<1>2. /\ buffer' = 0 /\ size' = size /\ legacy' = legacy
      /\ status' = IF Top.ret = "success" THEN "success" ELSE "notfound"
  BY DEF SyncEnds
<1>3. PICK f : f = [Top EXCEPT !.at = "root"]
  OBVIOUS
<1>4. f \in Frames /\ f.at = "root"
  BY <1>1, <1>3 DEF Frames, Labels
<1>5. PICK t : t = stack'
  OBVIOUS
<1>6. PICK st : st = status'
  OBVIOUS
<1>7. /\ Rest(t) /\ Len(t) = Depth + 1 /\ t[Depth] = f
      /\ \A i \in 1..Depth - 1 : t[i] = stack[i] /\ i \in 1..Depth
      /\ \A i \in 1..Len(t) : i \in 1..Depth - 1 \/ i \in Depth..Len(t)
      /\ \A i \in Depth..Len(t) : Fated(t, i, 0, st) /\ LegacyFrame(t[i])
  <2>1. Call(f, Manage("root")) /\ Top.at \in {"entry", "sync"}
    BY <1>1, <1>3 DEF SyncEnds
  <2> QED BY <1>4, <1>5, <2>1, RootCalled
<1>8. Syncs(stack)
  BY <1>1 DEF Syncs, Top
<1>9. buffer \in 1..Depth - 1 /\ (Top.ret = "success" => stack[buffer].reply # "clear")
  BY <1>1 DEF Requested, Asked, Fate, Fated, Serving, Top
<1>10. PICK b \in 1..Depth - 1 : b = buffer
  BY <1>9
<1>11. /\ stack[b].at \in Requests /\ b # 0
       /\ \A j \in b + 1..Depth : stack[j].at \notin Requests
  BY <1>10 DEF Requested, Asked, Pending
<1>12. ASSUME NEW i \in 1..Depth - 1, stack[i].at \in Requests, i # b
       PROVE  stack[i].flag
  <2>1. i < b
    <3>1. SUFFICES ASSUME ~(i < b)
                   PROVE  FALSE
      OBVIOUS
    <3>2. i \in b + 1..Depth
      BY <1>1, <1>12, <3>1
    <3> QED BY <1>11, <1>12, <3>2
  <2>2. Above(stack[i], stack[b])
    <3>1. i \in 1..Depth /\ b \in 1..Depth
      BY <1>7
    <3> QED BY <1>1, <2>1, <3>1 DEF Structure, Nested
  <2> QED BY <1>11, <1>12, <2>2 DEF Above
<1>13. ASSUME NEW i \in 1..Depth - 1
       PROVE  Fated(t, i, 0, st)
  <2>1. Fated(stack, i, buffer, status) /\ i # 0 /\ t[i] = stack[i]
    <3>1. i # 0
      OBVIOUS
    <3> QED BY <1>7, <3>1 DEF Requested, Asked, Fate
  <2>2. Sending(t, i, 0, st)
    <3>1. CASE i = b
      <4>1. stack[i].n = 1
        BY <1>8, <1>10, <1>11, <2>1, <3>1 DEF Fated, Sending
      <4>2. st = "success" => stack[i].reply # "clear"
        BY <1>2, <1>6, <1>9, <1>10, <3>1
      <4> QED BY <2>1, <4>1, <4>2 DEF Sending
    <3>2. CASE i # b
      BY <1>10, <1>12, <2>1, <3>2 DEF Fated, Sending
    <3> QED BY <3>1, <3>2
  <2>3. Serving(t, i, 0)
    BY <1>1, <1>7, BelowEntry DEF Serving, Entries
  <2>4. Depth - 1 \in 0..Depth
    BY <1>1
  <2>5. (\A k \in 1..Depth - 1 : Carries(t[k], stack[k])) /\ t[i].ret = stack[i].ret
    BY <1>7 DEF Carries, Same
  <2> QED BY <2>2, <2>3, <2>4, <2>5, FateOf
<1>14. Fate(t, 0, st)
  BY <1>7, <1>13 DEF Fate
<1>15. InLegacy(t, 0, legacy)
  <2>1. InLegacy(stack, buffer, legacy)
    BY DEF Requested, Asked
  <2> QED BY <1>7, <2>1, LegacyKept
<1> QED BY <1>2, <1>5, <1>6, <1>14, <1>15, AskedHeld DEF Asked, Pending

\* An SMI that conveys nothing.
LEMMA EntryAloneAsked ==
  ASSUME DataOK, TypedStack, Control, Requested, EntryAlone
  PROVE  Requested'
<1>1. /\ Top \in Frames /\ Depth \in Nat \ {0} /\ stack # <<>>
      /\ Top.at = "entry" /\ Top.at \in Entries /\ Top.at # "sync"
  BY ControlFacts DEF EntryAlone, At, Entries
<1>2. \A i \in 1..Depth : stack[i].at # "sync"
  <2>1. \A i \in 1..Depth - 1 : stack[i].at # "sync"
    BY <1>1, BelowEntry DEF Entries
  <2>2. \A i \in 1..Depth : i \in 1..Depth - 1 \/ i = Depth
    BY <1>1, Below
  <2> QED BY <1>1, <2>1, <2>2 DEF Top
<1>3. ~Syncs(stack)
  BY <1>2 DEF Syncs
<1>4. buffer = 0
  BY <1>3 DEF Requested, Asked, InLegacy, EntryAlone
<1>5. PICK f : f = [Top EXCEPT !.at = "root", !.flag = legacy]
  OBVIOUS
<1>6. f \in Frames /\ f.at = "root"
  <2>1. legacy \in BOOLEAN
    BY DEF DataOK
  <2> QED BY <1>1, <1>5, <2>1, RootFrame
<1>7. PICK t : t = stack'
  OBVIOUS
<1>8. /\ Rest(t) /\ Len(t) = Depth + 1 /\ t[Depth] = f
      /\ \A i \in 1..Depth - 1 : t[i] = stack[i] /\ i \in 1..Depth
      /\ \A i \in 1..Len(t) : i \in 1..Depth - 1 \/ i \in Depth..Len(t)
      /\ \A i \in Depth..Len(t) : /\ Fated(t, i, buffer, status) /\ LegacyFrame(t[i])
                                  /\ t[i].at # "sync"
  <2>1. Call(f, Manage("root")) /\ Top.at \in {"entry", "sync"}
    BY <1>1, <1>5 DEF EntryAlone
  <2> QED BY <1>6, <1>7, <2>1, RootCalled
<1>9. Carried(t) /\ t \in Seq(Frames) /\ Len(t) >= Depth - 1
  <2>1. t \in Seq(Frames) /\ Len(t) >= Depth - 1
    BY <1>8 DEF Rest
  <2> QED BY <1>8, <2>1, UnchangedCarried
<1>10. Syncs(t) <=> Syncs(stack)
  <2>1. (\A i \in 1..Depth - 1 : t[i].at = stack[i].at) /\ \A i \in Depth..Len(t) : t[i].at # "sync"
    BY <1>8
  <2> QED BY <1>1, <1>9, <2>1, SyncsKept
<1>11. \A i \in 1..Depth - 1 : Fated(t, i, buffer, status)
  <2>1. Pending(stack, buffer, size) /\ Fate(stack, buffer, status)
    BY DEF Requested, Asked
  <2> QED BY <1>9, <1>10, <2>1, FateBelow
<1>12. Fate(t, buffer, status)
  BY <1>8, <1>11 DEF Fate
<1>13. InLegacy(t, buffer, legacy)
  <2>1. InLegacy(stack, buffer, legacy)
    BY DEF Requested, Asked
  <2> QED BY <1>4, <1>8, <2>1, LegacyKept
<1>14. buffer' = buffer /\ size' = size /\ status' = status /\ legacy' = legacy
  BY DEF EntryAlone
<1> QED BY <1>4, <1>7, <1>12, <1>13, <1>14, AskedHeld DEF Asked, Pending

\* Whose request is stored, what the stack may be after a legacy boot, and what has
\* become of every message: after every step.
LEMMA RequestedStep ==
  ASSUME CoreAssumption, DataOK, TypedStack, Control, Requested, Next
  PROVE  Requested'
<1>1. CASE PutBuffer
  BY <1>1, PutBufferAsked
<1>2. CASE PutSize
  BY <1>2, PutSizeAsked
<1>3. CASE Trigger
  BY <1>3, TriggerAsked
<1>4. CASE Sent
  BY <1>4, SentAsked
<1>5. CASE Refuse
  BY <1>5, RefuseAsked
<1>6. CASE Direct
  BY <1>6, DirectAsked
<1>7. CASE DirectEnds
  BY <1>7, DirectEndsAsked
<1>8. CASE Answered \/ StartEnds \/ NotifyEnds \/ EntryEnds
  BY <1>8, EndsAsked
<1>9. CASE EntryConveys
  BY <1>9, EntryConveysAsked
<1>10. CASE SyncEnds
  BY <1>10, SyncEndsAsked
<1>11. CASE EntryAlone
  BY <1>11, EntryAloneAsked
<1>12. Drivers \cap CoreTypes = {}
  BY DEF CoreAssumption
<1>13. CASE ManageBegins
  BY <1>12, <1>13, ManageBeginsAsked
<1>14. CASE Managed
  BY <1>12, <1>14, ManagedAsked
<1>15. CASE LegacyBootHandler
  BY <1>15, LegacyBootAsked
<1>16. CASE \/ DriverHandler \/ ReadyToLockHandler \/ EndOfDxeHandler
            \/ DispatcherEnds \/ DispatcherRestarts
  <2>1. Asking
    BY <1>16, HandlersAsked
  <2>2. buffer' = buffer /\ size' = size /\ status' = status /\ legacy' = legacy
    BY <1>16 DEF DriverHandler, ReadyToLockHandler, EndOfDxeHandler, DispatcherEnds,
         DispatcherRestarts, private
  <2> QED BY <2>1, <2>2, AskingHeld
<1>17. CASE FindVolume
  BY <1>17, FindVolumeAsked
<1>18. CASE DispatcherBegins
  BY <1>18, DispatcherBeginsAsked
<1>19. CASE Drain
  BY <1>19, DrainAsked
<1>20. CASE Search
  BY <1>20, AskedUnmoved DEF Search, private
<1>21. CASE StartDriver
  BY <1>21, StartDriverAsked
<1>22. CASE StartCalls
  BY <1>22, StartCallsAsked
<1>23. CASE NotifyPosts
  BY <1>23, NotifyPostsAsked
<1>24. CASE DispatchAgain
  BY <1>24, DispatchAgainAsked
<1>25. CASE NotifyLocks
  BY <1>25, NotifyLocksAsked
<1>26. ASSUME NEW v \in Volumes, AddVolume(v)
       PROVE  Requested'
  BY <1>26, AskedUnmoved DEF AddVolume, private
<1>27. ASSUME NEW type \in UserTypes, CallCommunicate(type)
       PROVE  Requested'
  <2>1. Asking
    BY <1>27, DxeAsked DEF CallCommunicate
  <2>2. buffer' = buffer /\ size' = size /\ status' = status /\ legacy' = legacy
    BY <1>27 DEF CallCommunicate, private
  <2> QED BY <2>1, <2>2, AskingHeld
<1>28. ASSUME NEW event \in Events, Signal(event)
       PROVE  Requested'
  BY <1>28, SignalAsked
<1>29. CASE Smi
  BY <1>29, SmiAsked
<1> QED BY <1>1, <1>2, <1>3, <1>4, <1>5, <1>6, <1>7, <1>8, <1>9, <1>10, <1>11, <1>13, <1>14,
           <1>15, <1>16, <1>17, <1>18, <1>19, <1>20, <1>21, <1>22, <1>23, <1>24, <1>25, <1>26,
           <1>27, <1>28, <1>29
        DEF Next, Core

-----------------------------------------------------------------------------
(* The inductive invariant.                                                   *)

IInv == DataOK /\ TypedStack /\ Control /\ Requested

LEMMA InitHolds ==
  ASSUME CoreAssumption, Init
  PROVE  IInv
<1>1. DataOK
  BY DataInit
<1>2. PICK c : c = Frame("dxe", NoType)
  OBVIOUS
<1>3. /\ c \in Frames /\ c.at = "dxe" /\ c.type = NoType /\ ~c.flag /\ c.n = 0
      /\ c.ret = "none"
  <2>1. "dxe" \in Labels /\ NoType \in Types \cup Events \cup {NoType}
    BY DEF Labels
  <2> QED BY <1>2, <2>1, FrameIs
<1>4. stack = <<c>>
  BY <1>2 DEF Init
<1>5. /\ stack \in Seq(Frames) /\ Len(stack) = 1 /\ stack[1] = c /\ stack # <<>>
      /\ \A i \in 1..Len(stack) : i = 1
      /\ \A i \in 1..Len(stack) - 1 : FALSE
  BY <1>3, <1>4
<1>6. Shape(c)
  BY <1>3 DEF Shape, Posting, Requests, Walks, Notifying, Starting
<1>7. ~entry /\ ~inSmm /\ buffer = 0 /\ ~legacy
  BY DEF Init
<1>8. Structure(stack, entry)
  <2>1. Chain(stack)
    BY <1>3, <1>5, <1>6 DEF Chain
  <2>2. Nested(stack)
    BY <1>5 DEF Nested
  <2>3. Interrupted(stack) /\ NoSmis(stack, entry)
    BY <1>3, <1>5 DEF Interrupted, NoSmis, Requests, Entries
  <2> QED BY <2>1, <2>2, <2>3 DEF Structure
<1>9. InSmmIs(stack, inSmm) /\ DirectIs(stack, entry, inSmm)
  BY <1>3, <1>5, <1>7 DEF InSmmIs, DirectIs, Served
<1>10. Control
  BY <1>5, <1>8, <1>9 DEF Control, Controlled, Conveyed
<1>11. Requested
  <2>1. Fate(stack, buffer, status)
    BY <1>3, <1>5 DEF Fate, Fated, Alone, Sending, Serving, Walking, Requests, Walks
  <2> QED BY <1>7, <2>1 DEF Requested, Asked, Pending, InLegacy
<1> QED BY <1>1, <1>5, <1>10, <1>11 DEF IInv, TypedStack

LEMMA StepHolds ==
  ASSUME CoreAssumption, IInv, [Next]_vars
  PROVE  IInv'
<1>1. CASE Next
  <2>1. DataOK /\ TypedStack /\ Control /\ Requested /\ Pending(stack, buffer, size)
    BY DEF IInv, Requested, Asked
  <2>2. DataOK'
    <3>1. Chain(stack)
      BY <2>1, ControlFacts
    <3> QED BY <1>1, <2>1, <3>1, DataStep
  <2>3. TypedStack' /\ Control'
    BY <1>1, <2>1, ControlStep
  <2>4. Requested'
    BY <1>1, <2>1, RequestedStep
  <2> QED BY <2>2, <2>3, <2>4 DEF IInv
<1>2. CASE UNCHANGED vars
  <2>1. DataOK' /\ TypedStack'
    BY <1>2 DEF IInv, vars, DataOK, TypedStack
  <2>2. Control'
    BY <1>2 DEF IInv, vars, Control
  <2>3. Requested'
    BY <1>2 DEF IInv, vars, Requested
  <2> QED BY <2>1, <2>2, <2>3 DEF IInv
<1> QED BY <1>1, <1>2

\* What holds of SmmCore at every step, for any drivers, volumes, messages and bounds:
\* which frames stand on which, when InSmm is set, whose request is stored and what has
\* become of each message.
THEOREM Invariance == Spec => []IInv
<1>1. Init => IInv
  BY CoreAssumption, InitHolds
<1>2. IInv /\ [Next]_vars => IInv'
  BY CoreAssumption, StepHolds
<1> QED BY <1>1, <1>2, PTL DEF Spec

LEMMA SmmIsTrue ==
  ASSUME TypedStack, Control
  PROVE  InSmmTellsTheTruth
<1>1. InSmmIs(stack, inSmm) /\ DirectIs(stack, entry, inSmm) /\ DOMAIN stack = 1..Len(stack)
  BY DEF Control, Controlled, TypedStack
<1>2. (\E i \in DOMAIN stack : stack[i].at \in {"sync", "root"} /\ ~stack[i].flag) => inSmm
  BY <1>1 DEF InSmmIs, Served
<1>3. (\E i \in DOMAIN stack : stack[i].at \in {"direct"}) /\ ~entry => inSmm
  BY <1>1 DEF DirectIs
<1>4. inSmm => \/ \E i \in DOMAIN stack : stack[i].at \in {"sync", "root"} /\ ~stack[i].flag
               \/ \E i \in DOMAIN stack : stack[i].at \in {"direct"}
  BY <1>1 DEF InSmmIs, Served
<1> QED BY <1>2, <1>3, <1>4 DEF InSmmTellsTheTruth

\* InSmm is set from the time SmmEntryPoint has begun to serve an SMI until it returns,
\* and during a direct dispatch before the entry point is registered; and it is never
\* set but in one of the two, a direct dispatch at any time included
\* (SmmCommunicationCommunicate and SmmEntryPoint).
THEOREM InSmmCorrect == Spec => []InSmmTellsTheTruth
<1>1. IInv => InSmmTellsTheTruth
  BY SmmIsTrue DEF IInv
<1> QED BY <1>1, Invariance, PTL

LEMMA AnswersAre ==
  ASSUME TypedStack, Control, Requested
  PROVE  AnswersAreOwn
<1>1. OwnAnswer
  <2>1. Alone(Top)
    BY TopFated DEF Fated, Top
  <2> QED BY <2>1 DEF OwnAnswer, At, Alone
<1>2. OwnSize
  <2>1. SUFFICES ASSUME Top.at = "manage", Caller.at = "sync", stack[Top.up].at # "size"
                 PROVE  size = Top.up
    BY DEF OwnSize, At
  <2>2. Depth > 1 /\ Depth \in Nat
    BY <2>1, ControlFacts
  <2>3. PICK i \in 1..Depth - 1 : i = Depth - 1 /\ i + 1 = Depth
    <3>1. \A k \in Nat : k > 1 => k - 1 \in 1..k - 1 /\ (k - 1) + 1 = k
      OBVIOUS
    <3> QED BY <2>2, <3>1
  <2>4. /\ buffer \in 1..i /\ stack[buffer].at \in Requests /\ Top.up = buffer
    BY <2>1, <2>3 DEF Control, Controlled, Conveyed, Walks, Top, Caller
  <2>5. stack[buffer].at \in {"trigger", "sent"} /\ buffer # 0
    BY <2>1, <2>4 DEF Requests
  <2> QED BY <2>4, <2>5 DEF Requested, Asked, Pending
<1> QED BY <1>1, <1>2 DEF AnswersAreOwn

\* Whoever is told EFI_SUCCESS by Communicate has had its own message handled, and once,
\* whatever SMIs, notifications and messages of drivers came in between: only a
\* notification in the middle of the call takes the request or its answer away; and the
\* handlers are told the size of the message they are given, unless the SMI came between
\* the two stores of the request.
THEOREM AnswersCorrect == Spec => []AnswersAreOwn
<1>1. IInv => AnswersAreOwn
  BY AnswersAre DEF IInv
<1> QED BY <1>1, Invariance, PTL
=============================================================================
