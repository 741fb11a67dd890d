--------------------- MODULE SmmRendezvousElected_proofs ---------------------
(* How the processors meet in system management mode when they elect the     *)
(* BSP: proofs, for any number of processors on any cores, and any number of *)
(* SMIs and procedures.                                                      *)
EXTENDS SmmRendezvousInv, FiniteSetTheorems, TLAPS

-----------------------------------------------------------------------------
(* Numbers of processors, and setting one field.                             *)

(* Counting processors.                                                      *)

(* Numbers are of finite sets, and 0 where there is nobody.                  *)
LEMMA NumberIs ==
  ASSUME NEW at, NEW X \in SUBSET Cpus, NEW L
  PROVE  /\ IsFiniteSet({d \in X : at[d] \in L})
         /\ Number(at, X, L) \in Nat
         /\ Number(at, X, L) = 0 => \A d \in X : at[d] \notin L
<1> DEFINE S == {d \in X : at[d] \in L}
<1>1. IsFiniteSet(Cpus) /\ S \subseteq Cpus
  BY RendezvousAssumption
<1>2. IsFiniteSet(S)
  BY <1>1, FS_Subset
<1>3. Cardinality(S) \in Nat
  BY <1>2, FS_CardinalityType
<1>4. Cardinality(S) = 0 => S = {}
  BY <1>2, FS_EmptySet
<1> QED BY <1>2, <1>3, <1>4 DEF Number

(* A number stays when the same processors are meant.                        *)
LEMMA NumberStays ==
  ASSUME NEW at, NEW to, NEW X, NEW L, NEW M,
         \A d \in X : at[d] \in L <=> to[d] \in M
  PROVE  Number(at, X, L) = Number(to, X, M)
<1>1. {d \in X : at[d] \in L} = {d \in X : to[d] \in M}
  OBVIOUS
<1> QED BY <1>1 DEF Number

(* One processor moves: it is one more, one less or as many.                 *)
LEMMA NumberMoves ==
  ASSUME NEW at, NEW to, NEW X \in SUBSET Cpus, NEW c \in X, NEW L,
         \A x \in X : x # c => to[x] = at[x]
  PROVE  /\ to[c] \in L /\ at[c] \notin L => Number(to, X, L) = Number(at, X, L) + 1
         /\ to[c] \notin L /\ at[c] \in L => Number(to, X, L) = Number(at, X, L) - 1
         /\ (to[c] \in L <=> at[c] \in L) => Number(to, X, L) = Number(at, X, L)
<1> DEFINE S == {x \in X : at[x] \in L}
           T == {x \in X : to[x] \in L}
<1>1. IsFiniteSet(S) /\ Cardinality(S) = Number(at, X, L) /\ Cardinality(T) = Number(to, X, L)
  BY NumberIs DEF Number
<1>3. ASSUME to[c] \in L, at[c] \notin L
      PROVE  T = S \cup {c} /\ c \notin S
  BY <1>3
<1>4. ASSUME to[c] \notin L, at[c] \in L
      PROVE  T = S \ {c} /\ c \in S
  BY <1>4
<1>5. ASSUME to[c] \in L <=> at[c] \in L
      PROVE  T = S
  BY <1>5
<1> HIDE DEF S, T
<1>6. ASSUME to[c] \in L, at[c] \notin L
      PROVE  Cardinality(T) = Cardinality(S) + 1
  BY <1>1, <1>3, <1>6, FS_AddElement
<1>7. ASSUME to[c] \notin L, at[c] \in L
      PROVE  Cardinality(T) = Cardinality(S) - 1
  BY <1>1, <1>4, <1>7, FS_RemoveElement
<1> QED BY <1>1, <1>5, <1>6, <1>7

(* Everyone but b is in L when as many are as there are.                     *)
LEMMA NumberAll ==
  ASSUME NEW at, NEW b \in Cpus, NEW L, Number(at, Cpus \ {b}, L) >= NumberOfCpus - 1
  PROVE  \A d \in Cpus \ {b} : at[d] \in L
<1> DEFINE X == Cpus \ {b}
           S == {d \in X : at[d] \in L}
<1>1. IsFiniteSet(Cpus)
  BY RendezvousAssumption
<1>2. IsFiniteSet(X) /\ Cardinality(X) = NumberOfCpus - 1
  BY <1>1, FS_RemoveElement DEF NumberOfCpus
<1>3. S \in SUBSET X
  OBVIOUS
<1>4. Cardinality(S) >= Cardinality(X)
  BY <1>2 DEF Number
<1> HIDE DEF S, X
<1>5. /\ Cardinality(S) <= Cardinality(X)
      /\ Cardinality(X) = Cardinality(S) => X = S
      /\ IsFiniteSet(S)
  BY <1>2, <1>3, FS_Subset
<1>6. Cardinality(S) \in Nat /\ Cardinality(X) \in Nat
  BY <1>2, <1>5, FS_CardinalityType
<1>7. X = S
  BY <1>4, <1>5, <1>6
<1> QED BY <1>7 DEF S, X

-----------------------------------------------------------------------------
(* CpuData and the local variables.                                          *)

(* Setting Run of one processor.                                             *)
LEMMA RunSet ==
  ASSUME data \in [Cpus -> Datum], NEW c \in Cpus, NEW v \in Nat, Set(c, "run", v)
  PROVE  /\ data' \in [Cpus -> Datum]
         /\ data'[c].run = v /\ data'[c].present = data[c].present
         /\ data'[c].busy = data[c].busy /\ data'[c].procedure = data[c].procedure
         /\ \A x \in Cpus : x # c => data'[x] = data[x]
<1>1. PICK d \in Datum : d = data[c]
  OBVIOUS
<1>2. PICK f : f = [d EXCEPT !.run = v]
  OBVIOUS
<1>3. /\ f \in Datum /\ f.run = v /\ f.present = d.present /\ f.busy = d.busy
      /\ f.procedure = d.procedure
  BY <1>2 DEF Datum
<1>4. data' = [data EXCEPT ![c] = f]
  BY <1>1, <1>2 DEF Set
<1> QED BY <1>1, <1>3, <1>4

(* Setting Present.                                                          *)
LEMMA PresentSet ==
  ASSUME data \in [Cpus -> Datum], NEW c \in Cpus, NEW v \in BOOLEAN, Set(c, "present", v)
  PROVE  /\ data' \in [Cpus -> Datum]
         /\ data'[c].run = data[c].run /\ data'[c].present = v
         /\ data'[c].busy = data[c].busy /\ data'[c].procedure = data[c].procedure
         /\ \A x \in Cpus : x # c => data'[x] = data[x]
<1>1. PICK d \in Datum : d = data[c]
  OBVIOUS
<1>2. PICK f : f = [d EXCEPT !.present = v]
  OBVIOUS
<1>3. /\ f \in Datum /\ f.run = d.run /\ f.present = v /\ f.busy = d.busy
      /\ f.procedure = d.procedure
  BY <1>2 DEF Datum
<1>4. data' = [data EXCEPT ![c] = f]
  BY <1>1, <1>2 DEF Set
<1> QED BY <1>1, <1>3, <1>4

(* Setting Busy.                                                             *)
LEMMA BusySet ==
  ASSUME data \in [Cpus -> Datum], NEW c \in Cpus, NEW v \in BOOLEAN, Set(c, "busy", v)
  PROVE  /\ data' \in [Cpus -> Datum]
         /\ data'[c].run = data[c].run /\ data'[c].present = data[c].present
         /\ data'[c].busy = v /\ data'[c].procedure = data[c].procedure
         /\ \A x \in Cpus : x # c => data'[x] = data[x]
<1>1. PICK d \in Datum : d = data[c]
  OBVIOUS
<1>2. PICK f : f = [d EXCEPT !.busy = v]
  OBVIOUS
<1>3. /\ f \in Datum /\ f.run = d.run /\ f.present = d.present /\ f.busy = v
      /\ f.procedure = d.procedure
  BY <1>2 DEF Datum
<1>4. data' = [data EXCEPT ![c] = f]
  BY <1>1, <1>2 DEF Set
<1> QED BY <1>1, <1>3, <1>4

(* Setting Procedure.                                                        *)
LEMMA ProcedureSet ==
  ASSUME data \in [Cpus -> Datum], NEW c \in Cpus, NEW v \in Int, Set(c, "procedure", v)
  PROVE  /\ data' \in [Cpus -> Datum]
         /\ data'[c].run = data[c].run /\ data'[c].present = data[c].present
         /\ data'[c].busy = data[c].busy /\ data'[c].procedure = v
         /\ \A x \in Cpus : x # c => data'[x] = data[x]
<1>1. PICK d \in Datum : d = data[c]
  OBVIOUS
<1>2. PICK f : f = [d EXCEPT !.procedure = v]
  OBVIOUS
<1>3. /\ f \in Datum /\ f.run = d.run /\ f.present = d.present /\ f.busy = d.busy
      /\ f.procedure = v
  BY <1>2 DEF Datum
<1>4. data' = [data EXCEPT ![c] = f]
  BY <1>1, <1>2 DEF Set
<1> QED BY <1>1, <1>3, <1>4

(* Moving one processor.                                                     *)
LEMMA GotoIs ==
  ASSUME pc \in [Cpus -> Labels], NEW c \in Cpus, NEW l \in Labels, Goto(c, l)
  PROVE  /\ pc' = [pc EXCEPT ![c] = l] /\ pc' \in [Cpus -> Labels] /\ pc'[c] = l
         /\ \A x \in Cpus : x # c => pc'[x] = pc[x]
BY DEF Goto

(* Replacing the variables of c by f.                                        *)
LEMMA VarsSet ==
  ASSUME local \in [Cpus -> Vars], NEW c \in Cpus, NEW f \in Vars,
         local' = [local EXCEPT ![c] = f]
  PROVE  /\ local' \in [Cpus -> Vars] /\ local'[c] = f
         /\ \A x \in Cpus : x # c => local'[x] = local[x]
OBVIOUS

-----------------------------------------------------------------------------
(* Steps of a processor that is not the BSP.                                 *)

(* A step of another processor than the BSP.                                 *)
LEMMA OtherMoves ==
  ASSUME Typed, NEW b \in Cpus, bspIndex = b, NEW p, p = Now(b), Session(b, p),
         NEW c \in Cpus \ {b}, NEW l \in Labels, Goto(c, l),
         UNCHANGED <<config, bspIndex, current, insideSmm>>,
         \A x \in Cpus : x # c => local'[x] = local[x],
         \A x \in Cpus : x # c /\ x # b => data'[x] = data[x],
         Placed(b, c, p)', Starts(b)', data[b].run \in Nat,
         \/ /\ counter' = counter /\ data'[b].run = data[b].run
            /\ l \in Owing(p) <=> pc[c] \in Owing(p)
            /\ l \in Away <=> pc[c] \in Away
         \/ /\ counter' = counter /\ data'[b].run = data[b].run + 1
            /\ pc[c] \in Owing(p) /\ l \notin Owing(p)
            /\ pc[c] \notin Away /\ (l \in Away => Last(p, ConfigureMtrrs))
         \/ /\ p \in {"gather", "close"}
            /\ counter' = counter + 1 /\ data'[b].run = data[b].run
            /\ pc[c] \notin Owing(p) /\ l \in Owing(p)
            /\ pc[c] \in Away /\ l \notin Away
  PROVE  Led' /\ Now(b)' = p
<1>1. /\ pc \in [Cpus -> Labels] /\ pc' = [pc EXCEPT ![c] = l] /\ pc'[c] = l
      /\ \A x \in Cpus : x # c => pc'[x] = pc[x]
  BY GotoIs DEF Typed
<1>2. b # c /\ pc'[b] = pc[b] /\ local'[b] = local[b]
  BY <1>1
<1>3. Now(b)' = p
  BY <1>2 DEF Now, ConfigureMtrrs
<1>4. ASSUME NEW d \in Cpus \ {b}
      PROVE  Placed(b, d, p)'
  <2>1. CASE d = c
    BY <2>1
  <2>2. CASE d # c
    <3>1. Placed(b, d, p)
      BY DEF Session
    <3>2. pc'[d] = pc[d] /\ local'[d] = local[d] /\ data'[d] = data[d]
      BY <1>1, <2>2
    <3> QED BY <1>2, <3>1, <3>2 DEF Placed, ConfigureMtrrs
  <2> QED BY <2>1, <2>2
<1>5. Tallied(b, p)'
  <2> DEFINE o == Number(pc, Cpus \ {b}, Owing(p))
             n == Number(pc', Cpus \ {b}, Owing(p))
             s == Number(pc, Cpus \ {b}, There)
             t == Number(pc', Cpus \ {b}, There)
  <2>1. /\ o \in Nat /\ n \in Nat /\ s \in Nat /\ t \in Nat
    BY NumberIs
  <2>10. \A x \in Cpus \ {b} : x # c => pc'[x] = pc[x]
    BY <1>1
  <2>2. /\ pc'[c] \in Owing(p) /\ pc[c] \notin Owing(p) => n = o + 1
        /\ pc'[c] \notin Owing(p) /\ pc[c] \in Owing(p) => n = o - 1
        /\ (pc'[c] \in Owing(p) <=> pc[c] \in Owing(p)) => n = o
    BY ONLY <2>10, NumberMoves, c \in Cpus \ {b}, Cpus \ {b} \in SUBSET Cpus
  <2>3. /\ pc'[c] \in There /\ pc[c] \notin There => t = s + 1
        /\ (pc'[c] \in There <=> pc[c] \in There) => t = s
    BY ONLY <2>10, NumberMoves, c \in Cpus \ {b}, Cpus \ {b} \in SUBSET Cpus
  <2>4. (l \in There <=> l \notin Away) /\ (pc[c] \in There <=> pc[c] \notin Away)
    BY <1>1 DEF There
  <2>5. /\ data[b].run + o = Awaited(pc[b], local[b], counter)
        /\ IF p \in {"gather", "close"} THEN counter - 1 = s
           ELSE /\ counter = Locked
                /\ p = "over" \/ Last(p, ConfigureMtrrs) \/ local[b].aps = s
    BY DEF Session, Tallied
  <2>6. counter \in Int /\ ConfigureMtrrs' = ConfigureMtrrs
    BY DEF Typed, ConfigureMtrrs
  <2> HIDE DEF o, n, s, t
  <2>7. CASE /\ counter' = counter /\ data'[b].run = data[b].run
             /\ l \in Owing(p) <=> pc[c] \in Owing(p)
             /\ l \in Away <=> pc[c] \in Away
    <3>1. n = o /\ t = s
      BY <1>1, <2>2, <2>3, <2>4, <2>7
    <3> QED BY <1>2, <2>5, <2>6, <2>7, <3>1 DEF Tallied, n, t
  <2>8. CASE /\ counter' = counter /\ data'[b].run = data[b].run + 1
             /\ pc[c] \in Owing(p) /\ l \notin Owing(p)
             /\ pc[c] \notin Away /\ (l \in Away => Last(p, ConfigureMtrrs))
    <3>1. n = o - 1 /\ (t = s \/ Last(p, ConfigureMtrrs))
      BY <1>1, <2>2, <2>3, <2>4, <2>8
    <3>2. data'[b].run + n = data[b].run + o
      BY <2>1, <2>8, <3>1
    <3>3. p \in {"gather", "close"} => ~Last(p, ConfigureMtrrs)
      BY DEF Last
    <3> QED BY <1>2, <2>5, <2>6, <2>8, <3>1, <3>2, <3>3 DEF Tallied, n, t
  <2>9. CASE /\ p \in {"gather", "close"}
             /\ counter' = counter + 1 /\ data'[b].run = data[b].run
             /\ pc[c] \notin Owing(p) /\ l \in Owing(p)
             /\ pc[c] \in Away /\ l \notin Away
    <3>1. n = o + 1 /\ t = s + 1
      BY <1>1, <2>2, <2>3, <2>4, <2>9
    <3>2. pc[b] \in Open \cup Closing
      BY <2>9 DEF Now, Phase
    <3>3. data'[b].run + n = counter' - 1 /\ counter' - 1 = t
      <4>1. data[b].run + o = counter - 1 /\ counter - 1 = s
        BY <2>5, <2>9, <3>2 DEF Awaited
      <4>2. data[b].run \in Nat /\ counter' = counter + 1 /\ data'[b].run = data[b].run
        BY <2>9
      <4> QED BY <2>1, <2>6, <3>1, <4>1, <4>2
    <3> QED BY <1>2, <2>9, <3>2, <3>3 DEF Tallied, Awaited, n, t
  <2> QED BY <2>7, <2>8, <2>9
<1>6. Leads(b, p)'
  BY <1>2 DEF Session, Leads
<1>7. Session(b, p)'
  BY <1>4, <1>5, <1>6 DEF Session
<1>8. bspIndex' = b /\ b # NoCpu
  BY RendezvousAssumption
<1> QED BY <1>3, <1>7, <1>8 DEF Led

(* It stays before, at, behind or beyond the barrier.                        *)
LEMMA OtherStays ==
  ASSUME Typed, NEW b \in Cpus, bspIndex = b, NEW p, p = Now(b), Session(b, p),
         NEW c \in Cpus \ {b}, NEW l \in Labels, Goto(c, l),
         UNCHANGED <<config, bspIndex, current, insideSmm, counter>>,
         \A x \in Cpus : x # c => local'[x] = local[x],
         l \in Knows => local'[c].bsp = b,
         \A x \in Cpus : x # c => data'[x] = data[x],
         data'[c].run = data[c].run, data'[c].busy = data[c].busy \/ pc[b] \notin Starting,
         l \in Owing(p) \cup Beyond(p, ConfigureMtrrs) \cup Gone,
         l \in Gate(p) <=> pc[c] \in Gate(p), l \in Work(p) <=> pc[c] \in Work(p),
         l \in Away <=> pc[c] \in Away, pc[c] \in Gone => l \in Gone,
         p = "hold" => l # "ap_busy" /\ (pc[c] = "ap_idle" => l = "ap_idle")
                       /\ (l \in Gone => pc[c] \in Gone)
  PROVE  Led' /\ Now(b)' = p
<1>1. /\ pc \in [Cpus -> Labels] /\ pc'[c] = l
      /\ \A x \in Cpus : x # c => pc'[x] = pc[x]
  BY GotoIs DEF Typed
<1>2. b # c /\ pc'[b] = pc[b] /\ local'[b] = local[b] /\ data'[b] = data[b]
  BY <1>1
<1>3. Placed(b, c, p)'
  <2>1. Placed(b, c, p)
    BY DEF Session
  <2>2. Uncalled(pc[b], local[b], c, data[c].busy)' <=> Uncalled(pc[b], local[b], c, data[c].busy)
    BY <1>2 DEF Uncalled, Starting
  <2>3. ConfigureMtrrs' = ConfigureMtrrs
    BY DEF ConfigureMtrrs
  <2>4. /\ pc'[c] \in Owing(p) \cup Beyond(p, ConfigureMtrrs') \cup Gone
        /\ pc'[c] \in Knows => local'[c].bsp = b
    BY <1>1, <2>3
  <2>5. Uncalled(pc[b], local[b], c, data[c].busy)' => pc'[c] \in Gate(p) \cup Gone
    BY <1>1, <2>1, <2>2 DEF Placed
  <2>6. data'[c].run = IF pc'[c] \in Gate(p) /\ ~Uncalled(pc[b], local[b], c, data[c].busy)'
                       THEN 1 ELSE 0
    BY <1>1, <2>1, <2>2 DEF Placed
  <2> QED BY <2>4, <2>5, <2>6 DEF Placed
<1>4. Starts(b)'
  <2> SUFFICES ASSUME pc[b] \in Starting PROVE Starts(b)'
    BY <1>2 DEF Starts
  <2>1. p = "hold"
    BY DEF Starting, Now, Phase, Open, Closing, Foundation
  <2>2. PICK a : a = local[b].ap
    OBVIOUS
  <2>3. /\ a \in Cpus \ {b} /\ pc[a] \notin Gone
        /\ \A d \in Cpus : pc[d] # "ap_busy"
        /\ pc[b] # "startup_wait" => data[a].busy
        /\ ~data[a].busy => pc[a] = "ap_idle"
    BY <2>2 DEF Session, Starts
  <2>4. \A d \in Cpus : pc'[d] # "ap_busy"
    BY <1>1, <2>1, <2>3
  <2>5. data'[a].busy = data[a].busy
    BY <2>3
  <2>6. pc'[a] \notin Gone /\ (~data[a].busy => pc'[a] = "ap_idle")
    <3>1. CASE a = c
      BY <1>1, <2>1, <2>3, <3>1
    <3>2. CASE a # c
      BY <1>1, <2>3, <3>2
    <3> QED BY <3>1, <3>2
  <2> QED BY <1>2, <2>2, <2>3, <2>4, <2>5, <2>6 DEF Starts
<1>5. data[b].run \in Nat
  BY DEF Typed, Datum
<1>6. l \in Owing(p) <=> pc[c] \in Owing(p)
  BY DEF Owing
<1>7. data'[b].run = data[b].run
  BY <1>2
<1> QED BY <1>3, <1>4, <1>5, <1>6, <1>7, OtherMoves

(* It passes the gate.                                                       *)
LEMMA OtherPasses ==
  ASSUME Typed, NEW b \in Cpus, bspIndex = b, NEW p, p = Now(b), Session(b, p),
         NEW c \in Cpus \ {b}, NEW l \in Work(p), l \in Labels, Goto(c, l), WaitForRun(c),
         UNCHANGED <<config, bspIndex, current, insideSmm, counter, local>>,
         pc[c] \in Owing(p) \cup Beyond(p, ConfigureMtrrs),
         pc[c] \in Knows, l # "ap_busy", l \notin Away, l \notin Gate(p)
  PROVE  Led' /\ Now(b)' = p
<1>1. /\ pc \in [Cpus -> Labels] /\ pc'[c] = l
      /\ \A x \in Cpus : x # c => pc'[x] = pc[x]
      /\ data \in [Cpus -> Datum] /\ data[c].run \in Nat /\ data[b].run \in Nat
  BY GotoIs DEF Typed, Datum
<1>2. data[c].run > 0 /\ Set(c, "run", data[c].run - 1)
  BY DEF WaitForRun
<1>3. Placed(b, c, p)
  BY DEF Session
<1>4. /\ pc[c] \in Gate(p) /\ ~Uncalled(pc[b], local[b], c, data[c].busy)
      /\ data[c].run = 1 /\ local[c].bsp = b
  BY <1>1, <1>2, <1>3 DEF Placed
<1>5. /\ data'[c].run = 0 /\ data'[c].busy = data[c].busy
      /\ \A x \in Cpus : x # c => data'[x] = data[x]
  <2>1. data[c].run - 1 \in Nat /\ data[c].run - 1 = 0
    BY <1>4
  <2> QED BY <1>1, <1>2, <2>1, RunSet
<1>6. b # c /\ pc'[b] = pc[b] /\ local' = local /\ data'[b] = data[b]
  BY <1>1, <1>5
<1>7. Placed(b, c, p)'
  <2>1. ~Uncalled(pc[b], local[b], c, data[c].busy)'
    BY <1>4, <1>5, <1>6 DEF Uncalled
  <2>2. ConfigureMtrrs' = ConfigureMtrrs
    BY DEF ConfigureMtrrs
  <2> QED BY <1>1, <1>4, <1>5, <1>6, <2>1, <2>2 DEF Placed, Owing
<1>8. Starts(b)'
  <2> SUFFICES ASSUME pc[b] \in Starting PROVE Starts(b)'
    BY <1>6 DEF Starts
  <2>1. PICK a : a = local[b].ap
    OBVIOUS
  <2>2. /\ a \in Cpus \ {b} /\ pc[a] \notin Gone
        /\ \A d \in Cpus : pc[d] # "ap_busy"
        /\ pc[b] # "startup_wait" => data[a].busy
        /\ ~data[a].busy => pc[a] = "ap_idle"
    BY <2>1 DEF Session, Starts
  <2>3. \A d \in Cpus : pc'[d] # "ap_busy"
    BY <1>1, <2>2
  <2>4. data'[a].busy = data[a].busy
    BY <1>5, <2>2
  <2>5. c = a => data[a].busy
    BY <1>4, <2>1 DEF Uncalled, Starting, Ready
  <2>6. pc'[a] \notin Gone /\ (~data[a].busy => pc'[a] = "ap_idle")
    BY <1>1, <2>2, <2>5 DEF Away
  <2> QED BY <1>6, <2>1, <2>2, <2>3, <2>4, <2>6 DEF Starts
<1>9. l \in Owing(p) /\ pc[c] \in Owing(p)
  BY <1>4 DEF Owing
<1>10. pc[c] \notin Away
  BY DEF Knows, Away, Gone, Leaving
<1>11. data'[b].run = data[b].run
  BY <1>6
<1>12. \A x \in Cpus : x # c => local'[x] = local[x]
  OBVIOUS
<1> QED BY <1>1, <1>5, <1>7, <1>8, <1>9, <1>10, <1>11, <1>12, OtherMoves

(* It signals the BSP.                                                       *)
LEMMA OtherSignals ==
  ASSUME Typed, NEW b \in Cpus, bspIndex = b, NEW p, p = Now(b), Session(b, p),
         NEW c \in Cpus \ {b}, NEW l \in Beyond(p, ConfigureMtrrs), l \in Labels,
         SignalBsp(c, b, l), UNCHANGED <<config, mtrr, tasks, runs>>,
         pc[c] \in Work(p), pc[c] \notin Gate(p), p # "hold", l \notin Owing(p),
         l \in Knows => pc[c] \in Knows, pc[c] \notin Away,
         l \in Away => Last(p, ConfigureMtrrs)
  PROVE  Led' /\ Now(b)' = p
<1>1. /\ pc \in [Cpus -> Labels] /\ pc'[c] = l
      /\ \A x \in Cpus : x # c => pc'[x] = pc[x]
      /\ data \in [Cpus -> Datum] /\ data[c].run \in Nat /\ data[b].run \in Nat
      /\ Goto(c, l) /\ Set(b, "run", data[b].run + 1)
      /\ UNCHANGED <<counter, bspIndex, current, insideSmm, local>>
  BY GotoIs DEF Typed, Datum, SignalBsp, ReleaseRun, shared
<1>2. Placed(b, c, p)
  BY DEF Session
<1>3. /\ data'[b].run = data[b].run + 1
      /\ \A x \in Cpus : x # b => data'[x] = data[x]
  <2>1. data[b].run + 1 \in Nat
    BY <1>1
  <2> QED BY <1>1, <2>1, RunSet
<1>4. b # c /\ pc'[b] = pc[b] /\ local' = local /\ data'[c] = data[c]
  BY <1>1, <1>3
<1>5. Placed(b, c, p)'
  <2>1. pc[c] \notin Gone
    BY DEF Away
  <2>2. ~Uncalled(pc[b], local[b], c, data[c].busy) /\ data[c].run = 0
    BY <1>2, <2>1 DEF Placed
  <2>3. ~Uncalled(pc[b], local[b], c, data[c].busy)'
    BY <1>4, <2>2 DEF Uncalled
  <2>4. ConfigureMtrrs' = ConfigureMtrrs /\ l \notin Gate(p)
    BY DEF ConfigureMtrrs, Owing
  <2> QED BY <1>1, <1>2, <1>4, <2>2, <2>3, <2>4 DEF Placed
<1>6. Starts(b)'
  <2>1. pc[b] \notin Starting
    BY DEF Starting, Now, Phase, Open, Closing, Foundation
  <2> QED BY <1>4, <2>1 DEF Starts
<1>7. pc[c] \in Owing(p)
  BY DEF Owing
<1>8. \A x \in Cpus : x # c => local'[x] = local[x]
  BY <1>4
<1> QED BY <1>1, <1>3, <1>5, <1>6, <1>7, <1>8, OtherMoves

(* It counts itself.                                                         *)
LEMMA OtherArrives ==
  ASSUME Typed, NEW b \in Cpus, bspIndex = b, NEW p, p = Now(b), Session(b, p),
         NEW c \in Cpus \ {b}, pc[c] = "arrive", Goto(c, "present"),
         counter # Locked, counter' = counter + 1,
         UNCHANGED <<config, bspIndex, current, insideSmm, data, local>>
  PROVE  Led' /\ Now(b)' = p
<1>1. /\ pc \in [Cpus -> Labels] /\ pc'[c] = "present"
      /\ \A x \in Cpus : x # c => pc'[x] = pc[x]
      /\ data[b].run \in Nat /\ "present" \in Labels
  BY GotoIs DEF Typed, Datum, Labels
<1>2. p \in {"gather", "close"}
  BY DEF Session, Tallied
<1>3. pc[b] \in Open \cup Closing
  BY <1>2 DEF Now, Phase
<1>4. /\ \A f, d, busy : ~Uncalled(pc[b], f, d, busy)
      /\ pc[b] \notin Starting
  BY <1>3 DEF Uncalled, Open, Closing, Ready, Starting
<1>5. /\ Owing(p) = Joining /\ Gate(p) = {}
  BY <1>2 DEF Owing, Gate, Work
<1>6. pc'[b] = pc[b]
  BY <1>1
<1>7. Placed(b, c, p)'
  <2>1. Placed(b, c, p)
    BY DEF Session
  <2> QED BY <1>1, <1>4, <1>5, <1>6, <2>1 DEF Placed, Joining, Knows
<1>8. Starts(b)'
  BY <1>4, <1>6 DEF Starts
<1>9. /\ pc[c] \notin Owing(p) /\ "present" \in Owing(p)
      /\ pc[c] \in Away /\ "present" \notin Away
  BY <1>5 DEF Joining, Away, Gone, Leaving
<1> QED BY <1>1, <1>2, <1>7, <1>8, <1>9, OtherMoves

(* It has run a procedure, and is called no longer.                          *)
LEMMA OtherFrees ==
  ASSUME Typed, NEW b \in Cpus, bspIndex = b, NEW p, p = Now(b), Session(b, p),
         NEW c \in Cpus \ {b}, ApFree(c), UNCHANGED config, p = "hold"
  PROVE  Led' /\ Now(b)' = p
<1>1. /\ pc \in [Cpus -> Labels] /\ pc[c] = "ap_free" /\ pc'[c] = "ap_idle"
      /\ \A x \in Cpus : x # c => pc'[x] = pc[x]
      /\ data \in [Cpus -> Datum] /\ data[b].run \in Nat
      /\ Goto(c, "ap_idle") /\ "ap_idle" \in Labels
      /\ UNCHANGED <<counter, bspIndex, current, insideSmm, local>>
  BY GotoIs DEF Typed, Datum, Labels, ApFree, At, shared
<1>2. /\ data'[c].run = data[c].run /\ data'[c].busy = FALSE
      /\ \A x \in Cpus : x # c => data'[x] = data[x]
  BY <1>1, BusySet DEF ApFree
<1>3. Placed(b, c, p)
  BY DEF Session
<1>4. /\ pc[c] \notin Gate(p) \cup Gone /\ Gate(p) = {"ap_busy", "ap_idle"}
      /\ Work(p) = {"ap_look", "ap_run", "ap_free"}
  BY <1>1 DEF Gate, Gone, Work
<1>5. ~Uncalled(pc[b], local[b], c, data[c].busy) /\ data[c].run = 0
  BY <1>3, <1>4 DEF Placed
<1>6. pc[b] = "startup_wait" /\ local[b].ap = c
  <2>1. pc[b] \in {"bsp_busy"} \cup Foundation
    BY DEF Now, Phase
  <2> QED BY <1>5, <2>1 DEF Uncalled, Foundation, Ready
<1>7. pc'[b] = pc[b] /\ local' = local /\ data'[b] = data[b]
  BY <1>1, <1>2
<1>8. Uncalled(pc[b], local[b], c, data[c].busy)'
  BY <1>2, <1>6, <1>7 DEF Uncalled
<1>9. Placed(b, c, p)'
  BY <1>1, <1>2, <1>3, <1>4, <1>5, <1>7, <1>8 DEF Placed, Owing, Knows
<1>10. Starts(b)'
  <2>1. \A d \in Cpus : pc'[d] # "ap_busy"
    BY <1>1, <1>6 DEF Session, Starts, Starting
  <2> QED BY <1>1, <1>6, <1>7, <2>1 DEF Starts, Gone
<1>11. /\ pc[c] \in Owing(p) /\ "ap_idle" \in Owing(p)
       /\ pc[c] \notin Away /\ "ap_idle" \notin Away
  BY <1>1, <1>4 DEF Owing, Away, Gone, Leaving
<1> QED BY <1>1, <1>2, <1>7, <1>9, <1>10, <1>11, OtherMoves

(* The phases of a session.                                                  *)
Phases == {"gather", "close", "meet", "save", "replace", "hold", "dismiss", "restore", "over"}

(* A phase, or none that the BSP can be in.                                  *)
LEMMA PhaseIs ==
  ASSUME NEW l, NEW t, NEW m \in BOOLEAN
  PROVE  Phase(l, t, m) \in Phases \cup {"none"}
BY DEF Phase, Phases

(* From x to l without passing the gate of phase p or signalling.            *)
Alike(p, x, l, m) ==
  /\ l \in Owing(p) \cup Beyond(p, m) \cup Gone
  /\ l \in Gate(p) <=> x \in Gate(p)
  /\ l \in Work(p) <=> x \in Work(p)
  /\ l \in Away <=> x \in Away
  /\ x \in Gone => l \in Gone
  /\ p = "hold" => l # "ap_busy" /\ (x = "ap_idle" => l = "ap_idle") /\ (l \in Gone => x \in Gone)

(* Steps that neither pass a gate nor signal the BSP.                        *)
Stay == {<<"out", "arrive">>, <<"arrive", "exit">>, <<"present", "elect">>, <<"elect", "role">>,
         <<"role", "ap">>, <<"ap", "ap_notify">>, <<"ap_saving", "ap_saved">>,
         <<"ap_replacing", "ap_replaced">>, <<"ap_busy", "ap_idle">>, <<"ap_run", "ap_free">>,
         <<"ap_restoring", "ap_restored">>, <<"leave", "exit">>, <<"exit", "out">>,
         <<"bsp_out_of_sync", "leave">>}

(* Such steps are alike in every phase in which they can be taken.           *)
LEMMA AlikeIs ==
  ASSUME NEW p \in Phases, NEW m \in BOOLEAN, NEW x, NEW l,
         x \in Owing(p) \cup Beyond(p, m) \cup Gone,
         \/ <<x, l>> \in Stay
         \/ p = "hold" /\ x = "ap_look" /\ l = "ap_run"
         \/ p = "dismiss" /\ x = "ap_look" /\ l = "ap_done"
  PROVE  Alike(p, x, l, m)
<1> USE DEF Alike, Owing, Gate, Work, Beyond, FirstGate, Joining, Leaving, Gone, Away
<1>1. CASE p = "gather"
  BY <1>1 DEF Stay
<1>2. CASE p = "close"
  BY <1>2 DEF Stay
<1>3. CASE p = "meet"
  BY <1>3 DEF Stay
<1>4. CASE p = "save"
  BY <1>4 DEF Stay
<1>5. CASE p = "replace"
  BY <1>5 DEF Stay
<1>6. CASE p = "hold"
  BY <1>6 DEF Stay
<1>7. CASE p = "dismiss"
  BY <1>7 DEF Stay
<1>8. CASE p = "restore"
  BY <1>8 DEF Stay
<1>9. CASE p = "over"
  BY <1>9 DEF Stay
<1> HIDE DEF Alike, Owing, Gate, Work, Beyond, FirstGate, Joining, Leaving, Gone, Away
<1> QED BY <1>1, <1>2, <1>3, <1>4, <1>5, <1>6, <1>7, <1>8, <1>9 DEF Phases

(* Where a processor other than the BSP is.                                  *)
OtherLabels == Joining \cup Leaving \cup Gone \cup Knows

(* Each gate belongs to its phase.                                           *)
LEMMA OtherIs ==
  ASSUME NEW p \in Phases, NEW m \in BOOLEAN
  PROVE  /\ Owing(p) \cup Beyond(p, m) \cup Gone \subseteq OtherLabels
         /\ "ap_save" \in Gate(p) => p = "save"
         /\ "ap_replace" \in Gate(p) => p = "replace"
         /\ "ap_idle" \in Gate(p) => p \in {"hold", "dismiss"}
         /\ "ap_restore" \in Gate(p) => p = "restore"
         /\ "ap_notify" \in Owing(p) \cup Beyond(p, m) \cup Gone =>
              p \in {"gather", "close", "meet"}
         /\ {"ap_saving", "ap_saved"} \cap (Owing(p) \cup Beyond(p, m) \cup Gone) # {} =>
              p = "save"
         /\ {"ap_replacing", "ap_replaced"} \cap (Owing(p) \cup Beyond(p, m) \cup Gone) # {} =>
              p = "replace"
         /\ {"ap_run", "ap_free"} \cap (Owing(p) \cup Beyond(p, m) \cup Gone) # {} => p = "hold"
         /\ "ap_look" \in Owing(p) \cup Beyond(p, m) \cup Gone => p \in {"hold", "dismiss"}
         /\ "ap_done" \in Owing(p) \cup Beyond(p, m) \cup Gone => p = "dismiss"
         /\ {"ap_restoring", "ap_restored"} \cap (Owing(p) \cup Beyond(p, m) \cup Gone) # {} =>
              p = "restore"
<1> USE DEF OtherLabels, Owing, Gate, Work, Beyond, FirstGate, Joining, Leaving, Gone, Away, Knows
<1>1. CASE p = "gather"
  BY <1>1
<1>2. CASE p = "close"
  BY <1>2
<1>3. CASE p = "meet"
  BY <1>3
<1>4. CASE p = "save"
  BY <1>4
<1>5. CASE p = "replace"
  BY <1>5
<1>6. CASE p = "hold"
  BY <1>6
<1>7. CASE p = "dismiss"
  BY <1>7
<1>8. CASE p = "restore"
  BY <1>8
<1>9. CASE p = "over"
  BY <1>9
<1> HIDE DEF OtherLabels, Owing, Gate, Work, Beyond, FirstGate, Joining, Leaving, Gone, Away,
      Knows
<1> QED BY <1>1, <1>2, <1>3, <1>4, <1>5, <1>6, <1>7, <1>8, <1>9 DEF Phases

(* Where the others are, what they know and when they may pass.              *)
LEMMA InPhase ==
  ASSUME Typed, NEW b \in Cpus, NEW p, p = Now(b), Session(b, p)
  PROVE  /\ p \in Phases
         /\ p \in {"save", "replace", "restore"} => ConfigureMtrrs
         /\ \A d \in Cpus \ {b} :
              /\ pc[d] \in Owing(p) \cup Beyond(p, ConfigureMtrrs) \cup Gone
              /\ pc[d] \in OtherLabels /\ data[d].run \in Nat
              /\ data[d].run > 0 => pc[d] \in Gate(p)
              /\ pc[d] \in Knows => local[d].bsp = b
<1>1. p # "none" /\ \A d \in Cpus \ {b} : Placed(b, d, p)
  BY DEF Session, Leads
<1>2. p \in Phases
  <2>1. PICK m : m = ConfigureMtrrs
    OBVIOUS
  <2>2. PICK l : l = pc[b]
    OBVIOUS
  <2>3. PICK t : t = local[b].then
    OBVIOUS
  <2>4. p = Phase(l, t, m)
    BY <2>1, <2>2, <2>3 DEF Now
  <2> QED BY ONLY <2>4, <1>1 DEF Phase, Phases
<1>3. ASSUME NEW d \in Cpus \ {b}
      PROVE  /\ pc[d] \in Owing(p) \cup Beyond(p, ConfigureMtrrs) \cup Gone
             /\ data[d].run \in Nat
             /\ data[d].run > 0 => pc[d] \in Gate(p)
             /\ pc[d] \in Knows => local[d].bsp = b
  <2>1. Placed(b, d, p) /\ d \in Cpus
    BY <1>1
  <2>2. /\ pc[d] \in Owing(p) \cup Beyond(p, ConfigureMtrrs) \cup Gone
        /\ pc[d] \in Knows => local[d].bsp = b
    BY <2>1 DEF Placed
  <2>3. data[d].run > 0 => pc[d] \in Gate(p)
    BY <2>1 DEF Placed
  <2>4. data[d].run \in Nat
    BY <2>1 DEF Typed, Datum
  <2> QED BY <2>2, <2>3, <2>4
<1>4. \A m : (m \in BOOLEAN => Owing(p) \cup Beyond(p, m) \cup Gone \subseteq OtherLabels)
  BY <1>2, OtherIs
<1>5. \A m : Beyond(p, m) \subseteq OtherLabels \cup Beyond(p, TRUE) \cup Beyond(p, FALSE)
  BY DEF Beyond, FirstGate
<1>6. \A d \in Cpus \ {b} : pc[d] \in OtherLabels
  BY <1>3, <1>4, <1>5
<1>7. p \in {"save", "replace", "restore"} => ConfigureMtrrs
  BY DEF Now, Phase
<1> QED BY <1>2, <1>3, <1>6, <1>7

(* What OtherStays says, for a step of Stay that changes no semaphore.       *)
LEMMA OtherKeeps ==
  ASSUME Typed, ConfigureMtrrs \in BOOLEAN,
         NEW b \in Cpus, bspIndex = b, NEW p, p = Now(b), Session(b, p),
         NEW c \in Cpus \ {b}, NEW l \in Labels, Goto(c, l),
         UNCHANGED <<config, bspIndex, current, insideSmm, counter>>,
         \A x \in Cpus : x # c => local'[x] = local[x],
         l \in Knows => local'[c].bsp = b,
         \A x \in Cpus : x # c => data'[x] = data[x],
         data'[c].run = data[c].run, data'[c].busy = data[c].busy \/ pc[b] \notin Starting,
         \/ <<pc[c], l>> \in Stay
         \/ p = "hold" /\ pc[c] = "ap_look" /\ l = "ap_run"
         \/ p = "dismiss" /\ pc[c] = "ap_look" /\ l = "ap_done"
  PROVE  Led' /\ Now(b)' = p
<1>1. p \in Phases /\ pc[c] \in Owing(p) \cup Beyond(p, ConfigureMtrrs) \cup Gone
  BY InPhase
<1>2. PICK m \in BOOLEAN : m = ConfigureMtrrs
  OBVIOUS
<1>3. PICK x : x = pc[c]
  OBVIOUS
<1>4. /\ p \in Phases /\ x \in Owing(p) \cup Beyond(p, m) \cup Gone
      /\ \/ <<x, l>> \in Stay
         \/ p = "hold" /\ x = "ap_look" /\ l = "ap_run"
         \/ p = "dismiss" /\ x = "ap_look" /\ l = "ap_done"
  BY <1>1, <1>2, <1>3
<1>5. Alike(p, x, l, m)
  BY ONLY <1>4, m \in BOOLEAN, AlikeIs
<1>6. /\ l \in Owing(p) \cup Beyond(p, ConfigureMtrrs) \cup Gone
      /\ l \in Gate(p) <=> pc[c] \in Gate(p)
      /\ l \in Work(p) <=> pc[c] \in Work(p)
      /\ l \in Away <=> pc[c] \in Away
      /\ pc[c] \in Gone => l \in Gone
      /\ p = "hold" => l # "ap_busy" /\ (pc[c] = "ap_idle" => l = "ap_idle")
                       /\ (l \in Gone => pc[c] \in Gone)
  BY <1>2, <1>3, <1>5 DEF Alike
<1> QED BY <1>6, OtherStays

(* The actions of a processor that is not the BSP.                           *)
OtherActions(c) ==
  \/ TakeSmi(c) \/ Arrive(c) \/ MarkPresent(c) \/ Elect(c) \/ Role(c) \/ Leave(c)
  \/ Exit(c) \/ BspOutOfSync(c) \/ ApBegin(c) \/ ApNotify(c) \/ ApSave(c)
  \/ ApSaving(c) \/ ApSaved(c) \/ ApReplace(c) \/ ApReplacing(c) \/ ApReplaced(c)
  \/ ApBusy(c) \/ ApIdle(c) \/ ApLook(c) \/ ApRun(c) \/ ApFree(c) \/ ApDone(c)
  \/ ApRestore(c) \/ ApRestoring(c) \/ ApRestored(c)

(* They are the only ones it can take.                                       *)
LEMMA OtherActs ==
  ASSUME NEW c, pc[c] \in OtherLabels, TakeSmi(c) \/ Processor(c)
  PROVE  OtherActions(c) /\ UNCHANGED config
<1>1. UNCHANGED config
  BY DEF TakeSmi, Processor
<1>2. ~BspInside(c) /\ ~BspSync(c) /\ ~BspCheck(c) /\ ~SendSmiIpis(c) /\ ~BspSyncAgain(c)
  BY DEF OtherLabels, Joining, Leaving, Gone, Knows, BspInside, BspSync, BspCheck,
         SendSmiIpis, BspSyncAgain, At
<1>3. ~BspInSync(c) /\ ~BspLock(c) /\ ~BspSave(c) /\ ~BspSaved(c) /\ ~BspReplace(c)
  BY DEF OtherLabels, Joining, Leaving, Gone, Knows, BspInSync, BspLock, BspSave,
         BspSaved, BspReplace, At
<1>4. ~BspReplaced(c) /\ ~BspBusy(c) /\ ~BspNotInside(c) /\ ~BspDismiss(c) /\ ~BspPending(c)
  BY DEF OtherLabels, Joining, Leaving, Gone, Knows, BspReplaced, BspBusy, BspNotInside,
         BspDismiss, BspPending, At
<1>5. ~BspRestore(c) /\ ~BspRestored(c) /\ ~BspReset(c) /\ ~BspReopen(c) /\ ~Wait(c) /\
        ~Release(c)
  BY DEF OtherLabels, Joining, Leaving, Gone, Knows, BspRestore, BspRestored, BspReset,
         BspReopen, Wait, Release, At
<1>6. ~SmmStartupThisAp(c)
  BY DEF OtherLabels, Joining, Leaving, Gone, Knows, SmmStartupThisAp, StartupThisAp,
         StartupProcedure, StartupRelease, StartupWait, At
<1>7. ~ApSync(c) /\ ~ApCheck(c) /\ ~ApSyncAgain(c) /\ ~ApCheckAgain(c) /\ ~GiveUp(c)
  BY DEF OtherLabels, Joining, Leaving, Gone, Knows, ApSync, ApCheck, ApSyncAgain,
         ApCheckAgain, GiveUp, At
<1>8. OtherActions(c) \/ ~(TakeSmi(c) \/ Processor(c))
  BY <1>2, <1>3, <1>4, <1>5, <1>6, <1>7
     DEF OtherActions, Processor, Entry, BSPHandler, APHandler
<1> QED BY <1>1, <1>8

(* Whatever another processor does, the session stays in its phase.          *)
LEMMA OtherSteps ==
  ASSUME Typed, Election, ConfigureMtrrs \in BOOLEAN,
         NEW b \in Cpus, bspIndex = b, NEW p, p = Now(b), Session(b, p),
         NEW c \in Cpus \ {b}, TakeSmi(c) \/ Processor(c)
  PROVE  Led' /\ Now(b)' = p
<1>1. /\ p \in Phases
      /\ p = "restore" => ConfigureMtrrs
      /\ pc[c] \in Owing(p) \cup Beyond(p, ConfigureMtrrs) \cup Gone
      /\ pc[c] \in OtherLabels /\ data[c].run \in Nat
      /\ data[c].run > 0 => pc[c] \in Gate(p)
      /\ pc[c] \in Knows => local[c].bsp = b
  BY InPhase
<1>2. OtherActions(c) /\ UNCHANGED config
  BY <1>1, OtherActs
<1>3. /\ data \in [Cpus -> Datum] /\ local \in [Cpus -> Vars] /\ NoCpu # b /\ c \in Cpus /\ c # b
  BY RendezvousAssumption DEF Typed
<1>4. /\ "arrive" \in Labels /\ "exit" \in Labels /\ "out" \in Labels /\ "leave" \in Labels
      /\ "elect" \in Labels /\ "role" \in Labels /\ "ap" \in Labels /\ "ap_notify" \in Labels
      /\ "ap_save" \in Labels /\ "ap_saving" \in Labels /\ "ap_saved" \in Labels
      /\ "ap_replace" \in Labels /\ "ap_replacing" \in Labels /\ "ap_replaced" \in Labels
      /\ "ap_busy" \in Labels /\ "ap_idle" \in Labels /\ "ap_look" \in Labels
      /\ "ap_run" \in Labels /\ "ap_free" \in Labels /\ "ap_done" \in Labels
      /\ "ap_restore" \in Labels /\ "ap_restoring" \in Labels /\ "ap_restored" \in Labels
  BY DEF Labels
<1>5. CASE TakeSmi(c)
  <2>1. /\ pc[c] = "out" /\ Goto(c, "arrive")
        /\ UNCHANGED <<bspIndex, current, insideSmm, counter>>
    BY <1>5, <1>1, <1>3 DEF TakeSmi, At, shared
  <2>2. data' = data
    BY <1>5 DEF TakeSmi
  <2>3. local' = local
    BY <1>5 DEF TakeSmi
  <2>5. <<pc[c], "arrive">> \in Stay /\ ("arrive" \in Knows => local'[c].bsp = b)
    BY <1>1, <2>1, <2>3 DEF Stay, Knows
  <2> QED BY <1>2, <1>4, <2>1, <2>2, <2>3, <2>5, OtherKeeps
<1>6. CASE MarkPresent(c)
  <2>1. /\ pc[c] = "present" /\ Goto(c, "elect")
        /\ UNCHANGED <<bspIndex, current, insideSmm, counter>>
    BY <1>6, <1>1, <1>3 DEF MarkPresent, At, shared
  <2>2. /\ \A y \in Cpus : y # c => data'[y] = data[y]
        /\ data'[c].run = data[c].run /\ data'[c].busy = data[c].busy
    BY <1>6, <1>3, PresentSet DEF MarkPresent
  <2>3. local' = local
    BY <1>6 DEF MarkPresent
  <2>5. <<pc[c], "elect">> \in Stay /\ ("elect" \in Knows => local'[c].bsp = b)
    BY <1>1, <2>1, <2>3 DEF Stay, Knows
  <2> QED BY <1>2, <1>4, <2>1, <2>2, <2>3, <2>5, OtherKeeps
<1>7. CASE Elect(c)
  <2>1. /\ pc[c] = "elect" /\ Goto(c, "role")
        /\ UNCHANGED <<bspIndex, current, insideSmm, counter>>
    BY <1>7, <1>1, <1>3 DEF Elect, At, shared
  <2>2. data' = data
    BY <1>7 DEF Elect
  <2>3. local' = local
    BY <1>7 DEF Elect
  <2>5. <<pc[c], "role">> \in Stay /\ ("role" \in Knows => local'[c].bsp = b)
    BY <1>1, <2>1, <2>3 DEF Stay, Knows
  <2> QED BY <1>2, <1>4, <2>1, <2>2, <2>3, <2>5, OtherKeeps
<1>8. CASE Role(c)
  <2>1. /\ pc[c] = "role" /\ Goto(c, "ap")
        /\ UNCHANGED <<bspIndex, current, insideSmm, counter>>
    BY <1>8, <1>1, <1>3 DEF Role, At, shared
  <2>2. data' = data
    BY <1>8 DEF Role
  <2>3. local' = local
    BY <1>8 DEF Role
  <2>5. <<pc[c], "ap">> \in Stay /\ ("ap" \in Knows => local'[c].bsp = b)
    BY <1>1, <2>1, <2>3 DEF Stay, Knows
  <2> QED BY <1>2, <1>4, <2>1, <2>2, <2>3, <2>5, OtherKeeps
<1>9. CASE Leave(c)
  <2>1. /\ pc[c] = "leave" /\ Goto(c, "exit")
        /\ UNCHANGED <<bspIndex, current, insideSmm, counter>>
    BY <1>9, <1>1, <1>3 DEF Leave, At, shared
  <2>2. /\ \A y \in Cpus : y # c => data'[y] = data[y]
        /\ data'[c].run = data[c].run /\ data'[c].busy = data[c].busy
    BY <1>9, <1>3, PresentSet DEF Leave
  <2>3. local' = local
    BY <1>9 DEF Leave
  <2>5. <<pc[c], "exit">> \in Stay /\ ("exit" \in Knows => local'[c].bsp = b)
    BY <1>1, <2>1, <2>3 DEF Stay, Knows
  <2> QED BY <1>2, <1>4, <2>1, <2>2, <2>3, <2>5, OtherKeeps
<1>10. CASE Exit(c)
  <2>1. /\ pc[c] = "exit" /\ Goto(c, "out")
        /\ UNCHANGED <<bspIndex, current, insideSmm, counter>>
    BY <1>10, <1>1, <1>3 DEF Exit, At, shared
  <2>2. data' = data
    BY <1>10 DEF Exit
  <2>3. \A y \in Cpus : y # c => local'[y] = local[y]
    BY <1>10, <1>3 DEF Exit
  <2>5. <<pc[c], "out">> \in Stay /\ ("out" \in Knows => local'[c].bsp = b)
    BY <1>1, <2>1, <2>3 DEF Stay, Knows
  <2> QED BY <1>2, <1>4, <2>1, <2>2, <2>3, <2>5, OtherKeeps
<1>11. CASE BspOutOfSync(c)
  <2>1. /\ pc[c] = "bsp_out_of_sync" /\ Goto(c, "leave")
        /\ UNCHANGED <<bspIndex, current, insideSmm, counter>>
    BY <1>11, <1>1, <1>3 DEF BspOutOfSync, At, shared
  <2>2. data' = data
    BY <1>11 DEF BspOutOfSync
  <2>3. local' = local
    BY <1>11 DEF BspOutOfSync
  <2>5. <<pc[c], "leave">> \in Stay /\ ("leave" \in Knows => local'[c].bsp = b)
    BY <1>1, <2>1, <2>3 DEF Stay, Knows
  <2> QED BY <1>2, <1>4, <2>1, <2>2, <2>3, <2>5, OtherKeeps
<1>12. CASE ApBegin(c)
  <2>1. /\ pc[c] = "ap" /\ Goto(c, "ap_notify")
        /\ UNCHANGED <<bspIndex, current, insideSmm, counter>>
    BY <1>12, <1>1, <1>3 DEF ApBegin, At, shared
  <2>2. data' = data
    BY <1>12 DEF ApBegin
  <2>3. /\ \A y \in Cpus : y # c => local'[y] = local[y]
        /\ local'[c].bsp = b
    BY <1>12, <1>1, <1>3, <2>1 DEF ApBegin, Local, Vars, Knows
  <2>5. <<pc[c], "ap_notify">> \in Stay /\ ("ap_notify" \in Knows => local'[c].bsp = b)
    BY <1>1, <2>1, <2>3 DEF Stay, Knows
  <2> QED BY <1>2, <1>4, <2>1, <2>2, <2>3, <2>5, OtherKeeps
<1>13. CASE ApSaving(c)
  <2>1. /\ pc[c] = "ap_saving" /\ Goto(c, "ap_saved")
        /\ UNCHANGED <<bspIndex, current, insideSmm, counter>>
    BY <1>13, <1>1, <1>3 DEF ApSaving, At, shared
  <2>2. data' = data
    BY <1>13 DEF ApSaving
  <2>3. /\ \A y \in Cpus : y # c => local'[y] = local[y]
        /\ local'[c].bsp = b
    BY <1>13, <1>1, <1>3, <2>1 DEF ApSaving, Local, Vars, Knows
  <2>5. <<pc[c], "ap_saved">> \in Stay /\ ("ap_saved" \in Knows => local'[c].bsp = b)
    BY <1>1, <2>1, <2>3 DEF Stay, Knows
  <2> QED BY <1>2, <1>4, <2>1, <2>2, <2>3, <2>5, OtherKeeps
<1>14. CASE ApReplacing(c)
  <2>1. /\ pc[c] = "ap_replacing" /\ Goto(c, "ap_replaced")
        /\ UNCHANGED <<bspIndex, current, insideSmm, counter>>
    BY <1>14, <1>1, <1>3 DEF ApReplacing, At, shared
  <2>2. data' = data
    BY <1>14 DEF ApReplacing
  <2>3. local' = local
    BY <1>14 DEF ApReplacing
  <2>5. <<pc[c], "ap_replaced">> \in Stay /\ ("ap_replaced" \in Knows => local'[c].bsp = b)
    BY <1>1, <2>1, <2>3 DEF Stay, Knows
  <2> QED BY <1>2, <1>4, <2>1, <2>2, <2>3, <2>5, OtherKeeps
<1>15. CASE ApBusy(c)
  <2>1. /\ pc[c] = "ap_busy" /\ Goto(c, "ap_idle")
        /\ UNCHANGED <<bspIndex, current, insideSmm, counter>>
    BY <1>15, <1>1, <1>3 DEF ApBusy, At, shared
  <2>2. /\ \A y \in Cpus : y # c => data'[y] = data[y]
        /\ data'[c].run = data[c].run
    BY <1>15, <1>3, BusySet DEF ApBusy
  <2>4. pc[b] \notin Starting
    BY <1>3, <2>1 DEF Session, Starts
  <2>3. local' = local
    BY <1>15 DEF ApBusy
  <2>5. <<pc[c], "ap_idle">> \in Stay /\ ("ap_idle" \in Knows => local'[c].bsp = b)
    BY <1>1, <2>1, <2>3 DEF Stay, Knows
  <2> QED BY <1>2, <1>4, <2>1, <2>2, <2>3, <2>4, <2>5, OtherKeeps
<1>16. CASE ApRun(c)
  <2>1. /\ pc[c] = "ap_run" /\ Goto(c, "ap_free")
        /\ UNCHANGED <<bspIndex, current, insideSmm, counter>>
    BY <1>16, <1>1, <1>3 DEF ApRun, At, shared
  <2>2. data' = data
    BY <1>16 DEF ApRun
  <2>3. local' = local
    BY <1>16 DEF ApRun
  <2>5. <<pc[c], "ap_free">> \in Stay /\ ("ap_free" \in Knows => local'[c].bsp = b)
    BY <1>1, <2>1, <2>3 DEF Stay, Knows
  <2> QED BY <1>2, <1>4, <2>1, <2>2, <2>3, <2>5, OtherKeeps
<1>17. CASE ApRestoring(c)
  <2>1. /\ pc[c] = "ap_restoring" /\ Goto(c, "ap_restored")
        /\ UNCHANGED <<bspIndex, current, insideSmm, counter>>
    BY <1>17, <1>1, <1>3 DEF ApRestoring, At, shared
  <2>2. data' = data
    BY <1>17 DEF ApRestoring
  <2>3. local' = local
    BY <1>17 DEF ApRestoring
  <2>5. <<pc[c], "ap_restored">> \in Stay /\ ("ap_restored" \in Knows => local'[c].bsp = b)
    BY <1>1, <2>1, <2>3 DEF Stay, Knows
  <2> QED BY <1>2, <1>4, <2>1, <2>2, <2>3, <2>5, OtherKeeps
<1>18. CASE Arrive(c)
  <2>1. /\ pc[c] = "arrive" /\ UNCHANGED <<bspIndex, current, insideSmm, data, local>>
        /\ IF counter = Locked THEN Goto(c, "exit") /\ UNCHANGED counter
           ELSE counter' = counter + 1 /\ Goto(c, "present")
    BY <1>18 DEF Arrive, At
  <2>2. CASE counter = Locked
    <3>1. <<pc[c], "exit">> \in Stay /\ "exit" \notin Knows
      BY <2>1 DEF Stay, Knows
    <3> QED BY <1>2, <1>4, <2>1, <2>2, <3>1, OtherKeeps
  <2>3. CASE counter # Locked
    BY <1>2, <2>1, <2>3, OtherArrives
  <2> QED BY <2>2, <2>3
<1>19. CASE ApLook(c)
  <2>1. /\ pc[c] = "ap_look" /\ UNCHANGED <<bspIndex, current, insideSmm, counter, data, local>>
        /\ Goto(c, IF insideSmm THEN "ap_run" ELSE "ap_done")
    BY <1>19 DEF ApLook, At, shared
  <2>2. p \in {"hold", "dismiss"} /\ local[c].bsp = b
    BY <1>1, <2>1, OtherIs DEF Knows
  <2>3. insideSmm <=> p = "hold"
    BY <2>2 DEF Session, Leads
  <2>4. CASE p = "hold"
    BY <1>2, <1>4, <2>1, <2>2, <2>3, <2>4, OtherKeeps
  <2>5. CASE p = "dismiss"
    BY <1>2, <1>4, <2>1, <2>2, <2>3, <2>5, OtherKeeps
  <2> QED BY <2>2, <2>4, <2>5
<1>20. CASE ApFree(c)
  <2>1. pc[c] = "ap_free"
    BY <1>20 DEF ApFree, At
  <2>2. p = "hold"
    BY <1>1, <2>1, OtherIs
  <2> QED BY <1>2, <1>20, <2>2, OtherFrees
<1>21. CASE ApSave(c)
  <2>1. /\ pc[c] = "ap_save" /\ Goto(c, "ap_saving") /\ WaitForRun(c)
        /\ UNCHANGED <<bspIndex, current, insideSmm, counter, local>>
    BY <1>21 DEF ApSave, At, shared
  <2>2. pc[c] \in Gate(p)
    BY <1>1, <2>1 DEF WaitForRun
  <2>3. p \in {"save"}
    BY <1>1, <2>1, <2>2, OtherIs
  <2>4. "ap_saving" \in Work(p) /\ "ap_saving" \notin Gate(p)
    BY <2>3 DEF Work, Gate
  <2>5. /\ pc[c] \in Owing(p) \cup Beyond(p, ConfigureMtrrs) /\ pc[c] \in Knows
        /\ "ap_saving" # "ap_busy" /\ "ap_saving" \notin Away
    BY <2>1, <2>2 DEF Owing, Knows, Away, Gone, Leaving
  <2> QED BY <1>2, <1>4, <2>1, <2>4, <2>5, OtherPasses
<1>22. CASE ApReplace(c)
  <2>1. /\ pc[c] = "ap_replace" /\ Goto(c, "ap_replacing") /\ WaitForRun(c)
        /\ UNCHANGED <<bspIndex, current, insideSmm, counter, local>>
    BY <1>22 DEF ApReplace, At, shared
  <2>2. pc[c] \in Gate(p)
    BY <1>1, <2>1 DEF WaitForRun
  <2>3. p \in {"replace"}
    BY <1>1, <2>1, <2>2, OtherIs
  <2>4. "ap_replacing" \in Work(p) /\ "ap_replacing" \notin Gate(p)
    BY <2>3 DEF Work, Gate
  <2>5. /\ pc[c] \in Owing(p) \cup Beyond(p, ConfigureMtrrs) /\ pc[c] \in Knows
        /\ "ap_replacing" # "ap_busy" /\ "ap_replacing" \notin Away
    BY <2>1, <2>2 DEF Owing, Knows, Away, Gone, Leaving
  <2> QED BY <1>2, <1>4, <2>1, <2>4, <2>5, OtherPasses
<1>23. CASE ApIdle(c)
  <2>1. /\ pc[c] = "ap_idle" /\ Goto(c, "ap_look") /\ WaitForRun(c)
        /\ UNCHANGED <<bspIndex, current, insideSmm, counter, local>>
    BY <1>23 DEF ApIdle, At, shared
  <2>2. pc[c] \in Gate(p)
    BY <1>1, <2>1 DEF WaitForRun
  <2>3. p \in {"hold", "dismiss"}
    BY <1>1, <2>1, <2>2, OtherIs
  <2>4. "ap_look" \in Work(p) /\ "ap_look" \notin Gate(p)
    BY <2>3 DEF Work, Gate
  <2>5. /\ pc[c] \in Owing(p) \cup Beyond(p, ConfigureMtrrs) /\ pc[c] \in Knows
        /\ "ap_look" # "ap_busy" /\ "ap_look" \notin Away
    BY <2>1, <2>2 DEF Owing, Knows, Away, Gone, Leaving
  <2> QED BY <1>2, <1>4, <2>1, <2>4, <2>5, OtherPasses
<1>24. CASE ApRestore(c)
  <2>1. /\ pc[c] = "ap_restore" /\ Goto(c, "ap_restoring") /\ WaitForRun(c)
        /\ UNCHANGED <<bspIndex, current, insideSmm, counter, local>>
    BY <1>24 DEF ApRestore, At, shared
  <2>2. pc[c] \in Gate(p)
    BY <1>1, <2>1 DEF WaitForRun
  <2>3. p \in {"restore"}
    BY <1>1, <2>1, <2>2, OtherIs
  <2>4. "ap_restoring" \in Work(p) /\ "ap_restoring" \notin Gate(p)
    BY <2>3 DEF Work, Gate
  <2>5. /\ pc[c] \in Owing(p) \cup Beyond(p, ConfigureMtrrs) /\ pc[c] \in Knows
        /\ "ap_restoring" # "ap_busy" /\ "ap_restoring" \notin Away
    BY <2>1, <2>2 DEF Owing, Knows, Away, Gone, Leaving
  <2> QED BY <1>2, <1>4, <2>1, <2>4, <2>5, OtherPasses
<1>25. CASE ApNotify(c)
  <2> DEFINE l == IF ConfigureMtrrs THEN "ap_save" ELSE "ap_busy"
  <2>1. pc[c] = "ap_notify" /\ local[c].bsp = b
    BY <1>25, <1>1 DEF ApNotify, At, Knows
  <2>2. SignalBsp(c, b, l)
    BY <1>25, <2>1 DEF ApNotify
  <2>3. UNCHANGED <<mtrr, tasks, runs>>
    BY <2>2 DEF SignalBsp, Keep
  <2>4. p \in {"gather", "close", "meet"}
    BY <1>1, <2>1, OtherIs
  <2>5. l \in Labels /\ (l \in Knows => pc[c] \in Knows)
    BY <1>4, <2>1 DEF Knows
  <2>6. l \in Beyond(p, ConfigureMtrrs) /\ (l \in Away => Last(p, ConfigureMtrrs))
    BY <1>1, <2>4 DEF Beyond, FirstGate, Away, Gone, Leaving, Last
  <2>7. pc[c] \in Work(p) /\ pc[c] \notin Gate(p) /\ pc[c] \notin Away
    BY <2>1, <2>4 DEF Work, Gate, Joining, Away, Gone, Leaving
  <2>8. l \notin Owing(p) /\ p # "hold"
    BY <2>4 DEF Owing, Work, Gate, Joining
  <2> HIDE DEF l
  <2> QED BY <1>2, <2>2, <2>3, <2>5, <2>6, <2>7, <2>8, OtherSignals
<1>26. CASE ApSaved(c)
  <2> DEFINE l == "ap_replace"
  <2>1. pc[c] = "ap_saved" /\ local[c].bsp = b
    BY <1>26, <1>1 DEF ApSaved, At, Knows
  <2>2. SignalBsp(c, b, l)
    BY <1>26, <2>1 DEF ApSaved
  <2>3. UNCHANGED <<mtrr, tasks, runs>>
    BY <2>2 DEF SignalBsp, Keep
  <2>4. p \in {"save"}
    BY <1>1, <2>1, OtherIs
  <2>5. l \in Labels /\ (l \in Knows => pc[c] \in Knows)
    BY <1>4, <2>1 DEF Knows
  <2>6. l \in Beyond(p, ConfigureMtrrs) /\ (l \in Away => Last(p, ConfigureMtrrs))
    BY <1>1, <2>4 DEF Beyond, FirstGate, Away, Gone, Leaving, Last
  <2>7. pc[c] \in Work(p) /\ pc[c] \notin Gate(p) /\ pc[c] \notin Away
    BY <2>1, <2>4 DEF Work, Gate, Joining, Away, Gone, Leaving
  <2>8. l \notin Owing(p) /\ p # "hold"
    BY <2>4 DEF Owing, Work, Gate, Joining
  <2> HIDE DEF l
  <2> QED BY <1>2, <2>2, <2>3, <2>5, <2>6, <2>7, <2>8, OtherSignals
<1>27. CASE ApReplaced(c)
  <2> DEFINE l == "ap_busy"
  <2>1. pc[c] = "ap_replaced" /\ local[c].bsp = b
    BY <1>27, <1>1 DEF ApReplaced, At, Knows
  <2>2. SignalBsp(c, b, l)
    BY <1>27, <2>1 DEF ApReplaced
  <2>3. UNCHANGED <<mtrr, tasks, runs>>
    BY <2>2 DEF SignalBsp, Keep
  <2>4. p \in {"replace"}
    BY <1>1, <2>1, OtherIs
  <2>5. l \in Labels /\ (l \in Knows => pc[c] \in Knows)
    BY <1>4, <2>1 DEF Knows
  <2>6. l \in Beyond(p, ConfigureMtrrs) /\ (l \in Away => Last(p, ConfigureMtrrs))
    BY <1>1, <2>4 DEF Beyond, FirstGate, Away, Gone, Leaving, Last
  <2>7. pc[c] \in Work(p) /\ pc[c] \notin Gate(p) /\ pc[c] \notin Away
    BY <2>1, <2>4 DEF Work, Gate, Joining, Away, Gone, Leaving
  <2>8. l \notin Owing(p) /\ p # "hold"
    BY <2>4 DEF Owing, Work, Gate, Joining
  <2> HIDE DEF l
  <2> QED BY <1>2, <2>2, <2>3, <2>5, <2>6, <2>7, <2>8, OtherSignals
<1>28. CASE ApDone(c)
  <2> DEFINE l == IF ConfigureMtrrs THEN "ap_restore" ELSE "leave"
  <2>1. pc[c] = "ap_done" /\ local[c].bsp = b
    BY <1>28, <1>1 DEF ApDone, At, Knows
  <2>2. SignalBsp(c, b, l)
    BY <1>28, <2>1 DEF ApDone
  <2>3. UNCHANGED <<mtrr, tasks, runs>>
    BY <2>2 DEF SignalBsp, Keep
  <2>4. p \in {"dismiss"}
    BY <1>1, <2>1, OtherIs
  <2>5. l \in Labels /\ (l \in Knows => pc[c] \in Knows)
    BY <1>4, <2>1 DEF Knows
  <2>6. l \in Beyond(p, ConfigureMtrrs) /\ (l \in Away => Last(p, ConfigureMtrrs))
    BY <1>1, <2>4 DEF Beyond, FirstGate, Away, Gone, Leaving, Last
  <2>7. pc[c] \in Work(p) /\ pc[c] \notin Gate(p) /\ pc[c] \notin Away
    BY <2>1, <2>4 DEF Work, Gate, Joining, Away, Gone, Leaving
  <2>8. l \notin Owing(p) /\ p # "hold"
    BY <2>4 DEF Owing, Work, Gate, Joining
  <2> HIDE DEF l
  <2> QED BY <1>2, <2>2, <2>3, <2>5, <2>6, <2>7, <2>8, OtherSignals
<1>29. CASE ApRestored(c)
  <2> DEFINE l == "leave"
  <2>1. pc[c] = "ap_restored" /\ local[c].bsp = b
    BY <1>29, <1>1 DEF ApRestored, At, Knows
  <2>2. SignalBsp(c, b, l)
    BY <1>29, <2>1 DEF ApRestored
  <2>3. UNCHANGED <<mtrr, tasks, runs>>
    BY <2>2 DEF SignalBsp, Keep
  <2>4. p \in {"restore"}
    BY <1>1, <2>1, OtherIs
  <2>5. l \in Labels /\ (l \in Knows => pc[c] \in Knows)
    BY <1>4, <2>1 DEF Knows
  <2>6. l \in Beyond(p, ConfigureMtrrs) /\ (l \in Away => Last(p, ConfigureMtrrs))
    BY <1>1, <2>4 DEF Beyond, FirstGate, Away, Gone, Leaving, Last
  <2>7. pc[c] \in Work(p) /\ pc[c] \notin Gate(p) /\ pc[c] \notin Away
    BY <2>1, <2>4 DEF Work, Gate, Joining, Away, Gone, Leaving
  <2>8. l \notin Owing(p) /\ p # "hold"
    BY <2>4 DEF Owing, Work, Gate, Joining
  <2> HIDE DEF l
  <2> QED BY <1>2, <2>2, <2>3, <2>5, <2>6, <2>7, <2>8, OtherSignals
<1> QED BY <1>2, <1>5, <1>6, <1>7, <1>8, <1>9, <1>10, <1>11, <1>12, <1>13, <1>14, <1>15, <1>16,
           <1>17, <1>18, <1>19, <1>20, <1>21, <1>22, <1>23, <1>24, <1>25, <1>26, <1>27, <1>28,
           <1>29 DEF OtherActions

(* Changing the variables of one processor.                                  *)
LEMMA TodoSet ==
  ASSUME local \in [Cpus -> Vars], NEW c \in Cpus, NEW v_todo \in SUBSET Cpus,
         Local(c, "todo", v_todo)
  PROVE  /\ local' \in [Cpus -> Vars]
         /\ local'[c].bsp = local[c].bsp /\ local'[c].aps = local[c].aps /\
              local'[c].left = local[c].left /\ local'[c].todo = v_todo
         /\ local'[c].then = local[c].then /\ local'[c].ap = local[c].ap /\
              local'[c].saved = local[c].saved
         /\ \A x \in Cpus : x # c => local'[x] = local[x]
<1>1. PICK e \in Vars : e = local[c]
  OBVIOUS
<1>2. PICK f : f = [e EXCEPT !.todo = v_todo]
  OBVIOUS
<1>3. /\ f \in Vars
      /\ f.bsp = e.bsp /\ f.aps = e.aps /\ f.left = e.left /\ f.todo = v_todo
      /\ f.then = e.then /\ f.ap = e.ap /\ f.saved = e.saved
  BY <1>2 DEF Vars
<1>4. local' = [local EXCEPT ![c] = f]
  BY <1>1, <1>2 DEF Local
<1>5. /\ local' \in [Cpus -> Vars] /\ local'[c] = f
      /\ \A x \in Cpus : x # c => local'[x] = local[x]
  BY <1>3, <1>4, VarsSet
<1> QED BY <1>1, <1>3, <1>5

(* ... left,                                                                 *)
LEMMA LeftSet ==
  ASSUME local \in [Cpus -> Vars], NEW c \in Cpus, NEW v_left \in Int,
         Local(c, "left", v_left)
  PROVE  /\ local' \in [Cpus -> Vars]
         /\ local'[c].bsp = local[c].bsp /\ local'[c].aps = local[c].aps /\
              local'[c].left = v_left /\ local'[c].todo = local[c].todo
         /\ local'[c].then = local[c].then /\ local'[c].ap = local[c].ap /\
              local'[c].saved = local[c].saved
         /\ \A x \in Cpus : x # c => local'[x] = local[x]
<1>1. PICK e \in Vars : e = local[c]
  OBVIOUS
<1>2. PICK f : f = [e EXCEPT !.left = v_left]
  OBVIOUS
<1>3. /\ f \in Vars
      /\ f.bsp = e.bsp /\ f.aps = e.aps /\ f.left = v_left /\ f.todo = e.todo
      /\ f.then = e.then /\ f.ap = e.ap /\ f.saved = e.saved
  BY <1>2 DEF Vars
<1>4. local' = [local EXCEPT ![c] = f]
  BY <1>1, <1>2 DEF Local
<1>5. /\ local' \in [Cpus -> Vars] /\ local'[c] = f
      /\ \A x \in Cpus : x # c => local'[x] = local[x]
  BY <1>3, <1>4, VarsSet
<1> QED BY <1>1, <1>3, <1>5

(* ... ap,                                                                   *)
LEMMA ApSet ==
  ASSUME local \in [Cpus -> Vars], NEW c \in Cpus, NEW v_ap \in Cpus \cup {NoCpu},
         Local(c, "ap", v_ap)
  PROVE  /\ local' \in [Cpus -> Vars]
         /\ local'[c].bsp = local[c].bsp /\ local'[c].aps = local[c].aps /\
              local'[c].left = local[c].left /\ local'[c].todo = local[c].todo
         /\ local'[c].then = local[c].then /\ local'[c].ap = v_ap /\
              local'[c].saved = local[c].saved
         /\ \A x \in Cpus : x # c => local'[x] = local[x]
<1>1. PICK e \in Vars : e = local[c]
  OBVIOUS
<1>2. PICK f : f = [e EXCEPT !.ap = v_ap]
  OBVIOUS
<1>3. /\ f \in Vars
      /\ f.bsp = e.bsp /\ f.aps = e.aps /\ f.left = e.left /\ f.todo = e.todo
      /\ f.then = e.then /\ f.ap = v_ap /\ f.saved = e.saved
  BY <1>2 DEF Vars
<1>4. local' = [local EXCEPT ![c] = f]
  BY <1>1, <1>2 DEF Local
<1>5. /\ local' \in [Cpus -> Vars] /\ local'[c] = f
      /\ \A x \in Cpus : x # c => local'[x] = local[x]
  BY <1>3, <1>4, VarsSet
<1> QED BY <1>1, <1>3, <1>5

(* ... saved,                                                                *)
LEMMA SavedSet ==
  ASSUME local \in [Cpus -> Vars], NEW c \in Cpus, NEW v_saved \in {"none", "os", "smm"},
         Local(c, "saved", v_saved)
  PROVE  /\ local' \in [Cpus -> Vars]
         /\ local'[c].bsp = local[c].bsp /\ local'[c].aps = local[c].aps /\
              local'[c].left = local[c].left /\ local'[c].todo = local[c].todo
         /\ local'[c].then = local[c].then /\ local'[c].ap = local[c].ap /\
              local'[c].saved = v_saved
         /\ \A x \in Cpus : x # c => local'[x] = local[x]
<1>1. PICK e \in Vars : e = local[c]
  OBVIOUS
<1>2. PICK f : f = [e EXCEPT !.saved = v_saved]
  OBVIOUS
<1>3. /\ f \in Vars
      /\ f.bsp = e.bsp /\ f.aps = e.aps /\ f.left = e.left /\ f.todo = e.todo
      /\ f.then = e.then /\ f.ap = e.ap /\ f.saved = v_saved
  BY <1>2 DEF Vars
<1>4. local' = [local EXCEPT ![c] = f]
  BY <1>1, <1>2 DEF Local
<1>5. /\ local' \in [Cpus -> Vars] /\ local'[c] = f
      /\ \A x \in Cpus : x # c => local'[x] = local[x]
  BY <1>3, <1>4, VarsSet
<1> QED BY <1>1, <1>3, <1>5

(* ... bsp,                                                                  *)
LEMMA BspSet ==
  ASSUME local \in [Cpus -> Vars], NEW c \in Cpus, NEW v_bsp \in Cpus \cup {NoCpu},
         Local(c, "bsp", v_bsp)
  PROVE  /\ local' \in [Cpus -> Vars]
         /\ local'[c].bsp = v_bsp /\ local'[c].aps = local[c].aps /\
              local'[c].left = local[c].left /\ local'[c].todo = local[c].todo
         /\ local'[c].then = local[c].then /\ local'[c].ap = local[c].ap /\
              local'[c].saved = local[c].saved
         /\ \A x \in Cpus : x # c => local'[x] = local[x]
<1>1. PICK e \in Vars : e = local[c]
  OBVIOUS
<1>2. PICK f : f = [e EXCEPT !.bsp = v_bsp]
  OBVIOUS
<1>3. /\ f \in Vars
      /\ f.bsp = v_bsp /\ f.aps = e.aps /\ f.left = e.left /\ f.todo = e.todo
      /\ f.then = e.then /\ f.ap = e.ap /\ f.saved = e.saved
  BY <1>2 DEF Vars
<1>4. local' = [local EXCEPT ![c] = f]
  BY <1>1, <1>2 DEF Local
<1>5. /\ local' \in [Cpus -> Vars] /\ local'[c] = f
      /\ \A x \in Cpus : x # c => local'[x] = local[x]
  BY <1>3, <1>4, VarsSet
<1> QED BY <1>1, <1>3, <1>5

(* ... left and then, as WaitForAllAPs does,                                 *)
Awaits(c, v_left, v_then) ==
  local' = [local EXCEPT ![c].left = v_left, ![c].then = v_then]
(* which keeps the rest;                                                     *)
LEMMA AwaitSet ==
  ASSUME local \in [Cpus -> Vars], NEW c \in Cpus, NEW v_left \in Int, NEW v_then \in Nexts,
         Awaits(c, v_left, v_then)
  PROVE  /\ local' \in [Cpus -> Vars]
         /\ local'[c].bsp = local[c].bsp /\ local'[c].aps = local[c].aps /\
              local'[c].left = v_left /\ local'[c].todo = local[c].todo
         /\ local'[c].then = v_then /\ local'[c].ap = local[c].ap /\
              local'[c].saved = local[c].saved
         /\ \A x \in Cpus : x # c => local'[x] = local[x]
<1>1. PICK e \in Vars : e = local[c]
  OBVIOUS
<1>2. PICK f : f = [e EXCEPT !.left = v_left, !.then = v_then]
  OBVIOUS
<1>3. /\ f \in Vars
      /\ f.bsp = e.bsp /\ f.aps = e.aps /\ f.left = v_left /\ f.todo = e.todo
      /\ f.then = v_then /\ f.ap = e.ap /\ f.saved = e.saved
  BY <1>2 DEF Vars
<1>4. local' = [local EXCEPT ![c] = f]
  BY <1>1, <1>2 DEF Awaits
<1>5. /\ local' \in [Cpus -> Vars] /\ local'[c] = f
      /\ \A x \in Cpus : x # c => local'[x] = local[x]
  BY <1>3, <1>4, VarsSet
<1> QED BY <1>1, <1>3, <1>5

(* ... todo and then, as ReleaseAllAPs does,                                 *)
Calls(c, v_todo, v_then) ==
  local' = [local EXCEPT ![c].todo = v_todo, ![c].then = v_then]
(* which keeps the rest;                                                     *)
LEMMA CallSet ==
  ASSUME local \in [Cpus -> Vars], NEW c \in Cpus, NEW v_todo \in SUBSET Cpus,
           NEW v_then \in Nexts,
         Calls(c, v_todo, v_then)
  PROVE  /\ local' \in [Cpus -> Vars]
         /\ local'[c].bsp = local[c].bsp /\ local'[c].aps = local[c].aps /\
              local'[c].left = local[c].left /\ local'[c].todo = v_todo
         /\ local'[c].then = v_then /\ local'[c].ap = local[c].ap /\
              local'[c].saved = local[c].saved
         /\ \A x \in Cpus : x # c => local'[x] = local[x]
<1>1. PICK e \in Vars : e = local[c]
  OBVIOUS
<1>2. PICK f : f = [e EXCEPT !.todo = v_todo, !.then = v_then]
  OBVIOUS
<1>3. /\ f \in Vars
      /\ f.bsp = e.bsp /\ f.aps = e.aps /\ f.left = e.left /\ f.todo = v_todo
      /\ f.then = v_then /\ f.ap = e.ap /\ f.saved = e.saved
  BY <1>2 DEF Vars
<1>4. local' = [local EXCEPT ![c] = f]
  BY <1>1, <1>2 DEF Calls
<1>5. /\ local' \in [Cpus -> Vars] /\ local'[c] = f
      /\ \A x \in Cpus : x # c => local'[x] = local[x]
  BY <1>3, <1>4, VarsSet
<1> QED BY <1>1, <1>3, <1>5

(* ... the counts that BspLock takes,                                        *)
Locks(c, v_aps, v_left, v_then) ==
  local' = [local EXCEPT ![c].aps = v_aps, ![c].left = v_left, ![c].then = v_then]
(* which keeps the rest;                                                     *)
LEMMA LockSet ==
  ASSUME local \in [Cpus -> Vars], NEW c \in Cpus, NEW v_aps \in Int, NEW v_left \in Int,
           NEW v_then \in Nexts,
         Locks(c, v_aps, v_left, v_then)
  PROVE  /\ local' \in [Cpus -> Vars]
         /\ local'[c].bsp = local[c].bsp /\ local'[c].aps = v_aps /\ local'[c].left = v_left /\
              local'[c].todo = local[c].todo
         /\ local'[c].then = v_then /\ local'[c].ap = local[c].ap /\
              local'[c].saved = local[c].saved
         /\ \A x \in Cpus : x # c => local'[x] = local[x]
<1>1. PICK e \in Vars : e = local[c]
  OBVIOUS
<1>2. PICK f : f = [e EXCEPT !.aps = v_aps, !.left = v_left, !.then = v_then]
  OBVIOUS
<1>3. /\ f \in Vars
      /\ f.bsp = e.bsp /\ f.aps = v_aps /\ f.left = v_left /\ f.todo = e.todo
      /\ f.then = v_then /\ f.ap = e.ap /\ f.saved = e.saved
  BY <1>2 DEF Vars
<1>4. local' = [local EXCEPT ![c] = f]
  BY <1>1, <1>2 DEF Locks
<1>5. /\ local' \in [Cpus -> Vars] /\ local'[c] = f
      /\ \A x \in Cpus : x # c => local'[x] = local[x]
  BY <1>3, <1>4, VarsSet
<1> QED BY <1>1, <1>3, <1>5

(* ... and saved, as the BSP saves its MTRRs.                                *)
Saves(c, v_saved, v_left, v_then) ==
  local' = [local EXCEPT ![c].saved = v_saved, ![c].left = v_left, ![c].then = v_then]
(* The rest is kept.                                                         *)
LEMMA SaveSet ==
  ASSUME local \in [Cpus -> Vars], NEW c \in Cpus, NEW v_saved \in {"none", "os", "smm"},
           NEW v_left \in Int, NEW v_then \in Nexts,
         Saves(c, v_saved, v_left, v_then)
  PROVE  /\ local' \in [Cpus -> Vars]
         /\ local'[c].bsp = local[c].bsp /\ local'[c].aps = local[c].aps /\
              local'[c].left = v_left /\ local'[c].todo = local[c].todo
         /\ local'[c].then = v_then /\ local'[c].ap = local[c].ap /\ local'[c].saved = v_saved
         /\ \A x \in Cpus : x # c => local'[x] = local[x]
<1>1. PICK e \in Vars : e = local[c]
  OBVIOUS
<1>2. PICK f : f = [e EXCEPT !.saved = v_saved, !.left = v_left, !.then = v_then]
  OBVIOUS
<1>3. /\ f \in Vars
      /\ f.bsp = e.bsp /\ f.aps = e.aps /\ f.left = v_left /\ f.todo = e.todo
      /\ f.then = v_then /\ f.ap = e.ap /\ f.saved = v_saved
  BY <1>2 DEF Vars
<1>4. local' = [local EXCEPT ![c] = f]
  BY <1>1, <1>2 DEF Saves
<1>5. /\ local' \in [Cpus -> Vars] /\ local'[c] = f
      /\ \A x \in Cpus : x # c => local'[x] = local[x]
  BY <1>3, <1>4, VarsSet
<1> QED BY <1>1, <1>3, <1>5

-----------------------------------------------------------------------------
(* Steps of the BSP.                                                         *)

(* A step of the BSP, from phase p to q.                                     *)
LEMMA LeaderTurns ==
  ASSUME Typed, NEW b \in Cpus, bspIndex = b, NEW p, p = Now(b), Session(b, p),
         NEW l \in Labels, Goto(b, l), UNCHANGED <<config, bspIndex>>,
         NEW q, Now(b)' = q,
         \A x \in Cpus : x # b => local'[x] = local[x],
         \A x \in Cpus : x # b => data'[x].run = data[x].run,
         \A d \in Cpus \ {b} :
           /\ Uncalled(l, local'[b], d, data'[d].busy) <=>
                Uncalled(pc[b], local[b], d, data[d].busy)
           /\ pc[d] \in Owing(q) \cup Beyond(q, ConfigureMtrrs) \cup Gone
           /\ pc[d] \in Gate(q) <=> pc[d] \in Gate(p),
         Tallied(b, q)', Leads(b, q)', Starts(b)'
  PROVE  Led' /\ Now(b)' = q
<1>1. /\ pc \in [Cpus -> Labels] /\ pc'[b] = l
      /\ \A x \in Cpus : x # b => pc'[x] = pc[x]
  BY GotoIs DEF Typed
<1>2. ASSUME NEW d \in Cpus \ {b}
      PROVE  Placed(b, d, q)'
  <2>1. Placed(b, d, p)
    BY DEF Session
  <2>2. pc'[d] = pc[d] /\ local'[d] = local[d] /\ data'[d].run = data[d].run /\ pc'[b] = l
    BY <1>1
  <2>3. Uncalled(pc[b], local[b], d, data[d].busy)' <=> Uncalled(pc[b], local[b], d, data[d].busy)
    BY <1>1
  <2>4. /\ pc[d] \in Owing(q) \cup Beyond(q, ConfigureMtrrs') \cup Gone
        /\ pc[d] \in Gate(q) <=> pc[d] \in Gate(p)
    BY DEF ConfigureMtrrs
  <2>5. /\ Uncalled(pc[b], local[b], d, data[d].busy)' => pc'[d] \in Gate(q) \cup Gone
        /\ data'[d].run = IF pc'[d] \in Gate(q) /\ ~Uncalled(pc[b], local[b], d, data[d].busy)'
                          THEN 1 ELSE 0
    BY <2>1, <2>2, <2>3, <2>4 DEF Placed
  <2>6. pc'[d] \in Knows => local'[d].bsp = b
    BY <2>1, <2>2 DEF Placed
  <2> QED BY <2>2, <2>4, <2>5, <2>6 DEF Placed
<1>3. Session(b, q)'
  BY <1>2 DEF Session
<1>4. bspIndex' = b /\ b # NoCpu
  BY RendezvousAssumption
<1> QED BY <1>3, <1>4 DEF Led

(* It stays in its phase.                                                    *)
LEMMA LeaderKeeps ==
  ASSUME Typed, NEW b \in Cpus, bspIndex = b, NEW p, p = Now(b), Session(b, p),
         NEW l \in Labels, Goto(b, l), UNCHANGED <<config, bspIndex, counter>>,
         Now(b)' = p,
         \A x \in Cpus : x # b => local'[x] = local[x],
         \A x \in Cpus : x # b => data'[x].run = data[x].run,
         \A d \in Cpus \ {b} :
           Uncalled(l, local'[b], d, data'[d].busy) <=>
             Uncalled(pc[b], local[b], d, data[d].busy),
         local'[b].aps = local[b].aps,
         NEW s \in Int,
         data'[b].run = data[b].run + s,
         Awaited(l, local'[b], counter) = Awaited(pc[b], local[b], counter) + s,
         Leads(b, p)', Starts(b)'
  PROVE  Led' /\ Now(b)' = p
<1>1. /\ pc \in [Cpus -> Labels] /\ pc'[b] = l
      /\ \A x \in Cpus : x # b => pc'[x] = pc[x]
  BY GotoIs DEF Typed
<1>2. \A L : Number(pc', Cpus \ {b}, L) = Number(pc, Cpus \ {b}, L)
  <2>1. \A L : \A d \in Cpus \ {b} : pc[d] \in L <=> pc'[d] \in L
    BY <1>1
  <2>2. ASSUME NEW L
        PROVE  Number(pc, Cpus \ {b}, L) = Number(pc', Cpus \ {b}, L)
    BY <2>1, NumberStays
  <2> QED BY <2>2
<1>3. Tallied(b, p)'
  <2> DEFINE o == Number(pc, Cpus \ {b}, Owing(p))
  <2>1. o \in Nat /\ data[b].run \in Int
    <3>1. o \in Nat
      BY NumberIs
    <3>2. data[b].run \in Int
      BY DEF Typed, Datum
    <3> QED BY <3>1, <3>2
  <2>2. data[b].run + o = Awaited(pc[b], local[b], counter)
    BY DEF Session, Tallied
  <2>3. data'[b].run + o = Awaited(pc'[b], local'[b], counter')
    <3>1. data'[b].run + o = (data[b].run + o) + s
      BY <2>1
    <3> HIDE DEF o
    <3> QED BY <1>1, <2>2, <3>1
  <2>4. /\ IF p \in {"gather", "close"} THEN counter' - 1 = Number(pc', Cpus \ {b}, There)
           ELSE /\ counter' = Locked
                /\ p = "over" \/ Last(p, ConfigureMtrrs') \/
                     local'[b].aps = Number(pc', Cpus \ {b}, There)
    <3>1. Number(pc', Cpus \ {b}, There) = Number(pc, Cpus \ {b}, There)
      BY <1>2
    <3>2. Tallied(b, p) /\ ConfigureMtrrs' = ConfigureMtrrs
      BY DEF Session, ConfigureMtrrs
    <3>3. /\ IF p \in {"gather", "close"} THEN counter - 1 = Number(pc, Cpus \ {b}, There)
             ELSE /\ counter = Locked
                  /\ p = "over" \/ Last(p, ConfigureMtrrs) \/
                       local[b].aps = Number(pc, Cpus \ {b}, There)
      BY <3>2 DEF Tallied
    <3> QED BY <3>1, <3>2, <3>3
  <2> QED BY <1>2, <2>3, <2>4 DEF Tallied
<1>4. \A d \in Cpus \ {b} :
        /\ pc[d] \in Owing(p) \cup Beyond(p, ConfigureMtrrs) \cup Gone
        /\ pc[d] \in Gate(p) <=> pc[d] \in Gate(p)
  BY DEF Session, Placed
<1> QED BY <1>3, <1>4, LeaderTurns

(* It releases the semaphore of a.                                           *)
LEMMA LeaderCalls ==
  ASSUME Typed, NEW b \in Cpus, bspIndex = b, NEW p, p = Now(b), Session(b, p),
         NEW l \in Labels, Goto(b, l) \/ (l = pc[b] /\ UNCHANGED pc),
         UNCHANGED <<config, bspIndex, counter>>, Now(b)' = p,
         \A x \in Cpus : x # b => local'[x] = local[x],
         NEW a \in Cpus \ {b}, Uncalled(pc[b], local[b], a, data[a].busy),
         ~Uncalled(l, local'[b], a, data'[a].busy),
         data'[a].run = IF pc[a] \in Gone THEN 0 ELSE 1,
         \A x \in Cpus : x # a => data'[x].run = data[x].run,
         \A d \in Cpus \ {a, b} :
           Uncalled(l, local'[b], d, data'[d].busy) <=>
             Uncalled(pc[b], local[b], d, data[d].busy),
         local'[b].aps = local[b].aps,
         Awaited(l, local'[b], counter) = Awaited(pc[b], local[b], counter),
         Leads(b, p)', Starts(b)'
  PROVE  Led' /\ Now(b)' = p
<1>1. /\ pc \in [Cpus -> Labels] /\ pc'[b] = l
      /\ \A x \in Cpus : x # b => pc'[x] = pc[x]
  <2>1. pc \in [Cpus -> Labels]
    BY DEF Typed
  <2> QED BY <2>1, GotoIs
<1>2. \A L : Number(pc', Cpus \ {b}, L) = Number(pc, Cpus \ {b}, L)
  <2>1. \A L : \A d \in Cpus \ {b} : pc[d] \in L <=> pc'[d] \in L
    BY <1>1
  <2>2. ASSUME NEW L
        PROVE  Number(pc, Cpus \ {b}, L) = Number(pc', Cpus \ {b}, L)
    BY <2>1, NumberStays
  <2> QED BY <2>2
<1>3. Tallied(b, p)'
  <2>1. a # b /\ data'[b].run = data[b].run
    OBVIOUS
  <2> QED BY <1>1, <1>2, <2>1 DEF Session, Tallied, ConfigureMtrrs
<1>4. ASSUME NEW d \in Cpus \ {b}
      PROVE  Placed(b, d, p)'
  <2>1. Placed(b, d, p)
    BY DEF Session
  <2>2. pc'[d] = pc[d] /\ local'[d] = local[d] /\ pc'[b] = l
    BY <1>1
  <2>3. /\ pc'[d] \in Owing(p) \cup Beyond(p, ConfigureMtrrs') \cup Gone
        /\ pc'[d] \in Knows => local'[d].bsp = b
    BY <2>1, <2>2 DEF Placed, ConfigureMtrrs
  <2>4. CASE d = a
    <3>1. pc[d] \in Gate(p) \cup Gone
      BY <2>1, <2>4 DEF Placed
    <3>2. pc[d] \in Gone => pc[d] \notin Gate(p)
      BY DEF Gone, Gate
    <3>3. ~Uncalled(pc[b], local[b], d, data[d].busy)'
      BY <2>2, <2>4
    <3>4. data'[d].run = IF pc'[d] \in Gate(p) THEN 1 ELSE 0
      BY <2>2, <2>4, <3>1, <3>2
    <3> QED BY <2>3, <3>3, <3>4 DEF Placed
  <2>5. CASE d # a
    <3>1. Uncalled(pc[b], local[b], d, data[d].busy)' <=> Uncalled(pc[b], local[b], d,
            data[d].busy)
      BY <2>2, <2>5
    <3>2. /\ Uncalled(pc[b], local[b], d, data[d].busy)' => pc'[d] \in Gate(p) \cup Gone
          /\ data'[d].run = IF pc'[d] \in Gate(p) /\ ~Uncalled(pc[b], local[b], d, data[d].busy)'
                            THEN 1 ELSE 0
      BY <2>1, <2>2, <2>5, <3>1 DEF Placed
    <3> QED BY <2>3, <3>2 DEF Placed
  <2> QED BY <2>4, <2>5
<1>5. Session(b, p)'
  BY <1>3, <1>4 DEF Session
<1>6. bspIndex' = b /\ b # NoCpu
  BY RendezvousAssumption
<1> QED BY <1>5, <1>6 DEF Led

(* When it has been signalled by everyone, nobody is before or behind the    *)
(* gate, and those beyond it are at the next one.                            *)
LEMMA EveryoneIsBeyond ==
  ASSUME Typed, NEW b \in Cpus, NEW p, Session(b, p), pc[b] = "wait", local[b].left = 0
  PROVE  /\ data[b].run = 0
         /\ \A d \in Cpus \ {b} : /\ pc[d] \in Beyond(p, ConfigureMtrrs) \cup Gone
                                  /\ data[d].run = 0
<1>1. data[b].run + Number(pc, Cpus \ {b}, Owing(p)) = 0
  BY DEF Session, Tallied, Awaited, Open, Closing
<1>2. data[b].run \in Nat /\ Number(pc, Cpus \ {b}, Owing(p)) \in Nat
  <2>1. data[b].run \in Nat
    BY DEF Typed, Datum
  <2>2. Number(pc, Cpus \ {b}, Owing(p)) \in Nat
    BY NumberIs
  <2> QED BY <2>1, <2>2
<1>3. data[b].run = 0 /\ Number(pc, Cpus \ {b}, Owing(p)) = 0
  BY ONLY <1>1, <1>2
<1>4. \A d \in Cpus \ {b} : pc[d] \notin Owing(p)
  BY <1>3, NumberIs
<1>5. ASSUME NEW d \in Cpus \ {b}
      PROVE  pc[d] \in Beyond(p, ConfigureMtrrs) \cup Gone /\ data[d].run = 0
  <2>1. Placed(b, d, p)
    BY DEF Session
  <2> QED BY <1>4, <2>1 DEF Placed, Owing
<1> QED BY <1>3, <1>5

(* It enters the next phase when all have signalled.                         *)
LEMMA LeaderEnters ==
  ASSUME Typed, NEW b \in Cpus, bspIndex = b, NEW p, p = Now(b), Session(b, p),
         pc[b] = "wait", local[b].left = 0,
         NEW l \in {"bsp_save", "bsp_replace", "bsp_busy", "bsp_restore"}, Goto(b, l),
         UNCHANGED <<config, counter, bspIndex, current, insideSmm, data, local>>,
         NEW q, Now(b)' = q, q \notin {"none", "gather", "close", "meet", "dismiss", "over"},
         p \notin {"gather", "close", "over"}, ~Last(p, ConfigureMtrrs),
         q # "restore" => insideSmm,
         Beyond(p, ConfigureMtrrs) = Gate(q)
  PROVE  Led' /\ Now(b)' = q
<1>1. /\ pc \in [Cpus -> Labels] /\ pc'[b] = l /\ l \in Labels
      /\ \A x \in Cpus : x # b => pc'[x] = pc[x]
  <2>1. pc \in [Cpus -> Labels] /\ l \in Labels
    BY DEF Typed, Labels
  <2> QED BY <2>1, GotoIs
<1>2. /\ data[b].run = 0
      /\ \A d \in Cpus \ {b} : pc[d] \in Gate(q) \cup Gone /\ data[d].run = 0
  BY EveryoneIsBeyond
<1>3. ASSUME NEW d \in Cpus \ {b}
      PROVE  Placed(b, d, q)'
  <2>1. Placed(b, d, p)
    BY DEF Session
  <2>2. Uncalled(pc[b], local[b], d, data[d].busy)'
    BY <1>1 DEF Uncalled, Ready
  <2>3. pc'[d] = pc[d] /\ local'[d] = local[d] /\ data'[d] = data[d]
    BY <1>1
  <2>4. pc'[d] \in Knows => local'[d].bsp = b
    BY <2>1, <2>3 DEF Placed
  <2>5. pc'[d] \in Owing(q) \cup Beyond(q, ConfigureMtrrs)' \cup Gone
    BY <1>2, <2>3 DEF Owing
  <2> QED BY <1>2, <2>2, <2>3, <2>4, <2>5 DEF Placed
<1>4. Tallied(b, q)'
  <2>1. \A d \in Cpus \ {b} : pc[d] \in There <=> pc'[d] \in Owing(q)
    <3>1. \A d \in Cpus \ {b} : pc'[d] = pc[d] /\ pc[d] \in Labels
      BY <1>1
    <3>2. Gate(q) \cap (Gone \cup Leaving) = {} /\ Work(q) \cap Gone = {} /\ Gone \subseteq Away
      BY DEF Gate, Gone, Leaving, Work, Joining, Away
    <3> QED BY <1>2, <3>1, <3>2 DEF There, Owing, Away
  <2>2. Number(pc, Cpus \ {b}, There) = Number(pc', Cpus \ {b}, Owing(q))
    BY <2>1, NumberStays
  <2>3. \A d \in Cpus \ {b} : pc[d] \in There <=> pc'[d] \in There
    BY <1>1
  <2>4. Number(pc, Cpus \ {b}, There) = Number(pc', Cpus \ {b}, There)
    BY <2>3, NumberStays
  <2>5. counter = Locked /\ local[b].aps = Number(pc, Cpus \ {b}, There)
    BY DEF Session, Tallied
  <2>6. Awaited(pc'[b], local'[b], counter') = local[b].aps
    BY <1>1 DEF Awaited, Open, Closing
  <2>7. Number(pc', Cpus \ {b}, Owing(q)) \in Nat
    BY NumberIs
  <2>8. data'[b].run + Number(pc', Cpus \ {b}, Owing(q)) = Number(pc', Cpus \ {b}, Owing(q))
    BY <1>2, <2>7
  <2> QED BY <1>1, <2>2, <2>4, <2>5, <2>6, <2>8 DEF Tallied
<1>5. Leads(b, q)'
  <2>1. current = b
    BY DEF Session, Leads
  <2> QED BY <1>1, <2>1 DEF Leads, Open, Closing
<1>6. Starts(b)'
  BY <1>1 DEF Starts, Starting
<1>7. bspIndex' = b /\ b # NoCpu
  BY RendezvousAssumption
<1>8. Session(b, q)'
  BY <1>3, <1>4, <1>5, <1>6 DEF Session
<1> QED BY <1>7, <1>8 DEF Led

(* It is done with the last phase when all have signalled.                   *)
LEMMA LeaderEnds ==
  ASSUME Typed, ConfigureMtrrs \in BOOLEAN,
         NEW b \in Cpus, bspIndex = b, NEW p, p = Now(b), Session(b, p),
         Wait(b), local[b].left = 0, UNCHANGED config
  PROVE  /\ Led'
         /\ p = "restore" => \A d \in Cpus : ~IsSwitched(d)'
<1>1. /\ pc[b] = "wait" /\ Goto(b, local[b].then)
      /\ UNCHANGED <<counter, bspIndex, current, insideSmm, data, local>>
  BY DEF Wait, At, shared
<1>2. PICK m \in BOOLEAN : m = ConfigureMtrrs
  OBVIOUS
<1>3. PICK t : t = local[b].then
  OBVIOUS
<1>4. p = Phase("wait", t, m) /\ p # "none" /\ Goto(b, t)
  BY <1>1, <1>2, <1>3 DEF Now, Session, Leads
<1>5. \/ p = "meet" /\ t = (IF m THEN "bsp_save" ELSE "bsp_busy")
      \/ p = "save" /\ m /\ t = "bsp_replace"
      \/ p = "replace" /\ m /\ t = "bsp_busy"
      \/ p = "dismiss" /\ t = (IF m THEN "bsp_restore" ELSE "bsp_reset")
      \/ p = "restore" /\ m /\ t = "bsp_reset"
  BY ONLY <1>4 DEF Phase, Open, Closing, Foundation
<1>6. /\ pc \in [Cpus -> Labels] /\ t \in Labels
      /\ pc'[b] = t /\ \A x \in Cpus : x # b => pc'[x] = pc[x]
  <2>1. pc \in [Cpus -> Labels] /\ t \in Labels
    BY <1>5 DEF Typed, Labels
  <2> QED BY <1>4, <2>1, GotoIs
<1>7. Now(b)' = Phase(t, t, m)
  BY <1>1, <1>2, <1>3, <1>6 DEF Now, ConfigureMtrrs
<1>8. p \in {"meet", "save", "replace"} => insideSmm
  BY DEF Session, Leads
<1>9. CASE t # "bsp_reset"
  <2> DEFINE q == Phase(t, t, m)
  <2>1. /\ q \notin {"none", "gather", "close", "meet", "dismiss", "over"}
        /\ q # "restore" => p \in {"meet", "save", "replace"}
        /\ p \notin {"gather", "close", "over", "restore"} /\ (p = "dismiss" => m)
        /\ t \in {"bsp_save", "bsp_replace", "bsp_busy", "bsp_restore"}
    BY <1>5, <1>9 DEF Phase, Open, Closing, Foundation
  <2>2. Beyond(p, m) = Gate(q)
    BY <1>5, <1>9 DEF Phase, Open, Closing, Foundation, Beyond, FirstGate, Gate
  <2>3. ~Last(p, ConfigureMtrrs)
    BY <1>2, <2>1 DEF Last
  <2>4. Beyond(p, ConfigureMtrrs) = Gate(q) /\ Now(b)' = q /\ (q # "restore" => insideSmm)
    BY <1>2, <1>7, <1>8, <2>1, <2>2
  <2> HIDE DEF q
  <2>5. Led'
    BY <1>1, <1>4, <2>1, <2>3, <2>4, LeaderEnters
  <2> QED BY <2>1, <2>5
<1>10. CASE t = "bsp_reset"
  <2>1. Phase(t, t, m) = "over" /\ Last(p, m) /\ Beyond(p, m) = {"leave"}
    BY <1>5, <1>10 DEF Phase, Open, Closing, Foundation, Last, Beyond
  <2>2. /\ data[b].run = 0
        /\ \A d \in Cpus \ {b} : pc[d] \in {"leave"} \cup Gone /\ data[d].run = 0
    BY <1>1, <1>2, <2>1, EveryoneIsBeyond
  <2>3. ASSUME NEW d \in Cpus \ {b}
        PROVE  Placed(b, d, "over")'
    <3>1. pc'[d] = pc[d] /\ data'[d] = data[d]
      BY <1>1, <1>6
    <3>2. ~Uncalled(pc[b], local[b], d, data[d].busy)'
      BY <1>6, <1>10 DEF Uncalled, Ready
    <3> QED BY <2>2, <3>1, <3>2 DEF Placed, Beyond, Gate, Gone, Knows
  <2>4. Tallied(b, "over")'
    <3>1. \A d \in Cpus \ {b} : pc'[d] \notin Owing("over")
      BY DEF Owing, Gate, Work
    <3>2. {d \in Cpus \ {b} : pc'[d] \in Owing("over")} = {}
      BY <3>1
    <3>3. Number(pc', Cpus \ {b}, Owing("over")) = 0
      BY <3>2, FS_EmptySet DEF Number
    <3>4. counter = Locked
      BY <1>5 DEF Session, Tallied
    <3>5. Awaited(pc'[b], local'[b], counter') = 0 /\ data'[b].run = 0
      BY <1>1, <1>6, <1>10, <2>2 DEF Awaited, Open, Closing
    <3> QED BY <1>1, <3>3, <3>4, <3>5 DEF Tallied
  <2>5. Leads(b, "over")' /\ Starts(b)'
    <3>1. current = b
      BY <1>1 DEF Session, Leads
    <3> QED BY <1>1, <1>6, <1>10, <3>1 DEF Leads, Starts, Starting, Open, Closing
  <2>6. bspIndex' = b /\ b # NoCpu /\ Now(b)' = "over"
    BY <1>1, <1>7, <2>1, RendezvousAssumption
  <2>7. Led'
    BY <2>3, <2>4, <2>5, <2>6 DEF Led, Session
  <2>8. \A d \in Cpus : pc'[d] \in {"leave", "bsp_reset"} \cup Gone
    BY <1>6, <1>10, <2>2
  <2>9. \A d \in Cpus : ~IsSwitched(d)'
    BY <2>8 DEF IsSwitched, Switched, Gone, Foundation
  <2> QED BY <2>7, <2>9
<1> QED BY <1>9, <1>10

(* Numbers stay when nobody moves but the BSP.                               *)
LEMMA NumbersStay ==
  ASSUME NEW b \in Cpus, \A x \in Cpus : x # b => pc'[x] = pc[x]
  PROVE  \A L : Number(pc', Cpus \ {b}, L) = Number(pc, Cpus \ {b}, L)
<1>1. \A L : \A d \in Cpus \ {b} : pc[d] \in L <=> pc'[d] \in L
  OBVIOUS
<1>2. ASSUME NEW L
      PROVE  Number(pc, Cpus \ {b}, L) = Number(pc', Cpus \ {b}, L)
  BY <1>1, NumberStays
<1> QED BY <1>2

(* Nobody is still on its way out of the last session when the BSP has seen  *)
(* everyone, or has waited long enough.                                      *)
LEMMA NobodyLeaves ==
  ASSUME Typed, NEW b \in Cpus, bspIndex = b, Session(b, "gather"),
         ~Below \/ Timeout(b), PatientTimer
  PROVE  \A d \in Cpus \ {b} : pc[d] \notin Leaving
<1>1. CASE ~Below
  <2>1. counter - 1 = Number(pc, Cpus \ {b}, There)
    BY DEF Session, Tallied
  <2>2. Number(pc, Cpus \ {b}, There) \in Nat
    BY NumberIs
  <2>3. NumberOfCpus \in Nat
    BY RendezvousAssumption, FS_CardinalityType DEF NumberOfCpus
  <2>4. counter \in Int
    BY DEF Typed
  <2>5. counter >= NumberOfCpus
    BY <1>1, <2>1, <2>2, <2>3, <2>4 DEF Below
  <2>6. Number(pc, Cpus \ {b}, There) >= NumberOfCpus - 1
    BY <2>1, <2>2, <2>3, <2>4, <2>5
  <2>7. \A d \in Cpus \ {b} : pc[d] \in There
    BY <2>6, NumberAll
  <2> QED BY <2>7 DEF There, Away
<1>2. CASE Timeout(b)
  <2>1. ASSUME NEW d \in Cpus \ {b}, pc[d] \in Leaving
        PROVE  FALSE
    <3>1. d \in InSmm \ {b}
      BY <2>1 DEF InSmm, Leaving
    <3>2. Blocked(d)
      BY <1>2, <3>1 DEF Timeout
    <3> QED BY <2>1, <3>2 DEF Blocked, Leaving, At
  <2> QED BY <2>1
<1> QED BY <1>1, <1>2

(* It stops waiting for the missing.                                         *)
LEMMA LeaderCloses ==
  ASSUME Typed, NEW b \in Cpus, bspIndex = b, NEW p, p = Now(b), Session(b, p),
         pc[b] \in {"bsp_check", "bsp_sync_again"}, Goto(b, "bsp_in_sync"),
         UNCHANGED <<config, counter, bspIndex, current, insideSmm, data, local>>,
         ~Below \/ Timeout(b), PatientTimer
  PROVE  Led' /\ Now(b)' = "close"
<1>1. /\ pc \in [Cpus -> Labels] /\ pc'[b] = "bsp_in_sync" /\ "bsp_in_sync" \in Labels
      /\ \A x \in Cpus : x # b => pc'[x] = pc[x]
  BY GotoIs DEF Typed, Labels
<1>2. p = "gather"
  BY DEF Now, Phase, Open
<1>3. \A d \in Cpus \ {b} : pc[d] \notin Leaving
  BY <1>2, NobodyLeaves
<1>4. \A d \in Cpus \ {b} :
        /\ pc[d] \in Owing("close") \cup Beyond("close", ConfigureMtrrs) \cup Gone
        /\ pc[d] \in Gate("close") <=> pc[d] \in Gate(p)
  BY <1>2, <1>3 DEF Session, Placed, Owing, Gate, Work, Beyond
<1>5. Now(b)' = "close"
  BY <1>1 DEF Now, Phase, Open, Closing
<1>6. \A d \in Cpus \ {b} :
        Uncalled("bsp_in_sync", local'[b], d, data'[d].busy) <=>
          Uncalled(pc[b], local[b], d, data[d].busy)
  BY DEF Uncalled, Ready
<1>7. Tallied(b, "close")'
  <2>1. \A L : Number(pc', Cpus \ {b}, L) = Number(pc, Cpus \ {b}, L)
    BY <1>1, NumbersStay
  <2>2. Owing("close") = Owing(p)
    BY <1>2 DEF Owing, Gate, Work
  <2>3. /\ data[b].run + Number(pc, Cpus \ {b}, Owing(p)) = counter - 1
        /\ counter - 1 = Number(pc, Cpus \ {b}, There)
    BY <1>2 DEF Session, Tallied, Awaited, Open
  <2>4. Awaited(pc'[b], local'[b], counter') = counter - 1
    BY <1>1 DEF Awaited, Closing
  <2> QED BY <2>1, <2>2, <2>3, <2>4 DEF Tallied
<1>8. Leads(b, "close")' /\ Starts(b)'
  <2>1. current = b /\ insideSmm
    BY <1>2 DEF Session, Leads, Open
  <2> QED BY <1>1, <2>1 DEF Leads, Starts, Starting
<1> QED BY <1>1, <1>4, <1>5, <1>6, <1>7, <1>8, LeaderTurns

(* It locks the counter.                                                     *)
LEMMA LeaderLocks ==
  ASSUME Typed, ConfigureMtrrs \in BOOLEAN,
         NEW b \in Cpus, bspIndex = b, NEW p, p = Now(b), Session(b, p),
         BspLock(b), UNCHANGED config
  PROVE  Led' /\ Now(b)' = "meet"
<1>1. /\ pc \in [Cpus -> Labels] /\ pc[b] = "bsp_lock" /\ pc'[b] = "wait" /\ "wait" \in Labels
      /\ \A x \in Cpus : x # b => pc'[x] = pc[x]
      /\ local \in [Cpus -> Vars] /\ counter \in Int
      /\ Goto(b, "wait") /\ counter' = Locked
      /\ UNCHANGED <<bspIndex, current, insideSmm, data>>
  BY GotoIs DEF Typed, Labels, BspLock, At
<1>2. p = "close"
  BY <1>1 DEF Now, Phase, Open, Closing
<1>3. PICK n \in Int : n = counter - 1
  <2>1. counter - 1 \in Int
    BY DEF Typed
  <2> QED BY <2>1
<1>4. PICK t \in Nexts : t = (IF ConfigureMtrrs THEN "bsp_save" ELSE "bsp_busy")
  BY DEF Nexts
<1>5. Locks(b, n, n, t)
  <2>1. local' = [local EXCEPT ![b].aps = counter - 1, ![b].left = counter - 1,
                   ![b].then = IF ConfigureMtrrs THEN "bsp_save" ELSE "bsp_busy"]
    BY DEF BspLock
  <2> QED BY <2>1, <1>3, <1>4 DEF Locks
<1>6. /\ local'[b].aps = n /\ local'[b].left = n /\ local'[b].then = t
      /\ \A x \in Cpus : x # b => local'[x] = local[x]
  <2>1. local \in [Cpus -> Vars] /\ n \in Int /\ t \in Nexts /\ b \in Cpus
    BY <1>1
  <2> QED BY <2>1, <1>5, LockSet
<1>7. Now(b)' = "meet"
  BY <1>1, <1>4, <1>6 DEF Now, Phase, Open, Closing, ConfigureMtrrs
<1>8. \A d \in Cpus \ {b} :
        /\ Uncalled("wait", local'[b], d, data'[d].busy) <=>
             Uncalled(pc[b], local[b], d, data[d].busy)
        /\ pc[d] \in Owing("meet") \cup Beyond("meet", ConfigureMtrrs) \cup Gone
        /\ pc[d] \in Gate("meet") <=> pc[d] \in Gate(p)
  <2>1. ASSUME NEW d \in Cpus \ {b}
        PROVE  /\ pc[d] \in Owing("meet") \cup Beyond("meet", ConfigureMtrrs) \cup Gone
               /\ pc[d] \in Gate("meet") <=> pc[d] \in Gate(p)
    BY <1>2 DEF Session, Placed, Owing, Gate, Work, Beyond
  <2> QED BY <1>1, <2>1 DEF Uncalled, Ready
<1>9. Tallied(b, "meet")'
  <2>1. \A L : Number(pc', Cpus \ {b}, L) = Number(pc, Cpus \ {b}, L)
    BY <1>1, NumbersStay
  <2>2. Owing("meet") = Owing(p)
    BY <1>2 DEF Owing, Gate, Work
  <2>3. /\ data[b].run + Number(pc, Cpus \ {b}, Owing(p)) = n
        /\ n = Number(pc, Cpus \ {b}, There)
    BY <1>1, <1>2, <1>3 DEF Session, Tallied, Awaited, Closing
  <2>4. Awaited(pc'[b], local'[b], counter') = n
    BY <1>1, <1>6 DEF Awaited, Open, Closing
  <2> QED BY <1>1, <1>6, <2>1, <2>2, <2>3, <2>4 DEF Tallied
<1>10. Leads(b, "meet")' /\ Starts(b)'
  <2>1. current = b /\ insideSmm
    BY <1>1 DEF Session, Leads, Closing
  <2> QED BY <1>1, <2>1 DEF Leads, Starts, Starting
<1>11. \A x \in Cpus : data'[x].run = data[x].run
  BY <1>1
<1> QED BY <1>1, <1>6, <1>7, <1>8, <1>9, <1>10, <1>11, LeaderTurns

(* It returns from the foundation.                                           *)
LEMMA LeaderDismisses ==
  ASSUME Typed, NEW b \in Cpus, bspIndex = b, NEW p, p = Now(b), Session(b, p),
         BspNotInside(b), UNCHANGED config
  PROVE  Led' /\ Now(b)' = "dismiss"
<1>1. /\ pc \in [Cpus -> Labels] /\ pc[b] = "foundation" /\ pc'[b] = "bsp_dismiss"
      /\ "bsp_dismiss" \in Labels
      /\ \A x \in Cpus : x # b => pc'[x] = pc[x]
      /\ Goto(b, "bsp_dismiss") /\ insideSmm' = FALSE
      /\ UNCHANGED <<counter, bspIndex, current, data, local>>
  BY GotoIs DEF Typed, Labels, BspNotInside, At
<1>2. p = "hold"
  BY <1>1 DEF Now, Phase, Open, Closing, Foundation
<1>3. Now(b)' = "dismiss"
  BY <1>1 DEF Now, Phase, Open, Closing, Foundation
<1>4. \A d \in Cpus \ {b} : Uncalled("bsp_dismiss", local'[b], d, data'[d].busy) <=>
        Uncalled(pc[b], local[b], d, data[d].busy)
  BY <1>1 DEF Uncalled, Ready
<1>5. \A d \in Cpus \ {b} : pc[d] \in Gate(p) \cup Gone
  BY <1>1 DEF Session, Placed, Uncalled, Ready
<1>6. \A d \in Cpus \ {b} :
        /\ pc[d] \in Owing("dismiss") \cup Beyond("dismiss", ConfigureMtrrs) \cup Gone
        /\ pc[d] \in Gate("dismiss") <=> pc[d] \in Gate(p)
  BY <1>2, <1>5 DEF Owing, Gate
<1>7. Tallied(b, "dismiss")'
  <2>1. \A L : Number(pc', Cpus \ {b}, L) = Number(pc, Cpus \ {b}, L)
    BY <1>1, NumbersStay
  <2>2. Number(pc, Cpus \ {b}, Owing("dismiss")) = Number(pc, Cpus \ {b}, Owing(p))
    <3>1. \A d \in Cpus \ {b} : pc[d] \in Owing("dismiss") <=> pc[d] \in Owing(p)
      BY <1>2, <1>5 DEF Owing, Gate, Work, Gone
    <3> QED BY <3>1, NumberStays
  <2>3. /\ data[b].run + Number(pc, Cpus \ {b}, Owing(p)) = local[b].aps
        /\ counter = Locked /\ local[b].aps = Number(pc, Cpus \ {b}, There)
    BY <1>1, <1>2 DEF Session, Tallied, Awaited, Open, Closing, Last
  <2>4. Awaited(pc'[b], local'[b], counter') = local[b].aps
    BY <1>1 DEF Awaited, Open, Closing
  <2> QED BY <1>1, <2>1, <2>2, <2>3, <2>4 DEF Tallied
<1>8. Leads(b, "dismiss")' /\ Starts(b)'
  <2>1. current = b
    BY <1>1 DEF Session, Leads
  <2> QED BY <1>1, <2>1 DEF Leads, Starts, Starting, Open, Closing
<1>9. \A x \in Cpus : data'[x].run = data[x].run /\ local'[x] = local[x]
  BY <1>1
<1> QED BY <1>1, <1>3, <1>4, <1>6, <1>7, <1>8, <1>9, LeaderTurns

(* It resets BspIndex.                                                       *)
LEMMA LeaderVacates ==
  ASSUME Typed, Election, NEW b \in Cpus, bspIndex = b, NEW p, p = Now(b), Session(b, p),
         BspReset(b), UNCHANGED config
  PROVE  Led' /\ p = "over" /\ bspIndex' = NoCpu
<1>1. /\ pc \in [Cpus -> Labels] /\ pc[b] = "bsp_reset" /\ pc'[b] = "bsp_reopen"
      /\ \A x \in Cpus : x # b => pc'[x] = pc[x]
      /\ bspIndex' = NoCpu /\ UNCHANGED <<counter, data>>
  BY GotoIs DEF Typed, Labels, BspReset, At
<1>2. p = "over"
  BY <1>1 DEF Now, Phase, Open, Closing, Foundation
<1>3. \A d \in Cpus \ {b} : pc[d] \in {"leave"} \cup Gone /\ data[d].run = 0
  BY <1>2 DEF Session, Placed, Owing, Gate, Work, Beyond
<1>4. data[b].run = 0 /\ counter = Locked
  <2>1. data[b].run + Number(pc, Cpus \ {b}, Owing(p)) = 0 /\ counter = Locked
    BY <1>1, <1>2 DEF Session, Tallied, Awaited, Open, Closing
  <2>2. data[b].run \in Nat
    BY DEF Typed, Datum
  <2>3. Number(pc, Cpus \ {b}, Owing(p)) \in Nat
    BY NumberIs
  <2> QED BY <2>1, <2>2, <2>3
<1>5. \A d \in Cpus \ {b} : pc'[d] \in Away
  BY <1>1, <1>3 DEF Away, Leaving
<1>6. Vacant'
  BY <1>1, <1>3, <1>4, <1>5 DEF Vacant
<1> QED BY <1>1, <1>2, <1>6 DEF Led

(* Where the BSP is.                                                         *)
LeaderLabels == Open \cup Closing \cup Ready \cup
  {"bsp_saved", "bsp_replaced", "bsp_pending", "bsp_restored", "bsp_reset", "startup_wait",
   "wait", "release"}

(* The actions of the BSP.                                                   *)
LeaderActions(b) ==
  \/ Role(b) \/ BspInside(b) \/ BspSync(b) \/ BspCheck(b) \/ SendSmiIpis(b)
  \/ BspSyncAgain(b) \/ BspInSync(b) \/ BspLock(b) \/ BspSave(b) \/ BspSaved(b)
  \/ BspReplace(b) \/ BspReplaced(b) \/ BspBusy(b) \/ BspNotInside(b) \/ BspDismiss(b)
  \/ BspPending(b) \/ BspRestore(b) \/ BspRestored(b) \/ BspReset(b) \/ Wait(b)
  \/ Release(b) \/ StartupThisAp(b) \/ StartupProcedure(b) \/ StartupRelease(b)
  \/ StartupWait(b)

(* It is there.                                                              *)
LEMMA LeaderIs ==
  ASSUME NEW b \in Cpus, NEW p, p = Now(b), Session(b, p)
  PROVE  pc[b] \in LeaderLabels
<1>1. p # "none"
  BY DEF Session, Leads
<1>2. PICK l : l = pc[b]
  OBVIOUS
<1>3. PICK t : t = local[b].then
  OBVIOUS
<1>4. PICK m : m = ConfigureMtrrs
  OBVIOUS
<1>5. Phase(l, t, m) # "none"
  BY <1>1, <1>2, <1>3, <1>4 DEF Now
<1>6. l \in LeaderLabels
  BY ONLY <1>5 DEF Phase, LeaderLabels, Open, Closing, Ready, Foundation
<1> QED BY <1>2, <1>6

(* They are the only ones it can take.                                       *)
LEMMA LeaderActs ==
  ASSUME NEW b, pc[b] \in LeaderLabels, TakeSmi(b) \/ Processor(b)
  PROVE  LeaderActions(b) /\ UNCHANGED config
<1> USE DEF LeaderLabels, Open, Closing, Ready
<1>1. UNCHANGED config
  BY DEF TakeSmi, Processor
<1>2. ~TakeSmi(b) /\ ~Arrive(b) /\ ~MarkPresent(b) /\ ~Elect(b) /\ ~Leave(b) /\ ~Exit(b)
  BY DEF TakeSmi, Arrive, MarkPresent, Elect, Leave, Exit, At
<1>3. ~BspReopen(b) /\ ~BspOutOfSync(b)
  BY DEF BspReopen, BspOutOfSync, At
<1>4. ~ApBegin(b) /\ ~ApSync(b) /\ ~ApCheck(b) /\ ~ApSyncAgain(b) /\ ~ApCheckAgain(b)
  BY DEF ApBegin, ApSync, ApCheck, ApSyncAgain, ApCheckAgain, At
<1>5. ~GiveUp(b) /\ ~ApNotify(b) /\ ~ApSave(b) /\ ~ApSaving(b) /\ ~ApSaved(b) /\ ~ApReplace(b)
  BY DEF GiveUp, ApNotify, ApSave, ApSaving, ApSaved, ApReplace, At
<1>6. ~ApReplacing(b) /\ ~ApReplaced(b) /\ ~ApBusy(b) /\ ~ApIdle(b) /\ ~ApLook(b) /\ ~ApRun(b)
  BY DEF ApReplacing, ApReplaced, ApBusy, ApIdle, ApLook, ApRun, At
<1>7. ~ApFree(b) /\ ~ApDone(b) /\ ~ApRestore(b) /\ ~ApRestoring(b) /\ ~ApRestored(b)
  BY DEF ApFree, ApDone, ApRestore, ApRestoring, ApRestored, At
<1> HIDE DEF LeaderLabels, Open, Closing, Ready
<1>8. LeaderActions(b)
  BY <1>2, <1>3, <1>4, <1>5, <1>6, <1>7
     DEF LeaderActions, Processor, Entry, BSPHandler, SmmStartupThisAp, APHandler
<1> QED BY <1>1, <1>8

(* A step of the BSP that changes nothing the session is about but its       *)
(* label.                                                                    *)
LEMMA LeaderStill ==
  ASSUME Typed, NEW b \in Cpus, bspIndex = b, NEW p, p = Now(b), Session(b, p),
         NEW l \in Labels, Goto(b, l), UNCHANGED <<config, bspIndex, counter>>,
         Now(b)' = p,
         \A x \in Cpus : x # b => local'[x] = local[x],
         \A x \in Cpus : data'[x].run = data[x].run,
         \A d \in Cpus \ {b} :
           Uncalled(l, local'[b], d, data'[d].busy) <=>
             Uncalled(pc[b], local[b], d, data[d].busy),
         local'[b].aps = local[b].aps,
         Awaited(l, local'[b], counter) = Awaited(pc[b], local[b], counter),
         Leads(b, p)', Starts(b)'
  PROVE  Led' /\ Now(b)' = p
<1>1. data[b].run \in Int
  BY DEF Typed, Datum
<1>2. Awaited(pc[b], local[b], counter) \in Int
  <2>1. counter \in Int /\ local[b].left \in Int /\ local[b].aps \in Int
    BY DEF Typed, Vars
  <2> QED BY <2>1 DEF Awaited
<1>3. /\ data'[b].run = data[b].run + 0
      /\ Awaited(l, local'[b], counter) = Awaited(pc[b], local[b], counter) + 0
  BY <1>1, <1>2
<1> QED BY <1>3, LeaderKeeps

(* Whatever the BSP does, the session goes on as it should; restoring ends   *)
(* when nobody has the MTRRs of SMM.                                         *)
LEMMA LeaderSteps ==
  ASSUME Typed, Election, LateStart, BlockStartup, PatientTimer, ConfigureMtrrs \in BOOLEAN,
         PresentIs, NEW b \in Cpus, bspIndex = b, NEW p, p = Now(b), Session(b, p),
         TakeSmi(b) \/ Processor(b)
  PROVE  /\ Led'
         /\ p = "restore" => \/ bspIndex' = b /\ Now(b)' = p
                             \/ \A d \in Cpus : ~IsSwitched(d)'
<1>1. LeaderActions(b) /\ UNCHANGED config
  BY LeaderIs, LeaderActs
<1>2. /\ data \in [Cpus -> Datum] /\ local \in [Cpus -> Vars] /\ pc \in [Cpus -> Labels]
      /\ NoCpu # b /\ ConfigureMtrrs' = ConfigureMtrrs
  BY <1>1, RendezvousAssumption DEF Typed, ConfigureMtrrs
<1>3. /\ p # "none"
      /\ pc[b] \notin {"role", "bsp"} => current = b
      /\ \/ pc[b] \in Open \cup Closing /\ pc[b] \notin {"role", "bsp"}
         \/ p \in {"meet", "save", "replace", "hold"}
         => insideSmm
      /\ p = "dismiss" => ~insideSmm
      /\ pc[b] = "release" => local[b].todo \subseteq Cpus \ {b}
      /\ \A d \in Cpus \ {b} : Placed(b, d, p)
      /\ Starts(b)
  BY DEF Session, Leads
<1>4. local[b] \in Vars /\ local[b].aps \in Int /\ local[b].left \in Int
  BY <1>2 DEF Vars
<1>5. CASE Role(b)
  <2>1. /\ pc[b] = "role" /\ Goto(b, "bsp")
        /\ UNCHANGED <<counter, bspIndex, current, insideSmm>>
    BY <1>5, <1>2 DEF Role, At, shared
  <2>2. p = "gather"
    BY <2>1 DEF Now, Phase, Open, Closing, Foundation
  <2>3. "bsp" \in Labels /\ pc'[b] = "bsp"
    BY <1>2, <2>1, GotoIs DEF Labels
  <2>4. data' = data
    BY <1>5 DEF Role
  <2>5. local' = local
    BY <1>5 DEF Role
  <2>6. Now(b)' = p
    BY <1>2, <2>1, <2>2, <2>3, <2>5 DEF Now, Phase, Open, Closing, Foundation
  <2>7. \A d \in Cpus \ {b} : Uncalled("bsp", local'[b], d, data'[d].busy) <=>
          Uncalled(pc[b], local[b], d, data[d].busy)
    BY <2>1, <2>5 DEF Uncalled, Ready
  <2>8. Awaited("bsp", local'[b], counter) = Awaited(pc[b], local[b], counter)
    BY <2>1, <2>5 DEF Awaited, Open, Closing
  <2>9. Leads(b, p)'
    BY <1>3, <2>1, <2>2, <2>3, <2>5 DEF Leads, Open, Closing
  <2>10. Starts(b)'
    BY <2>3 DEF Starts, Starting
  <2>11. Led' /\ Now(b)' = p
    BY <1>1, <2>1, <2>3, <2>4, <2>5, <2>6, <2>7, <2>8, <2>9, <2>10, LeaderStill
  <2> QED BY <2>1, <2>11
<1>6. CASE BspInside(b)
  <2>1. /\ pc[b] = "bsp" /\ Goto(b, "bsp_sync")
        /\ UNCHANGED <<counter, bspIndex>>
        /\ current' = b /\ insideSmm' = TRUE
    BY <1>6 DEF BspInside, At, shared
  <2>2. p = "gather"
    BY <2>1 DEF Now, Phase, Open, Closing, Foundation
  <2>3. "bsp_sync" \in Labels /\ pc'[b] = "bsp_sync"
    BY <1>2, <2>1, GotoIs DEF Labels
  <2>4. data' = data
    BY <1>6 DEF BspInside
  <2>5. local' = local
    BY <1>6 DEF BspInside
  <2>6. Now(b)' = p
    BY <1>2, <2>1, <2>2, <2>3, <2>5 DEF Now, Phase, Open, Closing, Foundation
  <2>7. \A d \in Cpus \ {b} : Uncalled("bsp_sync", local'[b], d, data'[d].busy) <=>
          Uncalled(pc[b], local[b], d, data[d].busy)
    BY <2>1, <2>5 DEF Uncalled, Ready
  <2>8. Awaited("bsp_sync", local'[b], counter) = Awaited(pc[b], local[b], counter)
    BY <2>1, <2>5 DEF Awaited, Open, Closing
  <2>9. Leads(b, p)'
    BY <1>3, <2>1, <2>2, <2>3, <2>5 DEF Leads, Open, Closing
  <2>10. Starts(b)'
    BY <2>3 DEF Starts, Starting
  <2>11. Led' /\ Now(b)' = p
    BY <1>1, <2>1, <2>3, <2>4, <2>5, <2>6, <2>7, <2>8, <2>9, <2>10, LeaderStill
  <2> QED BY <2>1, <2>11
<1>7. CASE BspSync(b)
  <2>1. /\ pc[b] = "bsp_sync" /\ Goto(b, "bsp_check")
        /\ UNCHANGED <<counter, bspIndex, current, insideSmm>>
    BY <1>7 DEF BspSync, At, shared
  <2>2. p = "gather"
    BY <2>1 DEF Now, Phase, Open, Closing, Foundation
  <2>3. "bsp_check" \in Labels /\ pc'[b] = "bsp_check"
    BY <1>2, <2>1, GotoIs DEF Labels
  <2>4. data' = data
    BY <1>7 DEF BspSync
  <2>5. local' = local
    BY <1>7 DEF BspSync
  <2>6. Now(b)' = p
    BY <1>2, <2>1, <2>2, <2>3, <2>5 DEF Now, Phase, Open, Closing, Foundation
  <2>7. \A d \in Cpus \ {b} : Uncalled("bsp_check", local'[b], d, data'[d].busy) <=>
          Uncalled(pc[b], local[b], d, data[d].busy)
    BY <2>1, <2>5 DEF Uncalled, Ready
  <2>8. Awaited("bsp_check", local'[b], counter) = Awaited(pc[b], local[b], counter)
    BY <2>1, <2>5 DEF Awaited, Open, Closing
  <2>9. Leads(b, p)'
    BY <1>3, <2>1, <2>2, <2>3, <2>5 DEF Leads, Open, Closing
  <2>10. Starts(b)'
    BY <2>3 DEF Starts, Starting
  <2>11. Led' /\ Now(b)' = p
    BY <1>1, <2>1, <2>3, <2>4, <2>5, <2>6, <2>7, <2>8, <2>9, <2>10, LeaderStill
  <2> QED BY <2>1, <2>11
<1>8. CASE BspCheck(b)
  <2>1. /\ pc[b] = "bsp_check" /\ UNCHANGED <<counter, bspIndex, current, insideSmm, data>>
        /\ IF Below THEN Local(b, "todo", Cpus) /\ Goto(b, "bsp_ipi")
           ELSE Goto(b, "bsp_in_sync") /\ UNCHANGED local
    BY <1>8 DEF BspCheck, At, shared
  <2>2. p = "gather"
    BY <2>1 DEF Now, Phase, Open
  <2>3. CASE Below
    <3>1. "bsp_ipi" \in Labels /\ pc'[b] = "bsp_ipi" /\ Goto(b, "bsp_ipi")
      BY <1>2, <2>1, <2>3, GotoIs DEF Labels
    <3>2. /\ local'[b].aps = local[b].aps /\ \A y \in Cpus : y # b => local'[y] = local[y]
      BY <1>2, <2>1, <2>3, TodoSet
    <3>3. Now(b)' = p
      BY <2>2, <3>1 DEF Now, Phase, Open
    <3>4. \A d \in Cpus \ {b} : Uncalled("bsp_ipi", local'[b], d, data'[d].busy) <=>
            Uncalled(pc[b], local[b], d, data[d].busy)
      BY <2>1 DEF Uncalled, Ready
    <3>5. Awaited("bsp_ipi", local'[b], counter) = Awaited(pc[b], local[b], counter)
      BY <2>1 DEF Awaited, Open
    <3>6. Leads(b, p)' /\ Starts(b)'
      BY <1>3, <2>1, <2>2, <3>1 DEF Leads, Open, Starts, Starting
    <3> QED BY <1>1, <2>1, <2>2, <3>1, <3>2, <3>3, <3>4, <3>5, <3>6, LeaderStill
  <2>4. CASE ~Below
    BY <1>1, <2>1, <2>2, <2>4, LeaderCloses
  <2> QED BY <2>3, <2>4
<1>9. CASE SendSmiIpis(b)
  <2>1. /\ pc[b] = "bsp_ipi" /\ UNCHANGED <<counter, bspIndex, current, insideSmm, data>>
        /\ IF local[b].todo = {} THEN Goto(b, "bsp_sync_again") /\ UNCHANGED local
           ELSE UNCHANGED pc /\ \E d \in local[b].todo : Local(b, "todo", local[b].todo \ {d})
    BY <1>9 DEF SendSmiIpis, At, shared
  <2>2. p = "gather"
    BY <2>1 DEF Now, Phase, Open
  <2>3. PICK l \in {"bsp_ipi", "bsp_sync_again"} : Goto(b, l)
    BY <1>2, <2>1 DEF Goto
  <2>4. l \in Labels /\ pc'[b] = l
    <3>1. l \in Labels
      BY DEF Labels
    <3> QED BY <1>2, <2>3, <3>1, GotoIs
  <2>5. local'[b].aps = local[b].aps /\ \A y \in Cpus : y # b => local'[y] = local[y]
    <3>1. CASE local[b].todo = {}
      BY <2>1, <3>1
    <3>2. CASE local[b].todo # {}
      <4>1. PICK d \in local[b].todo : Local(b, "todo", local[b].todo \ {d})
        BY <2>1, <3>2
      <4>2. PICK S \in SUBSET Cpus : S = local[b].todo \ {d}
        BY <1>4 DEF Vars
      <4>3. Local(b, "todo", S)
        BY <4>1, <4>2
      <4> QED BY <1>2, <4>3, TodoSet
    <3> QED BY <3>1, <3>2
  <2>6. Now(b)' = p
    BY <2>2, <2>4 DEF Now, Phase, Open
  <2>7. \A d \in Cpus \ {b} : Uncalled(l, local'[b], d, data'[d].busy) <=>
          Uncalled(pc[b], local[b], d, data[d].busy)
    BY <2>1 DEF Uncalled, Ready
  <2>8. Awaited(l, local'[b], counter) = Awaited(pc[b], local[b], counter)
    BY <2>1 DEF Awaited, Open
  <2>9. Leads(b, p)' /\ Starts(b)'
    BY <1>3, <2>1, <2>2, <2>4 DEF Leads, Open, Starts, Starting
  <2> QED BY <1>1, <2>1, <2>2, <2>3, <2>4, <2>5, <2>6, <2>7, <2>8, <2>9, LeaderStill
<1>10. CASE BspSyncAgain(b)
  <2>1. /\ pc[b] = "bsp_sync_again" /\ Goto(b, "bsp_in_sync") /\ (~Below \/ Timeout(b))
        /\ UNCHANGED <<counter, bspIndex, current, insideSmm, data, local>>
    BY <1>10 DEF BspSyncAgain, At, shared
  <2>2. p = "gather"
    BY <2>1 DEF Now, Phase, Open
  <2> QED BY <1>1, <2>1, <2>2, LeaderCloses
<1>11. CASE BspInSync(b)
  <2>1. /\ pc[b] = "bsp_in_sync" /\ Goto(b, "bsp_lock")
        /\ UNCHANGED <<counter, bspIndex, current, insideSmm>>
    BY <1>11 DEF BspInSync, At, shared
  <2>2. p = "close"
    BY <2>1 DEF Now, Phase, Open, Closing, Foundation
  <2>3. "bsp_lock" \in Labels /\ pc'[b] = "bsp_lock"
    BY <1>2, <2>1, GotoIs DEF Labels
  <2>4. data' = data
    BY <1>11 DEF BspInSync
  <2>5. local' = local
    BY <1>11 DEF BspInSync
  <2>6. Now(b)' = p
    BY <1>2, <2>1, <2>2, <2>3, <2>5 DEF Now, Phase, Open, Closing, Foundation
  <2>7. \A d \in Cpus \ {b} : Uncalled("bsp_lock", local'[b], d, data'[d].busy) <=>
          Uncalled(pc[b], local[b], d, data[d].busy)
    BY <2>1, <2>5 DEF Uncalled, Ready
  <2>8. Awaited("bsp_lock", local'[b], counter) = Awaited(pc[b], local[b], counter)
    BY <2>1, <2>5 DEF Awaited, Open, Closing
  <2>9. Leads(b, p)'
    BY <1>3, <2>1, <2>2, <2>3, <2>5 DEF Leads, Open, Closing
  <2>10. Starts(b)'
    BY <2>3 DEF Starts, Starting
  <2>11. Led' /\ Now(b)' = p
    BY <1>1, <2>1, <2>3, <2>4, <2>5, <2>6, <2>7, <2>8, <2>9, <2>10, LeaderStill
  <2> QED BY <2>1, <2>11
<1>12. CASE BspLock(b)
  <2>1. p = "close"
    BY <1>12 DEF Now, Phase, Open, Closing, BspLock, At
  <2> QED BY <1>1, <1>12, <2>1, LeaderLocks
<1>13. CASE BspSave(b)
  <2>1. /\ pc[b] = "bsp_save" /\ Goto(b, "release")
        /\ UNCHANGED <<counter, bspIndex, current, insideSmm>>
    BY <1>13 DEF BspSave, At, shared, ReleaseAllAPs
  <2>2. p = "save"
    BY <1>3, <2>1 DEF Now, Phase, Open, Closing, Foundation
  <2>3. "release" \in Labels /\ pc'[b] = "release"
    BY <1>2, <2>1, GotoIs DEF Labels
  <2>4. data' = data
    BY <1>13 DEF BspSave, ReleaseAllAPs
  <2>5. /\ local'[b].todo = Cpus \ {b} /\ local'[b].then = "bsp_saved"
        /\ local'[b].aps = local[b].aps /\ local'[b].left = local[b].left
        /\ \A y \in Cpus : y # b => local'[y] = local[y]
    <3>1. PICK S \in SUBSET Cpus : S = Cpus \ {current}
      OBVIOUS
    <3>2. PICK t \in Nexts : t = "bsp_saved"
      BY DEF Nexts
    <3>3. local' = [local EXCEPT ![b].todo = Cpus \ {current}, ![b].then = "bsp_saved"] /\
            current = b
      BY <1>13, <1>3, <2>1 DEF BspSave, ReleaseAllAPs
    <3>4. Calls(b, S, t)
      BY ONLY <3>1, <3>2, <3>3 DEF Calls
    <3>5. S = Cpus \ {b}
      BY <3>1, <3>3
    <3>6. b \in Cpus /\ S \in SUBSET Cpus /\ t \in Nexts /\ local \in [Cpus -> Vars]
      BY <1>2
    <3>7. /\ local'[b].todo = S /\ local'[b].then = t
          /\ local'[b].aps = local[b].aps /\ local'[b].left = local[b].left
          /\ \A y \in Cpus : y # b => local'[y] = local[y]
      BY ONLY <3>4, <3>6, CallSet
    <3> QED BY <3>2, <3>5, <3>7
  <2>6. Now(b)' = p
    BY <1>2, <2>1, <2>2, <2>3, <2>5 DEF Now, Phase, Open, Closing, Foundation
  <2>7. \A d \in Cpus \ {b} : Uncalled("release", local'[b], d, data'[d].busy) <=>
          Uncalled(pc[b], local[b], d, data[d].busy)
    BY <2>1, <2>5 DEF Uncalled, Ready
  <2>8. Awaited("release", local'[b], counter) = Awaited(pc[b], local[b], counter)
    BY <2>1, <2>5 DEF Awaited, Open, Closing
  <2>9. Leads(b, p)'
    BY <1>3, <2>1, <2>2, <2>3, <2>5 DEF Leads, Open, Closing
  <2>10. Starts(b)'
    BY <2>3 DEF Starts, Starting
  <2>11. Led' /\ Now(b)' = p
    BY <1>1, <2>1, <2>3, <2>4, <2>5, <2>6, <2>7, <2>8, <2>9, <2>10, LeaderStill
  <2> QED BY <2>1, <2>11
<1>14. CASE BspSaved(b)
  <2>1. /\ pc[b] = "bsp_saved" /\ Goto(b, "wait")
        /\ UNCHANGED <<counter, bspIndex, current, insideSmm>>
    BY <1>14 DEF BspSaved, At, shared
  <2>2. p = "save"
    BY <1>3, <2>1 DEF Now, Phase, Open, Closing, Foundation
  <2>3. "wait" \in Labels /\ pc'[b] = "wait"
    BY <1>2, <2>1, GotoIs DEF Labels
  <2>4. data' = data
    BY <1>14 DEF BspSaved
  <2>5. /\ local'[b].left = local[b].aps /\ local'[b].then = "bsp_replace"
        /\ local'[b].aps = local[b].aps
        /\ \A y \in Cpus : y # b => local'[y] = local[y]
    <3>1. PICK k \in Int : k = local[b].aps
      BY <1>4
    <3>2. PICK t \in Nexts : t = "bsp_replace"
      BY DEF Nexts
    <3>3. PICK v \in {"none", "os", "smm"} : v = mtrr[Core[b]]
      BY DEF Typed, Cores
    <3>4. local' = [local EXCEPT ![b].saved = mtrr[Core[b]], ![b].left = local[b].aps,
            ![b].then = "bsp_replace"]
      BY <1>14 DEF BspSaved
    <3>5. Saves(b, v, k, t)
      BY <3>1, <3>2, <3>3, <3>4 DEF Saves
    <3> QED BY <1>2, <3>1, <3>2, <3>3, <3>5, SaveSet
  <2>6. Now(b)' = p
    BY <1>2, <2>1, <2>2, <2>3, <2>5 DEF Now, Phase, Open, Closing, Foundation
  <2>7. \A d \in Cpus \ {b} : Uncalled("wait", local'[b], d, data'[d].busy) <=>
          Uncalled(pc[b], local[b], d, data[d].busy)
    BY <2>1, <2>5 DEF Uncalled, Ready
  <2>8. Awaited("wait", local'[b], counter) = Awaited(pc[b], local[b], counter)
    BY <2>1, <2>5 DEF Awaited, Open, Closing
  <2>9. Leads(b, p)'
    BY <1>3, <2>1, <2>2, <2>3, <2>5 DEF Leads, Open, Closing
  <2>10. Starts(b)'
    BY <2>3 DEF Starts, Starting
  <2>11. Led' /\ Now(b)' = p
    BY <1>1, <2>1, <2>3, <2>4, <2>5, <2>6, <2>7, <2>8, <2>9, <2>10, LeaderStill
  <2> QED BY <2>1, <2>11
<1>15. CASE BspReplace(b)
  <2>1. /\ pc[b] = "bsp_replace" /\ Goto(b, "release")
        /\ UNCHANGED <<counter, bspIndex, current, insideSmm>>
    BY <1>15 DEF BspReplace, At, shared, ReleaseAllAPs
  <2>2. p = "replace"
    BY <1>3, <2>1 DEF Now, Phase, Open, Closing, Foundation
  <2>3. "release" \in Labels /\ pc'[b] = "release"
    BY <1>2, <2>1, GotoIs DEF Labels
  <2>4. data' = data
    BY <1>15 DEF BspReplace, ReleaseAllAPs
  <2>5. /\ local'[b].todo = Cpus \ {b} /\ local'[b].then = "bsp_replaced"
        /\ local'[b].aps = local[b].aps /\ local'[b].left = local[b].left
        /\ \A y \in Cpus : y # b => local'[y] = local[y]
    <3>1. PICK S \in SUBSET Cpus : S = Cpus \ {current}
      OBVIOUS
    <3>2. PICK t \in Nexts : t = "bsp_replaced"
      BY DEF Nexts
    <3>3. local' = [local EXCEPT ![b].todo = Cpus \ {current}, ![b].then = "bsp_replaced"] /\
            current = b
      BY <1>15, <1>3, <2>1 DEF BspReplace, ReleaseAllAPs
    <3>4. Calls(b, S, t)
      BY ONLY <3>1, <3>2, <3>3 DEF Calls
    <3>5. S = Cpus \ {b}
      BY <3>1, <3>3
    <3>6. b \in Cpus /\ S \in SUBSET Cpus /\ t \in Nexts /\ local \in [Cpus -> Vars]
      BY <1>2
    <3>7. /\ local'[b].todo = S /\ local'[b].then = t
          /\ local'[b].aps = local[b].aps /\ local'[b].left = local[b].left
          /\ \A y \in Cpus : y # b => local'[y] = local[y]
      BY ONLY <3>4, <3>6, CallSet
    <3> QED BY <3>2, <3>5, <3>7
  <2>6. Now(b)' = p
    BY <1>2, <2>1, <2>2, <2>3, <2>5 DEF Now, Phase, Open, Closing, Foundation
  <2>7. \A d \in Cpus \ {b} : Uncalled("release", local'[b], d, data'[d].busy) <=>
          Uncalled(pc[b], local[b], d, data[d].busy)
    BY <2>1, <2>5 DEF Uncalled, Ready
  <2>8. Awaited("release", local'[b], counter) = Awaited(pc[b], local[b], counter)
    BY <2>1, <2>5 DEF Awaited, Open, Closing
  <2>9. Leads(b, p)'
    BY <1>3, <2>1, <2>2, <2>3, <2>5 DEF Leads, Open, Closing
  <2>10. Starts(b)'
    BY <2>3 DEF Starts, Starting
  <2>11. Led' /\ Now(b)' = p
    BY <1>1, <2>1, <2>3, <2>4, <2>5, <2>6, <2>7, <2>8, <2>9, <2>10, LeaderStill
  <2> QED BY <2>1, <2>11
<1>16. CASE BspReplaced(b)
  <2>1. /\ pc[b] = "bsp_replaced" /\ Goto(b, "wait")
        /\ UNCHANGED <<counter, bspIndex, current, insideSmm>>
    BY <1>16 DEF BspReplaced, At, shared, WaitForAllAPs
  <2>2. p = "replace"
    BY <1>3, <2>1 DEF Now, Phase, Open, Closing, Foundation
  <2>3. "wait" \in Labels /\ pc'[b] = "wait"
    BY <1>2, <2>1, GotoIs DEF Labels
  <2>4. data' = data
    BY <1>16 DEF BspReplaced, WaitForAllAPs
  <2>5. /\ local'[b].left = local[b].aps /\ local'[b].then = "bsp_busy"
        /\ local'[b].aps = local[b].aps
        /\ \A y \in Cpus : y # b => local'[y] = local[y]
    <3>1. PICK k \in Int : k = local[b].aps
      BY <1>4
    <3>2. PICK t \in Nexts : t = "bsp_busy"
      BY DEF Nexts
    <3>3. local' = [local EXCEPT ![b].left = local[b].aps, ![b].then = "bsp_busy"]
      BY <1>16 DEF BspReplaced, WaitForAllAPs
    <3>4. Awaits(b, k, t)
      BY <3>1, <3>2, <3>3 DEF Awaits
    <3> QED BY <1>2, <3>1, <3>2, <3>4, AwaitSet
  <2>6. Now(b)' = p
    BY <1>2, <2>1, <2>2, <2>3, <2>5 DEF Now, Phase, Open, Closing, Foundation
  <2>7. \A d \in Cpus \ {b} : Uncalled("wait", local'[b], d, data'[d].busy) <=>
          Uncalled(pc[b], local[b], d, data[d].busy)
    BY <2>1, <2>5 DEF Uncalled, Ready
  <2>8. Awaited("wait", local'[b], counter) = Awaited(pc[b], local[b], counter)
    BY <2>1, <2>5 DEF Awaited, Open, Closing
  <2>9. Leads(b, p)'
    BY <1>3, <2>1, <2>2, <2>3, <2>5 DEF Leads, Open, Closing
  <2>10. Starts(b)'
    BY <2>3 DEF Starts, Starting
  <2>11. Led' /\ Now(b)' = p
    BY <1>1, <2>1, <2>3, <2>4, <2>5, <2>6, <2>7, <2>8, <2>9, <2>10, LeaderStill
  <2> QED BY <2>1, <2>11
<1>17. CASE BspBusy(b)
  <2>1. /\ pc[b] = "bsp_busy" /\ Goto(b, "foundation")
        /\ UNCHANGED <<counter, bspIndex, current, insideSmm>>
    BY <1>17 DEF BspBusy, At, shared
  <2>2. p = "hold"
    BY <2>1 DEF Now, Phase, Open, Closing, Foundation
  <2>3. "foundation" \in Labels /\ pc'[b] = "foundation"
    BY <1>2, <2>1, GotoIs DEF Labels
  <2>4. \A y \in Cpus : data'[y].run = data[y].run
    <3>1. data'[b].run = data[b].run /\ \A y \in Cpus : y # b => data'[y] = data[y]
      BY <1>17, <1>2, BusySet DEF BspBusy
    <3> QED BY <3>1
  <2>5. local' = local
    BY <1>17 DEF BspBusy
  <2>6. Now(b)' = p
    BY <1>2, <2>1, <2>2, <2>3, <2>5 DEF Now, Phase, Open, Closing, Foundation
  <2>7. \A d \in Cpus \ {b} : Uncalled("foundation", local'[b], d, data'[d].busy) <=>
          Uncalled(pc[b], local[b], d, data[d].busy)
    BY <2>1, <2>5 DEF Uncalled, Ready
  <2>8. Awaited("foundation", local'[b], counter) = Awaited(pc[b], local[b], counter)
    BY <2>1, <2>5 DEF Awaited, Open, Closing
  <2>9. Leads(b, p)'
    BY <1>3, <2>1, <2>2, <2>3, <2>5 DEF Leads, Open, Closing
  <2>10. Starts(b)'
    BY <2>3 DEF Starts, Starting
  <2>11. Led' /\ Now(b)' = p
    BY <1>1, <2>1, <2>3, <2>4, <2>5, <2>6, <2>7, <2>8, <2>9, <2>10, LeaderStill
  <2> QED BY <2>1, <2>11
<1>18. CASE BspNotInside(b)
  <2>1. p = "hold"
    BY <1>18 DEF Now, Phase, Open, Closing, Foundation, BspNotInside, At
  <2> QED BY <1>1, <1>18, <2>1, LeaderDismisses
<1>19. CASE BspDismiss(b)
  <2>1. /\ pc[b] = "bsp_dismiss" /\ Goto(b, "release")
        /\ UNCHANGED <<counter, bspIndex, current, insideSmm>>
    BY <1>19 DEF BspDismiss, At, shared, ReleaseAllAPs
  <2>2. p = "dismiss"
    BY <2>1 DEF Now, Phase, Open, Closing, Foundation
  <2>3. "release" \in Labels /\ pc'[b] = "release"
    BY <1>2, <2>1, GotoIs DEF Labels
  <2>4. data' = data
    BY <1>19 DEF BspDismiss, ReleaseAllAPs
  <2>5. /\ local'[b].todo = Cpus \ {b} /\ local'[b].then = "bsp_pending"
        /\ local'[b].aps = local[b].aps /\ local'[b].left = local[b].left
        /\ \A y \in Cpus : y # b => local'[y] = local[y]
    <3>1. PICK S \in SUBSET Cpus : S = Cpus \ {current}
      OBVIOUS
    <3>2. PICK t \in Nexts : t = "bsp_pending"
      BY DEF Nexts
    <3>3. local' = [local EXCEPT ![b].todo = Cpus \ {current}, ![b].then = "bsp_pending"] /\
            current = b
      BY <1>19, <1>3, <2>1 DEF BspDismiss, ReleaseAllAPs
    <3>4. Calls(b, S, t)
      BY ONLY <3>1, <3>2, <3>3 DEF Calls
    <3>5. S = Cpus \ {b}
      BY <3>1, <3>3
    <3>6. b \in Cpus /\ S \in SUBSET Cpus /\ t \in Nexts /\ local \in [Cpus -> Vars]
      BY <1>2
    <3>7. /\ local'[b].todo = S /\ local'[b].then = t
          /\ local'[b].aps = local[b].aps /\ local'[b].left = local[b].left
          /\ \A y \in Cpus : y # b => local'[y] = local[y]
      BY ONLY <3>4, <3>6, CallSet
    <3> QED BY <3>2, <3>5, <3>7
  <2>6. Now(b)' = p
    BY <1>2, <2>1, <2>2, <2>3, <2>5 DEF Now, Phase, Open, Closing, Foundation
  <2>7. \A d \in Cpus \ {b} : Uncalled("release", local'[b], d, data'[d].busy) <=>
          Uncalled(pc[b], local[b], d, data[d].busy)
    BY <2>1, <2>5 DEF Uncalled, Ready
  <2>8. Awaited("release", local'[b], counter) = Awaited(pc[b], local[b], counter)
    BY <2>1, <2>5 DEF Awaited, Open, Closing
  <2>9. Leads(b, p)'
    BY <1>3, <2>1, <2>2, <2>3, <2>5 DEF Leads, Open, Closing
  <2>10. Starts(b)'
    BY <2>3 DEF Starts, Starting
  <2>11. Led' /\ Now(b)' = p
    BY <1>1, <2>1, <2>3, <2>4, <2>5, <2>6, <2>7, <2>8, <2>9, <2>10, LeaderStill
  <2> QED BY <2>1, <2>11
<1>20. CASE BspPending(b)
  <2>1. /\ pc[b] = "bsp_pending" /\ Goto(b, "wait")
        /\ UNCHANGED <<counter, bspIndex, current, insideSmm>>
    BY <1>20 DEF BspPending, At, shared, WaitForAllAPs
  <2>2. p = "dismiss"
    BY <2>1 DEF Now, Phase, Open, Closing, Foundation
  <2>3. "wait" \in Labels /\ pc'[b] = "wait"
    BY <1>2, <2>1, GotoIs DEF Labels
  <2>4. data' = data
    BY <1>20 DEF BspPending, WaitForAllAPs
  <2>5. /\ local'[b].left = local[b].aps /\
             local'[b].then = (IF ConfigureMtrrs THEN "bsp_restore" ELSE "bsp_reset")
        /\ local'[b].aps = local[b].aps
        /\ \A y \in Cpus : y # b => local'[y] = local[y]
    <3>1. PICK k \in Int : k = local[b].aps
      BY <1>4
    <3>2. PICK t \in Nexts : t = (IF ConfigureMtrrs THEN "bsp_restore" ELSE "bsp_reset")
      BY DEF Nexts
    <3>3. local' = [local EXCEPT ![b].left = local[b].aps,
            ![b].then = (IF ConfigureMtrrs THEN "bsp_restore" ELSE "bsp_reset")]
      BY <1>20 DEF BspPending, WaitForAllAPs
    <3>4. Awaits(b, k, t)
      BY <3>1, <3>2, <3>3 DEF Awaits
    <3> QED BY <1>2, <3>1, <3>2, <3>4, AwaitSet
  <2>6. Now(b)' = p
    BY <1>2, <2>1, <2>2, <2>3, <2>5 DEF Now, Phase, Open, Closing, Foundation
  <2>7. \A d \in Cpus \ {b} : Uncalled("wait", local'[b], d, data'[d].busy) <=>
          Uncalled(pc[b], local[b], d, data[d].busy)
    BY <2>1, <2>5 DEF Uncalled, Ready
  <2>8. Awaited("wait", local'[b], counter) = Awaited(pc[b], local[b], counter)
    BY <2>1, <2>5 DEF Awaited, Open, Closing
  <2>9. Leads(b, p)'
    BY <1>3, <2>1, <2>2, <2>3, <2>5 DEF Leads, Open, Closing
  <2>10. Starts(b)'
    BY <2>3 DEF Starts, Starting
  <2>11. Led' /\ Now(b)' = p
    BY <1>1, <2>1, <2>3, <2>4, <2>5, <2>6, <2>7, <2>8, <2>9, <2>10, LeaderStill
  <2> QED BY <2>1, <2>11
<1>21. CASE BspRestore(b)
  <2>1. /\ pc[b] = "bsp_restore" /\ Goto(b, "release")
        /\ UNCHANGED <<counter, bspIndex, current, insideSmm>>
    BY <1>21 DEF BspRestore, At, shared, ReleaseAllAPs
  <2>2. p = "restore"
    BY <1>3, <2>1 DEF Now, Phase, Open, Closing, Foundation
  <2>3. "release" \in Labels /\ pc'[b] = "release"
    BY <1>2, <2>1, GotoIs DEF Labels
  <2>4. data' = data
    BY <1>21 DEF BspRestore, ReleaseAllAPs
  <2>5. /\ local'[b].todo = Cpus \ {b} /\ local'[b].then = "bsp_restored"
        /\ local'[b].aps = local[b].aps /\ local'[b].left = local[b].left
        /\ \A y \in Cpus : y # b => local'[y] = local[y]
    <3>1. PICK S \in SUBSET Cpus : S = Cpus \ {current}
      OBVIOUS
    <3>2. PICK t \in Nexts : t = "bsp_restored"
      BY DEF Nexts
    <3>3. local' = [local EXCEPT ![b].todo = Cpus \ {current}, ![b].then = "bsp_restored"] /\
            current = b
      BY <1>21, <1>3, <2>1 DEF BspRestore, ReleaseAllAPs
    <3>4. Calls(b, S, t)
      BY ONLY <3>1, <3>2, <3>3 DEF Calls
    <3>5. S = Cpus \ {b}
      BY <3>1, <3>3
    <3>6. b \in Cpus /\ S \in SUBSET Cpus /\ t \in Nexts /\ local \in [Cpus -> Vars]
      BY <1>2
    <3>7. /\ local'[b].todo = S /\ local'[b].then = t
          /\ local'[b].aps = local[b].aps /\ local'[b].left = local[b].left
          /\ \A y \in Cpus : y # b => local'[y] = local[y]
      BY ONLY <3>4, <3>6, CallSet
    <3> QED BY <3>2, <3>5, <3>7
  <2>6. Now(b)' = p
    BY <1>2, <2>1, <2>2, <2>3, <2>5 DEF Now, Phase, Open, Closing, Foundation
  <2>7. \A d \in Cpus \ {b} : Uncalled("release", local'[b], d, data'[d].busy) <=>
          Uncalled(pc[b], local[b], d, data[d].busy)
    BY <2>1, <2>5 DEF Uncalled, Ready
  <2>8. Awaited("release", local'[b], counter) = Awaited(pc[b], local[b], counter)
    BY <2>1, <2>5 DEF Awaited, Open, Closing
  <2>9. Leads(b, p)'
    BY <1>3, <2>1, <2>2, <2>3, <2>5 DEF Leads, Open, Closing
  <2>10. Starts(b)'
    BY <2>3 DEF Starts, Starting
  <2>11. Led' /\ Now(b)' = p
    BY <1>1, <2>1, <2>3, <2>4, <2>5, <2>6, <2>7, <2>8, <2>9, <2>10, LeaderStill
  <2> QED BY <2>1, <2>11
<1>22. CASE BspRestored(b)
  <2>1. /\ pc[b] = "bsp_restored" /\ Goto(b, "wait")
        /\ UNCHANGED <<counter, bspIndex, current, insideSmm>>
    BY <1>22 DEF BspRestored, At, shared, WaitForAllAPs
  <2>2. p = "restore"
    BY <1>3, <2>1 DEF Now, Phase, Open, Closing, Foundation
  <2>3. "wait" \in Labels /\ pc'[b] = "wait"
    BY <1>2, <2>1, GotoIs DEF Labels
  <2>4. data' = data
    BY <1>22 DEF BspRestored, WaitForAllAPs
  <2>5. /\ local'[b].left = local[b].aps /\ local'[b].then = "bsp_reset"
        /\ local'[b].aps = local[b].aps
        /\ \A y \in Cpus : y # b => local'[y] = local[y]
    <3>1. PICK k \in Int : k = local[b].aps
      BY <1>4
    <3>2. PICK t \in Nexts : t = "bsp_reset"
      BY DEF Nexts
    <3>3. local' = [local EXCEPT ![b].left = local[b].aps, ![b].then = "bsp_reset"]
      BY <1>22 DEF BspRestored, WaitForAllAPs
    <3>4. Awaits(b, k, t)
      BY <3>1, <3>2, <3>3 DEF Awaits
    <3> QED BY <1>2, <3>1, <3>2, <3>4, AwaitSet
  <2>6. Now(b)' = p
    BY <1>2, <2>1, <2>2, <2>3, <2>5 DEF Now, Phase, Open, Closing, Foundation
  <2>7. \A d \in Cpus \ {b} : Uncalled("wait", local'[b], d, data'[d].busy) <=>
          Uncalled(pc[b], local[b], d, data[d].busy)
    BY <2>1, <2>5 DEF Uncalled, Ready
  <2>8. Awaited("wait", local'[b], counter) = Awaited(pc[b], local[b], counter)
    BY <2>1, <2>5 DEF Awaited, Open, Closing
  <2>9. Leads(b, p)'
    BY <1>3, <2>1, <2>2, <2>3, <2>5 DEF Leads, Open, Closing
  <2>10. Starts(b)'
    BY <2>3 DEF Starts, Starting
  <2>11. Led' /\ Now(b)' = p
    BY <1>1, <2>1, <2>3, <2>4, <2>5, <2>6, <2>7, <2>8, <2>9, <2>10, LeaderStill
  <2> QED BY <2>1, <2>11
<1>23. CASE BspReset(b)
  BY <1>1, <1>23, LeaderVacates
<1>24. CASE Wait(b)
  <2>1. CASE local[b].left = 0
    BY <1>1, <1>24, <2>1, LeaderEnds
  <2>2. CASE local[b].left # 0
    <3>1. /\ pc[b] = "wait" /\ UNCHANGED <<counter, bspIndex, current, insideSmm, pc>>
          /\ WaitForRun(current) /\ Local(b, "left", local[b].left - 1)
      BY <1>24, <2>2 DEF Wait, At, shared
    <3>2. Goto(b, "wait") /\ "wait" \in Labels /\ current = b
      BY <1>2, <1>3, <3>1 DEF Goto
    <3>3. PICK k \in Int : k = local[b].left - 1
      BY <1>4
    <3>4. /\ local'[b].left = k /\ local'[b].then = local[b].then /\ local'[b].aps = local[b].aps
          /\ \A y \in Cpus : y # b => local'[y] = local[y]
      <4>1. Local(b, "left", k)
        BY <3>1, <3>3
      <4> QED BY <1>2, <4>1, LeftSet
    <3>5. data[b].run \in Nat /\ data[b].run > 0 /\ Set(b, "run", data[b].run - 1)
      BY <1>2, <3>1, <3>2 DEF WaitForRun, Datum
    <3>6. PICK n \in Nat : n = data[b].run - 1
      BY <3>5
    <3>7. data'[b].run = n /\ \A y \in Cpus : y # b => data'[y] = data[y]
      <4>1. Set(b, "run", n)
        BY <3>5, <3>6
      <4> QED BY <1>2, <4>1, RunSet
    <3>8. Now(b)' = p
      BY <1>2, <3>1, <3>4 DEF Now
    <3>9. \A d \in Cpus \ {b} : Uncalled("wait", local'[b], d, data'[d].busy) <=>
            Uncalled(pc[b], local[b], d, data[d].busy)
      BY <3>1 DEF Uncalled, Ready
    <3>10. /\ data'[b].run = data[b].run + (-1)
           /\ Awaited("wait", local'[b], counter) = Awaited(pc[b], local[b], counter) + (-1)
      <4>1. Awaited("wait", local'[b], counter) = k /\ Awaited(pc[b], local[b],
              counter) = local[b].left
        BY <3>1, <3>4 DEF Awaited, Open, Closing
      <4> QED BY <1>4, <3>3, <3>5, <3>6, <3>7, <4>1
    <3>11. Leads(b, p)' /\ Starts(b)'
      BY <1>3, <3>1, <3>2 DEF Leads, Starts, Starting, Open, Closing
    <3>12. Led' /\ Now(b)' = p
      BY <1>1, <3>1, <3>2, <3>4, <3>7, <3>8, <3>9, <3>10, <3>11, LeaderKeeps
    <3> QED BY <3>1, <3>12
  <2> QED BY <2>1, <2>2
<1>25. CASE Release(b)
  <2>1. /\ pc[b] = "release" /\ UNCHANGED <<counter, bspIndex, current, insideSmm>>
        /\ IF local[b].todo = {}
           THEN Goto(b, local[b].then) /\ UNCHANGED <<data, local>>
           ELSE /\ UNCHANGED pc
                /\ \E d \in local[b].todo :
                     /\ Local(b, "todo", local[b].todo \ {d})
                     /\ IF data[d].present THEN ReleaseRun(d) ELSE UNCHANGED data
    BY <1>25 DEF Release, At, shared
  <2>2. /\ current = b /\ local[b].todo \subseteq Cpus \ {b}
        /\ p # "gather" /\ p # "close" /\ p # "over"
    BY <1>3, <2>1 DEF Now, Phase, Open, Closing, Foundation
  <2>3. CASE local[b].todo = {}
    <3>1. PICK t : t = local[b].then
      OBVIOUS
    <3>2. PICK m \in BOOLEAN : m = ConfigureMtrrs
      OBVIOUS
    <3>3. p = Phase("release", t, m) /\ p # "none"
      BY <1>3, <2>1, <3>1, <3>2 DEF Now
    <3>4. \/ t = "bsp_pending"
          \/ m /\ t \in {"bsp_saved", "bsp_replaced", "bsp_restored"}
      BY ONLY <3>3 DEF Phase, Open, Closing, Foundation
    <3>5. t \in Labels /\ Goto(b, t) /\ pc'[b] = t
      <4>1. t \in Labels /\ Goto(b, t)
        BY <2>1, <2>3, <3>1, <3>4 DEF Labels
      <4> QED BY <1>2, <4>1, GotoIs
    <3>6. Phase(t, t, m) = p
      BY <3>3, <3>4 DEF Phase, Open, Closing, Foundation
    <3>7. Now(b)' = p
      BY <1>2, <2>1, <2>3, <3>1, <3>2, <3>5, <3>6 DEF Now
    <3>8. \A d \in Cpus \ {b} : Uncalled(t, local'[b], d, data'[d].busy) <=>
            Uncalled(pc[b], local[b], d, data[d].busy)
      BY <2>1, <2>3, <3>4 DEF Uncalled, Ready
    <3>9. Awaited(t, local'[b], counter) = Awaited(pc[b], local[b], counter)
      BY <2>1, <2>3, <3>4 DEF Awaited, Open, Closing
    <3>10. Leads(b, p)' /\ Starts(b)'
      BY <1>3, <2>1, <2>2, <3>4, <3>5 DEF Leads, Starts, Starting, Open, Closing
    <3>11. Led' /\ Now(b)' = p
      BY <1>1, <2>1, <2>3, <3>5, <3>7, <3>8, <3>9, <3>10, LeaderStill
    <3> QED BY <2>1, <3>11
  <2>4. CASE local[b].todo # {}
    <3>1. PICK d \in local[b].todo :
            /\ Local(b, "todo", local[b].todo \ {d})
            /\ IF data[d].present THEN ReleaseRun(d) ELSE UNCHANGED data
      BY <2>1, <2>4
    <3>2. PICK S \in SUBSET Cpus : S = local[b].todo \ {d}
      BY <2>2
    <3>3. /\ local'[b].todo = S /\ local'[b].then = local[b].then /\ local'[b].aps = local[b].aps
          /\ local'[b].ap = local[b].ap
          /\ \A y \in Cpus : y # b => local'[y] = local[y]
      <4>1. Local(b, "todo", S)
        BY <3>1, <3>2
      <4> QED BY <1>2, <4>1, TodoSet
    <3>4. d \in Cpus \ {b} /\ Uncalled(pc[b], local[b], d, data[d].busy)
      BY <2>1, <2>2 DEF Uncalled
    <3>5. pc[d] \in Gate(p) \cup Gone /\ data[d].run = 0 /\ pc'[b] = "release" /\
            "release" \in Labels
      BY <1>2, <1>3, <2>1, <2>4, <3>4 DEF Placed
    <3>6. /\ data'[d].run = IF pc[d] \in Gone THEN 0 ELSE 1
          /\ \A y \in Cpus : y # d => data'[y] = data[y]
      <4>1. CASE data[d].present
        <5>1. pc[d] \notin Gone
          BY <3>4, <4>1 DEF PresentIs, Absent
        <5>2. Set(d, "run", 1)
          BY <3>1, <3>5, <4>1 DEF ReleaseRun
        <5>3. d \in Cpus /\ 1 \in Nat
          BY <3>4
        <5>4. data'[d].run = 1 /\ \A y \in Cpus : y # d => data'[y] = data[y]
          BY <1>2, <5>2, <5>3, RunSet
        <5> QED BY <5>1, <5>4
      <4>2. CASE ~data[d].present
        <5>1. pc[d] \in Gone
          BY <3>4, <3>5, <4>2 DEF PresentIs, Absent, Gate
        <5> QED BY <3>1, <3>5, <4>2, <5>1
      <4> QED BY <4>1, <4>2
    <3>7. Now(b)' = p
      BY <1>2, <2>1, <3>3, <3>5 DEF Now
    <3>8. ~Uncalled("release", local'[b], d, data'[d].busy)
      BY <3>2, <3>3 DEF Uncalled, Ready
    <3>9. \A y \in Cpus \ {d, b} : Uncalled("release", local'[b], y, data'[y].busy) <=>
            Uncalled(pc[b], local[b], y, data[y].busy)
      BY <2>1, <3>2, <3>3 DEF Uncalled, Ready
    <3>10. Awaited("release", local'[b], counter) = Awaited(pc[b], local[b], counter)
      BY <2>1, <3>3 DEF Awaited, Open, Closing
    <3>11. Leads(b, p)' /\ Starts(b)'
      BY <1>3, <2>1, <2>2, <3>2, <3>3, <3>5 DEF Leads, Starts, Starting, Open, Closing
    <3>12. UNCHANGED <<config, bspIndex, counter, pc>> /\ pc[b] = "release" /\
             \A x \in Cpus : x # d => data'[x].run = data[x].run
      BY <1>1, <2>1, <2>4, <3>6
    <3>13. Led' /\ Now(b)' = p
      BY <3>3, <3>4, <3>5, <3>6, <3>7, <3>8, <3>9, <3>10, <3>11, <3>12, LeaderCalls
    <3> QED BY <2>1, <3>13
  <2> QED BY <2>3, <2>4
<1>26. CASE StartupThisAp(b)
  <2>1. /\ pc[b] = "foundation" /\ Goto(b, "startup")
        /\ UNCHANGED <<counter, bspIndex, current, insideSmm>> /\ AtRest
        /\ \E d \in Cpus \ {current} : /\ data[d].present /\ Set(d, "busy", TRUE)
                                        /\ Local(b, "ap", d)
    BY <1>26 DEF StartupThisAp, At, shared
  <2>2. p = "hold" /\ current = b
    BY <1>3, <2>1 DEF Now, Phase, Open, Closing, Foundation
  <2>3. PICK d \in Cpus \ {b} : data[d].present /\ Set(d, "busy", TRUE) /\ Local(b, "ap", d)
    BY <2>1, <2>2
  <2>4. "startup" \in Labels /\ pc'[b] = "startup" /\ \A x \in Cpus : x # b => pc'[x] = pc[x]
    BY <1>2, <2>1, GotoIs DEF Labels
  <2>5. /\ data'[d].busy = TRUE /\ \A y \in Cpus : data'[y].run = data[y].run
    <3>1. d \in Cpus /\ TRUE \in BOOLEAN
      OBVIOUS
    <3>2. /\ data'[d].busy = TRUE /\ data'[d].run = data[d].run
          /\ \A y \in Cpus : y # d => data'[y] = data[y]
      BY <1>2, <2>3, <3>1, BusySet
    <3> QED BY <3>2
  <2>6. /\ local'[b].ap = d /\ local'[b].aps = local[b].aps
        /\ \A y \in Cpus : y # b => local'[y] = local[y]
    <3>1. d \in Cpus \cup {NoCpu}
      OBVIOUS
    <3> QED BY <1>2, <2>3, <3>1, ApSet
  <2>7. Now(b)' = p
    BY <2>2, <2>4 DEF Now, Phase, Open, Closing, Foundation
  <2>8. \A y \in Cpus \ {b} : Uncalled("startup", local'[b], y, data'[y].busy) <=>
          Uncalled(pc[b], local[b], y, data[y].busy)
    BY <2>1 DEF Uncalled, Ready
  <2>9. Awaited("startup", local'[b], counter) = Awaited(pc[b], local[b], counter)
    BY <2>1, <2>6 DEF Awaited, Open, Closing
  <2>10. Leads(b, p)'
    BY <1>3, <2>1, <2>2, <2>4 DEF Leads, Open, Closing
  <2>11. Starts(b)'
    <3>1. \A x \in Cpus : pc[x] # "ap_busy"
      BY <2>1 DEF AtRest, PresentIs, Absent, Gone
    <3>2. \A x \in Cpus : pc'[x] # "ap_busy"
      BY <2>4, <3>1
    <3>3. pc'[d] \notin Gone
      BY <2>3, <2>4 DEF PresentIs, Absent
    <3> QED BY <2>3, <2>5, <2>6, <3>2, <3>3 DEF Starts
  <2>12. Led' /\ Now(b)' = p
    BY <1>1, <2>1, <2>4, <2>5, <2>6, <2>7, <2>8, <2>9, <2>10, <2>11, LeaderStill
  <2> QED BY <2>1, <2>12
<1>27. CASE StartupProcedure(b)
  <2>1. /\ pc[b] = "startup" /\ Goto(b, "startup_release")
        /\ UNCHANGED <<counter, bspIndex, current, insideSmm, local>>
        /\ Set(local[b].ap, "procedure", tasks)
    BY <1>27 DEF StartupProcedure, At, shared
  <2>2. p = "hold" /\ tasks \in Int
    BY <2>1 DEF Now, Phase, Open, Closing, Foundation, Typed
  <2>3. PICK d \in Cpus \ {b} : d = local[b].ap
    BY <1>3, <2>1 DEF Starts, Starting
  <2>4. "startup_release" \in Labels /\ pc'[b] = "startup_release" /\ \A x \in Cpus : x # b =>
          pc'[x] = pc[x]
    BY <1>2, <2>1, GotoIs DEF Labels
  <2>5. \A y \in Cpus : data'[y].run = data[y].run /\ data'[y].busy = data[y].busy
    <3>1. d \in Cpus /\ Set(d, "procedure", tasks)
      BY <2>1, <2>3
    <3>2. /\ data'[d].busy = data[d].busy /\ data'[d].run = data[d].run
          /\ \A y \in Cpus : y # d => data'[y] = data[y]
      BY <1>2, <2>2, <3>1, ProcedureSet
    <3> QED BY <3>2
  <2>6. Now(b)' = p
    BY <2>2, <2>4 DEF Now, Phase, Open, Closing, Foundation
  <2>7. \A y \in Cpus \ {b} : Uncalled("startup_release", local'[b], y, data'[y].busy) <=>
          Uncalled(pc[b], local[b], y, data[y].busy)
    BY <2>1 DEF Uncalled, Ready
  <2>8. Awaited("startup_release", local'[b], counter) = Awaited(pc[b], local[b], counter)
    BY <2>1 DEF Awaited, Open, Closing
  <2>9. Leads(b, p)'
    BY <1>3, <2>1, <2>2, <2>4 DEF Leads, Open, Closing
  <2>10. Starts(b)'
    BY <1>3, <2>1, <2>3, <2>4, <2>5 DEF Starts, Starting
  <2>11. Led' /\ Now(b)' = p
    BY <1>1, <2>1, <2>4, <2>5, <2>6, <2>7, <2>8, <2>9, <2>10, LeaderStill
  <2> QED BY <2>1, <2>11
<1>28. CASE StartupRelease(b)
  <2>1. /\ pc[b] = "startup_release" /\ Goto(b, "startup_wait")
        /\ UNCHANGED <<counter, bspIndex, current, insideSmm, local>>
        /\ ReleaseRun(local[b].ap)
    BY <1>28 DEF StartupRelease, At, shared
  <2>2. p = "hold"
    BY <2>1 DEF Now, Phase, Open, Closing, Foundation
  <2>3. PICK d \in Cpus \ {b} : d = local[b].ap
    BY <1>3, <2>1 DEF Starts, Starting
  <2>4. "startup_wait" \in Labels /\ pc'[b] = "startup_wait" /\ \A x \in Cpus : x # b =>
          pc'[x] = pc[x]
    BY <1>2, <2>1, GotoIs DEF Labels
  <2>5. data[d].busy /\ pc[d] \notin Gone /\ Uncalled(pc[b], local[b], d, data[d].busy)
    BY <1>3, <2>1, <2>3 DEF Starts, Starting, Uncalled, Ready
  <2>6. data[d].run = 0
    <3>1. Placed(b, d, p)
      BY <1>3
    <3> QED BY <2>5, <3>1 DEF Placed
  <2>7. /\ data'[d].run = 1 /\ data'[d].busy = data[d].busy
        /\ \A y \in Cpus : y # d => data'[y] = data[y]
    <3>1. d \in Cpus /\ 1 \in Nat /\ Set(d, "run", 1)
      BY <2>1, <2>3, <2>6 DEF ReleaseRun
    <3> QED BY <1>2, <3>1, RunSet
  <2>8. Now(b)' = p
    BY <2>2, <2>4 DEF Now, Phase, Open, Closing, Foundation
  <2>9. ~Uncalled("startup_wait", local'[b], d, data'[d].busy)
    BY <2>1, <2>3, <2>5, <2>7 DEF Uncalled, Ready
  <2>10. \A y \in Cpus \ {d, b} : Uncalled("startup_wait", local'[b], y, data'[y].busy) <=>
            Uncalled(pc[b], local[b], y, data[y].busy)
    BY <2>1, <2>3 DEF Uncalled, Ready
  <2>11. Awaited("startup_wait", local'[b], counter) = Awaited(pc[b], local[b], counter)
    BY <2>1 DEF Awaited, Open, Closing
  <2>12. Leads(b, p)'
    BY <1>3, <2>1, <2>2, <2>4 DEF Leads, Open, Closing
  <2>13. Starts(b)'
    BY <1>3, <2>1, <2>3, <2>4, <2>7 DEF Starts, Starting
  <2>14. data'[d].run = (IF pc[d] \in Gone THEN 0 ELSE 1) /\ \A y \in Cpus : y # d =>
           data'[y].run = data[y].run
    BY <2>5, <2>7
  <2>15. Led' /\ Now(b)' = p
    BY <1>1, <2>1, <2>4, <2>5, <2>8, <2>9, <2>10, <2>11, <2>12, <2>13, <2>14, LeaderCalls
  <2> QED BY <2>1, <2>15
<1>29. CASE StartupWait(b)
  <2>1. /\ pc[b] = "startup_wait" /\ Goto(b, "foundation") /\ ~data[local[b].ap].busy
        /\ UNCHANGED <<counter, bspIndex, current, insideSmm, data, local>>
    BY <1>29 DEF StartupWait, At, shared
  <2>2. p = "hold"
    BY <2>1 DEF Now, Phase, Open, Closing, Foundation
  <2>3. "foundation" \in Labels /\ pc'[b] = "foundation"
    BY <1>2, <2>1, GotoIs DEF Labels
  <2>4. Now(b)' = p
    BY <2>2, <2>3 DEF Now, Phase, Open, Closing, Foundation
  <2>5. \A y \in Cpus \ {b} : Uncalled("foundation", local'[b], y, data'[y].busy) <=>
          Uncalled(pc[b], local[b], y, data[y].busy)
    BY <2>1 DEF Uncalled, Ready
  <2>6. Awaited("foundation", local'[b], counter) = Awaited(pc[b], local[b], counter)
    BY <2>1 DEF Awaited, Open, Closing
  <2>7. Leads(b, p)' /\ Starts(b)'
    BY <1>3, <2>1, <2>2, <2>3 DEF Leads, Open, Closing, Starts, Starting
  <2>8. Led' /\ Now(b)' = p
    BY <1>1, <2>1, <2>3, <2>4, <2>5, <2>6, <2>7, LeaderStill
  <2> QED BY <2>1, <2>8
<1> QED BY <1>1, <1>5, <1>6, <1>7, <1>8, <1>9, <1>10, <1>11, <1>12, <1>13, <1>14, <1>15, <1>16,
           <1>17, <1>18, <1>19, <1>20, <1>21, <1>22, <1>23, <1>24, <1>25, <1>26, <1>27, <1>28,
           <1>29 DEF LeaderActions

-----------------------------------------------------------------------------
(* Steps when nobody is elected.                                             *)

(* Steps when nobody is elected.                                             *)
VacantActions(c) ==
  \/ TakeSmi(c) \/ Arrive(c) \/ MarkPresent(c) \/ Elect(c) \/ Leave(c) \/ Exit(c)
  \/ BspReopen(c) \/ BspOutOfSync(c)

(* Where processors are when nobody is elected.                              *)
VacantLabels == {"bsp_reopen", "present", "elect"} \cup Away

(* They are the only ones that can be taken.                                 *)
LEMMA VacantActs ==
  ASSUME NEW c, pc[c] \in VacantLabels, TakeSmi(c) \/ Processor(c)
  PROVE  VacantActions(c) /\ UNCHANGED config
<1> USE DEF VacantLabels, Away, Gone, Leaving
<1>1. UNCHANGED config
  BY DEF TakeSmi, Processor
<1>2. ~Role(c) /\ ~BspInside(c) /\ ~BspSync(c) /\ ~BspCheck(c) /\ ~SendSmiIpis(c)
  BY DEF Role, BspInside, BspSync, BspCheck, SendSmiIpis, At
<1>3. ~BspSyncAgain(c) /\ ~BspInSync(c) /\ ~BspLock(c) /\ ~BspSave(c) /\ ~BspSaved(c)
  BY DEF BspSyncAgain, BspInSync, BspLock, BspSave, BspSaved, At
<1>4. ~BspReplace(c) /\ ~BspReplaced(c) /\ ~BspBusy(c) /\ ~BspNotInside(c) /\ ~BspDismiss(c)
  BY DEF BspReplace, BspReplaced, BspBusy, BspNotInside, BspDismiss, At
<1>5. ~BspPending(c) /\ ~BspRestore(c) /\ ~BspRestored(c) /\ ~BspReset(c) /\ ~Wait(c) /\
        ~Release(c)
  BY DEF BspPending, BspRestore, BspRestored, BspReset, Wait, Release, At
<1>6. ~SmmStartupThisAp(c)
  BY DEF SmmStartupThisAp, StartupThisAp, StartupProcedure, StartupRelease, StartupWait, At
<1>7. ~ApBegin(c) /\ ~ApSync(c) /\ ~ApCheck(c) /\ ~ApSyncAgain(c) /\ ~ApCheckAgain(c)
  BY DEF ApBegin, ApSync, ApCheck, ApSyncAgain, ApCheckAgain, At
<1>8. ~GiveUp(c) /\ ~ApNotify(c) /\ ~ApSave(c) /\ ~ApSaving(c) /\ ~ApSaved(c) /\ ~ApReplace(c)
  BY DEF GiveUp, ApNotify, ApSave, ApSaving, ApSaved, ApReplace, At
<1>9. ~ApReplacing(c) /\ ~ApReplaced(c) /\ ~ApBusy(c) /\ ~ApIdle(c) /\ ~ApLook(c) /\ ~ApRun(c)
  BY DEF ApReplacing, ApReplaced, ApBusy, ApIdle, ApLook, ApRun, At
<1>10. ~ApFree(c) /\ ~ApDone(c) /\ ~ApRestore(c) /\ ~ApRestoring(c) /\ ~ApRestored(c)
  BY DEF ApFree, ApDone, ApRestore, ApRestoring, ApRestored, At
<1> HIDE DEF VacantLabels, Away, Gone, Leaving
<1>11. VacantActions(c)
  BY <1>2, <1>3, <1>4, <1>5, <1>6, <1>7, <1>8, <1>9, <1>10
     DEF VacantActions, Processor, Entry, BSPHandler, APHandler
<1> QED BY <1>1, <1>11

(* Steps that count nobody.                                                  *)
LEMMA VacantKeeps ==
  ASSUME Typed, Vacant, bspIndex = NoCpu, NEW c \in Cpus, NEW l \in Labels, Goto(c, l),
         UNCHANGED <<counter, bspIndex>>,
         \A x \in Cpus : data'[x].run = data[x].run,
         \/ pc[c] \in Away /\ l \in Away
         \/ pc[c] \in {"present", "elect"} /\ l \in {"present", "elect"}
  PROVE  Led'
<1>1. /\ pc \in [Cpus -> Labels] /\ pc'[c] = l
      /\ \A x \in Cpus : x # c => pc'[x] = pc[x]
  BY GotoIs DEF Typed
<1>2. \A d \in Cpus : data'[d].run = 0
  BY DEF Vacant
<1>3. "bsp_reopen" \notin Away /\ "present" \notin Away /\ "elect" \notin Away
  BY DEF Away, Gone, Leaving
<1>4. ASSUME counter = Locked, NEW b \in Cpus, pc[b] = "bsp_reopen",
             \A d \in Cpus \ {b} : pc[d] \in Away
      PROVE  Vacant'
  <2>1. c # b
    BY <1>3, <1>4
  <2>2. pc[c] \in Away /\ l \in Away
    BY <1>3, <1>4, <2>1
  <2>3. pc'[b] = "bsp_reopen" /\ \A d \in Cpus \ {b} : pc'[d] \in Away
    BY <1>1, <1>4, <2>1, <2>2
  <2> QED BY <1>2, <1>4, <2>3 DEF Vacant
<1>5. ASSUME counter = Number(pc, Cpus, There),
             \A d \in Cpus : pc[d] \in {"present", "elect"} \cup Away
      PROVE  Vacant'
  <2>1. \A d \in Cpus : pc'[d] \in {"present", "elect"} \cup Away
    BY <1>1, <1>5
  <2>2. \A d \in Cpus : pc[d] \in There <=> pc'[d] \in There
    BY <1>1, <1>3 DEF There
  <2>3. Number(pc, Cpus, There) = Number(pc', Cpus, There)
    BY <2>2, NumberStays
  <2> QED BY <1>2, <1>5, <2>1, <2>3 DEF Vacant
<1>6. Vacant'
  BY <1>4, <1>5 DEF Vacant
<1> QED BY <1>6 DEF Led

(* A processor counts itself.                                                *)
LEMMA VacantArrives ==
  ASSUME Typed, Vacant, bspIndex = NoCpu, NEW c \in Cpus, Arrive(c)
  PROVE  Led'
<1>1. /\ pc \in [Cpus -> Labels] /\ pc[c] = "arrive" /\ UNCHANGED <<bspIndex, data>>
      /\ IF counter = Locked THEN Goto(c, "exit") /\ UNCHANGED counter
         ELSE counter' = counter + 1 /\ Goto(c, "present")
  BY DEF Typed, Arrive, At
<1>2. "exit" \in Labels /\ "present" \in Labels
  BY DEF Labels
<1>3. CASE counter = Locked
  <2>1. pc[c] \in Away /\ "exit" \in Away
    BY <1>1 DEF Away, Gone
  <2> QED BY <1>1, <1>2, <1>3, <2>1, VacantKeeps
<1>4. CASE counter # Locked
  <2>1. /\ counter = Number(pc, Cpus, There)
        /\ \A d \in Cpus : pc[d] \in {"present", "elect"} \cup Away
        /\ \A d \in Cpus : data[d].run = 0
    BY <1>4 DEF Vacant
  <2>2. pc'[c] = "present" /\ \A x \in Cpus : x # c => pc'[x] = pc[x]
    BY <1>1, <1>2, <1>4, GotoIs
  <2>3. pc[c] \notin There /\ pc'[c] \in There
    BY <1>1, <2>2 DEF There, Labels, Away, Gone, Leaving
  <2>4. Number(pc', Cpus, There) = Number(pc, Cpus, There) + 1
    <3>1. Cpus \in SUBSET Cpus
      OBVIOUS
    <3> QED BY <2>2, <2>3, <3>1, NumberMoves
  <2>5. counter' = Number(pc', Cpus, There)
    BY <1>1, <1>4, <2>1, <2>4
  <2>6. \A d \in Cpus : pc'[d] \in {"present", "elect"} \cup Away
    BY <2>1, <2>2
  <2>7. \A d \in Cpus : data'[d].run = 0
    BY <1>1, <2>1
  <2> QED BY <1>1, <2>5, <2>6, <2>7 DEF Led, Vacant
<1> QED BY <1>3, <1>4

(* The last BSP unlocks the counter.                                         *)
LEMMA VacantReopens ==
  ASSUME Typed, Vacant, bspIndex = NoCpu, NEW c \in Cpus, BspReopen(c)
  PROVE  Led'
<1>1. /\ pc \in [Cpus -> Labels] /\ pc[c] = "bsp_reopen" /\ UNCHANGED <<bspIndex, data>>
      /\ counter' = 0 /\ pc'[c] = "bsp_out_of_sync"
      /\ \A x \in Cpus : x # c => pc'[x] = pc[x]
  BY GotoIs DEF Typed, BspReopen, At, Labels
<1>2. \A d \in Cpus \ {c} : pc[d] \in Away
  BY <1>1 DEF Vacant, Away, Gone, Leaving
<1>3. \A d \in Cpus : pc'[d] \in Away
  BY <1>1, <1>2 DEF Away, Leaving
<1>4. Number(pc', Cpus, There) = 0
  <2>1. {d \in Cpus : pc'[d] \in There} = {}
    BY <1>3 DEF There
  <2> QED BY <2>1, FS_EmptySet DEF Number
<1>5. \A d \in Cpus : data'[d].run = 0
  BY <1>1 DEF Vacant
<1> QED BY <1>1, <1>3, <1>4, <1>5 DEF Led, Vacant

(* A processor is elected.                                                   *)
LEMMA VacantElects ==
  ASSUME Typed, Vacant, bspIndex = NoCpu, NEW c \in Cpus, Elect(c), UNCHANGED config
  PROVE  Led'
<1>1. /\ pc \in [Cpus -> Labels] /\ pc[c] = "elect" /\ bspIndex' = c
      /\ UNCHANGED <<counter, current, insideSmm, data, local>>
      /\ pc'[c] = "role" /\ \A x \in Cpus : x # c => pc'[x] = pc[x]
  BY GotoIs DEF Typed, Elect, At, Labels
<1>2. /\ counter = Number(pc, Cpus, There)
      /\ \A d \in Cpus : pc[d] \in {"present", "elect"} \cup Away
      /\ \A d \in Cpus : data[d].run = 0
  BY <1>1 DEF Vacant, Away, Gone, Leaving
<1>3. Now(c)' = "gather"
  BY <1>1 DEF Now, Phase, Open
<1>4. ASSUME NEW d \in Cpus \ {c}
      PROVE  Placed(c, d, "gather")'
  <2>1. pc'[d] = pc[d] /\ pc[d] \in {"present", "elect"} \cup Away /\ data'[d].run = 0
    BY <1>1, <1>2
  <2>2. ~Uncalled(pc[c], local[c], d, data[d].busy)'
    BY <1>1 DEF Uncalled, Ready
  <2>3. /\ pc'[d] \in Owing("gather") \cup Beyond("gather", ConfigureMtrrs') \cup Gone
        /\ pc'[d] \notin Knows /\ pc'[d] \notin Gate("gather")
    BY <2>1 DEF Owing, Gate, Work, Joining, Beyond, Away, Gone, Leaving, Knows
  <2> QED BY <2>1, <2>2, <2>3 DEF Placed
<1>5. Tallied(c, "gather")'
  <2>1. Number(pc, Cpus, There) = Number(pc, Cpus \ {c}, There) + 1
    <3> DEFINE S == {d \in Cpus : pc[d] \in There}
               T == {d \in Cpus \ {c} : pc[d] \in There}
    <3>1. pc[c] \in There
      BY <1>1 DEF There, Labels, Away, Gone, Leaving
    <3>2. S = T \cup {c} /\ c \notin T
      BY <3>1
    <3>3. IsFiniteSet(T)
      BY NumberIs
    <3> HIDE DEF S, T
    <3>4. Cardinality(S) = Cardinality(T) + 1
      BY <3>2, <3>3, FS_AddElement
    <3> QED BY <3>4 DEF S, T, Number
  <2>2. \A d \in Cpus \ {c} : pc[d] \in There <=> pc'[d] \in Owing("gather")
    BY <1>1, <1>2 DEF There, Owing, Gate, Work, Joining, Away, Gone, Leaving, Labels
  <2>3. Number(pc, Cpus \ {c}, There) = Number(pc', Cpus \ {c}, Owing("gather"))
    BY <2>2, NumberStays
  <2>4. Number(pc', Cpus \ {c}, There) = Number(pc, Cpus \ {c}, There)
    BY <1>1, NumbersStay
  <2>5. Number(pc, Cpus \ {c}, There) \in Nat
    BY NumberIs
  <2>6. counter' - 1 = Number(pc, Cpus \ {c}, There)
    BY <1>1, <1>2, <2>1, <2>5
  <2>7. Awaited(pc'[c], local'[c], counter') = counter' - 1
    BY <1>1 DEF Awaited, Open
  <2>8. data'[c].run = 0
    BY <1>1, <1>2
  <2>9. data'[c].run + Number(pc', Cpus \ {c}, Owing("gather")) = counter' - 1
    BY <2>3, <2>5, <2>6, <2>8
  <2>10. counter' - 1 = Number(pc', Cpus \ {c}, There)
    BY <2>4, <2>6
  <2> QED BY <2>7, <2>9, <2>10 DEF Tallied
<1>6. Leads(c, "gather")' /\ Starts(c)'
  BY <1>1 DEF Leads, Starts, Starting
<1>7. Session(c, "gather")'
  BY <1>4, <1>5, <1>6 DEF Session
<1>8. c # NoCpu
  BY RendezvousAssumption
<1> QED BY <1>1, <1>3, <1>7, <1>8 DEF Led

(* Whatever is done when nobody is elected, a session begins as it should.   *)
LEMMA VacantSteps ==
  ASSUME Typed, Election, Vacant, bspIndex = NoCpu, NEW c \in Cpus, TakeSmi(c) \/ Processor(c)
  PROVE  Led'
<1>1. pc[c] \in VacantLabels
  BY DEF Vacant, VacantLabels
<1>2. VacantActions(c) /\ UNCHANGED config
  BY <1>1, VacantActs
<1>3. /\ data \in [Cpus -> Datum]
      /\ "arrive" \in Labels /\ "exit" \in Labels /\ "out" \in Labels /\ "leave" \in Labels
      /\ "elect" \in Labels
      /\ "arrive" \in Away /\ "exit" \in Away /\ "out" \in Away /\ "leave" \in Away
      /\ "bsp_out_of_sync" \in Away
  BY DEF Typed, Labels, Away, Gone, Leaving
<1>4. CASE TakeSmi(c)
  <2>1. pc[c] = "out" /\ Goto(c, "arrive") /\ UNCHANGED <<counter, bspIndex, data>>
    BY <1>4 DEF TakeSmi, At, shared
  <2> QED BY <1>3, <2>1, VacantKeeps
<1>5. CASE Arrive(c)
  BY <1>5, VacantArrives
<1>6. CASE MarkPresent(c)
  <2>1. pc[c] = "present" /\ Goto(c, "elect") /\ UNCHANGED <<counter, bspIndex>>
    BY <1>6 DEF MarkPresent, At, shared
  <2>2. /\ data'[c].run = data[c].run /\ \A x \in Cpus : x # c => data'[x] = data[x]
    BY <1>3, <1>6, PresentSet DEF MarkPresent
  <2>3. \A x \in Cpus : data'[x].run = data[x].run
    BY <2>2
  <2> QED BY <1>3, <2>1, <2>3, VacantKeeps
<1>7. CASE Elect(c)
  BY <1>2, <1>7, VacantElects
<1>8. CASE Leave(c)
  <2>1. pc[c] = "leave" /\ Goto(c, "exit") /\ UNCHANGED <<counter, bspIndex>>
    BY <1>8 DEF Leave, At, shared
  <2>2. /\ data'[c].run = data[c].run /\ \A x \in Cpus : x # c => data'[x] = data[x]
    BY <1>3, <1>8, PresentSet DEF Leave
  <2>3. \A x \in Cpus : data'[x].run = data[x].run
    BY <2>2
  <2> QED BY <1>3, <2>1, <2>3, VacantKeeps
<1>9. CASE Exit(c)
  <2>1. pc[c] = "exit" /\ Goto(c, "out") /\ UNCHANGED <<counter, bspIndex, data>>
    BY <1>9 DEF Exit, At, shared
  <2> QED BY <1>3, <2>1, VacantKeeps
<1>10. CASE BspReopen(c)
  BY <1>10, VacantReopens
<1>11. CASE BspOutOfSync(c)
  <2>1. pc[c] = "bsp_out_of_sync" /\ Goto(c, "leave") /\ UNCHANGED <<counter, bspIndex, data>>
    BY <1>11 DEF BspOutOfSync, At
  <2> QED BY <1>3, <2>1, VacantKeeps
<1> QED BY <1>2, <1>4, <1>5, <1>6, <1>7, <1>8, <1>9, <1>10, <1>11 DEF VacantActions

-----------------------------------------------------------------------------
(* Presence, MTRRs and procedures.                                           *)

(* Present says who is counted.                                              *)
LEMMA PresentKeeps ==
  ASSUME Typed, PresentIs, NEW c \in Cpus, NEW l \in Labels, Goto(c, l),
         \A x \in Cpus : data'[x].present = data[x].present,
         l \in Absent <=> pc[c] \in Absent
  PROVE  PresentIs'
<1>1. pc'[c] = l /\ \A x \in Cpus : x # c => pc'[x] = pc[x]
  BY GotoIs DEF Typed
<1> QED BY <1>1 DEF PresentIs

(* Restoring goes on, or nobody has the MTRRs of SMM any longer.             *)
RestoringStays == Restoring => Restoring' \/ \A d \in Cpus : ~IsSwitched(d)'

(* A step that leaves the MTRRs alone.                                       *)
LEMMA MtrrsKeep ==
  ASSUME Typed, Mtrrs, RestoringStays, NEW c \in Cpus, NEW l \in Labels, Goto(c, l),
         UNCHANGED <<config, mtrr>>,
         \A x \in Cpus : x # c => local'[x] = local[x],
         Switched(l, local'[c].then, ConfigureMtrrs) <=> IsSwitched(c),
         local'[c].saved # "smm",
         HasSaved(l, local'[c].then, ConfigureMtrrs) => local'[c].saved = "os"
  PROVE  Mtrrs'
<1>1. /\ pc'[c] = l /\ \A x \in Cpus : x # c => pc'[x] = pc[x]
      /\ ConfigureMtrrs' = ConfigureMtrrs
  BY GotoIs DEF Typed, ConfigureMtrrs
<1>2. ASSUME NEW x \in Cpus
      PROVE  IsSwitched(x)' <=> IsSwitched(x)
  <2>1. CASE x = c
    BY <1>1, <2>1 DEF IsSwitched
  <2>2. CASE x # c
    BY <1>1, <2>2 DEF IsSwitched
  <2> QED BY <2>1, <2>2
<1>3. \A k \in Cores : mtrr'[k] = "smm" => \E x \in Cpus : Core[x] = k /\ IsSwitched(x)'
  BY <1>2 DEF Mtrrs
<1>4. \A x \in Cpus : IsSwitched(x)' /\ ~Restoring' => mtrr'[Core[x]] = "smm"
  <2>1. ASSUME NEW x \in Cpus, IsSwitched(x)', ~Restoring'
        PROVE  mtrr[Core[x]] = "smm"
    <3>1. ~Restoring
      BY <2>1 DEF RestoringStays
    <3>2. IsSwitched(x)
      BY <1>2, <2>1
    <3> QED BY <3>1, <3>2 DEF Mtrrs
  <2> QED BY <2>1
<1>5. \A x \in Cpus : /\ local'[x].saved # "smm"
                      /\ HasSaved(pc'[x], local'[x].then, ConfigureMtrrs') =>
                           local'[x].saved = "os"
  BY <1>1 DEF Mtrrs
<1> QED BY <1>3, <1>4, <1>5 DEF Mtrrs

(* A processor replaces the MTRRs of its core.                               *)
LEMMA MtrrsReplaced ==
  ASSUME Typed, Mtrrs, RestoringStays, NEW c \in Cpus, NEW l \in Labels, Goto(c, l),
         UNCHANGED config, mtrr' = [mtrr EXCEPT ![Core[c]] = "smm"],
         \A x \in Cpus : x # c => local'[x] = local[x],
         Switched(l, local'[c].then, ConfigureMtrrs),
         local'[c].saved = "os"
  PROVE  Mtrrs'
<1>1. /\ pc'[c] = l /\ \A x \in Cpus : x # c => pc'[x] = pc[x]
      /\ ConfigureMtrrs' = ConfigureMtrrs
  BY GotoIs DEF Typed, ConfigureMtrrs
<1>2. /\ IsSwitched(c)'
      /\ \A x \in Cpus : x # c => (IsSwitched(x)' <=> IsSwitched(x))
  BY <1>1 DEF IsSwitched
<1>3. /\ mtrr'[Core[c]] = "smm" /\ \A k \in Cores : k # Core[c] => mtrr'[k] = mtrr[k]
      /\ \A x \in Cpus : Core[x] \in Cores
  BY DEF Typed, Cores
<1>4. \A k \in Cores : mtrr'[k] = "smm" => \E x \in Cpus : Core[x] = k /\ IsSwitched(x)'
  <2>1. ASSUME NEW k \in Cores, mtrr'[k] = "smm"
        PROVE  \E x \in Cpus : Core[x] = k /\ IsSwitched(x)'
    <3>1. CASE k = Core[c]
      BY <1>2, <3>1
    <3>2. CASE k # Core[c]
      <4>1. PICK x \in Cpus : Core[x] = k /\ IsSwitched(x)
        BY <1>3, <2>1, <3>2 DEF Mtrrs
      <4>2. x # c
        BY <3>2, <4>1
      <4> QED BY <1>2, <4>1, <4>2
    <3> QED BY <3>1, <3>2
  <2> QED BY <2>1
<1>5. \A x \in Cpus : IsSwitched(x)' /\ ~Restoring' => mtrr'[Core[x]] = "smm"
  <2>1. ASSUME NEW x \in Cpus, IsSwitched(x)', ~Restoring'
        PROVE  mtrr'[Core[x]] = "smm"
    <3>1. ~Restoring
      BY <2>1 DEF RestoringStays
    <3>2. CASE Core[x] = Core[c]
      BY <1>3, <3>2
    <3>3. CASE Core[x] # Core[c]
      <4>1. IsSwitched(x)
        BY <1>2, <2>1, <3>3
      <4>2. mtrr[Core[x]] = "smm"
        BY <3>1, <4>1 DEF Mtrrs
      <4> QED BY <1>3, <3>3, <4>2
    <3> QED BY <3>2, <3>3
  <2> QED BY <2>1
<1>6. \A x \in Cpus : /\ local'[x].saved # "smm"
                      /\ HasSaved(pc'[x], local'[x].then, ConfigureMtrrs') =>
                           local'[x].saved = "os"
  BY <1>1 DEF Mtrrs
<1> QED BY <1>4, <1>5, <1>6 DEF Mtrrs

(* A processor restores the MTRRs of its core.                               *)
LEMMA MtrrsRestored ==
  ASSUME Typed, Mtrrs, RestoringStays, Restoring,
         NEW c \in Cpus, NEW l \in Labels, Goto(c, l),
         UNCHANGED config, mtrr' = [mtrr EXCEPT ![Core[c]] = local[c].saved],
         HasSaved(pc[c], local[c].then, ConfigureMtrrs),
         \A x \in Cpus : x # c => local'[x] = local[x],
         local'[c].saved = local[c].saved
  PROVE  Mtrrs'
<1>1. /\ pc'[c] = l /\ \A x \in Cpus : x # c => pc'[x] = pc[x]
      /\ ConfigureMtrrs' = ConfigureMtrrs
  BY GotoIs DEF Typed, ConfigureMtrrs
<1>2. \A x \in Cpus : x # c => (IsSwitched(x)' <=> IsSwitched(x))
  BY <1>1 DEF IsSwitched
<1>3. local[c].saved = "os"
  BY DEF Mtrrs
<1>4. /\ mtrr'[Core[c]] = "os" /\ \A k \in Cores : k # Core[c] => mtrr'[k] = mtrr[k]
  BY <1>3 DEF Typed, Cores
<1>5. \A k \in Cores : mtrr'[k] = "smm" => \E x \in Cpus : Core[x] = k /\ IsSwitched(x)'
  <2>1. ASSUME NEW k \in Cores, mtrr'[k] = "smm"
        PROVE  \E x \in Cpus : Core[x] = k /\ IsSwitched(x)'
    <3>1. k # Core[c]
      BY <1>4, <2>1
    <3>2. PICK x \in Cpus : Core[x] = k /\ IsSwitched(x)
      BY <1>4, <2>1, <3>1 DEF Mtrrs
    <3>3. x # c
      BY <3>1, <3>2
    <3> QED BY <1>2, <3>2, <3>3
  <2> QED BY <2>1
<1>6. \A x \in Cpus : ~(IsSwitched(x)' /\ ~Restoring')
  BY DEF RestoringStays
<1>7. \A x \in Cpus : /\ local'[x].saved # "smm"
                      /\ HasSaved(pc'[x], local'[x].then, ConfigureMtrrs') =>
                           local'[x].saved = "os"
  BY <1>1, <1>3 DEF Mtrrs
<1> QED BY <1>5, <1>6, <1>7 DEF Mtrrs

-----------------------------------------------------------------------------
(* Nobody has the MTRRs of SMM while they are saved.                         *)
LEMMA NobodySwitched ==
  ASSUME Typed, NEW b \in Cpus, bspIndex = b, Session(b, Now(b)), Now(b) = "save"
  PROVE  \A d \in Cpus : ~IsSwitched(d)
<1>1. ASSUME NEW d \in Cpus \ {b}
      PROVE  ~IsSwitched(d)
  <2>1. pc[d] \in Owing("save") \cup Beyond("save", ConfigureMtrrs) \cup Gone
    BY DEF Session, Placed
  <2>2. pc[d] \in {"ap_save", "ap_saving", "ap_saved", "ap_replace"} \cup Gone
    BY <2>1 DEF Owing, Gate, Work, Beyond
  <2> QED BY <2>2 DEF IsSwitched, Switched, Gone, Foundation
<1>2. ~IsSwitched(b)
  <2>1. PICK l : l = pc[b]
    OBVIOUS
  <2>2. PICK t : t = local[b].then
    OBVIOUS
  <2>3. PICK m : m = ConfigureMtrrs
    OBVIOUS
  <2>4. Phase(l, t, m) = "save"
    BY <2>1, <2>2, <2>3 DEF Now
  <2>5. ~Switched(l, t, m)
    BY ONLY <2>4 DEF Phase, Switched, Open, Closing, Foundation
  <2> QED BY <2>1, <2>2, <2>3, <2>5 DEF IsSwitched
<1> QED BY <1>1, <1>2

(* What is saved is what the operating system had.                           *)
LEMMA SavesOs ==
  ASSUME Typed, Mtrrs, NEW b \in Cpus, bspIndex = b, Session(b, Now(b)), Now(b) = "save",
         NEW c \in Cpus
  PROVE  mtrr[Core[c]] = "os"
<1>1. mtrr[Core[c]] \in {"os", "smm"} /\ Core[c] \in Cores
  BY DEF Typed, Cores
<1> QED BY <1>1, NobodySwitched DEF Mtrrs

-----------------------------------------------------------------------------
(* Who starts a procedure is the BSP.                                        *)
LEMMA StartingIs ==
  ASSUME Typed, Led, NEW b \in Cpus, pc[b] \in Starting
  PROVE  /\ bspIndex = b /\ Session(b, Now(b)) /\ Now(b) = "hold"
         /\ local[b].ap \in Cpus \ {b}
         /\ \A d \in Cpus : pc[d] # "ap_busy"
         /\ \A d \in Cpus \ {b} : pc[d] \notin Starting
<1>1. bspIndex # NoCpu
  BY DEF Led, Vacant, Starting, Away, Gone, Leaving
<1>2. PICK e \in Cpus : e = bspIndex
  BY <1>1 DEF Typed
<1>3. Session(e, Now(e))
  BY <1>1, <1>2 DEF Led
<1>4. \A d \in Cpus \ {e} : pc[d] \notin Starting
  <2>1. \A d \in Cpus \ {e} : pc[d] \in OtherLabels
    <3>1. PICK p : p = Now(e)
      OBVIOUS
    <3>2. Session(e, p)
      BY <1>3, <3>1
    <3> QED BY <3>1, <3>2, InPhase
  <2> QED BY <2>1 DEF OtherLabels, Joining, Leaving, Gone, Knows, Starting
<1>5. b = e
  BY <1>4
<1>6. Now(b) = "hold"
  BY DEF Now, Phase, Open, Closing, Foundation, Starting
<1>7. local[b].ap \in Cpus \ {b} /\ \A d \in Cpus : pc[d] # "ap_busy"
  BY <1>3, <1>5 DEF Session, Starts
<1> QED BY <1>2, <1>3, <1>4, <1>5, <1>6, <1>7

(* Who runs a procedure or has run it is awaited.                            *)
LEMMA RunningIs ==
  ASSUME Typed, Led, NEW c \in Cpus, pc[c] \in {"ap_run", "ap_free"}
  PROVE  \E b \in Cpus : /\ bspIndex = b /\ c # b /\ pc[b] = "startup_wait" /\ local[b].ap = c
                         /\ data[c].busy
<1>1. bspIndex # NoCpu
  BY DEF Led, Vacant, Away, Gone, Leaving
<1>2. PICK b \in Cpus : b = bspIndex
  BY <1>1 DEF Typed
<1>3. Session(b, Now(b))
  BY <1>1, <1>2 DEF Led
<1>4. c # b
  <2>1. pc[b] \in LeaderLabels
    BY <1>3, LeaderIs
  <2> QED BY <2>1 DEF LeaderLabels, Open, Closing, Ready
<1>5. PICK p : p = Now(b)
  OBVIOUS
<1>6. p = "hold"
  <2>1. p \in Phases /\ pc[c] \in Owing(p) \cup Beyond(p, ConfigureMtrrs) \cup Gone
    BY <1>3, <1>4, <1>5, InPhase
  <2> QED BY <2>1 DEF Phases, Owing, Gate, Work, Beyond, FirstGate, Joining, Leaving, Gone
<1>7. pc[c] \notin Gate(p) \cup Gone
  BY <1>6 DEF Gate, Gone
<1>8. ~Uncalled(pc[b], local[b], c, data[c].busy)
  BY <1>3, <1>4, <1>5, <1>7 DEF Session, Placed
<1>9. pc[b] \in {"bsp_busy"} \cup Foundation
  BY <1>5, <1>6 DEF Now, Phase
<1>10. pc[b] = "startup_wait" /\ local[b].ap = c /\ data[c].busy
  BY <1>8, <1>9 DEF Uncalled, Foundation, Ready
<1> QED BY <1>2, <1>4, <1>10

(* A step that has to do with no procedure.                                  *)
LEMMA ProceduresKeep ==
  ASSUME Typed, Led, Procedures, NEW c \in Cpus, NEW l \in Labels, Goto(c, l),
         UNCHANGED <<tasks, runs>>,
         \A x \in Cpus : x # c => local'[x] = local[x],
         pc[c] \notin Starting, l \notin Starting,
         l = "ap_free" <=> pc[c] = "ap_free",
         \/ \A x \in Cpus : data'[x].busy = data[x].busy /\ data'[x].procedure = data[x].procedure
         \/ \A x \in Cpus : pc[x] \notin Starting
  PROVE  Procedures'
<1>1. pc'[c] = l /\ \A x \in Cpus : x # c => pc'[x] = pc[x]
  BY GotoIs DEF Typed
<1>2. \A n : Ran(n)' <=> Ran(n)
  BY DEF Ran
<1>3. (\A b \in Cpus : pc'[b] \notin Starting) => Ran(tasks)'
  <2>1. (\A b \in Cpus : pc'[b] \notin Starting) => \A b \in Cpus : pc[b] \notin Starting
    BY <1>1
  <2> QED BY <1>2, <2>1 DEF Procedures
<1>4. ASSUME NEW b \in Cpus, pc'[b] \in Starting
      PROVE  LET a == local[b].ap IN
             /\ tasks > 0
             /\ pc'[b] # "startup" /\ data'[a].busy => data'[a].procedure = tasks
             /\ Ran(IF data'[a].busy /\ pc'[a] # "ap_free" THEN tasks - 1 ELSE tasks)
  <2>1. b # c /\ pc[b] \in Starting /\ pc'[b] = pc[b]
    BY <1>1, <1>4
  <2>2. PICK a \in Cpus : a = local[b].ap
    BY <2>1, StartingIs
  <2>3. data'[a].busy = data[a].busy /\ data'[a].procedure = data[a].procedure
    BY <2>1
  <2>4. pc'[a] = "ap_free" <=> pc[a] = "ap_free"
    BY <1>1
  <2>5. /\ tasks > 0
        /\ pc[b] # "startup" /\ data[a].busy => data[a].procedure = tasks
        /\ Ran(IF data[a].busy /\ pc[a] # "ap_free" THEN tasks - 1 ELSE tasks)
    BY <2>1, <2>2 DEF Procedures
  <2> QED BY <2>1, <2>2, <2>3, <2>4, <2>5
<1>5. \A b \in Cpus : pc'[b] \in Starting => local'[b] = local[b]
  BY <1>1
<1> QED BY <1>2, <1>3, <1>4, <1>5 DEF Procedures

(* A step that changes neither the MTRRs nor the procedures.                 *)
LEMMA SideKeeps ==
  ASSUME Typed, Led, PresentIs, Mtrrs, Procedures, RestoringStays,
         NEW c \in Cpus, NEW l \in Labels, Goto(c, l), UNCHANGED <<config, mtrr, tasks, runs>>,
         counter' \in Int, insideSmm' \in BOOLEAN, bspIndex' \in Cpus \cup {NoCpu},
         current' \in Cpus, data' \in [Cpus -> Datum], local' \in [Cpus -> Vars],
         \A x \in Cpus : x # c => local'[x] = local[x],
         \A x \in Cpus : data'[x].present = data[x].present,
         l \in Absent <=> pc[c] \in Absent,
         Switched(l, local'[c].then, ConfigureMtrrs) <=> Switched(pc[c], local[c].then,
           ConfigureMtrrs),
         local'[c].saved = local[c].saved,
         HasSaved(l, local'[c].then, ConfigureMtrrs) =>
           HasSaved(pc[c], local[c].then, ConfigureMtrrs),
         pc[c] \notin Starting, l \notin Starting,
         l = "ap_free" <=> pc[c] = "ap_free",
         \/ \A x \in Cpus : data'[x].busy = data[x].busy /\ data'[x].procedure = data[x].procedure
         \/ \A x \in Cpus : pc[x] \notin Starting
  PROVE  Typed' /\ PresentIs' /\ Mtrrs' /\ Procedures'
<1>1. Typed'
  <2>1. pc' \in [Cpus -> Labels]
    BY GotoIs DEF Typed
  <2>2. /\ config' \in Configurations /\ mtrr' \in [Cores -> {"os", "smm"}] /\
             tasks' \in 0 .. MaxTasks
        /\ runs' \in [Tasks -> Nat]
    BY DEF Typed
  <2> QED BY <2>1, <2>2 DEF Typed
<1>2. PresentIs'
  BY PresentKeeps
<1>3. Mtrrs'
  <2>1. /\ local'[c].saved # "smm"
        /\ HasSaved(l, local'[c].then, ConfigureMtrrs) => local'[c].saved = "os"
    BY DEF Mtrrs
  <2> QED BY <2>1, MtrrsKeep DEF IsSwitched
<1>4. Procedures'
  BY ProceduresKeep
<1> QED BY <1>1, <1>2, <1>3, <1>4

(* Types are kept.                                                           *)
LEMMA TypedKeeps ==
  ASSUME Typed, NEW c \in Cpus, NEW l \in Labels, Goto(c, l),
         UNCHANGED <<config, counter, bspIndex, current, insideSmm>>,
         mtrr' \in [Cores -> {"os", "smm"}], tasks' \in 0 .. MaxTasks, runs' \in [Tasks -> Nat],
         data' \in [Cpus -> Datum], local' \in [Cpus -> Vars]
  PROVE  Typed'
<1>1. pc' \in [Cpus -> Labels]
  BY GotoIs DEF Typed
<1>2. /\ config' \in Configurations /\ counter' \in Int /\ insideSmm' \in BOOLEAN
      /\ bspIndex' \in Cpus \cup {NoCpu} /\ current' \in Cpus
  BY DEF Typed
<1> QED BY <1>1, <1>2 DEF Typed

(* Who answers to whom.                                                      *)
LEMMA KnowsIs ==
  ASSUME Typed, Led, NEW c \in Cpus, pc[c] \in Knows
  PROVE  \E b \in Cpus : bspIndex = b /\ c # b /\ local[c].bsp = b /\ Session(b, Now(b))
<1>1. bspIndex # NoCpu
  BY DEF Led, Vacant, Away, Gone, Leaving, Knows
<1>2. PICK b \in Cpus : b = bspIndex
  BY <1>1 DEF Typed
<1>3. Session(b, Now(b))
  BY <1>1, <1>2 DEF Led
<1>4. c # b
  <2>1. pc[b] \in LeaderLabels
    BY <1>3, LeaderIs
  <2> QED BY <2>1 DEF LeaderLabels, Open, Closing, Ready, Knows
<1>5. local[c].bsp = b
  BY <1>3, <1>4 DEF Session, Placed
<1> QED BY <1>2, <1>3, <1>4, <1>5

(* Who is where only the BSP can be is the BSP.                              *)
LEMMA LeaderOf ==
  ASSUME Typed, Led, NEW c \in Cpus, pc[c] \in LeaderLabels \ {"role"}
  PROVE  bspIndex = c /\ Session(c, Now(c))
<1>1. bspIndex # NoCpu
  BY DEF Led, Vacant, Away, Gone, Leaving, LeaderLabels, Open, Closing, Ready
<1>2. PICK b \in Cpus : b = bspIndex
  BY <1>1 DEF Typed
<1>3. Session(b, Now(b))
  BY <1>1, <1>2 DEF Led
<1>4. c = b
  <2>1. PICK p : p = Now(b)
    OBVIOUS
  <2>2. \A d \in Cpus \ {b} : pc[d] \in OtherLabels
    BY <1>3, <2>1, InPhase
  <2> QED BY <2>2 DEF OtherLabels, Joining, Leaving, Gone, Knows, LeaderLabels, Open,
                      Closing, Ready
<1> QED BY <1>2, <1>3, <1>4

(* Where the BSP goes on from its loops.                                     *)
LEMMA WaitIs ==
  ASSUME Typed, NEW b \in Cpus, Session(b, Now(b)), pc[b] = "wait"
  PROVE  \/ /\ local[b].then \in {"bsp_save", "bsp_replace", "bsp_restore"} /\ ConfigureMtrrs
         \/ local[b].then \in {"bsp_busy", "bsp_reset"}
<1>1. PICK t : t = local[b].then
  OBVIOUS
<1>2. PICK m : m = ConfigureMtrrs
  OBVIOUS
<1>3. Phase("wait", t, m) # "none"
  BY <1>1, <1>2 DEF Now, Session, Leads
<1>4. \/ t \in {"bsp_save", "bsp_replace", "bsp_restore"} /\ m
      \/ t \in {"bsp_busy", "bsp_reset"}
  BY ONLY <1>3 DEF Phase, Open, Closing, Foundation
<1> QED BY <1>1, <1>2, <1>4

(* ... of ReleaseAllAPs.                                                     *)
LEMMA ReleaseIs ==
  ASSUME Typed, NEW b \in Cpus, Session(b, Now(b)), pc[b] = "release"
  PROVE  /\ local[b].then \in {"bsp_saved", "bsp_replaced", "bsp_pending", "bsp_restored"}
         /\ local[b].todo \subseteq Cpus \ {b}
<1>1. PICK t : t = local[b].then
  OBVIOUS
<1>2. PICK m : m = ConfigureMtrrs
  OBVIOUS
<1>3. Phase("release", t, m) # "none"
  BY <1>1, <1>2 DEF Now, Session, Leads
<1>4. t \in {"bsp_saved", "bsp_replaced", "bsp_pending", "bsp_restored"}
  BY ONLY <1>3 DEF Phase, Open, Closing, Foundation
<1>5. local[b].todo \subseteq Cpus \ {b}
  BY DEF Session, Leads
<1> QED BY <1>1, <1>4, <1>5

(* All the actions that can be taken.                                        *)
AllActions(c) == OtherActions(c) \/ LeaderActions(c) \/ BspReopen(c)

(* No other action can be.                                                   *)
LEMMA AllActs ==
  ASSUME Typed, Led, NEW c \in Cpus, TakeSmi(c) \/ Processor(c)
  PROVE  AllActions(c) /\ UNCHANGED config
<1>1. CASE bspIndex = NoCpu
  <2>1. pc[c] \in VacantLabels
    BY <1>1 DEF Led, Vacant, VacantLabels
  <2>2. VacantActions(c) /\ UNCHANGED config
    BY <2>1, VacantActs
  <2> QED BY <2>2 DEF VacantActions, AllActions, OtherActions
<1>2. CASE bspIndex # NoCpu
  <2>1. PICK b \in Cpus : b = bspIndex
    BY <1>2 DEF Typed
  <2>2. Session(b, Now(b))
    BY <1>2, <2>1 DEF Led
  <2>3. PICK p : p = Now(b)
    OBVIOUS
  <2>4. CASE c = b
    <3>1. pc[c] \in LeaderLabels
      BY <2>2, <2>3, <2>4, LeaderIs
    <3>2. LeaderActions(c) /\ UNCHANGED config
      BY <3>1, LeaderActs
    <3> QED BY <3>2 DEF AllActions
  <2>5. CASE c # b
    <3>1. pc[c] \in OtherLabels
      BY <2>2, <2>3, <2>5, InPhase
    <3>2. OtherActions(c) /\ UNCHANGED config
      BY <3>1, OtherActs
    <3> QED BY <3>2 DEF AllActions
  <2> QED BY <2>4, <2>5
<1> QED BY <1>1, <1>2

(* Starting and running procedures.                                          *)
LEMMA StartupThisApSide ==
  ASSUME Typed, Led, PresentIs, Mtrrs, Procedures, RestoringStays, Election, LateStart,
         BlockStartup, ConfigureMtrrs \in BOOLEAN, NEW c \in Cpus, StartupThisAp(c),
         UNCHANGED config
  PROVE  Typed' /\ PresentIs' /\ Mtrrs' /\ Procedures'
<1>1. /\ data \in [Cpus -> Datum] /\ local \in [Cpus -> Vars] /\ pc \in [Cpus -> Labels]
      /\ tasks \in Nat /\ runs \in [Tasks -> Nat]
  BY DEF Typed
<1>2. /\ pc[c] = "foundation" /\ Goto(c, "startup") /\ "startup" \in Labels
      /\ UNCHANGED <<config, mtrr, runs, counter, bspIndex, current, insideSmm>>
      /\ tasks' = tasks + 1
  BY DEF StartupThisAp, At, shared, Labels
<1>3. PICK d \in Cpus : /\ d # current /\ data[d].present /\ ~data[d].busy
                        /\ Set(d, "busy", TRUE) /\ Local(c, "ap", d)
  BY DEF StartupThisAp
<1>4. /\ data' \in [Cpus -> Datum] /\ data'[d].present = data[d].present
      /\ data'[d].busy /\ data'[d].procedure = data[d].procedure
      /\ \A x \in Cpus : x # d => data'[x] = data[x]
  BY <1>1, <1>3, BusySet
<1>5. /\ local' \in [Cpus -> Vars] /\ local'[c].ap = d /\ local'[c].saved = local[c].saved
      /\ \A x \in Cpus : x # c => local'[x] = local[x]
  <2>1. PICK v \in Cpus \cup {NoCpu} : v = d
    OBVIOUS
  <2>2. Local(c, "ap", v)
    BY <1>3, <2>1
  <2> QED BY <1>1, <2>1, <2>2, ApSet
<1>6. pc' \in [Cpus -> Labels] /\ pc'[c] = "startup" /\ \A x \in Cpus : x # c => pc'[x] = pc[x]
  BY <1>1, <1>2, GotoIs
<1>7. Typed'
  <2>1. tasks' \in 0 .. MaxTasks
    <3>1. tasks \in Nat /\ tasks < MaxTasks /\ MaxTasks \in Nat
      BY <1>1, RendezvousAssumption DEF StartupThisAp
    <3> QED BY <1>2, <3>1
  <2> QED BY <1>1, <1>2, <1>4, <1>5, <2>1, TypedKeeps DEF Typed
<1>8. PresentIs'
  BY <1>2, <1>4, PresentKeeps DEF Absent, Gone
<1>9. Mtrrs'
  <2>1. /\ Switched("startup", local'[c].then, ConfigureMtrrs) <=> IsSwitched(c)
        /\ HasSaved("startup", local'[c].then, ConfigureMtrrs) =>
             HasSaved(pc[c], local[c].then, ConfigureMtrrs)
    BY <1>2 DEF IsSwitched, Switched, HasSaved, Foundation
  <2>2. /\ local'[c].saved # "smm"
        /\ HasSaved("startup", local'[c].then, ConfigureMtrrs) => local'[c].saved = "os"
    BY <1>5, <2>1 DEF Mtrrs
  <2> QED BY <1>2, <1>5, <2>1, <2>2, MtrrsKeep
<1>10. bspIndex = c /\ Session(c, Now(c))
  BY <1>2, LeaderOf DEF LeaderLabels, Ready
<1>11. /\ \A x \in Cpus : pc[x] \notin Starting
       /\ \A x \in Cpus \ {c} : pc[x] \in OtherLabels
  <2>1. PICK p : p = Now(c)
    OBVIOUS
  <2>2. \A x \in Cpus \ {c} : pc[x] \in OtherLabels
    BY <1>10, <2>1, InPhase
  <2> QED BY <1>2, <2>2 DEF OtherLabels, Joining, Leaving, Gone, Knows, Starting
<1>12. pc[d] # "ap_free"
  <2>1. CASE d = c
    BY <1>2, <2>1
  <2>2. CASE d # c
    <3>1. Now(c) = "hold"
      BY <1>2 DEF Now, Phase, Open, Closing, Foundation
    <3>2. Uncalled(pc[c], local[c], d, data[d].busy) => pc[d] \in Gate(Now(c)) \cup Gone
      BY <1>10, <2>2 DEF Session, Placed
    <3>3. pc[d] \in Gate("hold") \cup Gone
      BY <1>2, <3>1, <3>2 DEF Uncalled, Ready
    <3> QED BY <3>3 DEF Gate, Gone
  <2> QED BY <2>1, <2>2
<1>13. Ran(tasks)
  BY <1>11 DEF Procedures
<1>14. tasks' > 0 /\ tasks' - 1 = tasks
  BY <1>1, <1>2
<1>15. Ran(tasks - 1)'
  BY <1>2, <1>13, <1>14 DEF Ran
<1>16. pc'[d] # "ap_free"
  BY <1>6, <1>12
<1>17. \A x \in Cpus : pc'[x] \in Starting => x = c
  BY <1>6, <1>11
<1> QED BY <1>4, <1>5, <1>6, <1>7, <1>8, <1>9, <1>14, <1>15, <1>16, <1>17 DEF Procedures, Starting

(* The procedure is handed over.                                             *)
LEMMA StartupProcedureSide ==
  ASSUME Typed, Led, PresentIs, Mtrrs, Procedures, RestoringStays, Election, LateStart,
         BlockStartup, ConfigureMtrrs \in BOOLEAN, NEW c \in Cpus, StartupProcedure(c),
         UNCHANGED config
  PROVE  Typed' /\ PresentIs' /\ Mtrrs' /\ Procedures'
<1>1. /\ data \in [Cpus -> Datum] /\ local \in [Cpus -> Vars] /\ pc \in [Cpus -> Labels]
      /\ tasks \in Nat
  BY DEF Typed
<1>2. /\ pc[c] = "startup" /\ Goto(c, "startup_release") /\ "startup_release" \in Labels
      /\ UNCHANGED <<config, mtrr, runs, tasks, counter, bspIndex, current, insideSmm, local>>
  BY DEF StartupProcedure, At, Keep, shared, Labels
<1>3. bspIndex = c /\ \A x \in Cpus \ {c} : pc[x] \notin Starting
  BY <1>2, StartingIs DEF Starting
<1>4. PICK a \in Cpus \ {c} : a = local[c].ap
  BY <1>2, StartingIs DEF Starting
<1>5. /\ data' \in [Cpus -> Datum] /\ data'[a].present = data[a].present
      /\ data'[a].busy = data[a].busy /\ data'[a].procedure = tasks
      /\ \A x \in Cpus : x # a => data'[x] = data[x]
  <2>1. PICK v \in Int : v = tasks
    BY <1>1
  <2>2. Set(a, "procedure", v)
    BY <1>4, <2>1 DEF StartupProcedure
  <2> QED BY <1>1, <2>1, <2>2, ProcedureSet
<1>6. pc' \in [Cpus -> Labels] /\ pc'[c] = "startup_release"
      /\ \A x \in Cpus : x # c => pc'[x] = pc[x]
  BY <1>1, <1>2, GotoIs
<1>7. Typed'
  BY <1>1, <1>2, <1>5, TypedKeeps DEF Typed
<1>8. PresentIs'
  BY <1>2, <1>5, PresentKeeps DEF Absent, Gone
<1>9. Mtrrs'
  <2>1. /\ Switched("startup_release", local'[c].then, ConfigureMtrrs) <=> IsSwitched(c)
        /\ HasSaved("startup_release", local'[c].then, ConfigureMtrrs) =>
             HasSaved(pc[c], local[c].then, ConfigureMtrrs)
    BY <1>2 DEF IsSwitched, Switched, HasSaved, Foundation
  <2>2. /\ local'[c].saved # "smm"
        /\ HasSaved("startup_release", local'[c].then, ConfigureMtrrs) => local'[c].saved = "os"
    BY <1>2, <2>1 DEF Mtrrs
  <2> QED BY <1>2, <2>1, <2>2, MtrrsKeep
<1>10. /\ tasks > 0
       /\ Ran(IF data[a].busy /\ pc[a] # "ap_free" THEN tasks - 1 ELSE tasks)
  BY <1>2, <1>4 DEF Procedures, Starting
<1>11. \A n : Ran(n)' <=> Ran(n)
  BY <1>2 DEF Ran
<1>12. pc'[a] = pc[a]
  BY <1>6
<1>13. \A x \in Cpus : pc'[x] \in Starting <=> x = c
  BY <1>3, <1>6 DEF Starting
<1> QED BY <1>2, <1>4, <1>5, <1>7, <1>8, <1>9, <1>10, <1>11, <1>12, <1>13 DEF Procedures

(* The AP is released.                                                       *)
LEMMA StartupReleaseSide ==
  ASSUME Typed, Led, PresentIs, Mtrrs, Procedures, RestoringStays, Election, LateStart,
         BlockStartup, ConfigureMtrrs \in BOOLEAN, NEW c \in Cpus, StartupRelease(c),
         UNCHANGED config
  PROVE  Typed' /\ PresentIs' /\ Mtrrs' /\ Procedures'
<1>1. /\ data \in [Cpus -> Datum] /\ local \in [Cpus -> Vars] /\ pc \in [Cpus -> Labels]
      /\ tasks \in Nat
  BY DEF Typed
<1>2. /\ pc[c] = "startup_release" /\ Goto(c, "startup_wait") /\ "startup_wait" \in Labels
      /\ UNCHANGED <<config, mtrr, runs, tasks, counter, bspIndex, current, insideSmm, local>>
  BY DEF StartupRelease, At, Keep, shared, Labels
<1>3. bspIndex = c /\ \A x \in Cpus \ {c} : pc[x] \notin Starting
  BY <1>2, StartingIs DEF Starting
<1>4. PICK a \in Cpus \ {c} : a = local[c].ap
  BY <1>2, StartingIs DEF Starting
<1>5. /\ data' \in [Cpus -> Datum] /\ data'[a].present = data[a].present
      /\ data'[a].busy = data[a].busy /\ data'[a].procedure = data[a].procedure
      /\ \A x \in Cpus : x # a => data'[x] = data[x]
  <2>1. PICK v \in Nat : v = data[a].run + 1
    BY <1>1 DEF Datum
  <2>2. Set(a, "run", v)
    BY <1>4, <2>1 DEF StartupRelease, ReleaseRun
  <2> QED BY <1>1, <2>2, RunSet
<1>6. pc' \in [Cpus -> Labels] /\ pc'[c] = "startup_wait"
      /\ \A x \in Cpus : x # c => pc'[x] = pc[x]
  BY <1>1, <1>2, GotoIs
<1>7. Typed'
  BY <1>1, <1>2, <1>5, TypedKeeps DEF Typed
<1>8. PresentIs'
  BY <1>2, <1>5, PresentKeeps DEF Absent, Gone
<1>9. Mtrrs'
  <2>1. /\ Switched("startup_wait", local'[c].then, ConfigureMtrrs) <=> IsSwitched(c)
        /\ HasSaved("startup_wait", local'[c].then, ConfigureMtrrs) =>
             HasSaved(pc[c], local[c].then, ConfigureMtrrs)
    BY <1>2 DEF IsSwitched, Switched, HasSaved, Foundation
  <2>2. /\ local'[c].saved # "smm"
        /\ HasSaved("startup_wait", local'[c].then, ConfigureMtrrs) => local'[c].saved = "os"
    BY <1>2, <2>1 DEF Mtrrs
  <2> QED BY <1>2, <2>1, <2>2, MtrrsKeep
<1>10. /\ tasks > 0 /\ data[a].busy => data[a].procedure = tasks
       /\ Ran(IF data[a].busy /\ pc[a] # "ap_free" THEN tasks - 1 ELSE tasks)
  BY <1>2, <1>4 DEF Procedures, Starting
<1>14. tasks > 0
  BY <1>2, <1>4 DEF Procedures, Starting
<1>11. \A n : Ran(n)' <=> Ran(n)
  BY <1>2 DEF Ran
<1>12. pc'[a] = pc[a]
  BY <1>6
<1>13. \A x \in Cpus : pc'[x] \in Starting <=> x = c
  BY <1>3, <1>6 DEF Starting
<1> QED BY <1>2, <1>4, <1>5, <1>7, <1>8, <1>9, <1>10, <1>11, <1>12, <1>13, <1>14 DEF Procedures

(* The AP has run it.                                                        *)
LEMMA StartupWaitSide ==
  ASSUME Typed, Led, PresentIs, Mtrrs, Procedures, RestoringStays, Election, LateStart,
         BlockStartup, ConfigureMtrrs \in BOOLEAN, NEW c \in Cpus, StartupWait(c),
         UNCHANGED config
  PROVE  Typed' /\ PresentIs' /\ Mtrrs' /\ Procedures'
<1>1. /\ data \in [Cpus -> Datum] /\ local \in [Cpus -> Vars] /\ pc \in [Cpus -> Labels]
      /\ tasks \in Nat
  BY DEF Typed
<1>2. /\ pc[c] = "startup_wait" /\ Goto(c, "foundation") /\ "foundation" \in Labels
      /\ UNCHANGED <<config, mtrr, runs, tasks, counter, bspIndex, current, insideSmm, local,
                     data>>
      /\ ~data[local[c].ap].busy
  BY DEF StartupWait, At, Keep, shared, Labels
<1>3. \A x \in Cpus \ {c} : pc[x] \notin Starting
  BY <1>2, StartingIs DEF Starting
<1>6. pc' \in [Cpus -> Labels] /\ pc'[c] = "foundation"
      /\ \A x \in Cpus : x # c => pc'[x] = pc[x]
  BY <1>1, <1>2, GotoIs
<1>7. Typed'
  BY <1>1, <1>2, TypedKeeps DEF Typed
<1>8. PresentIs'
  BY <1>2, PresentKeeps DEF Absent, Gone
<1>9. Mtrrs'
  <2>1. /\ Switched("foundation", local'[c].then, ConfigureMtrrs) <=> IsSwitched(c)
        /\ HasSaved("foundation", local'[c].then, ConfigureMtrrs) =>
             HasSaved(pc[c], local[c].then, ConfigureMtrrs)
    BY <1>2 DEF IsSwitched, Switched, HasSaved, Foundation
  <2>2. /\ local'[c].saved # "smm"
        /\ HasSaved("foundation", local'[c].then, ConfigureMtrrs) => local'[c].saved = "os"
    BY <1>2, <2>1 DEF Mtrrs
  <2> QED BY <1>2, <2>1, <2>2, MtrrsKeep
<1>10. Ran(tasks)
  BY <1>2 DEF Procedures, Starting
<1>11. Ran(tasks)'
  BY <1>2, <1>10 DEF Ran
<1>13. \A x \in Cpus : pc'[x] \notin Starting
  BY <1>3, <1>6 DEF Starting
<1> QED BY <1>7, <1>8, <1>9, <1>11, <1>13 DEF Procedures

(* The AP runs it, for the first time.                                       *)
LEMMA ApRunSide ==
  ASSUME Typed, Led, PresentIs, Mtrrs, Procedures, RestoringStays, Election, LateStart,
         BlockStartup, ConfigureMtrrs \in BOOLEAN, NEW c \in Cpus, ApRun(c),
         UNCHANGED config
  PROVE  Typed' /\ PresentIs' /\ Mtrrs' /\ Procedures'
<1>1. /\ data \in [Cpus -> Datum] /\ local \in [Cpus -> Vars] /\ pc \in [Cpus -> Labels]
      /\ tasks \in Nat /\ runs \in [Tasks -> Nat]
  BY DEF Typed
<1>2. /\ pc[c] = "ap_run" /\ Goto(c, "ap_free") /\ "ap_free" \in Labels
      /\ UNCHANGED <<config, mtrr, tasks, counter, bspIndex, current, insideSmm, local, data>>
      /\ runs' = [t \in Tasks |-> IF t = data[c].procedure THEN runs[t] + 1 ELSE runs[t]]
  BY DEF ApRun, At, shared, Labels
<1>3. PICK b \in Cpus : /\ bspIndex = b /\ c # b /\ pc[b] = "startup_wait" /\ local[b].ap = c
                        /\ data[c].busy
  BY <1>2, RunningIs
<1>4. \A x \in Cpus \ {b} : pc[x] \notin Starting
  BY <1>3, StartingIs DEF Starting
<1>5. tasks > 0 /\ data[c].procedure = tasks /\ Ran(tasks - 1)
  BY <1>2, <1>3 DEF Procedures, Starting
<1>6. pc' \in [Cpus -> Labels] /\ pc'[c] = "ap_free"
      /\ \A x \in Cpus : x # c => pc'[x] = pc[x]
  BY <1>1, <1>2, GotoIs
<1>7. Typed'
  <2>1. runs' \in [Tasks -> Nat]
    BY <1>1, <1>2
  <2> QED BY <1>1, <1>2, <2>1, TypedKeeps DEF Typed
<1>8. PresentIs'
  BY <1>2, PresentKeeps DEF Absent, Gone
<1>9. Mtrrs'
  <2>1. /\ Switched("ap_free", local'[c].then, ConfigureMtrrs) <=> IsSwitched(c)
        /\ HasSaved("ap_free", local'[c].then, ConfigureMtrrs) =>
             HasSaved(pc[c], local[c].then, ConfigureMtrrs)
    BY <1>2 DEF IsSwitched, Switched, HasSaved, Foundation
  <2>2. /\ local'[c].saved # "smm"
        /\ HasSaved("ap_free", local'[c].then, ConfigureMtrrs) => local'[c].saved = "os"
    BY <1>2, <2>1 DEF Mtrrs
  <2> QED BY <1>2, <2>1, <2>2, MtrrsKeep
<1>10. Ran(tasks)'
  <2>1. ASSUME NEW t \in Tasks
        PROVE  runs'[t] = IF t <= tasks THEN 1 ELSE 0
    <3>1. t \in Int /\ runs[t] = (IF t <= tasks - 1 THEN 1 ELSE 0)
      BY <1>5, RendezvousAssumption DEF Ran, Tasks
    <3>2. runs'[t] = IF t = tasks THEN runs[t] + 1 ELSE runs[t]
      BY <1>2, <1>5
    <3> QED BY <1>1, <3>1, <3>2
  <2> QED BY <1>2, <2>1 DEF Ran
<1>13. \A x \in Cpus : pc'[x] \in Starting => x = b
  BY <1>4, <1>6 DEF Starting
<1> QED BY <1>2, <1>3, <1>5, <1>6, <1>7, <1>8, <1>9, <1>10, <1>13 DEF Procedures

(* The AP is free again.                                                     *)
LEMMA ApFreeSide ==
  ASSUME Typed, Led, PresentIs, Mtrrs, Procedures, RestoringStays, Election, LateStart,
         BlockStartup, ConfigureMtrrs \in BOOLEAN, NEW c \in Cpus, ApFree(c),
         UNCHANGED config
  PROVE  Typed' /\ PresentIs' /\ Mtrrs' /\ Procedures'
<1>1. /\ data \in [Cpus -> Datum] /\ local \in [Cpus -> Vars] /\ pc \in [Cpus -> Labels]
      /\ tasks \in Nat
  BY DEF Typed
<1>2. /\ pc[c] = "ap_free" /\ Goto(c, "ap_idle") /\ "ap_idle" \in Labels
      /\ UNCHANGED <<config, mtrr, runs, tasks, counter, bspIndex, current, insideSmm, local>>
      /\ Set(c, "busy", FALSE)
  BY DEF ApFree, At, Keep, shared, Labels
<1>3. PICK b \in Cpus : /\ bspIndex = b /\ c # b /\ pc[b] = "startup_wait" /\ local[b].ap = c
                        /\ data[c].busy
  BY <1>2, RunningIs
<1>4. \A x \in Cpus \ {b} : pc[x] \notin Starting
  BY <1>3, StartingIs DEF Starting
<1>5. tasks > 0 /\ Ran(tasks)
  BY <1>2, <1>3 DEF Procedures, Starting
<1>14. /\ data' \in [Cpus -> Datum] /\ data'[c].present = data[c].present
       /\ ~data'[c].busy /\ \A x \in Cpus : x # c => data'[x] = data[x]
  BY <1>1, <1>2, BusySet
<1>6. pc' \in [Cpus -> Labels] /\ pc'[c] = "ap_idle"
      /\ \A x \in Cpus : x # c => pc'[x] = pc[x]
  BY <1>1, <1>2, GotoIs
<1>7. Typed'
  BY <1>1, <1>2, <1>14, TypedKeeps DEF Typed
<1>8. PresentIs'
  BY <1>2, <1>14, PresentKeeps DEF Absent, Gone
<1>9. Mtrrs'
  <2>1. /\ Switched("ap_idle", local'[c].then, ConfigureMtrrs) <=> IsSwitched(c)
        /\ HasSaved("ap_idle", local'[c].then, ConfigureMtrrs) =>
             HasSaved(pc[c], local[c].then, ConfigureMtrrs)
    BY <1>2 DEF IsSwitched, Switched, HasSaved, Foundation
  <2>2. /\ local'[c].saved # "smm"
        /\ HasSaved("ap_idle", local'[c].then, ConfigureMtrrs) => local'[c].saved = "os"
    BY <1>2, <2>1 DEF Mtrrs
  <2> QED BY <1>2, <2>1, <2>2, MtrrsKeep
<1>10. Ran(tasks)'
  BY <1>2, <1>5 DEF Ran
<1>13. \A x \in Cpus : pc'[x] \in Starting => x = b
  BY <1>4, <1>6 DEF Starting
<1> QED BY <1>2, <1>3, <1>5, <1>6, <1>7, <1>8, <1>9, <1>10, <1>13, <1>14 DEF Procedures

(* Whatever is done, types, presence, MTRRs and procedures stay as they      *)
(* should.                                                                   *)
LEMMA SideSteps ==
  ASSUME Typed, Led, PresentIs, Mtrrs, Procedures, RestoringStays, Election, LateStart,
         BlockStartup, ConfigureMtrrs \in BOOLEAN, NEW c \in Cpus, AllActions(c), UNCHANGED config
  PROVE  Typed' /\ PresentIs' /\ Mtrrs' /\ Procedures'
<1>1. /\ data \in [Cpus -> Datum] /\ local \in [Cpus -> Vars] /\ pc \in [Cpus -> Labels]
      /\ mtrr \in [Cores -> {"os", "smm"}] /\ counter \in Int /\ tasks \in 0 .. MaxTasks
      /\ insideSmm \in BOOLEAN /\ bspIndex \in Cpus \cup {NoCpu} /\ current \in Cpus
      /\ runs \in [Tasks -> Nat]
  BY DEF Typed
<1>2. /\ local[c] \in Vars /\ local[c].aps \in Int /\ local[c].left \in Int
      /\ local[c].todo \subseteq Cpus
      /\ \A d \in Cpus : data[d].run \in Nat
  BY <1>1 DEF Vars, Datum
<1>3. /\ Core[c] \in Cores /\ mtrr[Core[c]] \in {"os", "smm"}
  BY <1>1 DEF Cores
<1>4. /\ local[c].saved # "smm"
      /\ HasSaved(pc[c], local[c].then, ConfigureMtrrs) => local[c].saved = "os"
      /\ ConfigureMtrrs' = ConfigureMtrrs
  BY DEF Mtrrs, ConfigureMtrrs
<1>5. CASE TakeSmi(c)
  <2>1. pc[c] = "out" /\ Goto(c, "arrive")
    BY <1>5 DEF TakeSmi, At
  <2>2. PICK l \in Labels : l = "arrive"
    BY DEF Labels
  <2>3. UNCHANGED <<mtrr, tasks, runs>>
    BY <1>5 DEF TakeSmi, Keep
  <2>4. UNCHANGED <<counter, bspIndex, current, insideSmm>>
    BY <1>5 DEF TakeSmi, shared
  <2>5. /\ data' \in [Cpus -> Datum] /\ \A y \in Cpus : data'[y].present = data[y].present
        /\ \A y \in Cpus : data'[y].busy = data[y].busy /\ data'[y].procedure = data[y].procedure
    <3>1. data' = data
      BY <1>5 DEF TakeSmi
    <3> QED BY <1>1, <3>1
  <2>6. local' = local
    BY <1>5 DEF TakeSmi
  <2>7. /\ l \in Absent <=> pc[c] \in Absent
        /\ pc[c] \notin Starting /\ l \notin Starting /\ (l = "ap_free" <=> pc[c] = "ap_free")
    BY <2>1, <2>2 DEF Absent, Gone, Starting
  <2>8. /\ Switched(l, local'[c].then, ConfigureMtrrs) <=> Switched(pc[c], local[c].then,
             ConfigureMtrrs)
        /\ HasSaved(l, local'[c].then, ConfigureMtrrs) =>
             HasSaved(pc[c], local[c].then, ConfigureMtrrs)
    BY <2>1, <2>2, <2>6 DEF Switched, HasSaved, Foundation
  <2>9. Goto(c, l)
    BY <2>1, <2>2
  <2>10. /\ counter' \in Int /\ insideSmm' \in BOOLEAN /\ bspIndex' \in Cpus \cup {NoCpu}
         /\ current' \in Cpus
    BY <1>1, <2>4
  <2>11. local' \in [Cpus -> Vars] /\ local'[c].saved = local[c].saved
         /\ \A y \in Cpus : y # c => local'[y] = local[y]
    BY <1>1, <2>6
  <2> QED BY <2>3, <2>5, <2>7, <2>8, <2>9, <2>10, <2>11, SideKeeps
<1>6. CASE Arrive(c)
  <2>1. PICK l \in {"exit", "present"} : Goto(c, l)
    BY <1>6 DEF Arrive
  <2>2. pc[c] = "arrive" /\ counter' \in Int
        /\ UNCHANGED <<mtrr, tasks, runs, bspIndex, current, insideSmm, data, local>>
    BY <1>6, <1>1 DEF Arrive, At, Keep
  <2>3. l \in Labels
    BY DEF Labels
  <2>4. /\ l \in Absent <=> pc[c] \in Absent
        /\ pc[c] \notin Starting /\ l \notin Starting /\ (l = "ap_free" <=> pc[c] = "ap_free")
    BY <2>2 DEF Absent, Gone, Starting
  <2>5. /\ Switched(l, local'[c].then, ConfigureMtrrs) <=> Switched(pc[c], local[c].then,
             ConfigureMtrrs)
        /\ HasSaved(l, local'[c].then, ConfigureMtrrs) =>
             HasSaved(pc[c], local[c].then, ConfigureMtrrs)
    BY <2>2 DEF Switched, HasSaved, Foundation
  <2> QED BY <1>1, <2>1, <2>2, <2>3, <2>4, <2>5, SideKeeps
<1>7. CASE Elect(c)
  <2>1. pc[c] = "elect" /\ Goto(c, "role")
    BY <1>7 DEF Elect, At
  <2>2. PICK l \in Labels : l = "role"
    BY DEF Labels
  <2>3. UNCHANGED <<mtrr, tasks, runs>>
    BY <1>7 DEF Elect, Keep
  <2>4. bspIndex' \in Cpus \cup {NoCpu} /\ UNCHANGED <<counter, current, insideSmm>>
    BY <1>7, <1>1 DEF Elect, shared
  <2>5. /\ data' \in [Cpus -> Datum] /\ \A y \in Cpus : data'[y].present = data[y].present
        /\ \A y \in Cpus : data'[y].busy = data[y].busy /\ data'[y].procedure = data[y].procedure
    <3>1. data' = data
      BY <1>7 DEF Elect
    <3> QED BY <1>1, <3>1
  <2>6. local' = local
    BY <1>7 DEF Elect
  <2>7. /\ l \in Absent <=> pc[c] \in Absent
        /\ pc[c] \notin Starting /\ l \notin Starting /\ (l = "ap_free" <=> pc[c] = "ap_free")
    BY <2>1, <2>2 DEF Absent, Gone, Starting
  <2>8. /\ Switched(l, local'[c].then, ConfigureMtrrs) <=> Switched(pc[c], local[c].then,
             ConfigureMtrrs)
        /\ HasSaved(l, local'[c].then, ConfigureMtrrs) =>
             HasSaved(pc[c], local[c].then, ConfigureMtrrs)
    BY <2>1, <2>2, <2>6 DEF Switched, HasSaved, Foundation
  <2>9. Goto(c, l)
    BY <2>1, <2>2
  <2>10. /\ counter' \in Int /\ insideSmm' \in BOOLEAN /\ bspIndex' \in Cpus \cup {NoCpu}
         /\ current' \in Cpus
    BY <1>1, <2>4
  <2>11. local' \in [Cpus -> Vars] /\ local'[c].saved = local[c].saved
         /\ \A y \in Cpus : y # c => local'[y] = local[y]
    BY <1>1, <2>6
  <2> QED BY <2>3, <2>5, <2>7, <2>8, <2>9, <2>10, <2>11, SideKeeps
<1>8. CASE Role(c)
  <2>1. pc[c] = "role" /\ Goto(c, (IF bspIndex = c THEN "bsp" ELSE "ap"))
    BY <1>8 DEF Role, At
  <2>2. PICK l \in Labels : l = (IF bspIndex = c THEN "bsp" ELSE "ap")
    BY DEF Labels
  <2>3. UNCHANGED <<mtrr, tasks, runs>>
    BY <1>8 DEF Role, Keep
  <2>4. UNCHANGED <<counter, bspIndex, current, insideSmm>>
    BY <1>8 DEF Role, shared
  <2>5. /\ data' \in [Cpus -> Datum] /\ \A y \in Cpus : data'[y].present = data[y].present
        /\ \A y \in Cpus : data'[y].busy = data[y].busy /\ data'[y].procedure = data[y].procedure
    <3>1. data' = data
      BY <1>8 DEF Role
    <3> QED BY <1>1, <3>1
  <2>6. local' = local
    BY <1>8 DEF Role
  <2>7. /\ l \in Absent <=> pc[c] \in Absent
        /\ pc[c] \notin Starting /\ l \notin Starting /\ (l = "ap_free" <=> pc[c] = "ap_free")
    BY <2>1, <2>2 DEF Absent, Gone, Starting
  <2>8. /\ Switched(l, local'[c].then, ConfigureMtrrs) <=> Switched(pc[c], local[c].then,
             ConfigureMtrrs)
        /\ HasSaved(l, local'[c].then, ConfigureMtrrs) =>
             HasSaved(pc[c], local[c].then, ConfigureMtrrs)
    BY <2>1, <2>2, <2>6 DEF Switched, HasSaved, Foundation
  <2>9. Goto(c, l)
    BY <2>1, <2>2
  <2>10. /\ counter' \in Int /\ insideSmm' \in BOOLEAN /\ bspIndex' \in Cpus \cup {NoCpu}
         /\ current' \in Cpus
    BY <1>1, <2>4
  <2>11. local' \in [Cpus -> Vars] /\ local'[c].saved = local[c].saved
         /\ \A y \in Cpus : y # c => local'[y] = local[y]
    BY <1>1, <2>6
  <2> QED BY <2>3, <2>5, <2>7, <2>8, <2>9, <2>10, <2>11, SideKeeps
<1>9. CASE BspInside(c)
  <2>1. pc[c] = "bsp" /\ Goto(c, "bsp_sync")
    BY <1>9 DEF BspInside, At
  <2>2. PICK l \in Labels : l = "bsp_sync"
    BY DEF Labels
  <2>3. UNCHANGED <<mtrr, tasks, runs>>
    BY <1>9 DEF BspInside, Keep
  <2>4. current' \in Cpus /\ insideSmm' \in BOOLEAN /\ UNCHANGED <<counter, bspIndex>>
    BY <1>9, <1>1 DEF BspInside, shared
  <2>5. /\ data' \in [Cpus -> Datum] /\ \A y \in Cpus : data'[y].present = data[y].present
        /\ \A y \in Cpus : data'[y].busy = data[y].busy /\ data'[y].procedure = data[y].procedure
    <3>1. data' = data
      BY <1>9 DEF BspInside
    <3> QED BY <1>1, <3>1
  <2>6. local' = local
    BY <1>9 DEF BspInside
  <2>7. /\ l \in Absent <=> pc[c] \in Absent
        /\ pc[c] \notin Starting /\ l \notin Starting /\ (l = "ap_free" <=> pc[c] = "ap_free")
    BY <2>1, <2>2 DEF Absent, Gone, Starting
  <2>8. /\ Switched(l, local'[c].then, ConfigureMtrrs) <=> Switched(pc[c], local[c].then,
             ConfigureMtrrs)
        /\ HasSaved(l, local'[c].then, ConfigureMtrrs) =>
             HasSaved(pc[c], local[c].then, ConfigureMtrrs)
    BY <2>1, <2>2, <2>6 DEF Switched, HasSaved, Foundation
  <2>9. Goto(c, l)
    BY <2>1, <2>2
  <2>10. /\ counter' \in Int /\ insideSmm' \in BOOLEAN /\ bspIndex' \in Cpus \cup {NoCpu}
         /\ current' \in Cpus
    BY <1>1, <2>4
  <2>11. local' \in [Cpus -> Vars] /\ local'[c].saved = local[c].saved
         /\ \A y \in Cpus : y # c => local'[y] = local[y]
    BY <1>1, <2>6
  <2> QED BY <2>3, <2>5, <2>7, <2>8, <2>9, <2>10, <2>11, SideKeeps
<1>10. CASE BspSync(c)
  <2>1. pc[c] = "bsp_sync" /\ Goto(c, "bsp_check")
    BY <1>10 DEF BspSync, At
  <2>2. PICK l \in Labels : l = "bsp_check"
    BY DEF Labels
  <2>3. UNCHANGED <<mtrr, tasks, runs>>
    BY <1>10 DEF BspSync, Keep
  <2>4. UNCHANGED <<counter, bspIndex, current, insideSmm>>
    BY <1>10 DEF BspSync, shared
  <2>5. /\ data' \in [Cpus -> Datum] /\ \A y \in Cpus : data'[y].present = data[y].present
        /\ \A y \in Cpus : data'[y].busy = data[y].busy /\ data'[y].procedure = data[y].procedure
    <3>1. data' = data
      BY <1>10 DEF BspSync
    <3> QED BY <1>1, <3>1
  <2>6. local' = local
    BY <1>10 DEF BspSync
  <2>7. /\ l \in Absent <=> pc[c] \in Absent
        /\ pc[c] \notin Starting /\ l \notin Starting /\ (l = "ap_free" <=> pc[c] = "ap_free")
    BY <2>1, <2>2 DEF Absent, Gone, Starting
  <2>8. /\ Switched(l, local'[c].then, ConfigureMtrrs) <=> Switched(pc[c], local[c].then,
             ConfigureMtrrs)
        /\ HasSaved(l, local'[c].then, ConfigureMtrrs) =>
             HasSaved(pc[c], local[c].then, ConfigureMtrrs)
    BY <2>1, <2>2, <2>6 DEF Switched, HasSaved, Foundation
  <2>9. Goto(c, l)
    BY <2>1, <2>2
  <2>10. /\ counter' \in Int /\ insideSmm' \in BOOLEAN /\ bspIndex' \in Cpus \cup {NoCpu}
         /\ current' \in Cpus
    BY <1>1, <2>4
  <2>11. local' \in [Cpus -> Vars] /\ local'[c].saved = local[c].saved
         /\ \A y \in Cpus : y # c => local'[y] = local[y]
    BY <1>1, <2>6
  <2> QED BY <2>3, <2>5, <2>7, <2>8, <2>9, <2>10, <2>11, SideKeeps
<1>11. CASE BspCheck(c)
  <2>1. PICK l \in {"bsp_ipi", "bsp_in_sync"} : Goto(c, l)
    BY <1>11 DEF BspCheck
  <2>2. pc[c] = "bsp_check" /\ UNCHANGED <<mtrr, tasks, runs, counter, bspIndex, current,
          insideSmm, data>>
        /\ (local' = local \/ Local(c, "todo", Cpus))
    BY <1>11 DEF BspCheck, At, Keep, shared
  <2>3. l \in Labels
    BY DEF Labels
  <2>4. /\ l \in Absent <=> pc[c] \in Absent
        /\ pc[c] \notin Starting /\ l \notin Starting /\ (l = "ap_free" <=> pc[c] = "ap_free")
    BY <2>2 DEF Absent, Gone, Starting
  <2>5. /\ Switched(l, local'[c].then, ConfigureMtrrs) <=> Switched(pc[c], local[c].then,
             ConfigureMtrrs)
        /\ HasSaved(l, local'[c].then, ConfigureMtrrs) =>
             HasSaved(pc[c], local[c].then, ConfigureMtrrs)
    BY <2>2 DEF Switched, HasSaved, Foundation
  <2>6. /\ local' \in [Cpus -> Vars] /\ local'[c].saved = local[c].saved
        /\ \A y \in Cpus : y # c => local'[y] = local[y]
    <3>1. CASE local' = local
      BY <1>1, <3>1
    <3>2. CASE Local(c, "todo", Cpus)
      BY <1>1, <3>2, TodoSet
    <3> QED BY <2>2, <3>1, <3>2
  <2> QED BY <1>1, <2>1, <2>2, <2>3, <2>4, <2>5, <2>6, SideKeeps
<1>12. CASE SendSmiIpis(c)
  <2>1. pc[c] = "bsp_ipi" /\ UNCHANGED <<mtrr, tasks, runs, counter, bspIndex, current,
          insideSmm, data>>
    BY <1>12 DEF SendSmiIpis, At, shared
  <2>2. \/ Goto(c, "bsp_sync_again") /\ local' = local
        \/ UNCHANGED pc /\ \E d \in local[c].todo : Local(c, "todo", local[c].todo \ {d})
    BY <1>12 DEF SendSmiIpis
  <2>3. PICK l \in {"bsp_ipi", "bsp_sync_again"} : Goto(c, l)
    BY <1>1, <2>1, <2>2 DEF Goto
  <2>4. l \in Labels
    BY DEF Labels
  <2>5. /\ local' \in [Cpus -> Vars] /\ local'[c].saved = local[c].saved
        /\ \A y \in Cpus : y # c => local'[y] = local[y]
    <3>1. CASE local' = local
      BY <1>1, <3>1
    <3>2. ASSUME NEW d \in local[c].todo, Local(c, "todo", local[c].todo \ {d})
          PROVE  (/\ local' \in [Cpus -> Vars] /\ local'[c].saved = local[c].saved
                 /\ \A y \in Cpus : y # c => local'[y] = local[y])
      <4>1. PICK S \in SUBSET Cpus : S = local[c].todo \ {d}
        BY <1>2
      <4>2. Local(c, "todo", S)
        BY <3>2, <4>1
      <4> QED BY <1>1, <4>2, TodoSet
    <3> QED BY <2>2, <3>1, <3>2
  <2>6. /\ l \in Absent <=> pc[c] \in Absent
        /\ pc[c] \notin Starting /\ l \notin Starting /\ (l = "ap_free" <=> pc[c] = "ap_free")
    BY <2>1 DEF Absent, Gone, Starting
  <2>7. /\ Switched(l, local'[c].then, ConfigureMtrrs) <=> Switched(pc[c], local[c].then,
             ConfigureMtrrs)
        /\ HasSaved(l, local'[c].then, ConfigureMtrrs) =>
             HasSaved(pc[c], local[c].then, ConfigureMtrrs)
    BY <2>1 DEF Switched, HasSaved, Foundation
  <2> QED BY <1>1, <2>1, <2>3, <2>4, <2>5, <2>6, <2>7, SideKeeps
<1>13. CASE BspSyncAgain(c)
  <2>1. pc[c] = "bsp_sync_again" /\ Goto(c, "bsp_in_sync")
    BY <1>13 DEF BspSyncAgain, At
  <2>2. PICK l \in Labels : l = "bsp_in_sync"
    BY DEF Labels
  <2>3. UNCHANGED <<mtrr, tasks, runs>>
    BY <1>13 DEF BspSyncAgain, Keep
  <2>4. UNCHANGED <<counter, bspIndex, current, insideSmm>>
    BY <1>13 DEF BspSyncAgain, shared
  <2>5. /\ data' \in [Cpus -> Datum] /\ \A y \in Cpus : data'[y].present = data[y].present
        /\ \A y \in Cpus : data'[y].busy = data[y].busy /\ data'[y].procedure = data[y].procedure
    <3>1. data' = data
      BY <1>13 DEF BspSyncAgain
    <3> QED BY <1>1, <3>1
  <2>6. local' = local
    BY <1>13 DEF BspSyncAgain
  <2>7. /\ l \in Absent <=> pc[c] \in Absent
        /\ pc[c] \notin Starting /\ l \notin Starting /\ (l = "ap_free" <=> pc[c] = "ap_free")
    BY <2>1, <2>2 DEF Absent, Gone, Starting
  <2>8. /\ Switched(l, local'[c].then, ConfigureMtrrs) <=> Switched(pc[c], local[c].then,
             ConfigureMtrrs)
        /\ HasSaved(l, local'[c].then, ConfigureMtrrs) =>
             HasSaved(pc[c], local[c].then, ConfigureMtrrs)
    BY <2>1, <2>2, <2>6 DEF Switched, HasSaved, Foundation
  <2>9. Goto(c, l)
    BY <2>1, <2>2
  <2>10. /\ counter' \in Int /\ insideSmm' \in BOOLEAN /\ bspIndex' \in Cpus \cup {NoCpu}
         /\ current' \in Cpus
    BY <1>1, <2>4
  <2>11. local' \in [Cpus -> Vars] /\ local'[c].saved = local[c].saved
         /\ \A y \in Cpus : y # c => local'[y] = local[y]
    BY <1>1, <2>6
  <2> QED BY <2>3, <2>5, <2>7, <2>8, <2>9, <2>10, <2>11, SideKeeps
<1>14. CASE BspInSync(c)
  <2>1. pc[c] = "bsp_in_sync" /\ Goto(c, "bsp_lock")
    BY <1>14 DEF BspInSync, At
  <2>2. PICK l \in Labels : l = "bsp_lock"
    BY DEF Labels
  <2>3. UNCHANGED <<mtrr, tasks, runs>>
    BY <1>14 DEF BspInSync, Keep
  <2>4. UNCHANGED <<counter, bspIndex, current, insideSmm>>
    BY <1>14 DEF BspInSync, shared
  <2>5. /\ data' \in [Cpus -> Datum] /\ \A y \in Cpus : data'[y].present = data[y].present
        /\ \A y \in Cpus : data'[y].busy = data[y].busy /\ data'[y].procedure = data[y].procedure
    <3>1. data' = data
      BY <1>14 DEF BspInSync
    <3> QED BY <1>1, <3>1
  <2>6. local' = local
    BY <1>14 DEF BspInSync
  <2>7. /\ l \in Absent <=> pc[c] \in Absent
        /\ pc[c] \notin Starting /\ l \notin Starting /\ (l = "ap_free" <=> pc[c] = "ap_free")
    BY <2>1, <2>2 DEF Absent, Gone, Starting
  <2>8. /\ Switched(l, local'[c].then, ConfigureMtrrs) <=> Switched(pc[c], local[c].then,
             ConfigureMtrrs)
        /\ HasSaved(l, local'[c].then, ConfigureMtrrs) =>
             HasSaved(pc[c], local[c].then, ConfigureMtrrs)
    BY <2>1, <2>2, <2>6 DEF Switched, HasSaved, Foundation
  <2>9. Goto(c, l)
    BY <2>1, <2>2
  <2>10. /\ counter' \in Int /\ insideSmm' \in BOOLEAN /\ bspIndex' \in Cpus \cup {NoCpu}
         /\ current' \in Cpus
    BY <1>1, <2>4
  <2>11. local' \in [Cpus -> Vars] /\ local'[c].saved = local[c].saved
         /\ \A y \in Cpus : y # c => local'[y] = local[y]
    BY <1>1, <2>6
  <2> QED BY <2>3, <2>5, <2>7, <2>8, <2>9, <2>10, <2>11, SideKeeps
<1>15. CASE BspLock(c)
  <2>1. pc[c] = "bsp_lock" /\ Goto(c, "wait")
    BY <1>15 DEF BspLock, At, Locked
  <2>2. PICK l \in Labels : l = "wait"
    BY DEF Labels
  <2>3. UNCHANGED <<mtrr, tasks, runs>>
    BY <1>15 DEF BspLock, Keep, Locked
  <2>4. counter' \in Int /\ UNCHANGED <<bspIndex, current, insideSmm>>
    BY <1>15, <1>1 DEF BspLock, shared, Locked
  <2>5. /\ data' \in [Cpus -> Datum] /\ \A y \in Cpus : data'[y].present = data[y].present
        /\ \A y \in Cpus : data'[y].busy = data[y].busy /\ data'[y].procedure = data[y].procedure
    <3>1. data' = data
      BY <1>15 DEF BspLock, Locked
    <3> QED BY <1>1, <3>1
  <2>6. /\ local' \in [Cpus -> Vars] /\ local'[c].saved = local[c].saved /\
             local'[c].then = (IF ConfigureMtrrs THEN "bsp_save" ELSE "bsp_busy")
        /\ \A y \in Cpus : y # c => local'[y] = local[y]
    <3>1. PICK k \in Int : k = counter - 1
      BY <1>1
    <3>2. PICK t \in Nexts : t = (IF ConfigureMtrrs THEN "bsp_save" ELSE "bsp_busy")
      BY DEF Nexts
    <3>3. local' = [local EXCEPT ![c].aps = counter - 1, ![c].left = counter - 1,
            ![c].then = (IF ConfigureMtrrs THEN "bsp_save" ELSE "bsp_busy")]
      BY <1>15 DEF BspLock
    <3>4. Locks(c, k, k, t)
      BY <3>1, <3>2, <3>3 DEF Locks
    <3>9. Locks(c, k, k, t) /\ t = (IF ConfigureMtrrs THEN "bsp_save" ELSE "bsp_busy")
      BY <3>2, <3>4
    <3> QED BY <1>1, <3>9, LockSet
  <2>7. /\ l \in Absent <=> pc[c] \in Absent
        /\ pc[c] \notin Starting /\ l \notin Starting /\ (l = "ap_free" <=> pc[c] = "ap_free")
    BY <2>1, <2>2 DEF Absent, Gone, Starting
  <2>8. /\ Switched(l, local'[c].then, ConfigureMtrrs) <=> Switched(pc[c], local[c].then,
             ConfigureMtrrs)
        /\ HasSaved(l, local'[c].then, ConfigureMtrrs) =>
             HasSaved(pc[c], local[c].then, ConfigureMtrrs)
    BY <2>1, <2>2, <2>6 DEF Switched, HasSaved, Foundation
  <2>9. Goto(c, l)
    BY <2>1, <2>2
  <2>10. /\ counter' \in Int /\ insideSmm' \in BOOLEAN /\ bspIndex' \in Cpus \cup {NoCpu}
         /\ current' \in Cpus
    BY <1>1, <2>4
  <2>11. local' \in [Cpus -> Vars] /\ local'[c].saved = local[c].saved
         /\ \A y \in Cpus : y # c => local'[y] = local[y]
    BY <1>1, <2>6
  <2> QED BY <2>3, <2>5, <2>7, <2>8, <2>9, <2>10, <2>11, SideKeeps
<1>16. CASE BspSave(c)
  <2>1. pc[c] = "bsp_save" /\ Goto(c, "release")
    BY <1>16 DEF BspSave, At, ReleaseAllAPs
  <2>2. PICK l \in Labels : l = "release"
    BY DEF Labels
  <2>3. UNCHANGED <<mtrr, tasks, runs>>
    BY <1>16 DEF BspSave, Keep, ReleaseAllAPs
  <2>4. UNCHANGED <<counter, bspIndex, current, insideSmm>>
    BY <1>16 DEF BspSave, shared, ReleaseAllAPs
  <2>5. /\ data' \in [Cpus -> Datum] /\ \A y \in Cpus : data'[y].present = data[y].present
        /\ \A y \in Cpus : data'[y].busy = data[y].busy /\ data'[y].procedure = data[y].procedure
    <3>1. data' = data
      BY <1>16 DEF BspSave, ReleaseAllAPs
    <3> QED BY <1>1, <3>1
  <2>6. /\ local' \in [Cpus -> Vars] /\ local'[c].saved = local[c].saved /\
             local'[c].then = "bsp_saved"
        /\ \A y \in Cpus : y # c => local'[y] = local[y]
    <3>1. PICK S \in SUBSET Cpus : S = Cpus \ {current}
      OBVIOUS
    <3>2. PICK t \in Nexts : t = "bsp_saved"
      BY DEF Nexts
    <3>3. local' = [local EXCEPT ![c].todo = Cpus \ {current}, ![c].then = "bsp_saved"]
      BY <1>16 DEF BspSave, ReleaseAllAPs
    <3>4. Calls(c, S, t)
      BY ONLY <3>1, <3>2, <3>3 DEF Calls
    <3>9. Calls(c, S, t) /\ t = "bsp_saved"
      BY <3>2, <3>4
    <3> QED BY <1>1, <3>9, CallSet
  <2>7. /\ l \in Absent <=> pc[c] \in Absent
        /\ pc[c] \notin Starting /\ l \notin Starting /\ (l = "ap_free" <=> pc[c] = "ap_free")
    BY <2>1, <2>2 DEF Absent, Gone, Starting
  <2>8. /\ Switched(l, local'[c].then, ConfigureMtrrs) <=> Switched(pc[c], local[c].then,
             ConfigureMtrrs)
        /\ HasSaved(l, local'[c].then, ConfigureMtrrs) =>
             HasSaved(pc[c], local[c].then, ConfigureMtrrs)
    BY <2>1, <2>2, <2>6 DEF Switched, HasSaved, Foundation
  <2>9. Goto(c, l)
    BY <2>1, <2>2
  <2>10. /\ counter' \in Int /\ insideSmm' \in BOOLEAN /\ bspIndex' \in Cpus \cup {NoCpu}
         /\ current' \in Cpus
    BY <1>1, <2>4
  <2>11. local' \in [Cpus -> Vars] /\ local'[c].saved = local[c].saved
         /\ \A y \in Cpus : y # c => local'[y] = local[y]
    BY <1>1, <2>6
  <2> QED BY <2>3, <2>5, <2>7, <2>8, <2>9, <2>10, <2>11, SideKeeps
<1>17. CASE BspSaved(c)
  <2>1. pc[c] = "bsp_saved" /\ Goto(c, "wait") /\ "wait" \in Labels
        /\ UNCHANGED <<mtrr, tasks, runs, counter, bspIndex, current, insideSmm, data>>
    BY <1>17 DEF BspSaved, At, Keep, shared, Labels
  <2>2. mtrr[Core[c]] = "os"
    <3>1. bspIndex = c /\ Session(c, Now(c))
      BY <2>1, LeaderOf DEF LeaderLabels
    <3>2. Now(c) = "save"
      BY <2>1, <3>1 DEF Session, Leads, Now, Phase, Open, Closing, Foundation
    <3> QED BY <3>1, <3>2, SavesOs
  <2>3. /\ local' \in [Cpus -> Vars] /\ local'[c].saved = "os" /\ local'[c].then = "bsp_replace"
        /\ \A y \in Cpus : y # c => local'[y] = local[y]
    <3>1. PICK k \in Int : k = local[c].aps
      BY <1>2
    <3>2. PICK t \in Nexts : t = "bsp_replace"
      BY DEF Nexts
    <3>3. PICK v \in {"none", "os", "smm"} : v = mtrr[Core[c]]
      BY <1>3
    <3>4. local' = [local EXCEPT ![c].saved = mtrr[Core[c]], ![c].left = local[c].aps,
            ![c].then = "bsp_replace"]
      BY <1>17 DEF BspSaved
    <3>5. Saves(c, v, k, t)
      BY ONLY <3>1, <3>2, <3>3, <3>4 DEF Saves
    <3> QED BY <1>1, <2>2, <3>2, <3>3, <3>5, SaveSet
  <2>4. Typed'
    BY <1>1, <2>1, <2>3, TypedKeeps
  <2>5. PresentIs' /\ Procedures'
    <3>1. /\ "wait" \in Absent <=> pc[c] \in Absent
          /\ pc[c] \notin Starting /\ "wait" \notin Starting /\ ("wait" = "ap_free" <=>
               pc[c] = "ap_free")
      BY <2>1 DEF Absent, Gone, Starting
    <3> QED BY <2>1, <2>3, <3>1, PresentKeeps, ProceduresKeep
  <2>6. Switched("wait", local'[c].then, ConfigureMtrrs) <=> IsSwitched(c)
    BY <2>1, <2>3 DEF IsSwitched, Switched, Foundation
  <2>7. Mtrrs'
    BY <2>1, <2>3, <2>6, MtrrsKeep
  <2> QED BY <2>4, <2>5, <2>7
<1>18. CASE BspReplace(c)
  <2>1. pc[c] = "bsp_replace" /\ Goto(c, "release")
    BY <1>18 DEF BspReplace, At, ReleaseAllAPs
  <2>2. PICK l \in Labels : l = "release"
    BY DEF Labels
  <2>3. UNCHANGED <<mtrr, tasks, runs>>
    BY <1>18 DEF BspReplace, Keep, ReleaseAllAPs
  <2>4. UNCHANGED <<counter, bspIndex, current, insideSmm>>
    BY <1>18 DEF BspReplace, shared, ReleaseAllAPs
  <2>5. /\ data' \in [Cpus -> Datum] /\ \A y \in Cpus : data'[y].present = data[y].present
        /\ \A y \in Cpus : data'[y].busy = data[y].busy /\ data'[y].procedure = data[y].procedure
    <3>1. data' = data
      BY <1>18 DEF BspReplace, ReleaseAllAPs
    <3> QED BY <1>1, <3>1
  <2>6. /\ local' \in [Cpus -> Vars] /\ local'[c].saved = local[c].saved /\
             local'[c].then = "bsp_replaced"
        /\ \A y \in Cpus : y # c => local'[y] = local[y]
    <3>1. PICK S \in SUBSET Cpus : S = Cpus \ {current}
      OBVIOUS
    <3>2. PICK t \in Nexts : t = "bsp_replaced"
      BY DEF Nexts
    <3>3. local' = [local EXCEPT ![c].todo = Cpus \ {current}, ![c].then = "bsp_replaced"]
      BY <1>18 DEF BspReplace, ReleaseAllAPs
    <3>4. Calls(c, S, t)
      BY ONLY <3>1, <3>2, <3>3 DEF Calls
    <3>9. Calls(c, S, t) /\ t = "bsp_replaced"
      BY <3>2, <3>4
    <3> QED BY <1>1, <3>9, CallSet
  <2>7. /\ l \in Absent <=> pc[c] \in Absent
        /\ pc[c] \notin Starting /\ l \notin Starting /\ (l = "ap_free" <=> pc[c] = "ap_free")
    BY <2>1, <2>2 DEF Absent, Gone, Starting
  <2>8. /\ Switched(l, local'[c].then, ConfigureMtrrs) <=> Switched(pc[c], local[c].then,
             ConfigureMtrrs)
        /\ HasSaved(l, local'[c].then, ConfigureMtrrs) =>
             HasSaved(pc[c], local[c].then, ConfigureMtrrs)
    BY <2>1, <2>2, <2>6 DEF Switched, HasSaved, Foundation
  <2>9. Goto(c, l)
    BY <2>1, <2>2
  <2>10. /\ counter' \in Int /\ insideSmm' \in BOOLEAN /\ bspIndex' \in Cpus \cup {NoCpu}
         /\ current' \in Cpus
    BY <1>1, <2>4
  <2>11. local' \in [Cpus -> Vars] /\ local'[c].saved = local[c].saved
         /\ \A y \in Cpus : y # c => local'[y] = local[y]
    BY <1>1, <2>6
  <2> QED BY <2>3, <2>5, <2>7, <2>8, <2>9, <2>10, <2>11, SideKeeps
<1>19. CASE BspReplaced(c)
  <2>1. pc[c] = "bsp_replaced" /\ Goto(c, "wait") /\ "wait" \in Labels
        /\ UNCHANGED <<tasks, runs, counter, bspIndex, current, insideSmm, data>>
        /\ mtrr' = [mtrr EXCEPT ![Core[c]] = "smm"]
    BY <1>19 DEF BspReplaced, At, shared, Labels, WaitForAllAPs
  <2>2. /\ local' \in [Cpus -> Vars] /\ local'[c].saved = local[c].saved /\
             local'[c].then = "bsp_busy"
        /\ \A y \in Cpus : y # c => local'[y] = local[y]
    <3>1. PICK k \in Int : k = local[c].aps
      BY <1>2
    <3>2. PICK t \in Nexts : t = "bsp_busy"
      BY DEF Nexts
    <3>3. local' = [local EXCEPT ![c].left = local[c].aps, ![c].then = "bsp_busy"]
      BY <1>19 DEF BspReplaced, WaitForAllAPs
    <3>4. Awaits(c, k, t)
      BY ONLY <3>1, <3>2, <3>3 DEF Awaits
    <3> QED BY <1>1, <3>2, <3>4, AwaitSet
  <2>3. ConfigureMtrrs /\ Now(c) = "replace" /\ bspIndex = c
    <3>1. bspIndex = c /\ Session(c, Now(c))
      BY <2>1, LeaderOf DEF LeaderLabels
    <3>2. Now(c) = "replace"
      BY <2>1, <3>1 DEF Session, Leads, Now, Phase, Open, Closing, Foundation
    <3> QED BY <2>1, <3>1, <3>2 DEF Now, Phase
  <2>4. local[c].saved = "os" /\ HasSaved(pc[c], local[c].then, ConfigureMtrrs)
    <3>1. HasSaved(pc[c], local[c].then, ConfigureMtrrs)
      BY <2>1, <2>3 DEF HasSaved, Switched, Foundation
    <3> QED BY <1>4, <3>1
  <2>5. Typed'
    <3>1. mtrr' \in [Cores -> {"os", "smm"}]
      BY <1>1, <1>3, <2>1, <2>4
    <3> QED BY <1>1, <2>1, <2>2, <3>1, TypedKeeps
  <2>6. PresentIs' /\ Procedures'
    <3>1. /\ "wait" \in Absent <=> pc[c] \in Absent
          /\ pc[c] \notin Starting /\ "wait" \notin Starting /\ ("wait" = "ap_free" <=>
               pc[c] = "ap_free")
      BY <2>1 DEF Absent, Gone, Starting
    <3> QED BY <2>1, <2>2, <3>1, PresentKeeps, ProceduresKeep
  <2>8. Switched("wait", local'[c].then, ConfigureMtrrs) /\ local'[c].saved = "os"
    BY <2>2, <2>3, <2>4 DEF Switched
  <2>7. Mtrrs'
    BY <2>1, <2>2, <2>8, MtrrsReplaced
  <2> QED BY <2>5, <2>6, <2>7
<1>20. CASE BspBusy(c)
  <2>1. pc[c] = "bsp_busy" /\ Goto(c, "foundation")
    BY <1>20 DEF BspBusy, At
  <2>2. PICK l \in Labels : l = "foundation"
    BY DEF Labels
  <2>3. UNCHANGED <<mtrr, tasks, runs>>
    BY <1>20 DEF BspBusy, Keep
  <2>4. UNCHANGED <<counter, bspIndex, current, insideSmm>>
    BY <1>20 DEF BspBusy, shared
  <2>5. /\ data' \in [Cpus -> Datum] /\ \A y \in Cpus : data'[y].present = data[y].present
    <3>1. /\ data' \in [Cpus -> Datum] /\ data'[c].present = data[c].present
          /\ \A y \in Cpus : y # c => data'[y] = data[y]
      BY <1>1, <1>20, BusySet DEF BspBusy
    <3> QED BY <3>1
  <2>15. \A y \in Cpus : pc[y] \notin Starting
    <3>1. bspIndex = c /\ Session(c, Now(c))
      BY <2>1, LeaderOf DEF LeaderLabels, Ready
    <3>2. PICK p : p = Now(c)
      OBVIOUS
    <3>3. \A y \in Cpus \ {c} : pc[y] \in OtherLabels
      BY <3>1, <3>2, InPhase
    <3> QED BY <2>1, <3>3 DEF OtherLabels, Joining, Leaving, Gone, Knows, Starting
  <2>6. local' = local
    BY <1>20 DEF BspBusy
  <2>7. /\ l \in Absent <=> pc[c] \in Absent
        /\ pc[c] \notin Starting /\ l \notin Starting /\ (l = "ap_free" <=> pc[c] = "ap_free")
    BY <2>1, <2>2 DEF Absent, Gone, Starting
  <2>8. /\ Switched(l, local'[c].then, ConfigureMtrrs) <=> Switched(pc[c], local[c].then,
             ConfigureMtrrs)
        /\ HasSaved(l, local'[c].then, ConfigureMtrrs) =>
             HasSaved(pc[c], local[c].then, ConfigureMtrrs)
    BY <2>1, <2>2, <2>6 DEF Switched, HasSaved, Foundation
  <2>9. Goto(c, l)
    BY <2>1, <2>2
  <2>10. /\ counter' \in Int /\ insideSmm' \in BOOLEAN /\ bspIndex' \in Cpus \cup {NoCpu}
         /\ current' \in Cpus
    BY <1>1, <2>4
  <2>11. local' \in [Cpus -> Vars] /\ local'[c].saved = local[c].saved
         /\ \A y \in Cpus : y # c => local'[y] = local[y]
    BY <1>1, <2>6
  <2> QED BY <2>3, <2>5, <2>7, <2>8, <2>9, <2>10, <2>11, <2>15, SideKeeps
<1>21. CASE BspNotInside(c)
  <2>1. pc[c] = "foundation" /\ Goto(c, "bsp_dismiss")
    BY <1>21 DEF BspNotInside, At
  <2>2. PICK l \in Labels : l = "bsp_dismiss"
    BY DEF Labels
  <2>3. UNCHANGED <<mtrr, tasks, runs>>
    BY <1>21 DEF BspNotInside, Keep
  <2>4. insideSmm' \in BOOLEAN /\ UNCHANGED <<counter, bspIndex, current>>
    BY <1>21, <1>1 DEF BspNotInside, shared
  <2>5. /\ data' \in [Cpus -> Datum] /\ \A y \in Cpus : data'[y].present = data[y].present
        /\ \A y \in Cpus : data'[y].busy = data[y].busy /\ data'[y].procedure = data[y].procedure
    <3>1. data' = data
      BY <1>21 DEF BspNotInside
    <3> QED BY <1>1, <3>1
  <2>6. local' = local
    BY <1>21 DEF BspNotInside
  <2>7. /\ l \in Absent <=> pc[c] \in Absent
        /\ pc[c] \notin Starting /\ l \notin Starting /\ (l = "ap_free" <=> pc[c] = "ap_free")
    BY <2>1, <2>2 DEF Absent, Gone, Starting
  <2>8. /\ Switched(l, local'[c].then, ConfigureMtrrs) <=> Switched(pc[c], local[c].then,
             ConfigureMtrrs)
        /\ HasSaved(l, local'[c].then, ConfigureMtrrs) =>
             HasSaved(pc[c], local[c].then, ConfigureMtrrs)
    BY <2>1, <2>2, <2>6 DEF Switched, HasSaved, Foundation
  <2>9. Goto(c, l)
    BY <2>1, <2>2
  <2>10. /\ counter' \in Int /\ insideSmm' \in BOOLEAN /\ bspIndex' \in Cpus \cup {NoCpu}
         /\ current' \in Cpus
    BY <1>1, <2>4
  <2>11. local' \in [Cpus -> Vars] /\ local'[c].saved = local[c].saved
         /\ \A y \in Cpus : y # c => local'[y] = local[y]
    BY <1>1, <2>6
  <2> QED BY <2>3, <2>5, <2>7, <2>8, <2>9, <2>10, <2>11, SideKeeps
<1>22. CASE BspDismiss(c)
  <2>1. pc[c] = "bsp_dismiss" /\ Goto(c, "release")
    BY <1>22 DEF BspDismiss, At, ReleaseAllAPs
  <2>2. PICK l \in Labels : l = "release"
    BY DEF Labels
  <2>3. UNCHANGED <<mtrr, tasks, runs>>
    BY <1>22 DEF BspDismiss, Keep, ReleaseAllAPs
  <2>4. UNCHANGED <<counter, bspIndex, current, insideSmm>>
    BY <1>22 DEF BspDismiss, shared, ReleaseAllAPs
  <2>5. /\ data' \in [Cpus -> Datum] /\ \A y \in Cpus : data'[y].present = data[y].present
        /\ \A y \in Cpus : data'[y].busy = data[y].busy /\ data'[y].procedure = data[y].procedure
    <3>1. data' = data
      BY <1>22 DEF BspDismiss, ReleaseAllAPs
    <3> QED BY <1>1, <3>1
  <2>6. /\ local' \in [Cpus -> Vars] /\ local'[c].saved = local[c].saved /\
             local'[c].then = "bsp_pending"
        /\ \A y \in Cpus : y # c => local'[y] = local[y]
    <3>1. PICK S \in SUBSET Cpus : S = Cpus \ {current}
      OBVIOUS
    <3>2. PICK t \in Nexts : t = "bsp_pending"
      BY DEF Nexts
    <3>3. local' = [local EXCEPT ![c].todo = Cpus \ {current}, ![c].then = "bsp_pending"]
      BY <1>22 DEF BspDismiss, ReleaseAllAPs
    <3>4. Calls(c, S, t)
      BY ONLY <3>1, <3>2, <3>3 DEF Calls
    <3>9. Calls(c, S, t) /\ t = "bsp_pending"
      BY <3>2, <3>4
    <3> QED BY <1>1, <3>9, CallSet
  <2>7. /\ l \in Absent <=> pc[c] \in Absent
        /\ pc[c] \notin Starting /\ l \notin Starting /\ (l = "ap_free" <=> pc[c] = "ap_free")
    BY <2>1, <2>2 DEF Absent, Gone, Starting
  <2>8. /\ Switched(l, local'[c].then, ConfigureMtrrs) <=> Switched(pc[c], local[c].then,
             ConfigureMtrrs)
        /\ HasSaved(l, local'[c].then, ConfigureMtrrs) =>
             HasSaved(pc[c], local[c].then, ConfigureMtrrs)
    BY <2>1, <2>2, <2>6 DEF Switched, HasSaved, Foundation
  <2>9. Goto(c, l)
    BY <2>1, <2>2
  <2>10. /\ counter' \in Int /\ insideSmm' \in BOOLEAN /\ bspIndex' \in Cpus \cup {NoCpu}
         /\ current' \in Cpus
    BY <1>1, <2>4
  <2>11. local' \in [Cpus -> Vars] /\ local'[c].saved = local[c].saved
         /\ \A y \in Cpus : y # c => local'[y] = local[y]
    BY <1>1, <2>6
  <2> QED BY <2>3, <2>5, <2>7, <2>8, <2>9, <2>10, <2>11, SideKeeps
<1>23. CASE BspPending(c)
  <2>1. pc[c] = "bsp_pending" /\ Goto(c, "wait")
    BY <1>23 DEF BspPending, At, WaitForAllAPs
  <2>2. PICK l \in Labels : l = "wait"
    BY DEF Labels
  <2>3. UNCHANGED <<mtrr, tasks, runs>>
    BY <1>23 DEF BspPending, Keep, WaitForAllAPs
  <2>4. UNCHANGED <<counter, bspIndex, current, insideSmm>>
    BY <1>23 DEF BspPending, shared, WaitForAllAPs
  <2>5. /\ data' \in [Cpus -> Datum] /\ \A y \in Cpus : data'[y].present = data[y].present
        /\ \A y \in Cpus : data'[y].busy = data[y].busy /\ data'[y].procedure = data[y].procedure
    <3>1. data' = data
      BY <1>23 DEF BspPending, WaitForAllAPs
    <3> QED BY <1>1, <3>1
  <2>6. /\ local' \in [Cpus -> Vars] /\ local'[c].saved = local[c].saved /\
             local'[c].then = (IF ConfigureMtrrs THEN "bsp_restore" ELSE "bsp_reset")
        /\ \A y \in Cpus : y # c => local'[y] = local[y]
    <3>1. PICK k \in Int : k = local[c].aps
      BY <1>2
    <3>2. PICK t \in Nexts : t = (IF ConfigureMtrrs THEN "bsp_restore" ELSE "bsp_reset")
      BY DEF Nexts
    <3>3. local' = [local EXCEPT ![c].left = local[c].aps,
            ![c].then = (IF ConfigureMtrrs THEN "bsp_restore" ELSE "bsp_reset")]
      BY <1>23 DEF BspPending, WaitForAllAPs
    <3>4. Awaits(c, k, t)
      BY ONLY <3>1, <3>2, <3>3 DEF Awaits
    <3>9. Awaits(c, k, t) /\ t = (IF ConfigureMtrrs THEN "bsp_restore" ELSE "bsp_reset")
      BY <3>2, <3>4
    <3> QED BY <1>1, <3>9, AwaitSet
  <2>7. /\ l \in Absent <=> pc[c] \in Absent
        /\ pc[c] \notin Starting /\ l \notin Starting /\ (l = "ap_free" <=> pc[c] = "ap_free")
    BY <2>1, <2>2 DEF Absent, Gone, Starting
  <2>8. /\ Switched(l, local'[c].then, ConfigureMtrrs) <=> Switched(pc[c], local[c].then,
             ConfigureMtrrs)
        /\ HasSaved(l, local'[c].then, ConfigureMtrrs) =>
             HasSaved(pc[c], local[c].then, ConfigureMtrrs)
    BY <2>1, <2>2, <2>6 DEF Switched, HasSaved, Foundation
  <2>9. Goto(c, l)
    BY <2>1, <2>2
  <2>10. /\ counter' \in Int /\ insideSmm' \in BOOLEAN /\ bspIndex' \in Cpus \cup {NoCpu}
         /\ current' \in Cpus
    BY <1>1, <2>4
  <2>11. local' \in [Cpus -> Vars] /\ local'[c].saved = local[c].saved
         /\ \A y \in Cpus : y # c => local'[y] = local[y]
    BY <1>1, <2>6
  <2> QED BY <2>3, <2>5, <2>7, <2>8, <2>9, <2>10, <2>11, SideKeeps
<1>24. CASE BspRestore(c)
  <2>1. pc[c] = "bsp_restore" /\ Goto(c, "release")
    BY <1>24 DEF BspRestore, At, ReleaseAllAPs
  <2>2. PICK l \in Labels : l = "release"
    BY DEF Labels
  <2>3. UNCHANGED <<mtrr, tasks, runs>>
    BY <1>24 DEF BspRestore, Keep, ReleaseAllAPs
  <2>4. UNCHANGED <<counter, bspIndex, current, insideSmm>>
    BY <1>24 DEF BspRestore, shared, ReleaseAllAPs
  <2>5. /\ data' \in [Cpus -> Datum] /\ \A y \in Cpus : data'[y].present = data[y].present
        /\ \A y \in Cpus : data'[y].busy = data[y].busy /\ data'[y].procedure = data[y].procedure
    <3>1. data' = data
      BY <1>24 DEF BspRestore, ReleaseAllAPs
    <3> QED BY <1>1, <3>1
  <2>6. /\ local' \in [Cpus -> Vars] /\ local'[c].saved = local[c].saved /\
             local'[c].then = "bsp_restored"
        /\ \A y \in Cpus : y # c => local'[y] = local[y]
    <3>1. PICK S \in SUBSET Cpus : S = Cpus \ {current}
      OBVIOUS
    <3>2. PICK t \in Nexts : t = "bsp_restored"
      BY DEF Nexts
    <3>3. local' = [local EXCEPT ![c].todo = Cpus \ {current}, ![c].then = "bsp_restored"]
      BY <1>24 DEF BspRestore, ReleaseAllAPs
    <3>4. Calls(c, S, t)
      BY ONLY <3>1, <3>2, <3>3 DEF Calls
    <3>9. Calls(c, S, t) /\ t = "bsp_restored"
      BY <3>2, <3>4
    <3> QED BY <1>1, <3>9, CallSet
  <2>7. /\ l \in Absent <=> pc[c] \in Absent
        /\ pc[c] \notin Starting /\ l \notin Starting /\ (l = "ap_free" <=> pc[c] = "ap_free")
    BY <2>1, <2>2 DEF Absent, Gone, Starting
  <2>8. /\ Switched(l, local'[c].then, ConfigureMtrrs) <=> Switched(pc[c], local[c].then,
             ConfigureMtrrs)
        /\ HasSaved(l, local'[c].then, ConfigureMtrrs) =>
             HasSaved(pc[c], local[c].then, ConfigureMtrrs)
    BY <2>1, <2>2, <2>6 DEF Switched, HasSaved, Foundation
  <2>9. Goto(c, l)
    BY <2>1, <2>2
  <2>10. /\ counter' \in Int /\ insideSmm' \in BOOLEAN /\ bspIndex' \in Cpus \cup {NoCpu}
         /\ current' \in Cpus
    BY <1>1, <2>4
  <2>11. local' \in [Cpus -> Vars] /\ local'[c].saved = local[c].saved
         /\ \A y \in Cpus : y # c => local'[y] = local[y]
    BY <1>1, <2>6
  <2> QED BY <2>3, <2>5, <2>7, <2>8, <2>9, <2>10, <2>11, SideKeeps
<1>25. CASE BspRestored(c)
  <2>1. pc[c] = "bsp_restored" /\ Goto(c, "wait") /\ "wait" \in Labels
        /\ UNCHANGED <<tasks, runs, counter, bspIndex, current, insideSmm, data>>
        /\ mtrr' = [mtrr EXCEPT ![Core[c]] = local[c].saved]
    BY <1>25 DEF BspRestored, At, shared, Labels, WaitForAllAPs
  <2>2. /\ local' \in [Cpus -> Vars] /\ local'[c].saved = local[c].saved /\
             local'[c].then = "bsp_reset"
        /\ \A y \in Cpus : y # c => local'[y] = local[y]
    <3>1. PICK k \in Int : k = local[c].aps
      BY <1>2
    <3>2. PICK t \in Nexts : t = "bsp_reset"
      BY DEF Nexts
    <3>3. local' = [local EXCEPT ![c].left = local[c].aps, ![c].then = "bsp_reset"]
      BY <1>25 DEF BspRestored, WaitForAllAPs
    <3>4. Awaits(c, k, t)
      BY ONLY <3>1, <3>2, <3>3 DEF Awaits
    <3> QED BY <1>1, <3>2, <3>4, AwaitSet
  <2>3. ConfigureMtrrs /\ Now(c) = "restore" /\ bspIndex = c
    <3>1. bspIndex = c /\ Session(c, Now(c))
      BY <2>1, LeaderOf DEF LeaderLabels
    <3>2. Now(c) = "restore"
      BY <2>1, <3>1 DEF Session, Leads, Now, Phase, Open, Closing, Foundation
    <3> QED BY <2>1, <3>1, <3>2 DEF Now, Phase
  <2>13. Restoring
    BY <2>3, RendezvousAssumption DEF Restoring
  <2>4. local[c].saved = "os" /\ HasSaved(pc[c], local[c].then, ConfigureMtrrs)
    <3>1. HasSaved(pc[c], local[c].then, ConfigureMtrrs)
      BY <2>1, <2>3 DEF HasSaved, Switched, Foundation
    <3> QED BY <1>4, <3>1
  <2>5. Typed'
    <3>1. mtrr' \in [Cores -> {"os", "smm"}]
      BY <1>1, <1>3, <2>1, <2>4
    <3> QED BY <1>1, <2>1, <2>2, <3>1, TypedKeeps
  <2>6. PresentIs' /\ Procedures'
    <3>1. /\ "wait" \in Absent <=> pc[c] \in Absent
          /\ pc[c] \notin Starting /\ "wait" \notin Starting /\ ("wait" = "ap_free" <=>
               pc[c] = "ap_free")
      BY <2>1 DEF Absent, Gone, Starting
    <3> QED BY <2>1, <2>2, <3>1, PresentKeeps, ProceduresKeep
  <2>7. Mtrrs'
    BY <2>1, <2>2, <2>4, <2>13, MtrrsRestored
  <2> QED BY <2>5, <2>6, <2>7
<1>26. CASE BspReset(c)
  <2>1. pc[c] = "bsp_reset" /\ Goto(c, "bsp_reopen")
    BY <1>26 DEF BspReset, At
  <2>2. PICK l \in Labels : l = "bsp_reopen"
    BY DEF Labels
  <2>3. UNCHANGED <<mtrr, tasks, runs>>
    BY <1>26 DEF BspReset, Keep
  <2>4. bspIndex' \in Cpus \cup {NoCpu} /\ UNCHANGED <<counter, current, insideSmm>>
    BY <1>26, <1>1 DEF BspReset, shared
  <2>5. /\ data' \in [Cpus -> Datum] /\ \A y \in Cpus : data'[y].present = data[y].present
        /\ \A y \in Cpus : data'[y].busy = data[y].busy /\ data'[y].procedure = data[y].procedure
    <3>1. data' = data
      BY <1>26 DEF BspReset
    <3> QED BY <1>1, <3>1
  <2>6. local' = local
    BY <1>26 DEF BspReset
  <2>7. /\ l \in Absent <=> pc[c] \in Absent
        /\ pc[c] \notin Starting /\ l \notin Starting /\ (l = "ap_free" <=> pc[c] = "ap_free")
    BY <2>1, <2>2 DEF Absent, Gone, Starting
  <2>8. /\ Switched(l, local'[c].then, ConfigureMtrrs) <=> Switched(pc[c], local[c].then,
             ConfigureMtrrs)
        /\ HasSaved(l, local'[c].then, ConfigureMtrrs) =>
             HasSaved(pc[c], local[c].then, ConfigureMtrrs)
    BY <2>1, <2>2, <2>6 DEF Switched, HasSaved, Foundation
  <2>9. Goto(c, l)
    BY <2>1, <2>2
  <2>10. /\ counter' \in Int /\ insideSmm' \in BOOLEAN /\ bspIndex' \in Cpus \cup {NoCpu}
         /\ current' \in Cpus
    BY <1>1, <2>4
  <2>11. local' \in [Cpus -> Vars] /\ local'[c].saved = local[c].saved
         /\ \A y \in Cpus : y # c => local'[y] = local[y]
    BY <1>1, <2>6
  <2> QED BY <2>3, <2>5, <2>7, <2>8, <2>9, <2>10, <2>11, SideKeeps
<1>27. CASE BspReopen(c)
  <2>1. pc[c] = "bsp_reopen" /\ Goto(c, "bsp_out_of_sync")
    BY <1>27 DEF BspReopen, At
  <2>2. PICK l \in Labels : l = "bsp_out_of_sync"
    BY DEF Labels
  <2>3. UNCHANGED <<mtrr, tasks, runs>>
    BY <1>27 DEF BspReopen, Keep
  <2>4. counter' \in Int /\ UNCHANGED <<bspIndex, current, insideSmm>>
    BY <1>27, <1>1 DEF BspReopen, shared
  <2>5. /\ data' \in [Cpus -> Datum] /\ \A y \in Cpus : data'[y].present = data[y].present
        /\ \A y \in Cpus : data'[y].busy = data[y].busy /\ data'[y].procedure = data[y].procedure
    <3>1. data' = data
      BY <1>27 DEF BspReopen
    <3> QED BY <1>1, <3>1
  <2>6. local' = local
    BY <1>27 DEF BspReopen
  <2>7. /\ l \in Absent <=> pc[c] \in Absent
        /\ pc[c] \notin Starting /\ l \notin Starting /\ (l = "ap_free" <=> pc[c] = "ap_free")
    BY <2>1, <2>2 DEF Absent, Gone, Starting
  <2>8. /\ Switched(l, local'[c].then, ConfigureMtrrs) <=> Switched(pc[c], local[c].then,
             ConfigureMtrrs)
        /\ HasSaved(l, local'[c].then, ConfigureMtrrs) =>
             HasSaved(pc[c], local[c].then, ConfigureMtrrs)
    BY <2>1, <2>2, <2>6 DEF Switched, HasSaved, Foundation
  <2>9. Goto(c, l)
    BY <2>1, <2>2
  <2>10. /\ counter' \in Int /\ insideSmm' \in BOOLEAN /\ bspIndex' \in Cpus \cup {NoCpu}
         /\ current' \in Cpus
    BY <1>1, <2>4
  <2>11. local' \in [Cpus -> Vars] /\ local'[c].saved = local[c].saved
         /\ \A y \in Cpus : y # c => local'[y] = local[y]
    BY <1>1, <2>6
  <2> QED BY <2>3, <2>5, <2>7, <2>8, <2>9, <2>10, <2>11, SideKeeps
<1>28. CASE BspOutOfSync(c)
  <2>1. pc[c] = "bsp_out_of_sync" /\ Goto(c, "leave")
    BY <1>28 DEF BspOutOfSync, At
  <2>2. PICK l \in Labels : l = "leave"
    BY DEF Labels
  <2>3. UNCHANGED <<mtrr, tasks, runs>>
    BY <1>28 DEF BspOutOfSync, Keep
  <2>4. UNCHANGED <<counter, bspIndex, current, insideSmm>>
    BY <1>28 DEF BspOutOfSync, shared
  <2>5. /\ data' \in [Cpus -> Datum] /\ \A y \in Cpus : data'[y].present = data[y].present
        /\ \A y \in Cpus : data'[y].busy = data[y].busy /\ data'[y].procedure = data[y].procedure
    <3>1. data' = data
      BY <1>28 DEF BspOutOfSync
    <3> QED BY <1>1, <3>1
  <2>6. local' = local
    BY <1>28 DEF BspOutOfSync
  <2>7. /\ l \in Absent <=> pc[c] \in Absent
        /\ pc[c] \notin Starting /\ l \notin Starting /\ (l = "ap_free" <=> pc[c] = "ap_free")
    BY <2>1, <2>2 DEF Absent, Gone, Starting
  <2>8. /\ Switched(l, local'[c].then, ConfigureMtrrs) <=> Switched(pc[c], local[c].then,
             ConfigureMtrrs)
        /\ HasSaved(l, local'[c].then, ConfigureMtrrs) =>
             HasSaved(pc[c], local[c].then, ConfigureMtrrs)
    BY <2>1, <2>2, <2>6 DEF Switched, HasSaved, Foundation
  <2>9. Goto(c, l)
    BY <2>1, <2>2
  <2>10. /\ counter' \in Int /\ insideSmm' \in BOOLEAN /\ bspIndex' \in Cpus \cup {NoCpu}
         /\ current' \in Cpus
    BY <1>1, <2>4
  <2>11. local' \in [Cpus -> Vars] /\ local'[c].saved = local[c].saved
         /\ \A y \in Cpus : y # c => local'[y] = local[y]
    BY <1>1, <2>6
  <2> QED BY <2>3, <2>5, <2>7, <2>8, <2>9, <2>10, <2>11, SideKeeps
<1>29. CASE Wait(c)
  <2>1. pc[c] = "wait" /\ UNCHANGED <<mtrr, tasks, runs, counter, bspIndex, current, insideSmm>>
    BY <1>29 DEF Wait, At, Keep, shared
  <2>2. bspIndex = c /\ Session(c, Now(c))
    BY <2>1, LeaderOf DEF LeaderLabels
  <2>3. current = c
    BY <2>1, <2>2 DEF Session, Leads
  <2>4. \/ /\ local[c].then \in {"bsp_save", "bsp_replace", "bsp_restore"} /\ ConfigureMtrrs
        \/ local[c].then \in {"bsp_busy", "bsp_reset"}
    BY <2>1, <2>2, WaitIs
  <2>5. CASE local[c].left = 0
    <3>1. PICK l : l = local[c].then
      OBVIOUS
    <3>2. Goto(c, l) /\ data' = data /\ local' = local /\ l \in Labels
      BY <1>29, <2>4, <2>5, <3>1 DEF Wait, Labels
    <3>3. /\ l \in Absent <=> pc[c] \in Absent
          /\ pc[c] \notin Starting /\ l \notin Starting /\ (l = "ap_free" <=> pc[c] = "ap_free")
      BY <2>1, <2>4, <3>1 DEF Absent, Gone, Starting
    <3>4. /\ Switched(l, local'[c].then, ConfigureMtrrs) <=> Switched(pc[c], local[c].then,
               ConfigureMtrrs)
          /\ HasSaved(l, local'[c].then, ConfigureMtrrs) =>
               HasSaved(pc[c], local[c].then, ConfigureMtrrs)
      BY <2>1, <2>4, <3>1, <3>2 DEF Switched, HasSaved, Foundation
    <3> QED BY <1>1, <2>1, <3>2, <3>3, <3>4, SideKeeps
  <2>6. CASE local[c].left # 0
    <3>1. UNCHANGED pc /\ WaitForRun(c) /\ Local(c, "left", local[c].left - 1)
      BY <1>29, <2>3, <2>6 DEF Wait
    <3>2. Goto(c, "wait") /\ "wait" \in Labels
      BY <1>1, <2>1, <3>1 DEF Goto
    <3>3. PICK k \in Int : k = local[c].left - 1
      BY <1>2
    <3>4. /\ local' \in [Cpus -> Vars] /\ local'[c].saved = local[c].saved /\
               local'[c].then = local[c].then
          /\ \A y \in Cpus : y # c => local'[y] = local[y]
      <4>1. Local(c, "left", k)
        BY <3>1, <3>3
      <4> QED BY <1>1, <4>1, LeftSet
    <3>5. PICK v \in Nat : v = data[c].run - 1
      BY <1>2, <3>1 DEF WaitForRun
    <3>6. /\ data' \in [Cpus -> Datum] /\ data'[c].present = data[c].present
          /\ data'[c].busy = data[c].busy /\ data'[c].procedure = data[c].procedure
          /\ \A y \in Cpus : y # c => data'[y] = data[y]
      <4>1. Set(c, "run", v)
        BY <3>1, <3>5 DEF WaitForRun
      <4> QED BY <1>1, <4>1, RunSet
    <3>7. /\ "wait" \in Absent <=> pc[c] \in Absent
          /\ pc[c] \notin Starting /\ "wait" \notin Starting /\ ("wait" = "ap_free" <=>
               pc[c] = "ap_free")
      BY <2>1 DEF Starting
    <3>8. /\ Switched("wait", local'[c].then, ConfigureMtrrs) <=> Switched(pc[c], local[c].then,
               ConfigureMtrrs)
          /\ HasSaved("wait", local'[c].then, ConfigureMtrrs) =>
               HasSaved(pc[c], local[c].then, ConfigureMtrrs)
      BY <2>1, <3>4
    <3>9. \A y \in Cpus : /\ data'[y].present = data[y].present
                          /\ data'[y].busy = data[y].busy /\
                               data'[y].procedure = data[y].procedure
      BY <3>6
    <3> QED BY <1>1, <2>1, <3>2, <3>4, <3>6, <3>7, <3>8, <3>9, SideKeeps
  <2> QED BY <2>5, <2>6
<1>30. CASE Release(c)
  <2>1. pc[c] = "release" /\ UNCHANGED <<mtrr, tasks, runs, counter, bspIndex, current,
          insideSmm>>
    BY <1>30 DEF Release, At, Keep, shared
  <2>2. bspIndex = c /\ Session(c, Now(c))
    BY <2>1, LeaderOf DEF LeaderLabels
  <2>3. /\ local[c].then \in {"bsp_saved", "bsp_replaced", "bsp_pending", "bsp_restored"}
        /\ local[c].todo \subseteq Cpus \ {c}
    BY <2>1, <2>2, ReleaseIs
  <2>5. CASE local[c].todo = {}
    <3>1. PICK l : l = local[c].then
      OBVIOUS
    <3>2. Goto(c, l) /\ data' = data /\ local' = local /\ l \in Labels
      BY <1>30, <2>3, <2>5, <3>1 DEF Release, Labels
    <3>3. /\ l \in Absent <=> pc[c] \in Absent
          /\ pc[c] \notin Starting /\ l \notin Starting /\ (l = "ap_free" <=> pc[c] = "ap_free")
      BY <2>1, <2>3, <3>1 DEF Absent, Gone, Starting
    <3>4. /\ Switched(l, local'[c].then, ConfigureMtrrs) <=> Switched(pc[c], local[c].then,
               ConfigureMtrrs)
          /\ HasSaved(l, local'[c].then, ConfigureMtrrs) =>
               HasSaved(pc[c], local[c].then, ConfigureMtrrs)
      BY <2>1, <2>3, <3>1, <3>2 DEF Switched, HasSaved, Foundation
    <3> QED BY <1>1, <2>1, <3>2, <3>3, <3>4, SideKeeps
  <2>6. CASE local[c].todo # {}
    <3>1. PICK d \in local[c].todo :
            /\ Local(c, "todo", local[c].todo \ {d}) /\ UNCHANGED pc
            /\ IF data[d].present THEN ReleaseRun(d) ELSE UNCHANGED data
      BY <1>30, <2>6 DEF Release
    <3>2. Goto(c, "release") /\ "release" \in Labels /\ d \in Cpus
      BY <1>1, <2>1, <2>3, <3>1 DEF Goto
    <3>3. PICK S \in SUBSET Cpus : S = local[c].todo \ {d}
      BY <1>2
    <3>4. /\ local' \in [Cpus -> Vars] /\ local'[c].saved = local[c].saved /\
               local'[c].then = local[c].then
          /\ \A y \in Cpus : y # c => local'[y] = local[y]
      <4>1. Local(c, "todo", S)
        BY <3>1, <3>3
      <4> QED BY <1>1, <4>1, TodoSet
    <3>6. /\ data' \in [Cpus -> Datum] /\ data'[d].present = data[d].present
          /\ data'[d].busy = data[d].busy /\ data'[d].procedure = data[d].procedure
          /\ \A y \in Cpus : y # d => data'[y] = data[y]
      <4>1. CASE data[d].present
        <5>1. PICK v \in Nat : v = data[d].run + 1
          BY <1>2, <3>2
        <5>2. Set(d, "run", v)
          BY <3>1, <4>1, <5>1 DEF ReleaseRun
        <5> QED BY <1>1, <3>2, <5>2, RunSet
      <4>2. CASE ~data[d].present
        BY <1>1, <3>1, <4>2
      <4> QED BY <4>1, <4>2
    <3>7. /\ "release" \in Absent <=> pc[c] \in Absent
          /\ pc[c] \notin Starting /\ "release" \notin Starting /\ ("release" = "ap_free" <=>
               pc[c] = "ap_free")
      BY <2>1 DEF Starting
    <3>8. /\ Switched("release", local'[c].then, ConfigureMtrrs) <=> Switched(pc[c],
               local[c].then, ConfigureMtrrs)
          /\ HasSaved("release", local'[c].then, ConfigureMtrrs) =>
               HasSaved(pc[c], local[c].then, ConfigureMtrrs)
      BY <2>1, <3>4
    <3>9. \A y \in Cpus : /\ data'[y].present = data[y].present
                          /\ data'[y].busy = data[y].busy /\
                               data'[y].procedure = data[y].procedure
      BY <3>6
    <3> QED BY <1>1, <2>1, <3>2, <3>4, <3>6, <3>7, <3>8, <3>9, SideKeeps
  <2> QED BY <2>5, <2>6
<1>31. CASE ApBegin(c)
  <2>1. pc[c] = "ap" /\ Goto(c, "ap_notify") /\ "ap_notify" \in Labels
        /\ UNCHANGED <<mtrr, tasks, runs, counter, bspIndex, current, insideSmm, data>>
    BY <1>31 DEF ApBegin, At, Keep, shared, Labels
  <2>2. /\ local' \in [Cpus -> Vars] /\ local'[c].saved = local[c].saved /\
             local'[c].then = local[c].then
        /\ \A y \in Cpus : y # c => local'[y] = local[y]
    <3>1. PICK v \in Cpus \cup {NoCpu} : v = bspIndex
      BY <1>1
    <3>2. Local(c, "bsp", v)
      BY <1>31, <3>1 DEF ApBegin
    <3> QED BY <1>1, <3>2, BspSet
  <2>3. /\ "ap_notify" \in Absent <=> pc[c] \in Absent
        /\ pc[c] \notin Starting /\ "ap_notify" \notin Starting /\ ("ap_notify" = "ap_free" <=>
             pc[c] = "ap_free")
    BY <2>1 DEF Absent, Gone, Starting
  <2>4. /\ Switched("ap_notify", local'[c].then, ConfigureMtrrs) <=> Switched(pc[c],
             local[c].then, ConfigureMtrrs)
        /\ HasSaved("ap_notify", local'[c].then, ConfigureMtrrs) =>
             HasSaved(pc[c], local[c].then, ConfigureMtrrs)
    BY <2>1 DEF Switched, HasSaved, Foundation
  <2> QED BY <1>1, <2>1, <2>2, <2>3, <2>4, SideKeeps
<1>32. CASE ApNotify(c)
  <2>1. pc[c] = "ap_notify" /\ Goto(c, (IF ConfigureMtrrs THEN "ap_save" ELSE "ap_busy"))
    BY <1>32 DEF ApNotify, At, SignalBsp
  <2>2. PICK l \in Labels : l = (IF ConfigureMtrrs THEN "ap_save" ELSE "ap_busy")
    BY DEF Labels
  <2>3. UNCHANGED <<mtrr, tasks, runs>>
    BY <1>32 DEF ApNotify, Keep, SignalBsp
  <2>4. UNCHANGED <<counter, bspIndex, current, insideSmm>>
    BY <1>32 DEF ApNotify, shared, SignalBsp
  <2>5. /\ data' \in [Cpus -> Datum] /\ \A y \in Cpus : data'[y].present = data[y].present
        /\ \A y \in Cpus : data'[y].busy = data[y].busy /\ data'[y].procedure = data[y].procedure
    <3>1. PICK d \in Cpus : d = local[c].bsp
      BY <2>1, KnowsIs DEF Knows
    <3>2. PICK v \in Nat : v = data[d].run + 1
      BY <1>2
    <3>3. ReleaseRun(d)
      BY <1>32, <3>1 DEF ApNotify, SignalBsp
    <3>7. d \in Cpus /\ v \in Nat /\ Set(d, "run", v)
      BY <3>2, <3>3 DEF ReleaseRun
    <3>8. data' \in [Cpus -> Datum] /\ data'[d].present = data[d].present
          /\ data'[d].busy = data[d].busy /\ data'[d].procedure = data[d].procedure
          /\ \A y \in Cpus : y # d => data'[y] = data[y]
      BY <1>1, <3>7, RunSet
    <3> QED BY <3>8
  <2>6. local' = local
    BY <1>32 DEF ApNotify, SignalBsp
  <2>7. /\ l \in Absent <=> pc[c] \in Absent
        /\ pc[c] \notin Starting /\ l \notin Starting /\ (l = "ap_free" <=> pc[c] = "ap_free")
    BY <2>1, <2>2 DEF Absent, Gone, Starting
  <2>8. /\ Switched(l, local'[c].then, ConfigureMtrrs) <=> Switched(pc[c], local[c].then,
             ConfigureMtrrs)
        /\ HasSaved(l, local'[c].then, ConfigureMtrrs) =>
             HasSaved(pc[c], local[c].then, ConfigureMtrrs)
    BY <2>1, <2>2, <2>6 DEF Switched, HasSaved, Foundation
  <2>9. Goto(c, l)
    BY <2>1, <2>2
  <2>10. /\ counter' \in Int /\ insideSmm' \in BOOLEAN /\ bspIndex' \in Cpus \cup {NoCpu}
         /\ current' \in Cpus
    BY <1>1, <2>4
  <2>11. local' \in [Cpus -> Vars] /\ local'[c].saved = local[c].saved
         /\ \A y \in Cpus : y # c => local'[y] = local[y]
    BY <1>1, <2>6
  <2> QED BY <2>3, <2>5, <2>7, <2>8, <2>9, <2>10, <2>11, SideKeeps
<1>33. CASE ApSave(c)
  <2>1. pc[c] = "ap_save" /\ Goto(c, "ap_saving")
    BY <1>33 DEF ApSave, At
  <2>2. PICK l \in Labels : l = "ap_saving"
    BY DEF Labels
  <2>3. UNCHANGED <<mtrr, tasks, runs>>
    BY <1>33 DEF ApSave, Keep
  <2>4. UNCHANGED <<counter, bspIndex, current, insideSmm>>
    BY <1>33 DEF ApSave, shared
  <2>5. /\ data' \in [Cpus -> Datum] /\ \A y \in Cpus : data'[y].present = data[y].present
        /\ \A y \in Cpus : data'[y].busy = data[y].busy /\ data'[y].procedure = data[y].procedure
    <3>1. WaitForRun(c)
      BY <1>33 DEF ApSave
    <3>2. PICK v \in Nat : v = data[c].run - 1
      BY <1>2, <3>1 DEF WaitForRun
    <3>3. PICK d \in Cpus : d = c
      OBVIOUS
    <3>7. d \in Cpus /\ v \in Nat /\ Set(d, "run", v)
      BY <3>1, <3>2, <3>3 DEF WaitForRun
    <3>8. data' \in [Cpus -> Datum] /\ data'[d].present = data[d].present
          /\ data'[d].busy = data[d].busy /\ data'[d].procedure = data[d].procedure
          /\ \A y \in Cpus : y # d => data'[y] = data[y]
      BY <1>1, <3>7, RunSet
    <3> QED BY <3>8
  <2>6. local' = local
    BY <1>33 DEF ApSave
  <2>7. /\ l \in Absent <=> pc[c] \in Absent
        /\ pc[c] \notin Starting /\ l \notin Starting /\ (l = "ap_free" <=> pc[c] = "ap_free")
    BY <2>1, <2>2 DEF Absent, Gone, Starting
  <2>8. /\ Switched(l, local'[c].then, ConfigureMtrrs) <=> Switched(pc[c], local[c].then,
             ConfigureMtrrs)
        /\ HasSaved(l, local'[c].then, ConfigureMtrrs) =>
             HasSaved(pc[c], local[c].then, ConfigureMtrrs)
    BY <2>1, <2>2, <2>6 DEF Switched, HasSaved, Foundation
  <2>9. Goto(c, l)
    BY <2>1, <2>2
  <2>10. /\ counter' \in Int /\ insideSmm' \in BOOLEAN /\ bspIndex' \in Cpus \cup {NoCpu}
         /\ current' \in Cpus
    BY <1>1, <2>4
  <2>11. local' \in [Cpus -> Vars] /\ local'[c].saved = local[c].saved
         /\ \A y \in Cpus : y # c => local'[y] = local[y]
    BY <1>1, <2>6
  <2> QED BY <2>3, <2>5, <2>7, <2>8, <2>9, <2>10, <2>11, SideKeeps
<1>34. CASE ApSaving(c)
  <2>1. pc[c] = "ap_saving" /\ Goto(c, "ap_saved") /\ "ap_saved" \in Labels
        /\ UNCHANGED <<mtrr, tasks, runs, counter, bspIndex, current, insideSmm, data>>
    BY <1>34 DEF ApSaving, At, Keep, shared, Labels
  <2>2. mtrr[Core[c]] = "os"
    <3>1. PICK b \in Cpus : bspIndex = b /\ c # b /\ Session(b, Now(b))
      BY <2>1, KnowsIs DEF Knows
    <3>2. PICK p : p = Now(b)
      OBVIOUS
    <3>3. p \in Phases /\ pc[c] \in Owing(p) \cup Beyond(p, ConfigureMtrrs) \cup Gone
      BY <3>1, <3>2, InPhase
    <3>4. p = "save"
      BY <2>1, <3>3, OtherIs
    <3> QED BY <3>1, <3>2, <3>4, SavesOs
  <2>3. /\ local' \in [Cpus -> Vars] /\ local'[c].saved = "os" /\ local'[c].then = local[c].then
        /\ \A y \in Cpus : y # c => local'[y] = local[y]
    <3>1. PICK v \in {"none", "os", "smm"} : v = mtrr[Core[c]]
      BY <1>3
    <3>2. Local(c, "saved", v)
      BY <1>34, <3>1 DEF ApSaving
    <3> QED BY <1>1, <2>2, <3>1, <3>2, SavedSet
  <2>4. Typed'
    BY <1>1, <2>1, <2>3, TypedKeeps
  <2>5. PresentIs' /\ Procedures'
    <3>1. /\ "ap_saved" \in Absent <=> pc[c] \in Absent
          /\ pc[c] \notin Starting /\ "ap_saved" \notin Starting /\ ("ap_saved" = "ap_free" <=>
               pc[c] = "ap_free")
      BY <2>1 DEF Absent, Gone, Starting
    <3> QED BY <2>1, <2>3, <3>1, PresentKeeps, ProceduresKeep
  <2>6. Switched("ap_saved", local'[c].then, ConfigureMtrrs) <=> IsSwitched(c)
    BY <2>1, <2>3 DEF IsSwitched, Switched, Foundation
  <2>7. Mtrrs'
    BY <2>1, <2>3, <2>6, MtrrsKeep
  <2> QED BY <2>4, <2>5, <2>7
<1>35. CASE ApSaved(c)
  <2>1. pc[c] = "ap_saved" /\ Goto(c, "ap_replace")
    BY <1>35 DEF ApSaved, At, SignalBsp
  <2>2. PICK l \in Labels : l = "ap_replace"
    BY DEF Labels
  <2>3. UNCHANGED <<mtrr, tasks, runs>>
    BY <1>35 DEF ApSaved, Keep, SignalBsp
  <2>4. UNCHANGED <<counter, bspIndex, current, insideSmm>>
    BY <1>35 DEF ApSaved, shared, SignalBsp
  <2>5. /\ data' \in [Cpus -> Datum] /\ \A y \in Cpus : data'[y].present = data[y].present
        /\ \A y \in Cpus : data'[y].busy = data[y].busy /\ data'[y].procedure = data[y].procedure
    <3>1. PICK d \in Cpus : d = local[c].bsp
      BY <2>1, KnowsIs DEF Knows
    <3>2. PICK v \in Nat : v = data[d].run + 1
      BY <1>2
    <3>3. ReleaseRun(d)
      BY <1>35, <3>1 DEF ApSaved, SignalBsp
    <3>7. d \in Cpus /\ v \in Nat /\ Set(d, "run", v)
      BY <3>2, <3>3 DEF ReleaseRun
    <3>8. data' \in [Cpus -> Datum] /\ data'[d].present = data[d].present
          /\ data'[d].busy = data[d].busy /\ data'[d].procedure = data[d].procedure
          /\ \A y \in Cpus : y # d => data'[y] = data[y]
      BY <1>1, <3>7, RunSet
    <3> QED BY <3>8
  <2>6. local' = local
    BY <1>35 DEF ApSaved, SignalBsp
  <2>7. /\ l \in Absent <=> pc[c] \in Absent
        /\ pc[c] \notin Starting /\ l \notin Starting /\ (l = "ap_free" <=> pc[c] = "ap_free")
    BY <2>1, <2>2 DEF Absent, Gone, Starting
  <2>8. /\ Switched(l, local'[c].then, ConfigureMtrrs) <=> Switched(pc[c], local[c].then,
             ConfigureMtrrs)
        /\ HasSaved(l, local'[c].then, ConfigureMtrrs) =>
             HasSaved(pc[c], local[c].then, ConfigureMtrrs)
    BY <2>1, <2>2, <2>6 DEF Switched, HasSaved, Foundation
  <2>9. Goto(c, l)
    BY <2>1, <2>2
  <2>10. /\ counter' \in Int /\ insideSmm' \in BOOLEAN /\ bspIndex' \in Cpus \cup {NoCpu}
         /\ current' \in Cpus
    BY <1>1, <2>4
  <2>11. local' \in [Cpus -> Vars] /\ local'[c].saved = local[c].saved
         /\ \A y \in Cpus : y # c => local'[y] = local[y]
    BY <1>1, <2>6
  <2> QED BY <2>3, <2>5, <2>7, <2>8, <2>9, <2>10, <2>11, SideKeeps
<1>36. CASE ApReplace(c)
  <2>1. pc[c] = "ap_replace" /\ Goto(c, "ap_replacing")
    BY <1>36 DEF ApReplace, At
  <2>2. PICK l \in Labels : l = "ap_replacing"
    BY DEF Labels
  <2>3. UNCHANGED <<mtrr, tasks, runs>>
    BY <1>36 DEF ApReplace, Keep
  <2>4. UNCHANGED <<counter, bspIndex, current, insideSmm>>
    BY <1>36 DEF ApReplace, shared
  <2>5. /\ data' \in [Cpus -> Datum] /\ \A y \in Cpus : data'[y].present = data[y].present
        /\ \A y \in Cpus : data'[y].busy = data[y].busy /\ data'[y].procedure = data[y].procedure
    <3>1. WaitForRun(c)
      BY <1>36 DEF ApReplace
    <3>2. PICK v \in Nat : v = data[c].run - 1
      BY <1>2, <3>1 DEF WaitForRun
    <3>3. PICK d \in Cpus : d = c
      OBVIOUS
    <3>7. d \in Cpus /\ v \in Nat /\ Set(d, "run", v)
      BY <3>1, <3>2, <3>3 DEF WaitForRun
    <3>8. data' \in [Cpus -> Datum] /\ data'[d].present = data[d].present
          /\ data'[d].busy = data[d].busy /\ data'[d].procedure = data[d].procedure
          /\ \A y \in Cpus : y # d => data'[y] = data[y]
      BY <1>1, <3>7, RunSet
    <3> QED BY <3>8
  <2>6. local' = local
    BY <1>36 DEF ApReplace
  <2>7. /\ l \in Absent <=> pc[c] \in Absent
        /\ pc[c] \notin Starting /\ l \notin Starting /\ (l = "ap_free" <=> pc[c] = "ap_free")
    BY <2>1, <2>2 DEF Absent, Gone, Starting
  <2>8. /\ Switched(l, local'[c].then, ConfigureMtrrs) <=> Switched(pc[c], local[c].then,
             ConfigureMtrrs)
        /\ HasSaved(l, local'[c].then, ConfigureMtrrs) =>
             HasSaved(pc[c], local[c].then, ConfigureMtrrs)
    BY <2>1, <2>2, <2>6 DEF Switched, HasSaved, Foundation
  <2>9. Goto(c, l)
    BY <2>1, <2>2
  <2>10. /\ counter' \in Int /\ insideSmm' \in BOOLEAN /\ bspIndex' \in Cpus \cup {NoCpu}
         /\ current' \in Cpus
    BY <1>1, <2>4
  <2>11. local' \in [Cpus -> Vars] /\ local'[c].saved = local[c].saved
         /\ \A y \in Cpus : y # c => local'[y] = local[y]
    BY <1>1, <2>6
  <2> QED BY <2>3, <2>5, <2>7, <2>8, <2>9, <2>10, <2>11, SideKeeps
<1>37. CASE ApReplacing(c)
  <2>1. pc[c] = "ap_replacing" /\ Goto(c, "ap_replaced") /\ "ap_replaced" \in Labels
        /\ UNCHANGED <<tasks, runs, counter, bspIndex, current, insideSmm, data>>
        /\ mtrr' = [mtrr EXCEPT ![Core[c]] = "smm"]
    BY <1>37 DEF ApReplacing, At, shared, Labels, WaitForAllAPs
  <2>2. local' = local /\ local' \in [Cpus -> Vars]
    BY <1>37, <1>1 DEF ApReplacing
  <2>3. PICK b \in Cpus : ConfigureMtrrs /\ bspIndex = b /\ Now(b) = "replace"
    <3>1. PICK b \in Cpus : bspIndex = b /\ c # b /\ Session(b, Now(b))
      BY <2>1, KnowsIs DEF Knows
    <3>2. PICK p : p = Now(b)
      OBVIOUS
    <3>3. p \in Phases /\ pc[c] \in Owing(p) \cup Beyond(p, ConfigureMtrrs) \cup Gone
          /\ (p \in {"save", "replace", "restore"} => ConfigureMtrrs)
      BY <3>1, <3>2, InPhase
    <3>4. p = "replace"
      BY <2>1, <3>3, OtherIs
    <3> QED BY <3>1, <3>2, <3>3, <3>4
  <2>4. local[c].saved = "os" /\ HasSaved(pc[c], local[c].then, ConfigureMtrrs)
    <3>1. HasSaved(pc[c], local[c].then, ConfigureMtrrs)
      BY <2>1, <2>3 DEF HasSaved, Switched, Foundation
    <3> QED BY <1>4, <3>1
  <2>5. Typed'
    <3>1. mtrr' \in [Cores -> {"os", "smm"}]
      BY <1>1, <1>3, <2>1, <2>4
    <3> QED BY <1>1, <2>1, <2>2, <3>1, TypedKeeps
  <2>6. PresentIs' /\ Procedures'
    <3>1. /\ "ap_replaced" \in Absent <=> pc[c] \in Absent
          /\ pc[c] \notin Starting /\ "ap_replaced" \notin Starting /\
               ("ap_replaced" = "ap_free" <=> pc[c] = "ap_free")
      BY <2>1 DEF Absent, Gone, Starting
    <3> QED BY <2>1, <2>2, <3>1, PresentKeeps, ProceduresKeep
  <2>8. Switched("ap_replaced", local'[c].then, ConfigureMtrrs) /\ local'[c].saved = "os"
    BY <2>2, <2>3, <2>4 DEF Switched
  <2>7. Mtrrs'
    BY <2>1, <2>2, <2>8, MtrrsReplaced
  <2> QED BY <2>5, <2>6, <2>7
<1>38. CASE ApReplaced(c)
  <2>1. pc[c] = "ap_replaced" /\ Goto(c, "ap_busy")
    BY <1>38 DEF ApReplaced, At, SignalBsp
  <2>2. PICK l \in Labels : l = "ap_busy"
    BY DEF Labels
  <2>3. UNCHANGED <<mtrr, tasks, runs>>
    BY <1>38 DEF ApReplaced, Keep, SignalBsp
  <2>4. UNCHANGED <<counter, bspIndex, current, insideSmm>>
    BY <1>38 DEF ApReplaced, shared, SignalBsp
  <2>5. /\ data' \in [Cpus -> Datum] /\ \A y \in Cpus : data'[y].present = data[y].present
        /\ \A y \in Cpus : data'[y].busy = data[y].busy /\ data'[y].procedure = data[y].procedure
    <3>1. PICK d \in Cpus : d = local[c].bsp
      BY <2>1, KnowsIs DEF Knows
    <3>2. PICK v \in Nat : v = data[d].run + 1
      BY <1>2
    <3>3. ReleaseRun(d)
      BY <1>38, <3>1 DEF ApReplaced, SignalBsp
    <3>7. d \in Cpus /\ v \in Nat /\ Set(d, "run", v)
      BY <3>2, <3>3 DEF ReleaseRun
    <3>8. data' \in [Cpus -> Datum] /\ data'[d].present = data[d].present
          /\ data'[d].busy = data[d].busy /\ data'[d].procedure = data[d].procedure
          /\ \A y \in Cpus : y # d => data'[y] = data[y]
      BY <1>1, <3>7, RunSet
    <3> QED BY <3>8
  <2>6. local' = local
    BY <1>38 DEF ApReplaced, SignalBsp
  <2>7. /\ l \in Absent <=> pc[c] \in Absent
        /\ pc[c] \notin Starting /\ l \notin Starting /\ (l = "ap_free" <=> pc[c] = "ap_free")
    BY <2>1, <2>2 DEF Absent, Gone, Starting
  <2>8. /\ Switched(l, local'[c].then, ConfigureMtrrs) <=> Switched(pc[c], local[c].then,
             ConfigureMtrrs)
        /\ HasSaved(l, local'[c].then, ConfigureMtrrs) =>
             HasSaved(pc[c], local[c].then, ConfigureMtrrs)
    BY <2>1, <2>2, <2>6 DEF Switched, HasSaved, Foundation
  <2>9. Goto(c, l)
    BY <2>1, <2>2
  <2>10. /\ counter' \in Int /\ insideSmm' \in BOOLEAN /\ bspIndex' \in Cpus \cup {NoCpu}
         /\ current' \in Cpus
    BY <1>1, <2>4
  <2>11. local' \in [Cpus -> Vars] /\ local'[c].saved = local[c].saved
         /\ \A y \in Cpus : y # c => local'[y] = local[y]
    BY <1>1, <2>6
  <2> QED BY <2>3, <2>5, <2>7, <2>8, <2>9, <2>10, <2>11, SideKeeps
<1>39. CASE ApBusy(c)
  <2>1. pc[c] = "ap_busy" /\ Goto(c, "ap_idle")
    BY <1>39 DEF ApBusy, At
  <2>2. PICK l \in Labels : l = "ap_idle"
    BY DEF Labels
  <2>3. UNCHANGED <<mtrr, tasks, runs>>
    BY <1>39 DEF ApBusy, Keep
  <2>4. UNCHANGED <<counter, bspIndex, current, insideSmm>>
    BY <1>39 DEF ApBusy, shared
  <2>5. /\ data' \in [Cpus -> Datum] /\ \A y \in Cpus : data'[y].present = data[y].present
    <3>1. /\ data' \in [Cpus -> Datum] /\ data'[c].present = data[c].present
          /\ \A y \in Cpus : y # c => data'[y] = data[y]
      BY <1>1, <1>39, BusySet DEF ApBusy
    <3> QED BY <3>1
  <2>15. \A y \in Cpus : pc[y] \notin Starting
    BY <2>1, StartingIs
  <2>6. local' = local
    BY <1>39 DEF ApBusy
  <2>7. /\ l \in Absent <=> pc[c] \in Absent
        /\ pc[c] \notin Starting /\ l \notin Starting /\ (l = "ap_free" <=> pc[c] = "ap_free")
    BY <2>1, <2>2 DEF Absent, Gone, Starting
  <2>8. /\ Switched(l, local'[c].then, ConfigureMtrrs) <=> Switched(pc[c], local[c].then,
             ConfigureMtrrs)
        /\ HasSaved(l, local'[c].then, ConfigureMtrrs) =>
             HasSaved(pc[c], local[c].then, ConfigureMtrrs)
    BY <2>1, <2>2, <2>6 DEF Switched, HasSaved, Foundation
  <2>9. Goto(c, l)
    BY <2>1, <2>2
  <2>10. /\ counter' \in Int /\ insideSmm' \in BOOLEAN /\ bspIndex' \in Cpus \cup {NoCpu}
         /\ current' \in Cpus
    BY <1>1, <2>4
  <2>11. local' \in [Cpus -> Vars] /\ local'[c].saved = local[c].saved
         /\ \A y \in Cpus : y # c => local'[y] = local[y]
    BY <1>1, <2>6
  <2> QED BY <2>3, <2>5, <2>7, <2>8, <2>9, <2>10, <2>11, <2>15, SideKeeps
<1>40. CASE ApIdle(c)
  <2>1. pc[c] = "ap_idle" /\ Goto(c, "ap_look")
    BY <1>40 DEF ApIdle, At
  <2>2. PICK l \in Labels : l = "ap_look"
    BY DEF Labels
  <2>3. UNCHANGED <<mtrr, tasks, runs>>
    BY <1>40 DEF ApIdle, Keep
  <2>4. UNCHANGED <<counter, bspIndex, current, insideSmm>>
    BY <1>40 DEF ApIdle, shared
  <2>5. /\ data' \in [Cpus -> Datum] /\ \A y \in Cpus : data'[y].present = data[y].present
        /\ \A y \in Cpus : data'[y].busy = data[y].busy /\ data'[y].procedure = data[y].procedure
    <3>1. WaitForRun(c)
      BY <1>40 DEF ApIdle
    <3>2. PICK v \in Nat : v = data[c].run - 1
      BY <1>2, <3>1 DEF WaitForRun
    <3>3. PICK d \in Cpus : d = c
      OBVIOUS
    <3>7. d \in Cpus /\ v \in Nat /\ Set(d, "run", v)
      BY <3>1, <3>2, <3>3 DEF WaitForRun
    <3>8. data' \in [Cpus -> Datum] /\ data'[d].present = data[d].present
          /\ data'[d].busy = data[d].busy /\ data'[d].procedure = data[d].procedure
          /\ \A y \in Cpus : y # d => data'[y] = data[y]
      BY <1>1, <3>7, RunSet
    <3> QED BY <3>8
  <2>6. local' = local
    BY <1>40 DEF ApIdle
  <2>7. /\ l \in Absent <=> pc[c] \in Absent
        /\ pc[c] \notin Starting /\ l \notin Starting /\ (l = "ap_free" <=> pc[c] = "ap_free")
    BY <2>1, <2>2 DEF Absent, Gone, Starting
  <2>8. /\ Switched(l, local'[c].then, ConfigureMtrrs) <=> Switched(pc[c], local[c].then,
             ConfigureMtrrs)
        /\ HasSaved(l, local'[c].then, ConfigureMtrrs) =>
             HasSaved(pc[c], local[c].then, ConfigureMtrrs)
    BY <2>1, <2>2, <2>6 DEF Switched, HasSaved, Foundation
  <2>9. Goto(c, l)
    BY <2>1, <2>2
  <2>10. /\ counter' \in Int /\ insideSmm' \in BOOLEAN /\ bspIndex' \in Cpus \cup {NoCpu}
         /\ current' \in Cpus
    BY <1>1, <2>4
  <2>11. local' \in [Cpus -> Vars] /\ local'[c].saved = local[c].saved
         /\ \A y \in Cpus : y # c => local'[y] = local[y]
    BY <1>1, <2>6
  <2> QED BY <2>3, <2>5, <2>7, <2>8, <2>9, <2>10, <2>11, SideKeeps
<1>41. CASE ApLook(c)
  <2>1. pc[c] = "ap_look" /\ Goto(c, (IF insideSmm THEN "ap_run" ELSE "ap_done"))
    BY <1>41 DEF ApLook, At
  <2>2. PICK l \in Labels : l = (IF insideSmm THEN "ap_run" ELSE "ap_done")
    BY DEF Labels
  <2>3. UNCHANGED <<mtrr, tasks, runs>>
    BY <1>41 DEF ApLook, Keep
  <2>4. UNCHANGED <<counter, bspIndex, current, insideSmm>>
    BY <1>41 DEF ApLook, shared
  <2>5. /\ data' \in [Cpus -> Datum] /\ \A y \in Cpus : data'[y].present = data[y].present
        /\ \A y \in Cpus : data'[y].busy = data[y].busy /\ data'[y].procedure = data[y].procedure
    <3>1. data' = data
      BY <1>41 DEF ApLook
    <3> QED BY <1>1, <3>1
  <2>6. local' = local
    BY <1>41 DEF ApLook
  <2>7. /\ l \in Absent <=> pc[c] \in Absent
        /\ pc[c] \notin Starting /\ l \notin Starting /\ (l = "ap_free" <=> pc[c] = "ap_free")
    BY <2>1, <2>2 DEF Absent, Gone, Starting
  <2>8. /\ Switched(l, local'[c].then, ConfigureMtrrs) <=> Switched(pc[c], local[c].then,
             ConfigureMtrrs)
        /\ HasSaved(l, local'[c].then, ConfigureMtrrs) =>
             HasSaved(pc[c], local[c].then, ConfigureMtrrs)
    BY <2>1, <2>2, <2>6 DEF Switched, HasSaved, Foundation
  <2>9. Goto(c, l)
    BY <2>1, <2>2
  <2>10. /\ counter' \in Int /\ insideSmm' \in BOOLEAN /\ bspIndex' \in Cpus \cup {NoCpu}
         /\ current' \in Cpus
    BY <1>1, <2>4
  <2>11. local' \in [Cpus -> Vars] /\ local'[c].saved = local[c].saved
         /\ \A y \in Cpus : y # c => local'[y] = local[y]
    BY <1>1, <2>6
  <2> QED BY <2>3, <2>5, <2>7, <2>8, <2>9, <2>10, <2>11, SideKeeps
<1>42. CASE ApDone(c)
  <2>1. pc[c] = "ap_done" /\ Goto(c, (IF ConfigureMtrrs THEN "ap_restore" ELSE "leave"))
    BY <1>42 DEF ApDone, At, SignalBsp
  <2>2. PICK l \in Labels : l = (IF ConfigureMtrrs THEN "ap_restore" ELSE "leave")
    BY DEF Labels
  <2>3. UNCHANGED <<mtrr, tasks, runs>>
    BY <1>42 DEF ApDone, Keep, SignalBsp
  <2>4. UNCHANGED <<counter, bspIndex, current, insideSmm>>
    BY <1>42 DEF ApDone, shared, SignalBsp
  <2>5. /\ data' \in [Cpus -> Datum] /\ \A y \in Cpus : data'[y].present = data[y].present
        /\ \A y \in Cpus : data'[y].busy = data[y].busy /\ data'[y].procedure = data[y].procedure
    <3>1. PICK d \in Cpus : d = bspIndex
      BY <2>1, KnowsIs DEF Knows
    <3>2. PICK v \in Nat : v = data[d].run + 1
      BY <1>2
    <3>3. ReleaseRun(d)
      BY <1>42, <3>1 DEF ApDone, SignalBsp
    <3>7. d \in Cpus /\ v \in Nat /\ Set(d, "run", v)
      BY <3>2, <3>3 DEF ReleaseRun
    <3>8. data' \in [Cpus -> Datum] /\ data'[d].present = data[d].present
          /\ data'[d].busy = data[d].busy /\ data'[d].procedure = data[d].procedure
          /\ \A y \in Cpus : y # d => data'[y] = data[y]
      BY <1>1, <3>7, RunSet
    <3> QED BY <3>8
  <2>6. local' = local
    BY <1>42 DEF ApDone, SignalBsp
  <2>7. /\ l \in Absent <=> pc[c] \in Absent
        /\ pc[c] \notin Starting /\ l \notin Starting /\ (l = "ap_free" <=> pc[c] = "ap_free")
    BY <2>1, <2>2 DEF Absent, Gone, Starting
  <2>8. /\ Switched(l, local'[c].then, ConfigureMtrrs) <=> Switched(pc[c], local[c].then,
             ConfigureMtrrs)
        /\ HasSaved(l, local'[c].then, ConfigureMtrrs) =>
             HasSaved(pc[c], local[c].then, ConfigureMtrrs)
    BY <2>1, <2>2, <2>6 DEF Switched, HasSaved, Foundation
  <2>9. Goto(c, l)
    BY <2>1, <2>2
  <2>10. /\ counter' \in Int /\ insideSmm' \in BOOLEAN /\ bspIndex' \in Cpus \cup {NoCpu}
         /\ current' \in Cpus
    BY <1>1, <2>4
  <2>11. local' \in [Cpus -> Vars] /\ local'[c].saved = local[c].saved
         /\ \A y \in Cpus : y # c => local'[y] = local[y]
    BY <1>1, <2>6
  <2> QED BY <2>3, <2>5, <2>7, <2>8, <2>9, <2>10, <2>11, SideKeeps
<1>43. CASE ApRestore(c)
  <2>1. pc[c] = "ap_restore" /\ Goto(c, "ap_restoring")
    BY <1>43 DEF ApRestore, At
  <2>2. PICK l \in Labels : l = "ap_restoring"
    BY DEF Labels
  <2>3. UNCHANGED <<mtrr, tasks, runs>>
    BY <1>43 DEF ApRestore, Keep
  <2>4. UNCHANGED <<counter, bspIndex, current, insideSmm>>
    BY <1>43 DEF ApRestore, shared
  <2>5. /\ data' \in [Cpus -> Datum] /\ \A y \in Cpus : data'[y].present = data[y].present
        /\ \A y \in Cpus : data'[y].busy = data[y].busy /\ data'[y].procedure = data[y].procedure
    <3>1. WaitForRun(c)
      BY <1>43 DEF ApRestore
    <3>2. PICK v \in Nat : v = data[c].run - 1
      BY <1>2, <3>1 DEF WaitForRun
    <3>3. PICK d \in Cpus : d = c
      OBVIOUS
    <3>7. d \in Cpus /\ v \in Nat /\ Set(d, "run", v)
      BY <3>1, <3>2, <3>3 DEF WaitForRun
    <3>8. data' \in [Cpus -> Datum] /\ data'[d].present = data[d].present
          /\ data'[d].busy = data[d].busy /\ data'[d].procedure = data[d].procedure
          /\ \A y \in Cpus : y # d => data'[y] = data[y]
      BY <1>1, <3>7, RunSet
    <3> QED BY <3>8
  <2>6. local' = local
    BY <1>43 DEF ApRestore
  <2>7. /\ l \in Absent <=> pc[c] \in Absent
        /\ pc[c] \notin Starting /\ l \notin Starting /\ (l = "ap_free" <=> pc[c] = "ap_free")
    BY <2>1, <2>2 DEF Absent, Gone, Starting
  <2>8. /\ Switched(l, local'[c].then, ConfigureMtrrs) <=> Switched(pc[c], local[c].then,
             ConfigureMtrrs)
        /\ HasSaved(l, local'[c].then, ConfigureMtrrs) =>
             HasSaved(pc[c], local[c].then, ConfigureMtrrs)
    BY <2>1, <2>2, <2>6 DEF Switched, HasSaved, Foundation
  <2>9. Goto(c, l)
    BY <2>1, <2>2
  <2>10. /\ counter' \in Int /\ insideSmm' \in BOOLEAN /\ bspIndex' \in Cpus \cup {NoCpu}
         /\ current' \in Cpus
    BY <1>1, <2>4
  <2>11. local' \in [Cpus -> Vars] /\ local'[c].saved = local[c].saved
         /\ \A y \in Cpus : y # c => local'[y] = local[y]
    BY <1>1, <2>6
  <2> QED BY <2>3, <2>5, <2>7, <2>8, <2>9, <2>10, <2>11, SideKeeps
<1>44. CASE ApRestoring(c)
  <2>1. pc[c] = "ap_restoring" /\ Goto(c, "ap_restored") /\ "ap_restored" \in Labels
        /\ UNCHANGED <<tasks, runs, counter, bspIndex, current, insideSmm, data>>
        /\ mtrr' = [mtrr EXCEPT ![Core[c]] = local[c].saved]
    BY <1>44 DEF ApRestoring, At, shared, Labels, WaitForAllAPs
  <2>2. local' = local /\ local' \in [Cpus -> Vars]
    BY <1>44, <1>1 DEF ApRestoring
  <2>3. PICK b \in Cpus : ConfigureMtrrs /\ bspIndex = b /\ Now(b) = "restore"
    <3>1. PICK b \in Cpus : bspIndex = b /\ c # b /\ Session(b, Now(b))
      BY <2>1, KnowsIs DEF Knows
    <3>2. PICK p : p = Now(b)
      OBVIOUS
    <3>3. p \in Phases /\ pc[c] \in Owing(p) \cup Beyond(p, ConfigureMtrrs) \cup Gone
          /\ (p \in {"save", "replace", "restore"} => ConfigureMtrrs)
      BY <3>1, <3>2, InPhase
    <3>4. p = "restore"
      BY <2>1, <3>3, OtherIs
    <3> QED BY <3>1, <3>2, <3>3, <3>4
  <2>13. Restoring
    BY <2>3, RendezvousAssumption DEF Restoring
  <2>4. local[c].saved = "os" /\ HasSaved(pc[c], local[c].then, ConfigureMtrrs)
    <3>1. HasSaved(pc[c], local[c].then, ConfigureMtrrs)
      BY <2>1, <2>3 DEF HasSaved, Switched, Foundation
    <3> QED BY <1>4, <3>1
  <2>5. Typed'
    <3>1. mtrr' \in [Cores -> {"os", "smm"}]
      BY <1>1, <1>3, <2>1, <2>4
    <3> QED BY <1>1, <2>1, <2>2, <3>1, TypedKeeps
  <2>6. PresentIs' /\ Procedures'
    <3>1. /\ "ap_restored" \in Absent <=> pc[c] \in Absent
          /\ pc[c] \notin Starting /\ "ap_restored" \notin Starting /\
               ("ap_restored" = "ap_free" <=> pc[c] = "ap_free")
      BY <2>1 DEF Absent, Gone, Starting
    <3> QED BY <2>1, <2>2, <3>1, PresentKeeps, ProceduresKeep
  <2>7. Mtrrs'
    BY <2>1, <2>2, <2>4, <2>13, MtrrsRestored
  <2> QED BY <2>5, <2>6, <2>7
<1>45. CASE ApRestored(c)
  <2>1. pc[c] = "ap_restored" /\ Goto(c, "leave")
    BY <1>45 DEF ApRestored, At, SignalBsp
  <2>2. PICK l \in Labels : l = "leave"
    BY DEF Labels
  <2>3. UNCHANGED <<mtrr, tasks, runs>>
    BY <1>45 DEF ApRestored, Keep, SignalBsp
  <2>4. UNCHANGED <<counter, bspIndex, current, insideSmm>>
    BY <1>45 DEF ApRestored, shared, SignalBsp
  <2>5. /\ data' \in [Cpus -> Datum] /\ \A y \in Cpus : data'[y].present = data[y].present
        /\ \A y \in Cpus : data'[y].busy = data[y].busy /\ data'[y].procedure = data[y].procedure
    <3>1. PICK d \in Cpus : d = local[c].bsp
      BY <2>1, KnowsIs DEF Knows
    <3>2. PICK v \in Nat : v = data[d].run + 1
      BY <1>2
    <3>3. ReleaseRun(d)
      BY <1>45, <3>1 DEF ApRestored, SignalBsp
    <3>7. d \in Cpus /\ v \in Nat /\ Set(d, "run", v)
      BY <3>2, <3>3 DEF ReleaseRun
    <3>8. data' \in [Cpus -> Datum] /\ data'[d].present = data[d].present
          /\ data'[d].busy = data[d].busy /\ data'[d].procedure = data[d].procedure
          /\ \A y \in Cpus : y # d => data'[y] = data[y]
      BY <1>1, <3>7, RunSet
    <3> QED BY <3>8
  <2>6. local' = local
    BY <1>45 DEF ApRestored, SignalBsp
  <2>7. /\ l \in Absent <=> pc[c] \in Absent
        /\ pc[c] \notin Starting /\ l \notin Starting /\ (l = "ap_free" <=> pc[c] = "ap_free")
    BY <2>1, <2>2 DEF Absent, Gone, Starting
  <2>8. /\ Switched(l, local'[c].then, ConfigureMtrrs) <=> Switched(pc[c], local[c].then,
             ConfigureMtrrs)
        /\ HasSaved(l, local'[c].then, ConfigureMtrrs) =>
             HasSaved(pc[c], local[c].then, ConfigureMtrrs)
    BY <2>1, <2>2, <2>6 DEF Switched, HasSaved, Foundation
  <2>9. Goto(c, l)
    BY <2>1, <2>2
  <2>10. /\ counter' \in Int /\ insideSmm' \in BOOLEAN /\ bspIndex' \in Cpus \cup {NoCpu}
         /\ current' \in Cpus
    BY <1>1, <2>4
  <2>11. local' \in [Cpus -> Vars] /\ local'[c].saved = local[c].saved
         /\ \A y \in Cpus : y # c => local'[y] = local[y]
    BY <1>1, <2>6
  <2> QED BY <2>3, <2>5, <2>7, <2>8, <2>9, <2>10, <2>11, SideKeeps
<1>46. CASE Exit(c)
  <2>1. pc[c] = "exit" /\ Goto(c, "out") /\ "out" \in Labels
        /\ UNCHANGED <<mtrr, tasks, runs, counter, bspIndex, current, insideSmm, data>>
        /\ local' = [local EXCEPT ![c] = NoFrame]
    BY <1>46 DEF Exit, At, Keep, shared, Labels
  <2>2. NoFrame \in Vars /\ NoFrame.saved = "none"
    BY DEF NoFrame, Vars, Nexts
  <2>3. /\ local' \in [Cpus -> Vars] /\ local'[c].saved = "none"
        /\ \A y \in Cpus : y # c => local'[y] = local[y]
    BY <1>1, <2>1, <2>2, VarsSet
  <2>4. Typed'
    BY <1>1, <2>1, <2>3, TypedKeeps
  <2>5. PresentIs' /\ Procedures'
    <3>1. /\ "out" \in Absent <=> pc[c] \in Absent
          /\ pc[c] \notin Starting /\ "out" \notin Starting /\ ("out" = "ap_free" <=>
               pc[c] = "ap_free")
      BY <2>1 DEF Absent, Gone, Starting
    <3> QED BY <2>1, <2>3, <3>1, PresentKeeps, ProceduresKeep
  <2>6. /\ Switched("out", local'[c].then, ConfigureMtrrs) <=> IsSwitched(c)
        /\ ~HasSaved("out", local'[c].then, ConfigureMtrrs)
    BY <2>1 DEF IsSwitched, Switched, HasSaved, Foundation
  <2>7. Mtrrs'
    BY <2>1, <2>3, <2>6, MtrrsKeep
  <2> QED BY <2>4, <2>5, <2>7
<1>47. CASE MarkPresent(c)
  <2>1. pc[c] = "present" /\ Goto(c, "elect") /\ "elect" \in Labels
        /\ UNCHANGED <<mtrr, tasks, runs, counter, bspIndex, current, insideSmm, local>>
    BY <1>47 DEF MarkPresent, At, Keep, shared, Labels
  <2>2. /\ data' \in [Cpus -> Datum] /\ data'[c].present = TRUE
        /\ data'[c].busy = data[c].busy /\ data'[c].procedure = data[c].procedure
        /\ \A y \in Cpus : y # c => data'[y] = data[y]
    BY <1>1, <1>47, PresentSet DEF MarkPresent
  <2>3. Typed'
    BY <1>1, <2>1, <2>2, TypedKeeps
  <2>4. PresentIs'
    <3>1. pc'[c] = "elect" /\ \A y \in Cpus : y # c => pc'[y] = pc[y]
      BY <1>1, <2>1, GotoIs
    <3> QED BY <2>2, <3>1 DEF PresentIs, Absent, Gone
  <2>5. Procedures'
    <3>1. /\ pc[c] \notin Starting /\ "elect" \notin Starting /\ ("elect" = "ap_free" <=>
               pc[c] = "ap_free")
      BY <2>1 DEF Starting
    <3>2. \A y \in Cpus : data'[y].busy = data[y].busy /\ data'[y].procedure = data[y].procedure
      BY <2>2
    <3> QED BY <2>1, <3>1, <3>2, ProceduresKeep
  <2>6. /\ Switched("elect", local'[c].then, ConfigureMtrrs) <=> IsSwitched(c)
        /\ ~HasSaved("elect", local'[c].then, ConfigureMtrrs)
    BY <2>1 DEF IsSwitched, Switched, HasSaved, Foundation
  <2>7. Mtrrs'
    BY <1>4, <2>1, <2>6, MtrrsKeep
  <2> QED BY <2>3, <2>4, <2>5, <2>7
<1>48. CASE Leave(c)
  <2>1. pc[c] = "leave" /\ Goto(c, "exit") /\ "exit" \in Labels
        /\ UNCHANGED <<mtrr, tasks, runs, counter, bspIndex, current, insideSmm, local>>
    BY <1>48 DEF Leave, At, Keep, shared, Labels
  <2>2. /\ data' \in [Cpus -> Datum] /\ data'[c].present = FALSE
        /\ data'[c].busy = data[c].busy /\ data'[c].procedure = data[c].procedure
        /\ \A y \in Cpus : y # c => data'[y] = data[y]
    BY <1>1, <1>48, PresentSet DEF Leave
  <2>3. Typed'
    BY <1>1, <2>1, <2>2, TypedKeeps
  <2>4. PresentIs'
    <3>1. pc'[c] = "exit" /\ \A y \in Cpus : y # c => pc'[y] = pc[y]
      BY <1>1, <2>1, GotoIs
    <3> QED BY <2>2, <3>1 DEF PresentIs, Absent, Gone
  <2>5. Procedures'
    <3>1. /\ pc[c] \notin Starting /\ "exit" \notin Starting /\ ("exit" = "ap_free" <=>
               pc[c] = "ap_free")
      BY <2>1 DEF Starting
    <3>2. \A y \in Cpus : data'[y].busy = data[y].busy /\ data'[y].procedure = data[y].procedure
      BY <2>2
    <3> QED BY <2>1, <3>1, <3>2, ProceduresKeep
  <2>6. /\ Switched("exit", local'[c].then, ConfigureMtrrs) <=> IsSwitched(c)
        /\ ~HasSaved("exit", local'[c].then, ConfigureMtrrs)
    BY <2>1 DEF IsSwitched, Switched, HasSaved, Foundation
  <2>7. Mtrrs'
    BY <1>4, <2>1, <2>6, MtrrsKeep
  <2> QED BY <2>3, <2>4, <2>5, <2>7
<1>49. CASE StartupThisAp(c)
  BY <1>49, StartupThisApSide
<1>50. CASE StartupProcedure(c)
  BY <1>50, StartupProcedureSide
<1>51. CASE StartupRelease(c)
  BY <1>51, StartupReleaseSide
<1>52. CASE StartupWait(c)
  BY <1>52, StartupWaitSide
<1>53. CASE ApRun(c)
  BY <1>53, ApRunSide
<1>54. CASE ApFree(c)
  BY <1>54, ApFreeSide
<1> QED BY <1>5, <1>6, <1>7, <1>8, <1>9, <1>10, <1>11, <1>12, <1>13, <1>14, <1>15, <1>16, <1>17,
           <1>18, <1>19, <1>20, <1>21, <1>22, <1>23, <1>24, <1>25, <1>26, <1>27, <1>28, <1>29,
           <1>30, <1>31, <1>32, <1>33, <1>34, <1>35, <1>36, <1>37, <1>38, <1>39, <1>40, <1>41,
           <1>42, <1>43, <1>44, <1>45, <1>46, <1>47, <1>48, <1>49, <1>50, <1>51, <1>52, <1>53,
           <1>54 DEF AllActions, OtherActions, LeaderActions

-----------------------------------------------------------------------------
(* The invariant.                                                            *)

(* The invariant holds at first,                                             *)
LEMMA TogetherStarts ==
  ASSUME Init, Elected
  PROVE  Together
<1>1. /\ data = [c \in Cpus |-> [run |-> 0, present |-> FALSE, busy |-> FALSE, procedure |-> 0]]
      /\ pc = [c \in Cpus |-> "out"] /\ local = [c \in Cpus |-> NoFrame]
      /\ mtrr = [k \in Cores |-> "os"] /\ runs = [t \in Tasks |-> 0] /\ tasks = 0
      /\ counter = 0 /\ bspIndex = NoCpu /\ current = BootBsp /\ insideSmm = FALSE
      /\ config \in Configurations
  BY DEF Init, Elected
<1>2. Typed
  <2>1. data \in [Cpus -> Datum]
    BY <1>1 DEF Datum
  <2>2. NoFrame \in Vars
    BY DEF NoFrame, Vars, Nexts
  <2>3. local \in [Cpus -> Vars]
    BY <1>1, <2>2
  <2>4. pc \in [Cpus -> Labels]
    BY <1>1 DEF Labels
  <2>5. mtrr \in [Cores -> {"os", "smm"}] /\ runs \in [Tasks -> Nat]
    BY <1>1
  <2>6. tasks \in 0 .. MaxTasks
    BY <1>1, RendezvousAssumption
  <2>7. /\ counter \in Int /\ bspIndex \in Cpus \cup {NoCpu} /\ current \in Cpus
        /\ insideSmm \in BOOLEAN
    <3>1. counter \in Int /\ bspIndex \in Cpus \cup {NoCpu}
      BY <1>1
    <3>2. current \in Cpus
      BY <1>1, RendezvousAssumption
    <3>3. insideSmm \in BOOLEAN
      BY <1>1
    <3> QED BY <3>1, <3>2, <3>3
  <2>8. config \in Configurations
    BY <1>1
  <2> QED BY <2>1, <2>3, <2>4, <2>5, <2>6, <2>7, <2>8 DEF Typed
<1>3. \A c \in Cpus : /\ data[c].run = 0 /\ ~data[c].present /\ pc[c] = "out"
                      /\ local[c].saved = "none"
  BY <1>1 DEF NoFrame
<1>4. Led
  <2>1. Number(pc, Cpus, There) = 0
    <3>1. {d \in Cpus : pc[d] \in There} = {}
      BY <1>3 DEF There, Away, Gone
    <3> QED BY <3>1, FS_EmptySet DEF Number
  <2> QED BY <1>1, <1>3, <2>1 DEF Led, Vacant, Away, Gone
<1>5. PresentIs
  BY <1>3 DEF PresentIs, Absent, Gone
<1>6. Mtrrs
  <2>1. \A c \in Cpus : /\ ~IsSwitched(c)
                        /\ ~HasSaved(pc[c], local[c].then, ConfigureMtrrs)
    BY <1>3 DEF IsSwitched, HasSaved, Switched, Foundation
  <2>2. \A k \in Cores : mtrr[k] = "os"
    BY <1>1
  <2> QED BY <1>3, <2>1, <2>2 DEF Mtrrs
<1>7. Procedures
  <2>1. Ran(tasks)
    BY <1>1 DEF Ran, Tasks
  <2> QED BY <1>3, <2>1 DEF Procedures, Starting
<1> QED BY <1>2, <1>4, <1>5, <1>6, <1>7 DEF Together

(* Whoever moves, a session goes on as it should.                            *)
LEMMA LedSteps ==
  ASSUME Typed, Led, PresentIs, Elected, ConfigureMtrrs \in BOOLEAN,
         NEW c \in Cpus, TakeSmi(c) \/ Processor(c)
  PROVE  Led' /\ RestoringStays
<1>1. CASE bspIndex = NoCpu
  <2>1. Led'
    BY <1>1, VacantSteps DEF Led, Elected
  <2> QED BY <1>1, <2>1 DEF RestoringStays, Restoring
<1>2. CASE bspIndex # NoCpu
  <2>1. PICK b \in Cpus : b = bspIndex
    BY <1>2 DEF Typed
  <2>2. PICK p : p = Now(b)
    OBVIOUS
  <2>3. Session(b, p)
    BY <1>2, <2>1, <2>2 DEF Led
  <2>4. CASE c = b
    <3>1. /\ Led'
          /\ p = "restore" => \/ bspIndex' = b /\ Now(b)' = p
                              \/ \A d \in Cpus : ~IsSwitched(d)'
      BY <2>1, <2>2, <2>3, <2>4, LeaderSteps DEF Elected
    <3>2. Restoring => p = "restore"
      BY <2>1, <2>2 DEF Restoring
    <3>3. bspIndex' = b /\ Now(b)' = p /\ p = "restore" => Restoring'
      BY <1>2, <2>1 DEF Restoring
    <3> QED BY <3>1, <3>2, <3>3 DEF RestoringStays
  <2>5. CASE c # b
    <3>1. Led' /\ Now(b)' = p
      BY <2>1, <2>2, <2>3, <2>5, OtherSteps DEF Elected
    <3>2. bspIndex' = b
      <4>1. pc[c] \in OtherLabels
        BY <2>2, <2>3, <2>5, InPhase
      <4>2. OtherActions(c)
        BY <4>1, OtherActs
      <4> QED BY <1>2, <2>1, <4>2
              DEF OtherActions, TakeSmi, Arrive, MarkPresent, Elect, Role, Leave, Exit,
                  BspOutOfSync, ApBegin, ApNotify, ApSave, ApSaving, ApSaved, ApReplace,
                  ApReplacing, ApReplaced, ApBusy, ApIdle, ApLook, ApRun, ApFree, ApDone,
                  ApRestore, ApRestoring, ApRestored, SignalBsp, shared
    <3>3. Restoring => p = "restore"
      BY <2>1, <2>2 DEF Restoring
    <3>4. p = "restore" => Restoring'
      BY <1>2, <2>1, <3>1, <3>2 DEF Restoring
    <3> QED BY <3>1, <3>3, <3>4 DEF RestoringStays
  <2> QED BY <2>4, <2>5
<1> QED BY <1>1, <1>2

(* A step that changes nothing it is about.                                  *)
LEMMA TogetherStays ==
  ASSUME Together,
         UNCHANGED <<config, mtrr, counter, bspIndex, current, insideSmm, data, pc, local, tasks,
                     runs>>
  PROVE  Together'
<1>1. Typed'
  BY DEF Together, Typed
<1>2. \A b \in Cpus : Now(b)' = Now(b) /\ (IsSwitched(b)' <=> IsSwitched(b))
  BY DEF Now, IsSwitched, ConfigureMtrrs
<1>3. Led'
  <2>1. ASSUME NEW b \in Cpus, NEW p, Session(b, p)
        PROVE  Session(b, p)'
    BY <2>1 DEF Session, Placed, Tallied, Leads, Starts, ConfigureMtrrs
  <2>2. Vacant => Vacant'
    BY DEF Vacant
  <2> QED BY <1>2, <2>1, <2>2 DEF Together, Typed, Led
<1>4. PresentIs'
  BY DEF Together, PresentIs
<1>5. Mtrrs'
  <2>1. Restoring' <=> Restoring
    BY <1>2 DEF Restoring, Together, Typed
  <2> QED BY <1>2, <2>1 DEF Together, Mtrrs, ConfigureMtrrs
<1>6. Procedures'
  BY DEF Together, Procedures, Ran
<1> QED BY <1>1, <1>3, <1>4, <1>5, <1>6 DEF Together

(* ... and at every step.                                                    *)
LEMMA TogetherGoesOn ==
  ASSUME Together, Elected, [Next]_vars
  PROVE  Together' /\ Elected'
<1>1. ConfigureMtrrs \in BOOLEAN
  BY RendezvousAssumption DEF Together, Typed, ConfigureMtrrs
<1>2. UNCHANGED config => Elected'
  BY DEF Elected, Election, LateStart, BlockStartup
<1>3. ASSUME NEW c \in Cpus, TakeSmi(c) \/ Processor(c)
      PROVE  Together' /\ UNCHANGED config
  <2>1. Led' /\ RestoringStays
    BY <1>1, <1>3, LedSteps DEF Together
  <2>2. AllActions(c) /\ UNCHANGED config
    BY <1>3, AllActs DEF Together
  <2> QED BY <1>1, <2>1, <2>2, SideSteps DEF Together, Elected
<1>4. CASE RaiseSmi
  BY <1>2, <1>4, TogetherStays DEF RaiseSmi, shared
<1>5. CASE UNCHANGED vars
  BY <1>2, <1>5, TogetherStays DEF vars
<1> QED BY <1>2, <1>3, <1>4, <1>5 DEF Next

(* The inductive invariant: at every step of every number of processors, for *)
(* any assignment of processors to cores and any number of SMIs and          *)
(* procedures, who has been let through which barrier, how many signals are  *)
(* still to come, whose MTRRs are switched and which procedures have run     *)
(* (BSPHandler, APHandler).                                                  *)
THEOREM TogetherHolds == Spec /\ Elected => [](Together /\ Elected)
<1>1. Init /\ Elected => Together
  BY TogetherStarts
<1>2. Together /\ Elected /\ [Next]_vars => Together' /\ Elected'
  BY TogetherGoesOn
<1> QED BY <1>1, <1>2, PTL DEF Spec

-----------------------------------------------------------------------------
(* The properties.                                                           *)

(* While the foundation runs, the session is on hold.                        *)
LEMMA RunningSession ==
  ASSUME Together, NEW b \in Running
  PROVE  /\ b \in Cpus /\ bspIndex = b /\ Session(b, Now(b)) /\ Now(b) = "hold"
         /\ pc[b] \in Foundation
         /\ \A d \in Cpus \ {b} : pc[d] \in Held \cup Gone
<1>1. b \in Cpus /\ pc[b] \in Foundation
  BY DEF Running
<1>2. bspIndex = b /\ Session(b, Now(b))
  BY <1>1, LeaderOf DEF Together, Foundation, LeaderLabels, Ready
<1>3. Now(b) = "hold"
  BY <1>1 DEF Now, Phase, Open, Closing, Foundation
<1>4. ASSUME NEW d \in Cpus \ {b}
      PROVE  pc[d] \in Held \cup Gone
  <2>1. pc[d] \in Owing("hold") \cup Beyond("hold", ConfigureMtrrs) \cup Gone
    BY <1>2, <1>3 DEF Session, Placed
  <2> QED BY <2>1 DEF Owing, Gate, Work, Beyond, Held
<1> QED BY <1>1, <1>2, <1>3, <1>4

(* With an elected BSP and a long sync timer, the foundation runs on one     *)
(* processor, with every other one held in the loop of APHandler or not let  *)
(* in (BSPHandler).                                                          *)
THEOREM OthersAreHeldCorrect == Spec /\ Elected => []OthersAreHeld
<1>1. Together => OthersAreHeld
  <2>1. ASSUME Together, NEW b \in Running, NEW d \in Cpus \ {b}
        PROVE  pc[d] \in Held \cup Outside
    BY <2>1, RunningSession DEF Gone, Outside
  <2> QED BY <2>1 DEF OthersAreHeld
<1> QED BY <1>1, TogetherHolds, PTL

(* Nobody joins or leaves then.                                              *)
LEMMA HoldKeepsPresent ==
  ASSUME Together, NEW b \in Running, NEW c \in Cpus, AllActions(c)
  PROVE  \A d \in Cpus : data'[d].present = data[d].present
<1>1. /\ data \in [Cpus -> Datum] /\ \A d \in Cpus : data[d].run \in Nat
      /\ local \in [Cpus -> Vars]
  BY DEF Together, Typed, Datum
<1>2. pc[c] \in Held \cup Gone \cup Foundation
  BY RunningSession
<1>3. \/ TakeSmi(c) \/ Arrive(c) \/ Exit(c) \/ ApLook(c) \/ ApRun(c) \/ BspNotInside(c)
      \/ StartupWait(c)
      \/ ApBusy(c) \/ ApFree(c)
      \/ ApIdle(c)
      \/ StartupThisAp(c) \/ StartupProcedure(c) \/ StartupRelease(c)
  BY <1>2 DEF Held, Gone, Foundation, AllActions, OtherActions, LeaderActions, At, MarkPresent,
     Elect, Role, Leave, BspOutOfSync, ApBegin, ApNotify, ApSave, ApSaving, ApSaved, ApReplace,
     ApReplacing, ApReplaced, ApDone, ApRestore, ApRestoring, ApRestored, BspInside, BspSync,
     BspCheck, SendSmiIpis, BspSyncAgain, BspInSync, BspLock, BspSave, BspSaved, BspReplace,
     BspReplaced, BspBusy, BspDismiss, BspPending, BspRestore, BspRestored, BspReset, BspReopen,
     Wait, Release
<1>4. CASE \/ TakeSmi(c) \/ Arrive(c) \/ Exit(c) \/ ApLook(c) \/ ApRun(c) \/ BspNotInside(c)
           \/ StartupWait(c)
  BY <1>4 DEF TakeSmi, Arrive, Exit, ApLook, ApRun, BspNotInside, StartupWait
<1>5. CASE ApBusy(c) \/ ApFree(c)
  <2>1. Set(c, "busy", FALSE)
    BY <1>5 DEF ApBusy, ApFree
  <2>2. /\ data'[c].present = data[c].present
        /\ \A x \in Cpus : x # c => data'[x] = data[x]
    BY <1>1, <2>1, BusySet
  <2> QED BY <2>2
<1>6. CASE ApIdle(c)
  <2>1. PICK v \in Nat : v = data[c].run - 1
    BY <1>1, <1>6 DEF ApIdle, WaitForRun
  <2>2. Set(c, "run", v)
    BY <1>6, <2>1 DEF ApIdle, WaitForRun
  <2>3. /\ data'[c].present = data[c].present
        /\ \A x \in Cpus : x # c => data'[x] = data[x]
    BY <1>1, <2>2, RunSet
  <2> QED BY <2>3
<1>7. CASE StartupThisAp(c)
  <2>1. PICK d \in Cpus : Set(d, "busy", TRUE)
    BY <1>7 DEF StartupThisAp
  <2>2. /\ data'[d].present = data[d].present
        /\ \A x \in Cpus : x # d => data'[x] = data[x]
    BY <1>1, <2>1, BusySet
  <2> QED BY <2>2
<1>8. ASSUME pc[c] \in Starting
      PROVE  local[c].ap \in Cpus
  BY <1>8, StartingIs DEF Together
<1>9. CASE StartupProcedure(c)
  <2>1. PICK a \in Cpus : a = local[c].ap
    BY <1>8, <1>9 DEF StartupProcedure, At, Starting
  <2>2. PICK v \in Int : v = tasks
    BY DEF Together, Typed
  <2>3. Set(a, "procedure", v)
    BY <1>9, <2>1, <2>2 DEF StartupProcedure
  <2>4. /\ data'[a].present = data[a].present
        /\ \A x \in Cpus : x # a => data'[x] = data[x]
    BY <1>1, <2>3, ProcedureSet
  <2> QED BY <2>4
<1>10. CASE StartupRelease(c)
  <2>1. PICK a \in Cpus : a = local[c].ap
    BY <1>8, <1>10 DEF StartupRelease, At, Starting
  <2>2. PICK v \in Nat : v = data[a].run + 1
    BY <1>1
  <2>3. Set(a, "run", v)
    BY <1>10, <2>1, <2>2 DEF StartupRelease, ReleaseRun
  <2>4. /\ data'[a].present = data[a].present
        /\ \A x \in Cpus : x # a => data'[x] = data[x]
    BY <1>1, <2>3, RunSet
  <2> QED BY <2>4
<1> QED BY <1>3, <1>4, <1>5, <1>6, <1>7, <1>9, <1>10

(* Nobody joins or leaves those that the BSP has counted until the           *)
(* foundation is done: the locked counter keeps late processors out, and the *)
(* loop of APHandler keeps the others in.                                    *)
THEOREM SessionIsClosedCorrect == Spec /\ Elected => SessionIsClosed
<1>1. Together /\ [Next]_vars =>
        [Election /\ Running # {} /\ Running' = Running => Present' = Present]_vars
  <2>1. SUFFICES ASSUME Together, Next, Running # {}
                 PROVE  Present' = Present
    OBVIOUS
  <2>2. PICK b \in Running : TRUE
    BY <2>1
  <2>3. CASE RaiseSmi
    BY <2>3 DEF RaiseSmi, Present
  <2>4. ASSUME NEW c \in Cpus, TakeSmi(c) \/ Processor(c)
        PROVE  Present' = Present
    <3>1. AllActions(c)
      BY <2>1, <2>4, AllActs DEF Together
    <3>2. \A d \in Cpus : data'[d].present = data[d].present
      BY <2>1, <2>2, <3>1, HoldKeepsPresent
    <3> QED BY <3>2 DEF Present
  <2> QED BY <2>1, <2>3, <2>4 DEF Next
<1> QED BY <1>1, TogetherHolds, PTL DEF Spec, SessionIsClosed

(* An AP that is held or let go answers the BSP that holds it: BspIndex is   *)
(* reset only when all APs have read it for the last time (APHandler, the    *)
(* last ReleaseSemaphore before the MTRRs).                                  *)
THEOREM BspIsThereCorrect == Spec /\ Elected => []BspIsThere
<1>1. Together => BspIsThere
  <2>1. ASSUME Together, NEW c \in Cpus, pc[c] \in Held \cup {"ap_done"}
        PROVE  bspIndex = local[c].bsp
    <3>1. pc[c] \in Knows
      BY <2>1 DEF Held, Knows
    <3> QED BY <2>1, <3>1, KnowsIs DEF Together
  <2> QED BY <2>1 DEF BspIsThere
<1> QED BY <1>1, TogetherHolds, PTL

(* The MTRRs that threads share: nobody saves those of SMM, the foundation   *)
(* and the procedures run under those of SMM, and a core resumes under those *)
(* of the operating system.  Any number of threads may share a core, and the *)
(* MTRRs need not be switched at all.                                        *)
THEOREM MtrrsAreSwitchedCorrect == Spec /\ Elected => []MtrrsAreSwitched
<1>1. Together => SavesAreOfOs
  BY DEF Together, Mtrrs, SavesAreOfOs
<1>2. Together => RunsUnderSmmMtrrs
  <2>1. ASSUME Together, ConfigureMtrrs, NEW c \in Cpus, pc[c] \in Foundation \cup {"ap_run"}
        PROVE  mtrr[Core[c]] = "smm"
    <3>1. IsSwitched(c)
      BY <2>1 DEF IsSwitched, Switched
    <3>2. PICK b \in Running : bspIndex = b
      <4>1. CASE pc[c] \in Foundation
        <5>1. c \in Running
          BY <4>1 DEF Running
        <5> QED BY <2>1, <5>1, RunningSession
      <4>2. CASE pc[c] = "ap_run"
        BY <2>1, <4>2, RunningIs DEF Together, Running, Foundation
      <4> QED BY <2>1, <4>1, <4>2
    <3>3. ~Restoring
      BY <2>1, <3>2, RunningSession DEF Restoring
    <3> QED BY <2>1, <3>1, <3>3 DEF Together, Mtrrs
  <2> QED BY <2>1 DEF RunsUnderSmmMtrrs
<1>3. Together => ResumesUnderOsMtrrs
  <2>1. ASSUME Together, NEW k \in Cores, \A c \in Cpus : Core[c] = k => pc[c] \in Outside
        PROVE  mtrr[k] = "os"
    <3>1. \A c \in Cpus : Core[c] = k => ~IsSwitched(c)
      BY <2>1 DEF IsSwitched, Switched, Outside, Foundation
    <3>2. mtrr[k] # "smm"
      BY <2>1, <3>1 DEF Together, Mtrrs
    <3>3. mtrr[k] \in {"os", "smm"}
      BY <2>1 DEF Together, Typed
    <3> QED BY <3>2, <3>3
  <2> QED BY <2>1 DEF ResumesUnderOsMtrrs
<1>4. Together => MtrrsAreSwitched
  BY <1>1, <1>2, <1>3 DEF MtrrsAreSwitched
<1> QED BY <1>4, TogetherHolds, PTL

(* No signal is left over for the next SMI, and a procedure runs on a busy   *)
(* AP: the assertions of SmiRendezvous and APHandler.                        *)
THEOREM AssertionsHoldCorrect == Spec /\ Elected => []AssertionsHold
<1>1. ASSUME Together, NEW c \in Cpus, pc[c] = "exit"
      PROVE  data[c].run = 0
  <2>1. CASE bspIndex = NoCpu
    BY <1>1, <2>1 DEF Together, Led, Vacant
  <2>2. CASE bspIndex # NoCpu
    <3>1. PICK b \in Cpus : b = bspIndex
      BY <1>1, <2>2 DEF Together, Typed
    <3>2. PICK p : p = Now(b)
      OBVIOUS
    <3>3. Session(b, p)
      BY <1>1, <2>2, <3>1, <3>2 DEF Together, Led
    <3>4. c # b
      <4>1. pc[b] \in LeaderLabels
        BY <3>2, <3>3, LeaderIs
      <4> QED BY <1>1, <4>1 DEF LeaderLabels, Open, Closing, Ready
    <3>5. pc[c] \notin Gate(p)
      BY <1>1 DEF Gate
    <3> QED BY <3>3, <3>4, <3>5 DEF Session, Placed
  <2> QED BY <2>1, <2>2
<1>2. ASSUME Together, NEW c \in Cpus, pc[c] = "ap_run"
      PROVE  data[c].busy
  BY <1>2, RunningIs DEF Together
<1>3. Together => AssertionsHold
  BY <1>1, <1>2 DEF AssertionsHold, NoSignalLeftOver, BusyWhileRunning
<1> QED BY <1>3, TogetherHolds, PTL

(* Every procedure started has run when the BSP has waited for pending       *)
(* tasks, and none has run twice, in this SMI or a later one                 *)
(* (SmmStartupThisAp, APHandler).                                            *)
THEOREM ProceduresRunOnceCorrect == Spec /\ Elected => []ProceduresRunOnce
<1>1. ASSUME Together, NEW c \in Cpus, pc[c] \in {"bsp_restore", "bsp_reset"},
               NEW t \in 1 .. tasks
      PROVE  runs[t] > 0
  <2>1. Session(c, Now(c))
    BY <1>1, LeaderOf DEF Together, LeaderLabels, Ready
  <2>2. PICK p : p = Now(c)
    OBVIOUS
  <2>3. \A d \in Cpus \ {c} : pc[d] \in OtherLabels
    BY <1>1, <2>1, <2>2, InPhase DEF Together
  <2>4. \A d \in Cpus : pc[d] \notin Starting
    BY <1>1, <2>3 DEF OtherLabels, Joining, Leaving, Gone, Knows, Starting
  <2>5. Ran(tasks)
    BY <1>1, <2>4 DEF Together, Procedures
  <2>6. t \in Tasks /\ t <= tasks
    BY <1>1, RendezvousAssumption DEF Together, Typed, Tasks
  <2> QED BY <2>5, <2>6 DEF Ran
<1>2. ASSUME Together, NEW t \in Tasks
      PROVE  runs[t] =< 1
  <2>1. PICK n : Ran(n)
    BY <1>2 DEF Together, Procedures
  <2> QED BY <2>1 DEF Ran
<1>3. Together => ProceduresRunOnce
  BY <1>1, <1>2 DEF ProceduresRunOnce, PendingTasksComplete
<1> QED BY <1>3, TogetherHolds, PTL

-----------------------------------------------------------------------------
(* The ranges of the counters.                                               *)

Bounded(f) == f.aps \in -2 .. NumberOfCpus /\ f.left \in -2 .. NumberOfCpus
Bounds ==
  /\ smi \subseteq Cpus /\ allInSync \in BOOLEAN /\ smis \in 0 .. MaxSmis
  /\ \A c \in Cpus : data[c].procedure \in 0 .. MaxTasks
  /\ \A c \in Cpus : Bounded(local[c])

(* Some of the processors are no more than all.                              *)
LEMMA NumberSmall ==
  ASSUME NEW at, NEW X \in SUBSET Cpus, NEW L
  PROVE  /\ NumberOfCpus \in Nat \ {0}
         /\ Number(at, X, L) \in 0 .. NumberOfCpus
         /\ \A b \in Cpus : X = Cpus \ {b} => Number(at, X, L) <= NumberOfCpus - 1
<1> DEFINE S == {d \in X : at[d] \in L}
<1>1. IsFiniteSet(Cpus) /\ Cpus # {}
  BY RendezvousAssumption
<1>2. NumberOfCpus \in Nat \ {0}
  BY <1>1, FS_CardinalityType, FS_EmptySet DEF NumberOfCpus
<1>3. Cardinality(S) \in Nat /\ Cardinality(S) <= NumberOfCpus
  <2>1. S \subseteq Cpus
    OBVIOUS
  <2> HIDE DEF S
  <2> QED BY <1>1, <2>1, FS_Subset, FS_CardinalityType DEF NumberOfCpus
<1>4. ASSUME NEW b \in Cpus, X = Cpus \ {b}
      PROVE  Cardinality(S) <= NumberOfCpus - 1
  <2>1. IsFiniteSet(X) /\ Cardinality(X) = NumberOfCpus - 1
    BY <1>1, <1>4, FS_RemoveElement DEF NumberOfCpus
  <2>2. S \subseteq X
    OBVIOUS
  <2> HIDE DEF S
  <2> QED BY <2>1, <2>2, FS_Subset
<1> QED BY <1>2, <1>3, <1>4 DEF Number

(* The counter counts processors, or is locked.                              *)
LEMMA CounterIs ==
  ASSUME Together
  PROVE  counter \in -1 .. NumberOfCpus
<1>1. NumberOfCpus \in Nat \ {0}
  BY NumberSmall
<1>2. CASE bspIndex = NoCpu
  <2>1. counter = Locked \/ counter = Number(pc, Cpus, There)
    BY <1>2 DEF Together, Led, Vacant
  <2> QED BY <1>1, <2>1, NumberSmall DEF Locked
<1>3. CASE bspIndex # NoCpu
  <2>1. PICK b \in Cpus : b = bspIndex
    BY <1>3 DEF Together, Typed
  <2>2. PICK p : p = Now(b)
    OBVIOUS
  <2>3. Tallied(b, p)
    BY <1>3, <2>1, <2>2 DEF Together, Led, Session
  <2>4. counter - 1 = Number(pc, Cpus \ {b}, There) \/ counter = Locked
    BY <2>3 DEF Tallied
  <2>5. Number(pc, Cpus \ {b}, There) \in 0 .. NumberOfCpus - 1
    BY <1>1, NumberSmall
  <2>6. counter \in Int
    BY DEF Together, Typed
  <2> QED BY <1>1, <2>4, <2>5, <2>6 DEF Locked
<1> QED BY <1>2, <1>3

(* No semaphore is released more often than there are processors.            *)
LEMMA RunIs ==
  ASSUME Together, Bounds, NEW c \in Cpus
  PROVE  data[c].run \in 0 .. NumberOfCpus
<1>1. NumberOfCpus \in Nat \ {0} /\ counter \in -1 .. NumberOfCpus
  BY NumberSmall, CounterIs
<1>2. data[c].run \in Nat
  BY DEF Together, Typed, Datum
<1>3. CASE bspIndex = NoCpu
  BY <1>1, <1>3 DEF Together, Led, Vacant
<1>4. CASE bspIndex # NoCpu
  <2>1. PICK b \in Cpus : b = bspIndex
    BY <1>4 DEF Together, Typed
  <2>2. PICK p : p = Now(b)
    OBVIOUS
  <2>3. Session(b, p)
    BY <1>4, <2>1, <2>2 DEF Together, Led
  <2>4. CASE c = b
    <3>1. data[b].run + Number(pc, Cpus \ {b}, Owing(p)) = Awaited(pc[b], local[b], counter)
      BY <2>3 DEF Session, Tallied
    <3>2. Number(pc, Cpus \ {b}, Owing(p)) \in Nat
      BY NumberIs
    <3>3. Awaited(pc[b], local[b], counter) \in -2 .. NumberOfCpus
      BY <1>1 DEF Awaited, Bounds, Bounded
    <3> QED BY <1>1, <1>2, <2>4, <3>1, <3>2, <3>3
  <2>5. CASE c # b
    BY <1>1, <2>3, <2>5 DEF Session, Placed
  <2> QED BY <2>4, <2>5
<1> QED BY <1>3, <1>4

(* What the steps leave alone.                                               *)
LEMMA ProceduresKept ==
  ASSUME data \in [Cpus -> Datum], NEW c, NEW v,
         Set(c, "run", v) \/ Set(c, "present", v) \/ Set(c, "busy", v)
  PROVE  \A x \in Cpus : data'[x].procedure = data[x].procedure
BY DEF Set, Datum

(* Setting another field than the counts changes no count.                   *)
LEMMA BoundsKept ==
  ASSUME local \in [Cpus -> Vars], NEW c, NEW v, NEW w,
         Local(c, "todo", v) \/ Local(c, "bsp", v) \/ Local(c, "saved", v) \/ Local(c, "ap", v)
           \/ Calls(c, v, w)
  PROVE  \A x \in Cpus : local'[x].aps = local[x].aps /\ local'[x].left = local[x].left
BY DEF Local, Vars, Calls

(* Steps of other processors than the BSP.                                   *)
LEMMA OtherBounds ==
  ASSUME Together, Bounds, NEW c \in Cpus, OtherActions(c)
  PROVE  Bounds'
<1>0. /\ data \in [Cpus -> Datum] /\ local \in [Cpus -> Vars]
      /\ NumberOfCpus \in Nat
  BY NumberSmall DEF Together, Typed
<1>1. CASE TakeSmi(c) \/ Arrive(c) \/ Elect(c) \/ Role(c) \/ BspOutOfSync(c) \/ ApReplacing(c)
           \/ ApLook(c) \/ ApRun(c) \/ ApRestoring(c)
  <2>1. data' = data /\ local' = local /\ smis' = smis /\ smi' \subseteq smi
    BY <1>1 DEF TakeSmi, Arrive, Elect, Role, BspOutOfSync, ApReplacing, ApLook, ApRun, ApRestoring,
                Keep
  <2>2. allInSync' \in BOOLEAN
    BY <1>1 DEF TakeSmi, Arrive, Elect, Role, BspOutOfSync, ApReplacing, ApLook, ApRun, ApRestoring,
                shared, Bounds
  <2> QED BY <2>1, <2>2 DEF Bounds
<1>2. CASE \/ MarkPresent(c) \/ Leave(c) \/ ApBusy(c) \/ ApFree(c) \/ ApSave(c) \/ ApReplace(c)
           \/ ApIdle(c) \/ ApRestore(c)
  <2>1. local' = local /\ smis' = smis /\ smi' = smi /\ allInSync' = allInSync
    BY <1>2 DEF MarkPresent, Leave, ApBusy, ApFree, ApSave, ApReplace, ApIdle, ApRestore, Keep,
                shared
  <2>2. \E v : Set(c, "run", v) \/ Set(c, "present", v) \/ Set(c, "busy", v)
    BY <1>2 DEF MarkPresent, Leave, ApBusy, ApFree, ApSave, ApReplace, ApIdle, ApRestore, WaitForRun
  <2>3. \A x \in Cpus : data'[x].procedure = data[x].procedure
    BY <1>0, <2>2, ProceduresKept
  <2> QED BY <2>1, <2>3 DEF Bounds
<1>3. CASE ApNotify(c) \/ ApSaved(c) \/ ApReplaced(c) \/ ApDone(c) \/ ApRestored(c)
  <2>1. local' = local /\ smis' = smis /\ smi' = smi /\ allInSync' = allInSync
    BY <1>3 DEF ApNotify, ApSaved, ApReplaced, ApDone, ApRestored, SignalBsp, Keep, shared
  <2>2. \E d, v : Set(d, "run", v)
    BY <1>3 DEF ApNotify, ApSaved, ApReplaced, ApDone, ApRestored, SignalBsp, ReleaseRun
  <2>3. \A x \in Cpus : data'[x].procedure = data[x].procedure
    BY <1>0, <2>2, ProceduresKept
  <2> QED BY <2>1, <2>3 DEF Bounds
<1>4. CASE ApBegin(c) \/ ApSaving(c)
  <2>1. data' = data /\ smis' = smis /\ smi' = smi /\ allInSync' = allInSync
    BY <1>4 DEF ApBegin, ApSaving, Keep, shared
  <2>2. \E v : Local(c, "bsp", v) \/ Local(c, "saved", v)
    BY <1>4 DEF ApBegin, ApSaving
  <2>3. \A x \in Cpus : local'[x].aps = local[x].aps /\ local'[x].left = local[x].left
    BY <1>0, <2>2, BoundsKept
  <2> QED BY <2>1, <2>3 DEF Bounds, Bounded
<1>5. CASE Exit(c)
  <2>1. data' = data /\ smis' = smis /\ smi' = smi /\ allInSync' = allInSync
    BY <1>5 DEF Exit, Keep, shared
  <2>2. \A x \in Cpus : local'[x] = IF x = c THEN NoFrame ELSE local[x]
    BY <1>0, <1>5 DEF Exit
  <2>3. Bounded(NoFrame)
    BY <1>0 DEF NoFrame, Bounded
  <2> QED BY <2>1, <2>2, <2>3 DEF Bounds
<1> QED BY <1>1, <1>2, <1>3, <1>4, <1>5 DEF OtherActions

(* Steps of the BSP.                                                         *)
LEMMA LeaderBounds ==
  ASSUME Together, Bounds, NEW c \in Cpus, LeaderActions(c) \/ BspReopen(c)
  PROVE  Bounds'
<1>0. /\ data \in [Cpus -> Datum] /\ local \in [Cpus -> Vars]
      /\ NumberOfCpus \in Nat \ {0} /\ counter \in -1 .. NumberOfCpus
      /\ Bounded(local[c])
  BY NumberSmall, CounterIs DEF Together, Typed, Bounds
<1>1. CASE \/ Role(c) \/ BspInside(c) \/ BspSync(c) \/ BspSyncAgain(c) \/ BspInSync(c)
           \/ BspNotInside(c) \/ BspReset(c) \/ BspReopen(c) \/ StartupWait(c)
  <2>1. data' = data /\ local' = local /\ smis' = smis /\ smi' = smi
    BY <1>1 DEF Role, BspInside, BspSync, BspSyncAgain, BspInSync, BspNotInside, BspReset,
                BspReopen, StartupWait, Keep
  <2>2. allInSync' \in BOOLEAN
    BY <1>1 DEF Role, BspInside, BspSync, BspSyncAgain, BspInSync, BspNotInside, BspReset,
                BspReopen, StartupWait, shared, Bounds
  <2> QED BY <2>1, <2>2 DEF Bounds
<1>2. CASE BspCheck(c) \/ SendSmiIpis(c)
  <2>1. data' = data /\ smis' = smis /\ allInSync' = allInSync
    BY <1>2 DEF BspCheck, SendSmiIpis, Keep, shared
  <2>2. local' = local \/ \E v : Local(c, "todo", v)
    BY <1>2 DEF BspCheck, SendSmiIpis
  <2>3. \A x \in Cpus : local'[x].aps = local[x].aps /\ local'[x].left = local[x].left
    BY <1>0, <2>2, BoundsKept
  <2>4. local[c].todo \subseteq Cpus
    BY <1>0 DEF Vars
  <2>5. smi' \subseteq Cpus
    BY <1>2, <2>4 DEF BspCheck, SendSmiIpis, Keep, Bounds
  <2> QED BY <2>1, <2>3, <2>5 DEF Bounds, Bounded
<1>3. CASE BspSave(c) \/ BspReplace(c) \/ BspDismiss(c) \/ BspRestore(c)
  <2>1. data' = data /\ smis' = smis /\ smi' = smi /\ allInSync' = allInSync
    BY <1>3 DEF BspSave, BspReplace, BspDismiss, BspRestore, Keep, shared
  <2>2. \E v, w : Calls(c, v, w)
    BY <1>3 DEF BspSave, BspReplace, BspDismiss, BspRestore, ReleaseAllAPs, Calls
  <2>3. \A x \in Cpus : local'[x].aps = local[x].aps /\ local'[x].left = local[x].left
    BY <1>0, <2>2, BoundsKept
  <2> QED BY <2>1, <2>3 DEF Bounds, Bounded
<1>4. CASE BspLock(c)
  <2>1. data' = data /\ smis' = smis /\ smi' = smi /\ allInSync' = allInSync
    BY <1>4 DEF BspLock, Keep
  <2>2. \A x \in Cpus : IF x = c THEN local'[x].aps = counter - 1 /\ local'[x].left = counter - 1
                        ELSE local'[x] = local[x]
    BY <1>0, <1>4 DEF BspLock, Vars
  <2>3. counter - 1 \in -2 .. NumberOfCpus
    BY <1>0
  <2> QED BY <2>1, <2>2, <2>3 DEF Bounds, Bounded
<1>5. CASE BspSaved(c) \/ BspReplaced(c) \/ BspPending(c) \/ BspRestored(c)
  <2>1. data' = data /\ smis' = smis /\ smi' = smi /\ allInSync' = allInSync
    BY <1>5 DEF BspSaved, BspReplaced, BspPending, BspRestored, Keep, shared
  <2>2. \A x \in Cpus : IF x = c THEN local'[x].aps = local[x].aps /\ local'[x].left = local[x].aps
                        ELSE local'[x] = local[x]
    <3>1. CASE BspSaved(c)
      BY <1>0, <3>1 DEF BspSaved, Vars
    <3>2. CASE BspReplaced(c) \/ BspPending(c) \/ BspRestored(c)
      <4>1. \E w : local' = [local EXCEPT ![c].left = local[c].aps, ![c].then = w]
        BY <3>2 DEF BspReplaced, BspPending, BspRestored, WaitForAllAPs
      <4> QED BY <1>0, <4>1 DEF Vars
    <3> QED BY <1>5, <3>1, <3>2
  <2> QED BY <1>0, <2>1, <2>2 DEF Bounds, Bounded
<1>6. CASE Wait(c)
  <2>1. smis' = smis /\ smi' = smi /\ allInSync' = allInSync
    BY <1>6 DEF Wait, Keep, shared
  <2>2. CASE local[c].left = 0
    BY <1>6, <2>1, <2>2 DEF Wait, Bounds
  <2>3. CASE local[c].left # 0
    <3>1. \A x \in Cpus : data'[x].procedure = data[x].procedure
      <4>1. \E d, v : Set(d, "run", v)
        BY <1>6, <2>3 DEF Wait, WaitForRun
      <4> QED BY <1>0, <4>1, ProceduresKept
    <3>2. \A x \in Cpus : IF x = c THEN /\ local'[x].aps = local[x].aps
                                        /\ local'[x].left = local[x].left - 1
                          ELSE local'[x] = local[x]
      BY <1>0, <1>6, <2>3 DEF Wait, Local, Vars
    <3>3. local[c].left \in Nat
      <4>1. Session(c, Now(c)) /\ pc[c] = "wait"
        BY <1>6, LeaderOf DEF Wait, At, Together, LeaderLabels, Ready
      <4>2. PICK p : p = Now(c)
        OBVIOUS
      <4>3. data[c].run + Number(pc, Cpus \ {c}, Owing(p)) = local[c].left
        BY <4>1, <4>2 DEF Session, Tallied, Awaited, Open, Closing
      <4>4. Number(pc, Cpus \ {c}, Owing(p)) \in Nat /\ data[c].run \in Nat
        BY <1>0, NumberIs DEF Datum
      <4> QED BY <4>3, <4>4
    <3>4. local[c].left - 1 \in -2 .. NumberOfCpus
      BY <1>0, <2>3, <3>3 DEF Bounded
    <3> QED BY <2>1, <3>1, <3>2, <3>4 DEF Bounds, Bounded
  <2> QED BY <2>2, <2>3
<1>7. CASE Release(c)
  <2>1. smis' = smis /\ smi' = smi /\ allInSync' = allInSync
    BY <1>7 DEF Release, Keep, shared
  <2>2. local' = local \/ \E v : Local(c, "todo", v)
    BY <1>7 DEF Release
  <2>3. data' = data \/ \E d, v : Set(d, "run", v)
    BY <1>7 DEF Release, ReleaseRun
  <2>4. \A x \in Cpus : local'[x].aps = local[x].aps /\ local'[x].left = local[x].left
    BY <1>0, <2>2, BoundsKept
  <2>5. \A x \in Cpus : data'[x].procedure = data[x].procedure
    BY <1>0, <2>3, ProceduresKept
  <2> QED BY <2>1, <2>4, <2>5 DEF Bounds, Bounded
<1>8. CASE BspBusy(c) \/ StartupRelease(c)
  <2>1. local' = local /\ smis' = smis /\ smi' = smi /\ allInSync' = allInSync
    BY <1>8 DEF BspBusy, StartupRelease, Keep, shared
  <2>2. \E d, v : Set(d, "run", v) \/ Set(d, "busy", v)
    BY <1>8 DEF BspBusy, StartupRelease, ReleaseRun
  <2>3. \A x \in Cpus : data'[x].procedure = data[x].procedure
    BY <1>0, <2>2, ProceduresKept
  <2> QED BY <2>1, <2>3 DEF Bounds
<1>9. CASE StartupThisAp(c)
  <2>1. smis' = smis /\ smi' = smi /\ allInSync' = allInSync
    BY <1>9 DEF StartupThisAp, shared
  <2>2. \E d : Set(d, "busy", TRUE) /\ Local(c, "ap", d)
    BY <1>9 DEF StartupThisAp
  <2>3. \A x \in Cpus : data'[x].procedure = data[x].procedure
    BY <1>0, <2>2, ProceduresKept
  <2>4. \A x \in Cpus : local'[x].aps = local[x].aps /\ local'[x].left = local[x].left
    BY <1>0, <2>2, BoundsKept
  <2> QED BY <2>1, <2>3, <2>4 DEF Bounds, Bounded
<1>10. CASE StartupProcedure(c)
  <2>1. local' = local /\ smis' = smis /\ smi' = smi /\ allInSync' = allInSync
    BY <1>10 DEF StartupProcedure, Keep, shared
  <2>2. \A x \in Cpus : data'[x].procedure = data[x].procedure \/ data'[x].procedure = tasks
    BY <1>0, <1>10 DEF StartupProcedure, Set, Datum
  <2>3. tasks \in 0 .. MaxTasks
    BY DEF Together, Typed
  <2> QED BY <2>1, <2>2, <2>3 DEF Bounds
<1> QED BY <1>1, <1>2, <1>3, <1>4, <1>5, <1>6, <1>7, <1>8, <1>9, <1>10 DEF LeaderActions

(* Every step keeps the ranges.                                              *)
LEMMA BoundsGoOn ==
  ASSUME Together, Bounds, [Next]_vars
  PROVE  Bounds'
<1>1. CASE UNCHANGED vars
  BY <1>1 DEF vars, Bounds, Bounded
<1>2. CASE RaiseSmi
  <2>1. data' = data /\ local' = local /\ allInSync' = allInSync /\ smi' = Cpus
    BY <1>2 DEF RaiseSmi, shared
  <2>2. smis' \in 0 .. MaxSmis
    BY <1>2, RendezvousAssumption DEF RaiseSmi, Bounds
  <2> QED BY <2>1, <2>2 DEF Bounds
<1>3. ASSUME NEW c \in Cpus, TakeSmi(c) \/ Processor(c)
      PROVE  Bounds'
  <2>1. AllActions(c)
    BY <1>3, AllActs DEF Together
  <2> QED BY <2>1, OtherBounds, LeaderBounds DEF AllActions
<1> QED BY <1>1, <1>2, <1>3 DEF Next

(* Every variable keeps its type; the counter counts processors or is locked, and no *)
(* semaphore is released more often than there are processors to wait for it *)
(* (ReleaseSemaphore and WaitForSemaphore, MpService.c).                     *)
THEOREM TypeCorrect == Spec /\ Elected => []TypeOK
<1>1. Init => Bounds
  <2> SUFFICES ASSUME Init
               PROVE  Bounds
    OBVIOUS
  <2>1. NumberOfCpus \in Nat
    BY NumberSmall
  <2>2. \A c \in Cpus : local[c] = NoFrame /\ data[c].procedure = 0
    BY DEF Init
  <2>3. Bounded(NoFrame)
    BY <2>1 DEF NoFrame, Bounded
  <2>0. smi = {} /\ allInSync = FALSE /\ smis = 0
    BY DEF Init
  <2>4. smi \subseteq Cpus /\ allInSync \in BOOLEAN /\ smis \in 0 .. MaxSmis
    <3>1. MaxSmis \in Nat
      BY RendezvousAssumption
    <3>2. smis \in 0 .. MaxSmis
      BY <2>0, <3>1
    <3> QED BY <2>0, <3>2
  <2> QED BY <2>2, <2>3, <2>4, RendezvousAssumption DEF Bounds
<1>2. Together /\ Bounds /\ [Next]_vars => Bounds'
  BY BoundsGoOn
<1>3. Together /\ Bounds => TypeOK
  <2> SUFFICES ASSUME Together, Bounds
               PROVE  TypeOK
    OBVIOUS
  <2>1. NumberOfCpus \in Nat \ {0} /\ counter \in -2 .. NumberOfCpus
    BY NumberSmall, CounterIs
  <2>2. data \in [Cpus -> Block]
    <3>1. \A c \in Cpus : data[c] \in Datum /\ data[c].run \in 0 .. NumberOfCpus
      BY RunIs DEF Together, Typed
    <3>2. \A c \in Cpus : data[c] \in Block
      BY <3>1 DEF Datum, Block, Bounds
    <3> QED BY <3>2 DEF Together, Typed
  <2>3. local \in [Cpus -> Frame]
    <3>1. \A c \in Cpus : local[c] \in Frame
      <4> SUFFICES ASSUME NEW c \in Cpus
                   PROVE  local[c] \in Frame
        OBVIOUS
      <4>1. PICK f : f = local[c]
        OBVIOUS
      <4>2. f \in Vars
        BY <4>1 DEF Together, Typed
      <4>3. f.aps \in -2 .. NumberOfCpus /\ f.left \in -2 .. NumberOfCpus
        BY <4>1 DEF Bounds, Bounded
      <4>4. f.then \in Labels
        BY <4>2 DEF Vars, Nexts, Labels
      <4>5. f = [bsp |-> f.bsp, aps |-> f.aps, left |-> f.left, todo |-> f.todo,
                 then |-> f.then, ap |-> f.ap, saved |-> f.saved]
        BY <4>2 DEF Vars
      <4>6. /\ f.bsp \in Cpus \cup {NoCpu} /\ f.todo \in SUBSET Cpus
            /\ f.ap \in Cpus \cup {NoCpu} /\ f.saved \in {"none", "os", "smm"}
        BY <4>2 DEF Vars
      <4>7. f \in Frame
        BY <4>3, <4>4, <4>5, <4>6 DEF Frame
      <4> QED BY <4>1, <4>7
    <3> QED BY <3>1 DEF Together, Typed
  <2>4. runs \in [Tasks -> 0 .. 2]
    <3>1. PICK n : Ran(n)
      BY DEF Together, Procedures
    <3>2. \A t \in Tasks : runs[t] \in 0 .. 2
      BY <3>1 DEF Ran
    <3> QED BY <3>2 DEF Together, Typed
  <2> QED BY <2>1, <2>2, <2>3, <2>4 DEF TypeOK, Together, Typed, Bounds
<1> QED BY <1>1, <1>2, <1>3, TogetherHolds, PTL DEF Spec
====
