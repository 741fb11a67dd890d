------------------------- MODULE SmmRendezvous_proofs -------------------------
(* A proof about SmmRendezvous, for any number of processors: with the       *)
(* settings of SharkBay, the foundation runs on one processor, and every     *)
(* other one is held or kept out.                                            *)

EXTENDS SmmRendezvous, FiniteSetTheorems, TLAPS

(* PcdCpuSmmEnableBspElection is FALSE, and no MTRRs are switched.           *)
AsBuilt == ~Election /\ ~ConfigureMtrrs
Others == Cpus \ {BootBsp}

(* The other processors: counted, but the BSP was not signalled; in the loop *)
(* of APHandler; on the way out of it, with a last signal to give.           *)
Arriving == {"present", "role", "ap", "ap_sync", "ap_check", "ap_sync_again",
             "ap_check_again", "give_up", "ap_notify"}
Going == {"ap_done"}
ApLabels == Outside \cup Arriving \cup Held \cup Going
BspKnown == {"ap_sync", "ap_check", "ap_sync_again", "ap_check_again", "give_up",
             "ap_notify"}
N(at, L) == Cardinality({c \in Others : at[c] \in L})

(* The BSP, and what it goes through.                                        *)
Bsp == pc[BootBsp]
Frm == local[BootBsp]
Signals == data[BootBsp].run
Early == {"present", "role", "bsp"}
Gathering == {"bsp_sync", "bsp_check", "bsp_ipi", "bsp_sync_again", "bsp_in_sync",
              "bsp_lock"}
Calling == {"bsp_busy"} \cup Foundation
Dismissing == {"bsp_dismiss", "release", "bsp_pending"}
Emptied == {"bsp_reset", "bsp_reopen"}
Closed == Outside \cup {"bsp_out_of_sync"}
BspLabels == Closed \cup Early \cup Gathering \cup Calling \cup Dismissing
               \cup Emptied \cup {"wait"}

AllLabels == ApLabels \cup BspLabels
Thens == {"out", "bsp_busy", "bsp_pending", "bsp_reset"}

Datum == [run : Nat, present : BOOLEAN, busy : BOOLEAN, procedure : Int]
Locals == [bsp : Cpus \cup {NoCpu}, aps : Int, left : Int, todo : SUBSET Cpus,
           then : Thens, ap : Cpus \cup {NoCpu}, saved : {"none"}]

Types ==
  /\ counter \in Int /\ tasks \in Int /\ insideSmm \in BOOLEAN
  /\ bspIndex = BootBsp /\ current = BootBsp
  /\ data \in [Cpus -> Datum] /\ local \in [Cpus -> Locals]
  /\ pc \in [Cpus -> AllLabels]

Waits(l, f, then) == l = "wait" /\ f.then = then

(* Where each processor is, and what the BSP has in its local variables.     *)
BspRole(l, f, inside) ==
  /\ l \in BspLabels
  /\ l = "wait" => f.then \in {"bsp_busy", "bsp_reset"}
  /\ l = "release" => f.then = "bsp_pending" /\ f.todo \subseteq Others
  /\ l \in {"startup", "startup_release"} => f.ap \in Others
  /\ inside <=> l \in Gathering \cup Calling \/ Waits(l, f, "bsp_busy")
ApRole(l, f, inside) ==
  /\ l \in ApLabels
  /\ l \in BspKnown => f.bsp = BootBsp
  /\ l = "ap_notify" => inside
Roles ==
  /\ BspRole(Bsp, Frm, insideSmm)
  /\ \A c \in Others : ApRole(pc[c], local[c], insideSmm)

(* How many there are: k is the counter, s the signals to the BSP.           *)
Tally == [k : Int, o : Nat, i : Nat, g : Nat, s : Nat]
Balance(l, f, n) ==
  /\ l \in Closed => n.o <= n.k /\ n.i = 0 /\ n.g = 0 /\ n.s = 0
  /\ l \in Early => n.o + 1 <= n.k /\ n.i = 0 /\ n.g = 0 /\ n.s = 0
  /\ l \in Gathering => n.o + n.i + 1 <= n.k /\ n.g = 0 /\ n.s <= n.i
  /\ Waits(l, f, "bsp_busy") =>
       /\ n.k <= Locked /\ n.g = 0
       /\ n.o + n.i + (Locked - n.k) <= f.aps
       /\ n.o + n.s + (Locked - n.k) <= f.left
  /\ l \in Calling => n.k = Locked /\ n.o = 0 /\ n.i <= f.aps /\ n.g = 0 /\ n.s = 0
  /\ l \in Dismissing => n.k = Locked /\ n.o = 0 /\ n.i + n.g + n.s <= f.aps
  /\ Waits(l, f, "bsp_reset") =>
       n.k = Locked /\ n.o = 0 /\ n.i + n.g + n.s <= f.left
  /\ l \in Emptied => n.k = Locked /\ n.o = 0 /\ n.i = 0 /\ n.g = 0 /\ n.s = 0
Count == [k |-> counter, o |-> N(pc, Arriving), i |-> N(pc, Held),
          g |-> N(pc, Going), s |-> Signals]
Counts == Balance(Bsp, Frm, Count)

Meeting == Types /\ Roles /\ Counts
Inv == AsBuilt => Meeting

-----------------------------------------------------------------------------
(* Counting the other processors.                                            *)

LEMMA Counted ==
  ASSUME NEW at, NEW L
  PROVE  /\ IsFiniteSet({c \in Others : at[c] \in L})
         /\ N(at, L) \in Nat
         /\ N(at, L) = 0 => \A c \in Others : at[c] \notin L
<1>1. IsFiniteSet(Cpus) /\ Others \subseteq Cpus
  BY RendezvousAssumption DEF Others
<1> DEFINE S == {c \in Others : at[c] \in L}
<1>2. IsFiniteSet(S)
  <2>1. S \subseteq Cpus
    BY <1>1
  <2> QED BY <1>1, <2>1, FS_Subset
<1>3. Cardinality(S) \in Nat
  BY <1>2, FS_CardinalityType
<1>4. Cardinality(S) = 0 => S = {}
  BY <1>2, FS_EmptySet
<1> QED BY <1>2, <1>3, <1>4 DEF N

LEMMA CountsMove ==
  ASSUME NEW at \in [Cpus -> AllLabels], NEW c \in Others, NEW l \in AllLabels, NEW L
  PROVE  N([at EXCEPT ![c] = l], L) =
           N(at, L) + (IF l \in L THEN 1 ELSE 0) - (IF at[c] \in L THEN 1 ELSE 0)
<1> DEFINE to == [at EXCEPT ![c] = l]
           S == {x \in Others : at[x] \in L}
           T == {x \in Others : to[x] \in L}
<1>1. /\ IsFiniteSet(S) /\ Cardinality(S) \in Nat
      /\ Cardinality(S) = N(at, L) /\ Cardinality(T) = N(to, L)
  BY Counted DEF N
<1>2. to[c] = l /\ \A x \in Others : x # c => to[x] = at[x]
  BY DEF Others
<1> HIDE DEF to
<1>3. ASSUME l \in L, at[c] \notin L
      PROVE  T = S \cup {c} /\ c \notin S
  BY <1>2, <1>3
<1>4. ASSUME l \notin L, at[c] \in L
      PROVE  T = S \ {c} /\ c \in S
  BY <1>2, <1>4
<1>5. ASSUME l \in L <=> at[c] \in L
      PROVE  T = S
  BY <1>2, <1>5
<1> HIDE DEF S, T
<1>6. CASE l \in L /\ at[c] \notin L
  <2>1. Cardinality(T) = Cardinality(S) + 1
    BY <1>1, <1>3, <1>6, FS_AddElement
  <2> QED BY <1>1, <1>6, <2>1 DEF to
<1>7. CASE l \notin L /\ at[c] \in L
  <2>1. Cardinality(T) = Cardinality(S) - 1
    BY <1>1, <1>4, <1>7, FS_RemoveElement
  <2> QED BY <1>1, <1>7, <2>1 DEF to
<1>8. CASE l \in L <=> at[c] \in L
  <2>1. Cardinality(T) = Cardinality(S)
    BY <1>5, <1>8
  <2>2. N(to, L) = N(at, L) /\ N(at, L) \in Int
    BY <1>1, <2>1
  <2>3. N(to, L) = N(at, L) + (IF l \in L THEN 1 ELSE 0) - (IF at[c] \in L THEN 1 ELSE 0)
    <3>1. CASE l \in L /\ at[c] \in L
      BY <2>2, <3>1
    <3>2. CASE l \notin L /\ at[c] \notin L
      BY <2>2, <3>2
    <3> QED BY <1>8, <3>1, <3>2
  <2> QED BY <2>3 DEF to
<1> QED BY <1>6, <1>7, <1>8

LEMMA CountsStay ==
  ASSUME NEW at \in [Cpus -> AllLabels], NEW l, NEW L
  PROVE  N([at EXCEPT ![BootBsp] = l], L) = N(at, L)
<1>1. \A x \in Others : [at EXCEPT ![BootBsp] = l][x] = at[x]
  BY DEF Others
<1> QED BY <1>1 DEF N

-----------------------------------------------------------------------------
(* CpuData and the local variables.                                          *)

LEMMA CountIsTally ==
  ASSUME NEW k \in Int, NEW at, NEW s \in Nat
  PROVE  [k |-> k, o |-> N(at, Arriving), i |-> N(at, Held), g |-> N(at, Going),
          s |-> s] \in Tally
<1>1. N(at, Arriving) \in Nat /\ N(at, Held) \in Nat /\ N(at, Going) \in Nat
  BY Counted
<1> QED BY <1>1 DEF Tally

LEMMA NoFrameTyped == NoFrame \in Locals
BY DEF NoFrame, Locals, Thens

LEMMA SetRun ==
  ASSUME data \in [Cpus -> Datum], NEW c \in Cpus, NEW v \in Nat, Set(c, "run", v)
  PROVE  /\ data' \in [Cpus -> Datum]
         /\ data'[c].run = v
         /\ \A x \in Cpus : x # c => data'[x] = data[x]
<1>1. PICK d \in Datum : d = data[c]
  OBVIOUS
<1>2. PICK f : f = [d EXCEPT !.run = v]
  OBVIOUS
<1>3. f \in Datum /\ f.run = v
  BY <1>2 DEF Datum
<1>4. data' = [data EXCEPT ![c] = f]
  BY <1>1, <1>2 DEF Set
<1> QED BY <1>3, <1>4

LEMMA SetFlag ==
  ASSUME data \in [Cpus -> Datum], NEW c \in Cpus, NEW v,
         \/ v \in BOOLEAN /\ Set(c, "busy", v)
         \/ v \in BOOLEAN /\ Set(c, "present", v)
         \/ v \in Int /\ Set(c, "procedure", v)
  PROVE  /\ data' \in [Cpus -> Datum]
         /\ \A x \in Cpus : data'[x].run = data[x].run
<1>1. PICK d \in Datum : d = data[c]
  OBVIOUS
<1>2. ASSUME NEW f \in Datum, f.run = d.run, data' = [data EXCEPT ![c] = f]
      PROVE  /\ data' \in [Cpus -> Datum]
             /\ \A x \in Cpus : data'[x].run = data[x].run
  BY <1>1, <1>2
<1>3. CASE v \in BOOLEAN /\ Set(c, "busy", v)
  <2>1. PICK f : f = [d EXCEPT !.busy = v]
    OBVIOUS
  <2>2. f \in Datum /\ f.run = d.run
    BY <1>3, <2>1 DEF Datum
  <2>3. data' = [data EXCEPT ![c] = f]
    BY <1>1, <1>3, <2>1 DEF Set
  <2> QED BY <1>2, <2>2, <2>3
<1>4. CASE v \in BOOLEAN /\ Set(c, "present", v)
  <2>1. PICK f : f = [d EXCEPT !.present = v]
    OBVIOUS
  <2>2. f \in Datum /\ f.run = d.run
    BY <1>4, <2>1 DEF Datum
  <2>3. data' = [data EXCEPT ![c] = f]
    BY <1>1, <1>4, <2>1 DEF Set
  <2> QED BY <1>2, <2>2, <2>3
<1>5. CASE v \in Int /\ Set(c, "procedure", v)
  <2>1. PICK f : f = [d EXCEPT !.procedure = v]
    OBVIOUS
  <2>2. f \in Datum /\ f.run = d.run
    BY <1>5, <2>1 DEF Datum
  <2>3. data' = [data EXCEPT ![c] = f]
    BY <1>1, <1>5, <2>1 DEF Set
  <2> QED BY <1>2, <2>2, <2>3
<1> QED BY <1>3, <1>4, <1>5

-----------------------------------------------------------------------------
(* A step of another processor.                                              *)

(* It stays, arrives, gives up, is held, is let go or is done.               *)
Change(inside, n, m) ==
  \/ m.k = n.k /\ m.o = n.o /\ m.i = n.i /\ m.g = n.g /\ m.s = n.s
  \/ /\ n.k # Locked
     /\ m.k = n.k + 1 /\ m.o = n.o + 1 /\ m.i = n.i /\ m.g = n.g /\ m.s = n.s
  \/ m.k = n.k - 1 /\ m.o = n.o - 1 /\ m.i = n.i /\ m.g = n.g /\ m.s = n.s
  \/ /\ inside
     /\ m.k = n.k /\ m.o = n.o - 1 /\ m.i = n.i + 1 /\ m.g = n.g /\ m.s = n.s + 1
  \/ /\ ~inside
     /\ m.k = n.k /\ m.o = n.o /\ m.i = n.i - 1 /\ m.g = n.g + 1 /\ m.s = n.s
  \/ m.k = n.k /\ m.o = n.o /\ m.i = n.i /\ m.g = n.g - 1 /\ m.s = n.s + 1

LEMMA BalanceKept ==
  ASSUME NEW l \in BspLabels, NEW f, NEW inside, BspRole(l, f, inside),
         f.aps \in Int, f.left \in Int, NEW n \in Tally, NEW m \in Tally,
         Balance(l, f, n), Change(inside, n, m)
  PROVE  Balance(l, f, m)
<1>0. /\ n.k \in Int /\ n.o \in Nat /\ n.i \in Nat /\ n.g \in Nat /\ n.s \in Nat
      /\ m.k \in Int /\ m.o \in Nat /\ m.i \in Nat /\ m.g \in Nat /\ m.s \in Nat
  BY DEF Tally
<1>1. inside <=> l \in Gathering \cup Calling \/ Waits(l, f, "bsp_busy")
  BY DEF BspRole
<1>2. CASE l \in Closed
  <2>1. /\ ~inside /\ l # "wait"
        /\ l \notin Early \cup Gathering \cup Calling \cup Dismissing \cup Emptied
    BY <1>1, <1>2 DEF Closed, Outside, Early, Gathering, Calling, Foundation,
                      Dismissing, Emptied, Waits
  <2> QED BY <1>0, <1>2, <2>1 DEF Balance, Waits, Change
<1>3. CASE l \in Early
  <2>1. /\ ~inside /\ l # "wait"
        /\ l \notin Closed \cup Gathering \cup Calling \cup Dismissing \cup Emptied
    BY <1>1, <1>3 DEF Closed, Outside, Early, Gathering, Calling, Foundation,
                      Dismissing, Emptied, Waits
  <2> QED BY <1>0, <1>3, <2>1 DEF Balance, Waits, Change
<1>4. CASE l \in Gathering
  <2>1. /\ inside /\ l # "wait"
        /\ l \notin Closed \cup Early \cup Calling \cup Dismissing \cup Emptied
    BY <1>1, <1>4 DEF Closed, Outside, Early, Gathering, Calling, Foundation,
                      Dismissing, Emptied, Waits
  <2> QED BY <1>0, <1>4, <2>1 DEF Balance, Waits, Change
<1>5. CASE l \in Calling
  <2>1. /\ inside /\ l # "wait"
        /\ l \notin Closed \cup Early \cup Gathering \cup Dismissing \cup Emptied
    BY <1>1, <1>5 DEF Closed, Outside, Early, Gathering, Calling, Foundation,
                      Dismissing, Emptied, Waits
  <2> QED BY <1>0, <1>5, <2>1 DEF Balance, Waits, Change, Locked
<1>6. CASE l \in Dismissing
  <2>1. /\ ~inside /\ l # "wait"
        /\ l \notin Closed \cup Early \cup Gathering \cup Calling \cup Emptied
    BY <1>1, <1>6 DEF Closed, Outside, Early, Gathering, Calling, Foundation,
                      Dismissing, Emptied, Waits
  <2> QED BY <1>0, <1>6, <2>1 DEF Balance, Waits, Change, Locked
<1>7. CASE l \in Emptied
  <2>1. /\ ~inside /\ l # "wait"
        /\ l \notin Closed \cup Early \cup Gathering \cup Calling \cup Dismissing
    BY <1>1, <1>7 DEF Closed, Outside, Early, Gathering, Calling, Foundation,
                      Dismissing, Emptied, Waits
  <2> QED BY <1>0, <1>7, <2>1 DEF Balance, Waits, Change, Locked
<1>8. CASE l = "wait"
  <2>1. l \notin Closed \cup Early \cup Gathering \cup Calling \cup Dismissing \cup Emptied
    BY <1>8 DEF Closed, Outside, Early, Gathering, Calling, Foundation,
                Dismissing, Emptied
  <2>2. CASE f.then = "bsp_busy"
    <3>1. /\ n.k <= Locked /\ n.g = 0
          /\ n.o + n.i + (Locked - n.k) <= f.aps
          /\ n.o + n.s + (Locked - n.k) <= f.left
      BY <1>8, <2>2 DEF Balance, Waits
    <3>2. inside
      BY <1>1, <1>8, <2>2 DEF Waits
    <3>3. /\ m.k <= Locked /\ m.g = 0
          /\ m.o + m.i + (Locked - m.k) <= f.aps
          /\ m.o + m.s + (Locked - m.k) <= f.left
      BY <1>0, <3>1, <3>2 DEF Change, Locked
    <3> QED BY <1>8, <2>1, <2>2, <3>3 DEF Balance, Waits
  <2>3. CASE f.then = "bsp_reset"
    BY <1>0, <1>1, <1>8, <2>1, <2>3 DEF Balance, Waits, Change, Locked
  <2> QED BY <1>8, <2>2, <2>3 DEF BspRole
<1> QED BY <1>2, <1>3, <1>4, <1>5, <1>6, <1>7, <1>8 DEF BspLabels

LEMMA Apart ==
  ASSUME NEW m
  PROVE  /\ m \in Outside => m \notin Arriving /\ m \notin Held /\ m \notin Going
         /\ m \in Arriving => m \notin Held /\ m \notin Going
         /\ m \in Held => m \notin Arriving /\ m \notin Going
         /\ m \in Going => m \notin Arriving /\ m \notin Held
BY DEF Outside, Arriving, Held, Going

LEMMA ApMoves ==
  ASSUME Meeting, NEW c \in Others, NEW l \in ApLabels, Goto(c, l),
         UNCHANGED <<bspIndex, current, insideSmm>>,
         tasks' \in Int, counter' \in Int, data' \in [Cpus -> Datum],
         local' \in [Cpus -> Locals],
         \A x \in Cpus : x # c => local'[x] = local[x],
         ApRole(l, local'[c], insideSmm),
         \/ /\ l \in Arriving <=> pc[c] \in Arriving
            /\ l \in Held <=> pc[c] \in Held
            /\ l \in Going <=> pc[c] \in Going
            /\ counter' = counter /\ Signals' = Signals
         \/ /\ pc[c] \in Outside /\ l \in Arriving /\ counter # Locked
            /\ counter' = counter + 1 /\ Signals' = Signals
         \/ /\ pc[c] \in Arriving /\ l \in Outside
            /\ counter' = counter - 1 /\ Signals' = Signals
         \/ /\ pc[c] \in Arriving /\ l \in Held /\ insideSmm
            /\ counter' = counter /\ Signals' = Signals + 1
         \/ /\ pc[c] \in Held /\ l \in Going /\ ~insideSmm
            /\ counter' = counter /\ Signals' = Signals
         \/ /\ pc[c] \in Going /\ l \in Outside
            /\ counter' = counter /\ Signals' = Signals + 1
  PROVE  Meeting'
<1>1. Types /\ Roles /\ Counts
  BY DEF Meeting
<1>2. c \in Cpus /\ c # BootBsp /\ BootBsp \in Cpus /\ Others \subseteq Cpus
  BY RendezvousAssumption DEF Others
<1>3. l \in AllLabels /\ pc \in [Cpus -> AllLabels]
  <2>1. l \in AllLabels
    BY DEF AllLabels
  <2> QED BY <1>1, <2>1 DEF Types
<1>4. /\ pc' \in [Cpus -> AllLabels] /\ pc'[c] = l
      /\ \A x \in Cpus : x # c => pc'[x] = pc[x]
  BY <1>2, <1>3 DEF Goto
<1>5. Types'
  BY <1>1, <1>4 DEF Types
<1>6. Bsp' = Bsp /\ Frm' = Frm
  BY <1>2, <1>4 DEF Bsp, Frm
<1>7. Roles'
  <2>1. BspRole(Bsp', Frm', insideSmm')
    BY <1>1, <1>6 DEF Roles
  <2>2. ASSUME NEW x \in Others
        PROVE  ApRole(pc'[x], local'[x], insideSmm')
    <3>1. CASE x = c
      BY <1>4, <3>1
    <3>2. CASE x # c
      BY <1>1, <1>2, <1>4, <3>2 DEF Roles
    <3> QED BY <3>1, <3>2
  <2> QED BY <2>1, <2>2 DEF Roles
<1>8. Counts'
  <2>1. Count \in Tally /\ Count' \in Tally
    <3>1. Signals \in Nat /\ Signals' \in Nat
      BY <1>1, <1>2, <1>5 DEF Types, Signals, Datum
    <3> QED BY <1>1, <3>1, CountIsTally DEF Types, Count
  <2>2. PICK n \in Tally, m \in Tally : n = Count /\ m = Count'
    BY <2>1
  <2>3. /\ n.k = counter /\ n.o = N(pc, Arriving) /\ n.i = N(pc, Held)
        /\ n.g = N(pc, Going) /\ n.s = Signals
        /\ m.k = counter' /\ m.o = N(pc', Arriving) /\ m.i = N(pc', Held)
        /\ m.g = N(pc', Going) /\ m.s = Signals'
    BY <2>2 DEF Count
  <2>4. /\ n.k \in Int /\ n.o \in Nat /\ n.i \in Nat /\ n.g \in Nat /\ n.s \in Nat
        /\ m.k \in Int /\ m.o \in Nat /\ m.i \in Nat /\ m.g \in Nat /\ m.s \in Nat
    BY <2>2 DEF Tally
  <2>5. /\ m.o = n.o + (IF l \in Arriving THEN 1 ELSE 0) - (IF pc[c] \in Arriving THEN 1 ELSE 0)
        /\ m.i = n.i + (IF l \in Held THEN 1 ELSE 0) - (IF pc[c] \in Held THEN 1 ELSE 0)
        /\ m.g = n.g + (IF l \in Going THEN 1 ELSE 0) - (IF pc[c] \in Going THEN 1 ELSE 0)
    <3>1. pc' = [pc EXCEPT ![c] = l]
      BY DEF Goto
    <3>2. \A L : N([pc EXCEPT ![c] = l], L) =
           N(pc, L) + (IF l \in L THEN 1 ELSE 0) - (IF pc[c] \in L THEN 1 ELSE 0)
      BY <1>3, CountsMove
    <3> QED BY <2>3, <3>1, <3>2
  <2>6. /\ l \in Outside => l \notin Arriving /\ l \notin Held /\ l \notin Going
        /\ l \in Arriving => l \notin Held /\ l \notin Going
        /\ l \in Held => l \notin Arriving /\ l \notin Going
        /\ l \in Going => l \notin Arriving /\ l \notin Held
    BY Apart
  <2>7. /\ pc[c] \in Outside => pc[c] \notin Arriving /\ pc[c] \notin Held /\ pc[c] \notin Going
        /\ pc[c] \in Arriving => pc[c] \notin Held /\ pc[c] \notin Going
        /\ pc[c] \in Held => pc[c] \notin Arriving /\ pc[c] \notin Going
        /\ pc[c] \in Going => pc[c] \notin Arriving /\ pc[c] \notin Held
    BY Apart
  <2>8. Change(insideSmm, n, m)
    <3>1. CASE /\ l \in Arriving <=> pc[c] \in Arriving
               /\ l \in Held <=> pc[c] \in Held
               /\ l \in Going <=> pc[c] \in Going
               /\ counter' = counter /\ Signals' = Signals
      <4>1. m.o = n.o /\ m.i = n.i /\ m.g = n.g
        BY <2>4, <2>5, <3>1
      <4> QED BY <2>3, <3>1, <4>1 DEF Change
    <3>2. CASE /\ pc[c] \in Outside /\ l \in Arriving /\ counter # Locked
               /\ counter' = counter + 1 /\ Signals' = Signals
      <4>1. m.o = n.o + 1 /\ m.i = n.i /\ m.g = n.g
        BY <2>4, <2>5, <2>6, <2>7, <3>2
      <4> QED BY <2>3, <3>2, <4>1 DEF Change
    <3>3. CASE /\ pc[c] \in Arriving /\ l \in Outside
               /\ counter' = counter - 1 /\ Signals' = Signals
      <4>1. m.o = n.o - 1 /\ m.i = n.i /\ m.g = n.g
        BY <2>4, <2>5, <2>6, <2>7, <3>3
      <4> QED BY <2>3, <3>3, <4>1 DEF Change
    <3>4. CASE /\ pc[c] \in Arriving /\ l \in Held /\ insideSmm
               /\ counter' = counter /\ Signals' = Signals + 1
      <4>1. m.o = n.o - 1 /\ m.i = n.i + 1 /\ m.g = n.g
        BY <2>4, <2>5, <2>6, <2>7, <3>4
      <4> QED BY <2>3, <3>4, <4>1 DEF Change
    <3>5. CASE /\ pc[c] \in Held /\ l \in Going /\ ~insideSmm
               /\ counter' = counter /\ Signals' = Signals
      <4>1. m.o = n.o /\ m.i = n.i - 1 /\ m.g = n.g + 1
        BY <2>4, <2>5, <2>6, <2>7, <3>5
      <4> QED BY <2>3, <3>5, <4>1 DEF Change
    <3>6. CASE /\ pc[c] \in Going /\ l \in Outside
               /\ counter' = counter /\ Signals' = Signals + 1
      <4>1. m.o = n.o /\ m.i = n.i /\ m.g = n.g - 1
        BY <2>4, <2>5, <2>6, <2>7, <3>6
      <4> QED BY <2>3, <3>6, <4>1 DEF Change
    <3> QED BY <3>1, <3>2, <3>3, <3>4, <3>5, <3>6
  <2>9. /\ Bsp \in BspLabels /\ BspRole(Bsp, Frm, insideSmm)
        /\ Frm.aps \in Int /\ Frm.left \in Int
    BY <1>1, <1>2 DEF Types, Roles, BspRole, Frm, Locals
  <2>10. Balance(Bsp, Frm, n)
    BY <1>1, <2>2 DEF Counts
  <2>11. Balance(Bsp, Frm, m)
    BY <2>8, <2>9, <2>10, BalanceKept
  <2> QED BY <1>6, <2>2, <2>11 DEF Counts
<1> QED BY <1>5, <1>7, <1>8 DEF Meeting

LEMMA ApGoes ==
  ASSUME Meeting, NEW c \in Others, NEW l \in ApLabels, Goto(c, l),
         UNCHANGED <<counter, bspIndex, current, insideSmm, tasks, local>>,
         data' \in [Cpus -> Datum], Signals' = Signals,
         l \in BspKnown => pc[c] \in BspKnown,
         l = "ap_notify" => insideSmm,
         \/ l \in Arriving /\ pc[c] \in Arriving
         \/ l \in Held /\ pc[c] \in Held
         \/ l \in Outside /\ pc[c] \in Outside
  PROVE  Meeting'
<1>1. Types /\ Roles
  BY DEF Meeting
<1>2. ApRole(l, local'[c], insideSmm)
  BY <1>1 DEF Roles, ApRole
<1>3. \A m \in {l, pc[c]} :
        /\ m \in Outside => m \notin Arriving /\ m \notin Held /\ m \notin Going
        /\ m \in Arriving => m \notin Held /\ m \notin Going
        /\ m \in Held => m \notin Arriving /\ m \notin Going
  BY DEF Outside, Arriving, Held, Going
<1>4. /\ l \in Arriving <=> pc[c] \in Arriving
      /\ l \in Held <=> pc[c] \in Held
      /\ l \in Going <=> pc[c] \in Going
  BY <1>3
<1>5. /\ tasks' \in Int /\ counter' \in Int /\ local' \in [Cpus -> Locals]
      /\ counter' = counter /\ \A x \in Cpus : local'[x] = local[x]
  BY <1>1 DEF Types
<1> QED BY <1>2, <1>4, <1>5, ApMoves

LEMMA NotOthers ==
  ASSUME AsBuilt, Meeting, NEW c \in Others
  PROVE  /\ ~Elect(c) /\ ~BSPHandler(c) /\ ~SmmStartupThisAp(c)
         /\ ~ApSave(c) /\ ~ApSaving(c) /\ ~ApSaved(c) /\ ~ApReplace(c)
         /\ ~ApReplacing(c) /\ ~ApReplaced(c) /\ ~ApRestore(c) /\ ~ApRestoring(c)
         /\ ~ApRestored(c)
<1>1. pc[c] \in Outside \cup Arriving \cup Held \cup Going
  BY DEF Meeting, Roles, ApRole, ApLabels
<1>2. /\ ~Elect(c)
      /\ ~ApSave(c) /\ ~ApSaving(c) /\ ~ApSaved(c) /\ ~ApReplace(c)
      /\ ~ApReplacing(c) /\ ~ApReplaced(c) /\ ~ApRestore(c) /\ ~ApRestoring(c)
      /\ ~ApRestored(c)
  BY <1>1 DEF Outside, Arriving, Held, Going, At, Elect, ApSave, ApSaving, ApSaved,
     ApReplace, ApReplacing, ApReplaced, ApRestore, ApRestoring, ApRestored
<1>3. ~SmmStartupThisAp(c)
  BY <1>1 DEF Outside, Arriving, Held, Going, At, SmmStartupThisAp, StartupThisAp,
     StartupProcedure, StartupRelease, StartupWait
<1>4. ~BSPHandler(c)
  BY <1>1 DEF Outside, Arriving, Held, Going, At, BSPHandler, BspInside, BspSync,
     BspCheck, SendSmiIpis, BspSyncAgain, BspInSync, BspLock, BspSave, BspSaved,
     BspReplace, BspReplaced, BspBusy, BspNotInside, BspDismiss, BspPending,
     BspRestore, BspRestored, BspReset, BspReopen, BspOutOfSync, Wait, Release
<1> QED BY <1>2, <1>3, <1>4

LEMMA ApStep ==
  ASSUME AsBuilt, Meeting, NEW c \in Others, TakeSmi(c) \/ Processor(c)
  PROVE  Meeting'
<1>1. /\ counter \in Int /\ tasks \in Int /\ insideSmm \in BOOLEAN
      /\ bspIndex = BootBsp /\ current = BootBsp
      /\ data \in [Cpus -> Datum] /\ local \in [Cpus -> Locals]
  BY DEF Meeting, Types
<1>2. c \in Cpus /\ c # BootBsp /\ BootBsp \in Cpus
  BY RendezvousAssumption DEF Others
<1>3. ApRole(pc[c], local[c], insideSmm) /\ ~Election /\ ~ConfigureMtrrs
  BY DEF Meeting, Roles, AsBuilt
<1>4. CASE TakeSmi(c)
  <2>1. /\ pc[c] = "out" /\ Goto(c, "arrive")
        /\ UNCHANGED <<counter, bspIndex, current, insideSmm, tasks, local>>
    BY <1>1, <1>2, <1>3, <1>4 DEF TakeSmi, At, shared, Keep
  <2>2. data' \in [Cpus -> Datum] /\ Signals' = Signals
    BY <1>1, <1>4 DEF TakeSmi, Signals
  <2>3. /\ "arrive" \in ApLabels /\ ("arrive" \in BspKnown => "out" \in BspKnown)
        /\ "arrive" \in Outside /\ "out" \in Outside
    BY DEF ApLabels, BspKnown, Outside
  <2> QED BY <2>1, <2>2, <2>3, ApGoes
<1>5. CASE MarkPresent(c)
  <2>1. /\ pc[c] = "present" /\ Goto(c, "role")
        /\ UNCHANGED <<counter, bspIndex, current, insideSmm, tasks, local>>
    BY <1>1, <1>2, <1>3, <1>5 DEF MarkPresent, At, shared, Keep
  <2>2. data' \in [Cpus -> Datum] /\ Signals' = Signals
    <3>1. Set(c, "present", TRUE)
      BY <1>5 DEF MarkPresent
    <3> QED BY <1>1, <1>2, <3>1, SetFlag DEF Signals
  <2>3. /\ "role" \in ApLabels /\ ("role" \in BspKnown => "present" \in BspKnown)
        /\ "role" \in Arriving /\ "present" \in Arriving
    BY DEF ApLabels, BspKnown, Arriving
  <2> QED BY <2>1, <2>2, <2>3, ApGoes
<1>6. CASE Role(c)
  <2>1. /\ pc[c] = "role" /\ Goto(c, "ap")
        /\ UNCHANGED <<counter, bspIndex, current, insideSmm, tasks, local>>
    BY <1>1, <1>2, <1>3, <1>6 DEF Role, At, shared, Keep
  <2>2. data' \in [Cpus -> Datum] /\ Signals' = Signals
    BY <1>1, <1>6 DEF Role, Signals
  <2>3. /\ "ap" \in ApLabels /\ ("ap" \in BspKnown => "role" \in BspKnown)
        /\ "ap" \in Arriving /\ "role" \in Arriving
    BY DEF ApLabels, BspKnown, Arriving
  <2> QED BY <2>1, <2>2, <2>3, ApGoes
<1>7. CASE Leave(c)
  <2>1. /\ pc[c] = "leave" /\ Goto(c, "exit")
        /\ UNCHANGED <<counter, bspIndex, current, insideSmm, tasks, local>>
    BY <1>1, <1>2, <1>3, <1>7 DEF Leave, At, shared, Keep
  <2>2. data' \in [Cpus -> Datum] /\ Signals' = Signals
    <3>1. Set(c, "present", FALSE)
      BY <1>7 DEF Leave
    <3> QED BY <1>1, <1>2, <3>1, SetFlag DEF Signals
  <2>3. /\ "exit" \in ApLabels /\ ("exit" \in BspKnown => "leave" \in BspKnown)
        /\ "exit" \in Outside /\ "leave" \in Outside
    BY DEF ApLabels, BspKnown, Outside
  <2> QED BY <2>1, <2>2, <2>3, ApGoes
<1>8. CASE ApSync(c)
  <2>1. /\ pc[c] = "ap_sync" /\ Goto(c, "ap_check")
        /\ UNCHANGED <<counter, bspIndex, current, insideSmm, tasks, local>>
    BY <1>1, <1>2, <1>3, <1>8 DEF ApSync, At, shared, Keep
  <2>2. data' \in [Cpus -> Datum] /\ Signals' = Signals
    BY <1>1, <1>8 DEF ApSync, Signals
  <2>3. /\ "ap_check" \in ApLabels /\ ("ap_check" \in BspKnown => "ap_sync" \in BspKnown)
        /\ "ap_check" \in Arriving /\ "ap_sync" \in Arriving
    BY DEF ApLabels, BspKnown, Arriving
  <2> QED BY <2>1, <2>2, <2>3, ApGoes
<1>9. CASE ApSyncAgain(c)
  <2>1. /\ pc[c] = "ap_sync_again" /\ Goto(c, "ap_check_again")
        /\ UNCHANGED <<counter, bspIndex, current, insideSmm, tasks, local>>
    BY <1>1, <1>2, <1>3, <1>9 DEF ApSyncAgain, At, shared, Keep
  <2>2. data' \in [Cpus -> Datum] /\ Signals' = Signals
    BY <1>1, <1>9 DEF ApSyncAgain, Signals
  <2>3. /\ "ap_check_again" \in ApLabels /\ ("ap_check_again" \in BspKnown => "ap_sync_again" \in BspKnown)
        /\ "ap_check_again" \in Arriving /\ "ap_sync_again" \in Arriving
    BY DEF ApLabels, BspKnown, Arriving
  <2> QED BY <2>1, <2>2, <2>3, ApGoes
<1>10. CASE ApBusy(c)
  <2>1. /\ pc[c] = "ap_busy" /\ Goto(c, "ap_idle")
        /\ UNCHANGED <<counter, bspIndex, current, insideSmm, tasks, local>>
    BY <1>1, <1>2, <1>3, <1>10 DEF ApBusy, At, shared, Keep
  <2>2. data' \in [Cpus -> Datum] /\ Signals' = Signals
    <3>1. Set(c, "busy", FALSE)
      BY <1>10 DEF ApBusy
    <3> QED BY <1>1, <1>2, <3>1, SetFlag DEF Signals
  <2>3. /\ "ap_idle" \in ApLabels /\ ("ap_idle" \in BspKnown => "ap_busy" \in BspKnown)
        /\ "ap_idle" \in Held /\ "ap_busy" \in Held
    BY DEF ApLabels, BspKnown, Held
  <2> QED BY <2>1, <2>2, <2>3, ApGoes
<1>11. CASE ApIdle(c)
  <2>1. /\ pc[c] = "ap_idle" /\ Goto(c, "ap_look")
        /\ UNCHANGED <<counter, bspIndex, current, insideSmm, tasks, local>>
    BY <1>1, <1>2, <1>3, <1>11 DEF ApIdle, At, shared, Keep
  <2>2. data' \in [Cpus -> Datum] /\ Signals' = Signals
    <3>1. data[c].run \in Nat /\ data[c].run > 0 /\ Set(c, "run", data[c].run - 1)
      BY <1>1, <1>2, <1>11 DEF ApIdle, WaitForRun, Datum
    <3>2. data[c].run - 1 \in Nat
      BY <3>1
    <3> QED BY <1>1, <1>2, <3>1, <3>2, SetRun DEF Signals
  <2>3. /\ "ap_look" \in ApLabels /\ ("ap_look" \in BspKnown => "ap_idle" \in BspKnown)
        /\ "ap_look" \in Held /\ "ap_idle" \in Held
    BY DEF ApLabels, BspKnown, Held
  <2> QED BY <2>1, <2>2, <2>3, ApGoes
<1>12. CASE ApRun(c)
  <2>1. /\ pc[c] = "ap_run" /\ Goto(c, "ap_free")
        /\ UNCHANGED <<counter, bspIndex, current, insideSmm, tasks, local>>
    BY <1>1, <1>2, <1>3, <1>12 DEF ApRun, At, shared, Keep
  <2>2. data' \in [Cpus -> Datum] /\ Signals' = Signals
    BY <1>1, <1>12 DEF ApRun, Signals
  <2>3. /\ "ap_free" \in ApLabels /\ ("ap_free" \in BspKnown => "ap_run" \in BspKnown)
        /\ "ap_free" \in Held /\ "ap_run" \in Held
    BY DEF ApLabels, BspKnown, Held
  <2> QED BY <2>1, <2>2, <2>3, ApGoes
<1>13. CASE ApFree(c)
  <2>1. /\ pc[c] = "ap_free" /\ Goto(c, "ap_idle")
        /\ UNCHANGED <<counter, bspIndex, current, insideSmm, tasks, local>>
    BY <1>1, <1>2, <1>3, <1>13 DEF ApFree, At, shared, Keep
  <2>2. data' \in [Cpus -> Datum] /\ Signals' = Signals
    <3>1. Set(c, "busy", FALSE)
      BY <1>13 DEF ApFree
    <3> QED BY <1>1, <1>2, <3>1, SetFlag DEF Signals
  <2>3. /\ "ap_idle" \in ApLabels /\ ("ap_idle" \in BspKnown => "ap_free" \in BspKnown)
        /\ "ap_idle" \in Held /\ "ap_free" \in Held
    BY DEF ApLabels, BspKnown, Held
  <2> QED BY <2>1, <2>2, <2>3, ApGoes
<1>14. CASE ApCheck(c)
  <2>1. /\ pc[c] = "ap_check" /\ UNCHANGED <<counter, bspIndex, current, insideSmm, tasks, local>>
        /\ data' \in [Cpus -> Datum] /\ Signals' = Signals
    BY <1>1, <1>14 DEF ApCheck, At, shared, Keep, Signals
  <2>2. \A l \in {"ap_check", "ap_sync_again", "ap_notify"} :
          l \in ApLabels /\ l \in BspKnown /\ l \in Arriving
    BY DEF ApLabels, BspKnown, Arriving
  <2>3. CASE insideSmm
    <3>1. Goto(c, "ap_notify")
      BY <1>14, <2>3 DEF ApCheck
    <3> QED BY <2>1, <2>2, <2>3, <3>1, ApGoes
  <2>4. CASE ~insideSmm
    <3>1. Goto(c, "ap_sync_again")
      BY <1>14, <2>4 DEF ApCheck
    <3> QED BY <2>1, <2>2, <3>1, ApGoes
  <2> QED BY <2>3, <2>4
<1>15. CASE ApCheckAgain(c)
  <2>1. /\ pc[c] = "ap_check_again" /\ UNCHANGED <<counter, bspIndex, current, insideSmm, tasks, local>>
        /\ data' \in [Cpus -> Datum] /\ Signals' = Signals
    BY <1>1, <1>15 DEF ApCheckAgain, At, shared, Keep, Signals
  <2>2. \A l \in {"ap_check_again", "give_up", "ap_notify"} :
          l \in ApLabels /\ l \in BspKnown /\ l \in Arriving
    BY DEF ApLabels, BspKnown, Arriving
  <2>3. CASE insideSmm
    <3>1. Goto(c, "ap_notify")
      BY <1>15, <2>3 DEF ApCheckAgain
    <3> QED BY <2>1, <2>2, <2>3, <3>1, ApGoes
  <2>4. CASE ~insideSmm
    <3>1. Goto(c, "give_up")
      BY <1>15, <2>4 DEF ApCheckAgain
    <3> QED BY <2>1, <2>2, <3>1, ApGoes
  <2> QED BY <2>3, <2>4
<1>16. CASE Arrive(c)
  <2>1. /\ pc[c] = "arrive" /\ UNCHANGED <<bspIndex, current, insideSmm, tasks, local>>
        /\ data' \in [Cpus -> Datum] /\ Signals' = Signals
    BY <1>1, <1>16 DEF Arrive, At, Keep, Signals
  <2>2. CASE counter = Locked
    <3>1. Goto(c, "exit") /\ UNCHANGED counter
      BY <1>16, <2>2 DEF Arrive
    <3>2. "exit" \in ApLabels /\ "exit" \notin BspKnown /\ {"exit", "arrive"} \subseteq Outside
      BY DEF ApLabels, BspKnown, Outside
    <3> QED BY <2>1, <3>1, <3>2, ApGoes
  <2>3. CASE counter # Locked
    <3>1. Goto(c, "present") /\ counter' = counter + 1
      BY <1>16, <2>3 DEF Arrive
    <3>2. /\ "present" \in ApLabels /\ "present" \notin BspKnown
          /\ "arrive" \in Outside /\ "present" \in Arriving
      BY DEF ApLabels, BspKnown, Outside, Arriving
    <3>3. ApRole("present", local'[c], insideSmm)
      BY <3>2 DEF ApRole
    <3> QED BY <1>1, <2>1, <2>3, <3>1, <3>2, <3>3, ApMoves
  <2> QED BY <2>2, <2>3
<1>17. CASE Exit(c)
  <2>1. /\ pc[c] = "exit" /\ Goto(c, "out")
        /\ UNCHANGED <<counter, bspIndex, current, insideSmm, tasks>>
        /\ data' \in [Cpus -> Datum] /\ Signals' = Signals
        /\ local' = [local EXCEPT ![c] = NoFrame]
    BY <1>1, <1>17 DEF Exit, At, shared, Keep, Signals
  <2>2. local' \in [Cpus -> Locals] /\ \A x \in Cpus : x # c => local'[x] = local[x]
    BY <1>1, <1>2, <2>1, NoFrameTyped
  <2>3. /\ "out" \in ApLabels /\ "out" \notin BspKnown
        /\ \A l \in {"exit", "out"} : l \notin Arriving /\ l \notin Held /\ l \notin Going
    BY DEF ApLabels, BspKnown, Outside, Arriving, Held, Going
  <2>4. ApRole("out", local'[c], insideSmm)
    BY <2>3 DEF ApRole
  <2> QED BY <1>1, <2>1, <2>2, <2>3, <2>4, ApMoves
<1>18. CASE ApBegin(c)
  <2>1. /\ pc[c] = "ap" /\ Goto(c, "ap_sync")
        /\ UNCHANGED <<counter, bspIndex, current, insideSmm, tasks>>
        /\ data' \in [Cpus -> Datum] /\ Signals' = Signals
        /\ local' = [local EXCEPT ![c]["bsp"] = BootBsp]
    BY <1>1, <1>3, <1>18 DEF ApBegin, Local, At, shared, Keep, Signals
  <2>2. PICK e \in Locals : e = local[c]
    BY <1>1, <1>2
  <2>3. PICK f : f = [e EXCEPT !.bsp = BootBsp]
    OBVIOUS
  <2>4. f \in Locals /\ f.bsp = BootBsp
    BY <1>2, <2>3 DEF Locals
  <2>5. local' = [local EXCEPT ![c] = f]
    BY <2>1, <2>2, <2>3
  <2>6. /\ local' \in [Cpus -> Locals] /\ local'[c].bsp = BootBsp
        /\ \A x \in Cpus : x # c => local'[x] = local[x]
    BY <1>1, <1>2, <2>4, <2>5
  <2>7. "ap_sync" \in ApLabels /\ "ap_sync" # "ap_notify"
        /\ \A l \in {"ap", "ap_sync"} : l \in Arriving /\ l \notin Held /\ l \notin Going
    BY DEF ApLabels, Arriving, Held, Going
  <2>8. ApRole("ap_sync", local'[c], insideSmm)
    BY <2>6, <2>7 DEF ApRole
  <2> QED BY <1>1, <2>1, <2>6, <2>7, <2>8, ApMoves
<1>19. CASE GiveUp(c)
  <2>1. /\ pc[c] = "give_up" /\ Goto(c, "leave") /\ counter' = counter - 1
        /\ UNCHANGED <<bspIndex, current, insideSmm, tasks, local>>
        /\ data' \in [Cpus -> Datum] /\ Signals' = Signals
    BY <1>1, <1>19 DEF GiveUp, At, Keep, Signals
  <2>2. /\ "leave" \in ApLabels /\ "leave" \notin BspKnown
        /\ "give_up" \in Arriving /\ "leave" \in Outside
    BY DEF ApLabels, BspKnown, Arriving, Outside
  <2>3. ApRole("leave", local'[c], insideSmm)
    BY <2>2 DEF ApRole
  <2> QED BY <1>1, <2>1, <2>2, <2>3, ApMoves
<1>20. CASE ApNotify(c)
  <2>1. /\ pc[c] = "ap_notify" /\ Goto(c, "ap_busy")
        /\ UNCHANGED <<counter, bspIndex, current, insideSmm, tasks, local>>
    BY <1>3, <1>20 DEF ApNotify, SignalBsp, At, shared, Keep
  <2>2. data' \in [Cpus -> Datum] /\ Signals' = Signals + 1
    <3>1. Set(BootBsp, "run", data[BootBsp].run + 1)
      BY <1>1, <1>3, <1>20 DEF ApNotify, SignalBsp, ReleaseRun, At, ApRole, BspKnown
    <3>2. data[BootBsp].run + 1 \in Nat
      BY <1>1, <1>2 DEF Datum
    <3> QED BY <1>1, <1>2, <3>1, <3>2, SetRun DEF Signals
  <2>3. /\ "ap_busy" \in ApLabels /\ "ap_busy" \notin BspKnown
        /\ "ap_notify" \in Arriving /\ "ap_busy" \in Held
    BY DEF ApLabels, BspKnown, Arriving, Held
  <2>4. ApRole("ap_busy", local'[c], insideSmm)
    BY <2>3 DEF ApRole
  <2>5. /\ tasks' \in Int /\ counter' \in Int /\ counter' = counter
        /\ local' \in [Cpus -> Locals] /\ \A x \in Cpus : local'[x] = local[x]
    BY <1>1, <2>1
  <2>6. insideSmm
    BY <1>3, <2>1 DEF ApRole
  <2> QED BY <2>1, <2>2, <2>3, <2>4, <2>5, <2>6, ApMoves
<1>21. CASE ApDone(c)
  <2>1. /\ pc[c] = "ap_done" /\ Goto(c, "leave")
        /\ UNCHANGED <<counter, bspIndex, current, insideSmm, tasks, local>>
    BY <1>3, <1>21 DEF ApDone, SignalBsp, At, shared, Keep
  <2>2. data' \in [Cpus -> Datum] /\ Signals' = Signals + 1
    <3>1. Set(BootBsp, "run", data[BootBsp].run + 1)
      BY <1>1, <1>3, <1>21 DEF ApDone, SignalBsp, ReleaseRun, At, ApRole, BspKnown
    <3>2. data[BootBsp].run + 1 \in Nat
      BY <1>1, <1>2 DEF Datum
    <3> QED BY <1>1, <1>2, <3>1, <3>2, SetRun DEF Signals
  <2>3. /\ "leave" \in ApLabels /\ "leave" \notin BspKnown
        /\ "ap_done" \in Going /\ "leave" \in Outside
    BY DEF ApLabels, BspKnown, Going, Outside
  <2>4. ApRole("leave", local'[c], insideSmm)
    BY <2>3 DEF ApRole
  <2>5. /\ tasks' \in Int /\ counter' \in Int /\ counter' = counter
        /\ local' \in [Cpus -> Locals] /\ \A x \in Cpus : local'[x] = local[x]
    BY <1>1, <2>1
  <2> QED BY <2>1, <2>2, <2>3, <2>4, <2>5, ApMoves
<1>22. CASE ApLook(c)
  <2>1. /\ pc[c] = "ap_look" /\ UNCHANGED <<counter, bspIndex, current, insideSmm, tasks, local>>
        /\ data' \in [Cpus -> Datum] /\ Signals' = Signals
    BY <1>1, <1>22 DEF ApLook, At, shared, Keep, Signals
  <2>2. CASE insideSmm
    <3>1. Goto(c, "ap_run")
      BY <1>22, <2>2 DEF ApLook
    <3>2. "ap_run" \in ApLabels /\ "ap_run" \notin BspKnown /\ {"ap_look", "ap_run"} \subseteq Held
      BY DEF ApLabels, BspKnown, Held
    <3> QED BY <2>1, <3>1, <3>2, ApGoes
  <2>3. CASE ~insideSmm
    <3>1. Goto(c, "ap_done")
      BY <1>22, <2>3 DEF ApLook
    <3>2. /\ "ap_done" \in ApLabels /\ "ap_done" \notin BspKnown
          /\ "ap_look" \in Held /\ "ap_done" \in Going
      BY DEF ApLabels, BspKnown, Held, Going
    <3>3. ApRole("ap_done", local'[c], insideSmm)
      BY <3>2 DEF ApRole
    <3>4. /\ tasks' \in Int /\ counter' \in Int /\ counter' = counter
          /\ local' \in [Cpus -> Locals] /\ \A x \in Cpus : local'[x] = local[x]
      BY <1>1, <2>1
    <3> QED BY <2>1, <2>3, <3>1, <3>2, <3>3, <3>4, ApMoves
  <2> QED BY <2>2, <2>3
<1> QED BY <1>4, <1>5, <1>6, <1>7, <1>8, <1>9, <1>10, <1>11, <1>12, <1>13, <1>14, <1>15, <1>16, <1>17, <1>18, <1>19, <1>20, <1>21, <1>22, NotOthers
       DEF Processor, Entry, APHandler

-----------------------------------------------------------------------------
(* A step of the BSP.                                                        *)

LEMMA BspMoves ==
  ASSUME Meeting, NEW l \in BspLabels, NEW f \in Locals, NEW m \in Tally,
         Goto(BootBsp, l), UNCHANGED <<bspIndex, current>>,
         tasks' \in Int, counter' \in Int, insideSmm' \in BOOLEAN,
         data' \in [Cpus -> Datum], local' = [local EXCEPT ![BootBsp] = f],
         BspRole(l, f, insideSmm'),
         insideSmm => insideSmm' \/ m.o = 0,
         m.k = counter', m.o = Count.o, m.i = Count.i, m.g = Count.g, m.s = Signals',
         Balance(l, f, m)
  PROVE  Meeting'
<1>1. Types /\ Roles /\ Counts
  BY DEF Meeting
<1>2. BootBsp \in Cpus /\ \A c \in Others : c \in Cpus /\ c # BootBsp
  BY RendezvousAssumption DEF Others
<1>3. l \in AllLabels /\ pc \in [Cpus -> AllLabels] /\ local \in [Cpus -> Locals]
  BY <1>1 DEF AllLabels, Types
<1>4. /\ pc' = [pc EXCEPT ![BootBsp] = l]
      /\ pc' \in [Cpus -> AllLabels] /\ pc'[BootBsp] = l
      /\ \A x \in Others : pc'[x] = pc[x]
  BY <1>2, <1>3 DEF Goto
<1>5. /\ local' \in [Cpus -> Locals] /\ local'[BootBsp] = f
      /\ \A x \in Others : local'[x] = local[x]
  BY <1>2, <1>3
<1>6. Types'
  BY <1>1, <1>4, <1>5 DEF Types
<1>7. Bsp' = l /\ Frm' = f
  BY <1>4, <1>5 DEF Bsp, Frm
<1>8. Count' = m
  <2>1. /\ N(pc', Arriving) = N(pc, Arriving) /\ N(pc', Held) = N(pc, Held)
        /\ N(pc', Going) = N(pc, Going)
    BY <1>3, <1>4, CountsStay
  <2>2. /\ m.k = counter' /\ m.o = N(pc', Arriving) /\ m.i = N(pc', Held)
        /\ m.g = N(pc', Going) /\ m.s = Signals'
    BY <2>1 DEF Count
  <2>3. m = [k |-> m.k, o |-> m.o, i |-> m.i, g |-> m.g, s |-> m.s]
    BY DEF Tally
  <2> QED BY <2>2, <2>3 DEF Count
<1>9. Counts'
  BY <1>7, <1>8 DEF Counts
<1>10. Roles'
  <2>1. BspRole(Bsp', Frm', insideSmm')
    BY <1>7
  <2>2. ASSUME NEW x \in Others
        PROVE  ApRole(pc'[x], local'[x], insideSmm')
    <3>1. ApRole(pc[x], local[x], insideSmm)
      BY <1>1 DEF Roles
    <3>2. pc[x] = "ap_notify" => insideSmm'
      <4>1. CASE m.o = 0
        <5>1. N(pc, Arriving) = 0
          BY <4>1 DEF Count
        <5>2. pc[x] \notin Arriving
          BY <5>1, Counted
        <5> QED BY <5>2 DEF Arriving
      <4>2. CASE insideSmm => insideSmm'
        BY <3>1, <4>2 DEF ApRole
      <4> QED BY <4>1, <4>2
    <3> QED BY <1>4, <1>5, <3>1, <3>2 DEF ApRole
  <2> QED BY <2>1, <2>2 DEF Roles
<1> QED BY <1>6, <1>9, <1>10 DEF Meeting

LEMMA PhasesApart ==
  ASSUME NEW l
  PROVE  /\ l \in Closed =>
              l \notin Early \cup Gathering \cup Calling \cup Dismissing \cup Emptied
         /\ l \in Early =>
              l \notin Closed \cup Gathering \cup Calling \cup Dismissing \cup Emptied
         /\ l \in Gathering =>
              l \notin Closed \cup Early \cup Calling \cup Dismissing \cup Emptied
         /\ l \in Calling =>
              l \notin Closed \cup Early \cup Gathering \cup Dismissing \cup Emptied
         /\ l \in Dismissing =>
              l \notin Closed \cup Early \cup Gathering \cup Calling \cup Emptied
         /\ l \in Emptied =>
              l \notin Closed \cup Early \cup Gathering \cup Calling \cup Dismissing
         /\ l \in Closed \cup Early \cup Gathering \cup Calling \cup Dismissing
                    \cup Emptied => l # "wait"
<1>1. l \in Closed =>
        l \notin Early \cup Gathering \cup Calling \cup Dismissing \cup Emptied
  BY DEF Closed, Outside, Early, Gathering, Calling, Foundation, Dismissing, Emptied
<1>2. l \in Early =>
        l \notin Gathering \cup Calling \cup Dismissing \cup Emptied
  BY DEF Early, Gathering, Calling, Foundation, Dismissing, Emptied
<1>3. l \in Gathering => l \notin Calling \cup Dismissing \cup Emptied
  BY DEF Gathering, Calling, Foundation, Dismissing, Emptied
<1>4. l \in Calling => l \notin Dismissing \cup Emptied
  BY DEF Calling, Foundation, Dismissing, Emptied
<1>5. l \in Dismissing => l \notin Emptied
  BY DEF Dismissing, Emptied
<1>6. l \in Closed \cup Early \cup Gathering \cup Calling \cup Dismissing \cup Emptied
        => l # "wait"
  BY DEF Closed, Outside, Early, Gathering, Calling, Foundation, Dismissing, Emptied
<1> QED BY <1>1, <1>2, <1>3, <1>4, <1>5, <1>6

SamePhase(l1, l2) ==
  \/ l1 \in Closed /\ l2 \in Closed
  \/ l1 \in Early /\ l2 \in Early
  \/ l1 \in Gathering /\ l2 \in Gathering
  \/ l1 \in Calling /\ l2 \in Calling
  \/ l1 \in Dismissing /\ l2 \in Dismissing
  \/ l1 \in Emptied /\ l2 \in Emptied

LEMMA BspGoes ==
  ASSUME Meeting, NEW l, NEW f \in Locals, Goto(BootBsp, l),
         UNCHANGED <<counter, bspIndex, current, insideSmm>>,
         tasks' \in Int, data' \in [Cpus -> Datum], Signals' = Signals,
         local' = [local EXCEPT ![BootBsp] = f], f.aps = Frm.aps \/ l \in Closed,
         SamePhase(Bsp, l),
         l = "release" => f.then = "bsp_pending" /\ f.todo \subseteq Others,
         l \in {"startup", "startup_release"} => f.ap \in Others
  PROVE  Meeting'
<1>1. Types /\ Roles /\ Counts
  BY DEF Meeting
<1>2. Count \in Tally
  <2>1. Signals \in Nat /\ counter \in Int
    BY <1>1, RendezvousAssumption DEF Types, Signals, Datum
  <2> QED BY <2>1, CountIsTally DEF Count
<1>3. PICK b, e, n : b = Bsp /\ e = Frm /\ n = Count /\ n \in Tally
  BY <1>2
<1>4. n.k = counter' /\ n.s = Signals'
  BY <1>3 DEF Count
<1>5. BspRole(b, e, insideSmm) /\ Balance(b, e, n)
  BY <1>1, <1>3 DEF Roles, Counts
<1>6. SamePhase(b, l) /\ (f.aps = e.aps \/ l \in Closed)
  BY <1>3
<1>7. l \in BspLabels /\ l # "wait" /\ b # "wait"
  BY <1>6, PhasesApart DEF SamePhase, BspLabels
<1>8. BspRole(l, f, insideSmm)
  <2>1. insideSmm <=> b \in Gathering \cup Calling
    BY <1>5, <1>7 DEF BspRole, Waits
  <2>2. insideSmm <=> l \in Gathering \cup Calling
    BY <1>6, <2>1, PhasesApart DEF SamePhase
  <2> QED BY <1>7, <2>2 DEF BspRole, Waits
<1>9. Balance(l, f, n)
  <2>1. CASE l \in Closed
    BY <1>5, <1>6, <1>7, <2>1, PhasesApart DEF SamePhase, Balance, Waits
  <2>2. CASE l \notin Closed
    <3>1. f.aps = e.aps
      BY <1>6, <2>2
    <3>2. /\ l \in Early <=> b \in Early
          /\ l \in Gathering <=> b \in Gathering
          /\ l \in Calling <=> b \in Calling
          /\ l \in Dismissing <=> b \in Dismissing
          /\ l \in Emptied <=> b \in Emptied
      BY <1>6, <2>2, PhasesApart DEF SamePhase
    <3>3. ~Waits(l, f, "bsp_busy") /\ ~Waits(l, f, "bsp_reset")
      BY <1>7 DEF Waits
    <3>4. /\ l \in Early => n.o + 1 <= n.k /\ n.i = 0 /\ n.g = 0 /\ n.s = 0
          /\ l \in Gathering => n.o + n.i + 1 <= n.k /\ n.g = 0 /\ n.s <= n.i
          /\ l \in Emptied => n.k = Locked /\ n.o = 0 /\ n.i = 0 /\ n.g = 0 /\ n.s = 0
      BY <1>5, <3>2 DEF Balance
    <3>5. /\ l \in Calling => n.k = Locked /\ n.o = 0 /\ n.i <= e.aps /\ n.g = 0 /\ n.s = 0
          /\ l \in Dismissing => n.k = Locked /\ n.o = 0 /\ n.i + n.g + n.s <= e.aps
      BY <1>5, <3>2 DEF Balance
    <3>6. /\ l \in Calling => n.k = Locked /\ n.o = 0 /\ n.i <= f.aps /\ n.g = 0 /\ n.s = 0
          /\ l \in Dismissing => n.k = Locked /\ n.o = 0 /\ n.i + n.g + n.s <= f.aps
      BY <3>1, <3>5
    <3> QED BY <2>2, <3>3, <3>4, <3>6 DEF Balance
  <2> QED BY <2>1, <2>2
<1>10. counter' \in Int /\ insideSmm' \in BOOLEAN /\ n.o = Count.o /\ n.i = Count.i
       /\ n.g = Count.g
  BY <1>1, <1>3 DEF Types
<1>11. BspRole(l, f, insideSmm') /\ (insideSmm => insideSmm')
  BY <1>8
<1>12. UNCHANGED <<bspIndex, current>> /\ n \in Tally
  BY <1>3
<1> QED BY <1>4, <1>7, <1>9, <1>10, <1>11, <1>12, BspMoves

LEMMA NotBsp ==
  ASSUME AsBuilt, Meeting
  PROVE  /\ ~Elect(BootBsp) /\ ~APHandler(BootBsp)
         /\ ~BspSave(BootBsp) /\ ~BspSaved(BootBsp) /\ ~BspReplace(BootBsp)
         /\ ~BspReplaced(BootBsp) /\ ~BspRestore(BootBsp) /\ ~BspRestored(BootBsp)
<1>1. pc[BootBsp] \in Closed \cup Early \cup Gathering \cup Calling \cup Dismissing
                        \cup Emptied \cup {"wait"}
  BY DEF Meeting, Roles, BspRole, BspLabels, Bsp
<1>2. /\ ~Elect(BootBsp)
      /\ ~BspSave(BootBsp) /\ ~BspSaved(BootBsp) /\ ~BspReplace(BootBsp)
      /\ ~BspReplaced(BootBsp) /\ ~BspRestore(BootBsp) /\ ~BspRestored(BootBsp)
  BY <1>1 DEF Closed, Outside, Early, Gathering, Calling, Foundation, Dismissing,
     Emptied, At, Elect, BspSave, BspSaved, BspReplace, BspReplaced, BspRestore,
     BspRestored
<1>3. /\ pc[BootBsp] \notin {"ap", "ap_sync", "ap_check", "ap_sync_again",
           "ap_check_again", "give_up", "ap_notify", "ap_save", "ap_saving",
           "ap_saved", "ap_replace"}
      /\ pc[BootBsp] \notin {"ap_replacing", "ap_replaced", "ap_busy", "ap_idle",
           "ap_look", "ap_run", "ap_free", "ap_done", "ap_restore", "ap_restoring",
           "ap_restored"}
  BY <1>1 DEF Closed, Outside, Early, Gathering, Calling, Foundation, Dismissing,
     Emptied
<1>4. ~APHandler(BootBsp)
  BY <1>3 DEF At, APHandler, ApBegin, ApSync, ApCheck, ApSyncAgain, ApCheckAgain,
     GiveUp, ApNotify, ApSave, ApSaving, ApSaved, ApReplace, ApReplacing, ApReplaced,
     ApBusy, ApIdle, ApLook, ApRun, ApFree, ApDone, ApRestore, ApRestoring, ApRestored
<1> QED BY <1>2, <1>4

LEMMA BspStep ==
  ASSUME AsBuilt, Meeting, TakeSmi(BootBsp) \/ Processor(BootBsp)
  PROVE  Meeting'
<1>1. /\ counter \in Int /\ tasks \in Int /\ insideSmm \in BOOLEAN
      /\ bspIndex = BootBsp /\ current = BootBsp
      /\ data \in [Cpus -> Datum] /\ local \in [Cpus -> Locals]
  BY DEF Meeting, Types
<1>2. BootBsp \in Cpus /\ Others = Cpus \ {BootBsp}
  BY RendezvousAssumption DEF Others
<1>3. ~Election /\ ~ConfigureMtrrs
  BY DEF AsBuilt
<1>4. Count \in Tally
  <2>1. Signals \in Nat
    BY <1>1, <1>2 DEF Signals, Datum
  <2> QED BY <1>1, <2>1, CountIsTally DEF Count
<1>5. PICK e, n : e \in Locals /\ n \in Tally /\ e = local[BootBsp] /\ n = Count
  BY <1>1, <1>2, <1>4
<1>6. /\ n.k = counter /\ n.o = Count.o /\ n.i = Count.i /\ n.g = Count.g /\ n.s = Signals
      /\ n.k \in Int /\ n.o \in Nat /\ n.i \in Nat /\ n.g \in Nat /\ n.s \in Nat
      /\ e.aps \in Int /\ e.left \in Int /\ e.bsp \in Cpus \cup {NoCpu}
  BY <1>5 DEF Count, Tally, Locals
<1>7. BspRole(pc[BootBsp], e, insideSmm) /\ Balance(pc[BootBsp], e, n)
  BY <1>5 DEF Meeting, Roles, Counts, Bsp, Frm
<1>8. Frm = e /\ Bsp = pc[BootBsp] /\ local = [local EXCEPT ![BootBsp] = e]
  BY <1>1, <1>2, <1>5 DEF Frm, Bsp
<1>9. CASE TakeSmi(BootBsp)
  <2>1. /\ pc[BootBsp] = "out" /\ Goto(BootBsp, "arrive")
        /\ UNCHANGED <<counter, bspIndex, current, insideSmm, tasks, local>>
    BY <1>1, <1>3, <1>9 DEF TakeSmi, At, shared, Keep
  <2>2. data' \in [Cpus -> Datum] /\ Signals' = Signals
    BY <1>1, <1>9 DEF TakeSmi, Signals
  <2>3. SamePhase("out", "arrive")
    BY DEF SamePhase, Closed, Outside
  <2>4. tasks' \in Int /\ local' = [local EXCEPT ![BootBsp] = e]
    BY <1>1, <1>8, <2>1
  <2> QED BY <1>5, <1>8, <2>1, <2>2, <2>3, <2>4, BspGoes
<1>10. CASE Arrive(BootBsp)
  <2>1. /\ pc[BootBsp] = "arrive" /\ UNCHANGED <<bspIndex, current, insideSmm, tasks, local>>
        /\ data' \in [Cpus -> Datum] /\ Signals' = Signals
        /\ tasks' \in Int /\ local' = [local EXCEPT ![BootBsp] = e]
    BY <1>1, <1>8, <1>10 DEF Arrive, At, Keep, Signals
  <2>2. CASE counter = Locked
    <3>1. Goto(BootBsp, "exit") /\ UNCHANGED counter
      BY <1>10, <2>2 DEF Arrive
    <3>2. SamePhase("arrive", "exit")
      BY DEF SamePhase, Closed, Outside
    <3> QED BY <1>5, <1>8, <2>1, <3>1, <3>2, BspGoes
  <2>3. CASE counter # Locked
    <3>1. Goto(BootBsp, "present") /\ counter' = counter + 1
      BY <1>10, <2>3 DEF Arrive
    <3>2. /\ "arrive" \in Closed /\ "present" \in Early /\ "present" \in BspLabels
      BY DEF Closed, Outside, Early, BspLabels
    <3>3. PICK m : m = [n EXCEPT !.k = n.k + 1]
      OBVIOUS
    <3>4. /\ m \in Tally /\ m.k = n.k + 1 /\ m.o = n.o /\ m.i = n.i /\ m.g = n.g
          /\ m.s = n.s
      BY <1>5, <1>6, <3>3 DEF Tally
    <3>5. Balance("present", e, m)
      <4>1. n.o <= n.k /\ n.i = 0 /\ n.g = 0 /\ n.s = 0
        BY <1>7, <2>1, <3>2 DEF Balance
      <4>2. m.o + 1 <= m.k /\ m.i = 0 /\ m.g = 0 /\ m.s = 0
        BY <1>6, <3>4, <4>1
      <4> QED BY <3>2, <4>2, PhasesApart DEF Balance, Waits
    <3>6. BspRole("present", e, insideSmm')
      <4>1. ~insideSmm
        BY <1>7, <2>1, <3>2, PhasesApart DEF BspRole, Waits
      <4> QED BY <2>1, <3>2, <4>1, PhasesApart DEF BspRole, Waits
    <3>7. /\ m.k = counter' /\ m.o = Count.o /\ m.i = Count.i /\ m.g = Count.g
          /\ m.s = Signals' /\ counter' \in Int /\ insideSmm' \in BOOLEAN
          /\ (insideSmm => insideSmm') /\ UNCHANGED <<bspIndex, current>>
      BY <1>1, <1>6, <2>1, <3>1, <3>4
    <3> QED BY <1>5, <2>1, <3>1, <3>2, <3>4, <3>5, <3>6, <3>7, BspMoves
  <2> QED BY <2>2, <2>3
<1>11. CASE MarkPresent(BootBsp)
  <2>1. /\ pc[BootBsp] = "present" /\ Goto(BootBsp, "role")
        /\ UNCHANGED <<counter, bspIndex, current, insideSmm, tasks, local>>
    BY <1>1, <1>3, <1>11 DEF MarkPresent, At, shared, Keep
  <2>2. data' \in [Cpus -> Datum] /\ Signals' = Signals
    <3>1. Set(BootBsp, "present", TRUE)
      BY <1>5, <1>11 DEF MarkPresent
    <3> QED BY <1>1, <1>2, <3>1, SetFlag DEF Signals
  <2>3. SamePhase("present", "role")
    BY DEF SamePhase, Early
  <2>4. tasks' \in Int /\ local' = [local EXCEPT ![BootBsp] = e]
    BY <1>1, <1>8, <2>1
  <2> QED BY <1>5, <1>8, <2>1, <2>2, <2>3, <2>4, BspGoes
<1>12. CASE Role(BootBsp)
  <2>1. /\ pc[BootBsp] = "role" /\ Goto(BootBsp, "bsp")
        /\ UNCHANGED <<counter, bspIndex, current, insideSmm, tasks, local>>
    BY <1>1, <1>3, <1>12 DEF Role, At, shared, Keep
  <2>2. data' \in [Cpus -> Datum] /\ Signals' = Signals
    BY <1>1, <1>12 DEF Role, Signals
  <2>3. SamePhase("role", "bsp")
    BY DEF SamePhase, Early
  <2>4. tasks' \in Int /\ local' = [local EXCEPT ![BootBsp] = e]
    BY <1>1, <1>8, <2>1
  <2> QED BY <1>5, <1>8, <2>1, <2>2, <2>3, <2>4, BspGoes
<1>13. CASE Leave(BootBsp)
  <2>1. /\ pc[BootBsp] = "leave" /\ Goto(BootBsp, "exit")
        /\ UNCHANGED <<counter, bspIndex, current, insideSmm, tasks, local>>
    BY <1>1, <1>3, <1>13 DEF Leave, At, shared, Keep
  <2>2. data' \in [Cpus -> Datum] /\ Signals' = Signals
    <3>1. Set(BootBsp, "present", FALSE)
      BY <1>5, <1>13 DEF Leave
    <3> QED BY <1>1, <1>2, <3>1, SetFlag DEF Signals
  <2>3. SamePhase("leave", "exit")
    BY DEF SamePhase, Closed, Outside
  <2>4. tasks' \in Int /\ local' = [local EXCEPT ![BootBsp] = e]
    BY <1>1, <1>8, <2>1
  <2> QED BY <1>5, <1>8, <2>1, <2>2, <2>3, <2>4, BspGoes
<1>14. CASE Exit(BootBsp)
  <2>1. /\ pc[BootBsp] = "exit" /\ Goto(BootBsp, "out")
        /\ UNCHANGED <<counter, bspIndex, current, insideSmm, tasks>>
        /\ data' \in [Cpus -> Datum] /\ Signals' = Signals /\ tasks' \in Int
        /\ local' = [local EXCEPT ![BootBsp] = NoFrame] /\ NoFrame \in Locals
    BY <1>1, <1>14, NoFrameTyped DEF Exit, At, shared, Keep, Signals
  <2>2. SamePhase("exit", "out") /\ "out" \in Closed
    BY DEF SamePhase, Closed, Outside
  <2> QED BY <1>8, <2>1, <2>2, BspGoes
<1>15. CASE BspInside(BootBsp)
  <2>1. /\ pc[BootBsp] = "bsp" /\ Goto(BootBsp, "bsp_sync")
        /\ UNCHANGED <<counter, bspIndex, current, tasks, local>>
        /\ data' \in [Cpus -> Datum] /\ Signals' = Signals /\ insideSmm' = TRUE
        /\ tasks' \in Int /\ local' = [local EXCEPT ![BootBsp] = e]
    BY <1>1, <1>8, <1>15 DEF BspInside, At, Keep, Signals
  <2>2. "bsp" \in Early /\ "bsp_sync" \in Gathering /\ "bsp_sync" \in BspLabels
    BY DEF Early, Gathering, BspLabels
  <2>3. Balance("bsp_sync", e, n)
    <3>1. n.o + 1 <= n.k /\ n.i = 0 /\ n.g = 0 /\ n.s = 0
      BY <1>7, <2>1, <2>2 DEF Balance
    <3>2. n.o + n.i + 1 <= n.k /\ n.g = 0 /\ n.s <= n.i
      BY <1>6, <3>1
    <3> QED BY <2>2, <3>2, PhasesApart DEF Balance, Waits
  <2>4. BspRole("bsp_sync", e, insideSmm')
    BY <2>1, <2>2 DEF BspRole
  <2> QED BY <1>1, <1>5, <1>6, <2>1, <2>2, <2>3, <2>4, BspMoves
<1>16. CASE BspSync(BootBsp)
  <2>1. /\ pc[BootBsp] = "bsp_sync" /\ Goto(BootBsp, "bsp_check")
        /\ UNCHANGED <<counter, bspIndex, current, insideSmm, tasks, local>>
    BY <1>1, <1>3, <1>16 DEF BspSync, At, shared, Keep
  <2>2. data' \in [Cpus -> Datum] /\ Signals' = Signals
    BY <1>1, <1>16 DEF BspSync, Signals
  <2>3. SamePhase("bsp_sync", "bsp_check")
    BY DEF SamePhase, Gathering
  <2>4. tasks' \in Int /\ local' = [local EXCEPT ![BootBsp] = e]
    BY <1>1, <1>8, <2>1
  <2> QED BY <1>5, <1>8, <2>1, <2>2, <2>3, <2>4, BspGoes
<1>17. CASE BspCheck(BootBsp)
  <2>1. /\ pc[BootBsp] = "bsp_check"
        /\ UNCHANGED <<counter, bspIndex, current, insideSmm, tasks>>
        /\ data' \in [Cpus -> Datum] /\ Signals' = Signals /\ tasks' \in Int
    BY <1>1, <1>17 DEF BspCheck, At, shared, Keep, Signals
  <2>2. SamePhase("bsp_check", "bsp_ipi") /\ SamePhase("bsp_check", "bsp_in_sync")
    BY DEF SamePhase, Gathering
  <2>3. CASE Below
    <3>1. Goto(BootBsp, "bsp_ipi") /\ Local(BootBsp, "todo", Cpus)
      BY <1>17, <2>3 DEF BspCheck
    <3>2. PICK f : f = [e EXCEPT !.todo = Cpus]
      OBVIOUS
    <3>3. f \in Locals /\ f.aps = e.aps
      BY <1>5, <3>2 DEF Locals
    <3>4. local' = [local EXCEPT ![BootBsp] = f]
      BY <1>5, <3>1, <3>2 DEF Local
    <3> QED BY <1>8, <2>1, <2>2, <3>1, <3>3, <3>4, BspGoes
  <2>4. CASE ~Below
    <3>1. Goto(BootBsp, "bsp_in_sync") /\ local' = [local EXCEPT ![BootBsp] = e]
      BY <1>8, <1>17, <2>4 DEF BspCheck
    <3> QED BY <1>5, <1>8, <2>1, <2>2, <3>1, BspGoes
  <2> QED BY <2>3, <2>4
<1>18. CASE SendSmiIpis(BootBsp)
  <2>1. /\ pc[BootBsp] = "bsp_ipi"
        /\ UNCHANGED <<counter, bspIndex, current, insideSmm, tasks>>
        /\ data' \in [Cpus -> Datum] /\ Signals' = Signals /\ tasks' \in Int
    BY <1>1, <1>18 DEF SendSmiIpis, At, shared, Signals
  <2>2. SamePhase("bsp_ipi", "bsp_ipi") /\ SamePhase("bsp_ipi", "bsp_sync_again")
    BY DEF SamePhase, Gathering
  <2>3. CASE local[BootBsp].todo = {}
    <3>1. Goto(BootBsp, "bsp_sync_again") /\ local' = [local EXCEPT ![BootBsp] = e]
      BY <1>8, <1>18, <2>3 DEF SendSmiIpis
    <3> QED BY <1>5, <1>8, <2>1, <2>2, <3>1, BspGoes
  <2>4. CASE local[BootBsp].todo # {}
    <3>1. PICK d \in e.todo : /\ Local(BootBsp, "todo", e.todo \ {d})
                              /\ UNCHANGED pc
      BY <1>5, <1>18, <2>4 DEF SendSmiIpis
    <3>2. PICK f : f = [e EXCEPT !.todo = e.todo \ {d}]
      OBVIOUS
    <3>3. f \in Locals /\ f.aps = e.aps
      BY <1>5, <3>2 DEF Locals
    <3>4. local' = [local EXCEPT ![BootBsp] = f]
      BY <1>5, <3>1, <3>2 DEF Local
    <3>5. Goto(BootBsp, "bsp_ipi")
      BY <2>1, <3>1 DEF Meeting, Types, Goto
    <3> QED BY <1>8, <2>1, <2>2, <3>3, <3>4, <3>5, BspGoes
  <2> QED BY <2>3, <2>4
<1>19. CASE BspSyncAgain(BootBsp)
  <2>1. /\ pc[BootBsp] = "bsp_sync_again" /\ Goto(BootBsp, "bsp_in_sync")
        /\ UNCHANGED <<counter, bspIndex, current, insideSmm, tasks, local>>
    BY <1>1, <1>3, <1>19 DEF BspSyncAgain, At, shared, Keep
  <2>2. data' \in [Cpus -> Datum] /\ Signals' = Signals
    BY <1>1, <1>19 DEF BspSyncAgain, Signals
  <2>3. SamePhase("bsp_sync_again", "bsp_in_sync")
    BY DEF SamePhase, Gathering
  <2>4. tasks' \in Int /\ local' = [local EXCEPT ![BootBsp] = e]
    BY <1>1, <1>8, <2>1
  <2> QED BY <1>5, <1>8, <2>1, <2>2, <2>3, <2>4, BspGoes
<1>20. CASE BspInSync(BootBsp)
  <2>1. /\ pc[BootBsp] = "bsp_in_sync" /\ Goto(BootBsp, "bsp_lock")
        /\ UNCHANGED <<counter, bspIndex, current, insideSmm, tasks, local>>
    BY <1>1, <1>3, <1>20 DEF BspInSync, At, shared, Keep
  <2>2. data' \in [Cpus -> Datum] /\ Signals' = Signals
    BY <1>1, <1>20 DEF BspInSync, Signals
  <2>3. SamePhase("bsp_in_sync", "bsp_lock")
    BY DEF SamePhase, Gathering
  <2>4. tasks' \in Int /\ local' = [local EXCEPT ![BootBsp] = e]
    BY <1>1, <1>8, <2>1
  <2> QED BY <1>5, <1>8, <2>1, <2>2, <2>3, <2>4, BspGoes
<1>21. CASE BspLock(BootBsp)
  <2>1. /\ pc[BootBsp] = "bsp_lock" /\ Goto(BootBsp, "wait") /\ counter' = Locked
        /\ UNCHANGED <<bspIndex, current, insideSmm, tasks>>
        /\ data' \in [Cpus -> Datum] /\ Signals' = Signals /\ tasks' \in Int
        /\ local' = [local EXCEPT ![BootBsp].aps = counter - 1,
                       ![BootBsp].left = counter - 1, ![BootBsp].then = "bsp_busy"]
    BY <1>1, <1>3, <1>21 DEF BspLock, At, Keep, Signals
  <2>2. PICK f : f = [e EXCEPT !.aps = counter - 1, !.left = counter - 1,
                               !.then = "bsp_busy"]
    OBVIOUS
  <2>3. /\ f \in Locals /\ f.aps = counter - 1 /\ f.left = counter - 1
        /\ f.then = "bsp_busy"
    <3>1. PICK v \in Int : v = counter - 1
      BY <1>1
    <3>2. f = [e EXCEPT !.aps = v, !.left = v, !.then = "bsp_busy"]
      BY <2>2, <3>1
    <3>3. f \in Locals /\ f.aps = v /\ f.left = v /\ f.then = "bsp_busy"
      BY <1>5, <3>2 DEF Locals, Thens
    <3> QED BY <3>1, <3>3
  <2>4. local' = [local EXCEPT ![BootBsp] = f]
    BY <1>1, <1>2, <1>5, <2>1, <2>2
  <2>5. PICK m : m = [n EXCEPT !.k = Locked]
    OBVIOUS
  <2>6. /\ m \in Tally /\ m.k = Locked /\ m.o = n.o /\ m.i = n.i /\ m.g = n.g
        /\ m.s = n.s
    BY <1>5, <1>6, <2>5 DEF Tally, Locked
  <2>7. "bsp_lock" \in Gathering /\ "wait" \in BspLabels
    BY DEF Gathering, BspLabels
  <2>8. Balance("wait", f, m)
    <3>1. n.o + n.i + 1 <= n.k /\ n.g = 0 /\ n.s <= n.i
      BY <1>7, <2>1, <2>7 DEF Balance
    <3>2. /\ m.k <= Locked /\ m.g = 0
          /\ m.o + m.i + (Locked - m.k) <= f.aps
          /\ m.o + m.s + (Locked - m.k) <= f.left
      BY <1>6, <2>3, <2>6, <3>1 DEF Locked
    <3> QED BY <2>3, <3>2, PhasesApart DEF Balance, Waits
  <2>9. insideSmm /\ BspRole("wait", f, insideSmm')
    <3>1. insideSmm
      BY <1>7, <2>1, <2>7 DEF BspRole
    <3> QED BY <2>1, <2>3, <2>7, <3>1 DEF BspRole, Waits
  <2>10. counter' \in Int /\ insideSmm' \in BOOLEAN
    BY <1>1, <2>1 DEF Locked
  <2> QED BY <1>5, <1>6, <2>1, <2>3, <2>4, <2>6, <2>7, <2>8, <2>9, <2>10, BspMoves
<1>22. CASE BspBusy(BootBsp)
  <2>1. /\ pc[BootBsp] = "bsp_busy" /\ Goto(BootBsp, "foundation")
        /\ UNCHANGED <<counter, bspIndex, current, insideSmm, tasks, local>>
    BY <1>1, <1>3, <1>22 DEF BspBusy, At, shared, Keep
  <2>2. data' \in [Cpus -> Datum] /\ Signals' = Signals
    <3>1. Set(BootBsp, "busy", TRUE)
      BY <1>5, <1>22 DEF BspBusy
    <3> QED BY <1>1, <1>2, <3>1, SetFlag DEF Signals
  <2>3. SamePhase("bsp_busy", "foundation")
    BY DEF SamePhase, Calling, Foundation
  <2>4. tasks' \in Int /\ local' = [local EXCEPT ![BootBsp] = e]
    BY <1>1, <1>8, <2>1
  <2> QED BY <1>5, <1>8, <2>1, <2>2, <2>3, <2>4, BspGoes
<1>23. CASE BspNotInside(BootBsp)
  <2>1. /\ pc[BootBsp] = "foundation" /\ Goto(BootBsp, "bsp_dismiss")
        /\ UNCHANGED <<counter, bspIndex, current, tasks, local>>
        /\ data' \in [Cpus -> Datum] /\ Signals' = Signals /\ insideSmm' = FALSE
        /\ tasks' \in Int /\ local' = [local EXCEPT ![BootBsp] = e]
    BY <1>1, <1>8, <1>23 DEF BspNotInside, At, Keep, Signals
  <2>2. /\ "foundation" \in Calling /\ "bsp_dismiss" \in Dismissing
        /\ "bsp_dismiss" \in BspLabels
    BY DEF Calling, Foundation, Dismissing, BspLabels
  <2>3. n.k = Locked /\ n.o = 0 /\ n.i <= e.aps /\ n.g = 0 /\ n.s = 0
    BY <1>7, <2>1, <2>2 DEF Balance
  <2>4. Balance("bsp_dismiss", e, n)
    <3>1. n.k = Locked /\ n.o = 0 /\ n.i + n.g + n.s <= e.aps
      BY <1>6, <2>3
    <3> QED BY <2>2, <3>1, PhasesApart DEF Balance, Waits
  <2>5. BspRole("bsp_dismiss", e, insideSmm')
    BY <2>1, <2>2, PhasesApart DEF BspRole, Waits
  <2> QED BY <1>1, <1>5, <1>6, <2>1, <2>2, <2>3, <2>4, <2>5, BspMoves
<1>24. CASE BspDismiss(BootBsp)
  <2>1. /\ pc[BootBsp] = "bsp_dismiss" /\ Goto(BootBsp, "release")
        /\ UNCHANGED <<counter, bspIndex, current, insideSmm, tasks>>
        /\ data' \in [Cpus -> Datum] /\ Signals' = Signals /\ tasks' \in Int
        /\ local' = [local EXCEPT ![BootBsp].todo = Cpus \ {BootBsp},
                       ![BootBsp].then = "bsp_pending"]
    BY <1>1, <1>24 DEF BspDismiss, ReleaseAllAPs, At, shared, Keep, Signals
  <2>2. SamePhase("bsp_dismiss", "release")
    BY DEF SamePhase, Dismissing
  <2>3. PICK f : f = [e EXCEPT !.todo = Cpus \ {BootBsp}, !.then = "bsp_pending"]
    OBVIOUS
  <2>4. /\ f \in Locals /\ f.aps = e.aps /\ f.then = "bsp_pending"
        /\ f.todo \subseteq Others
    BY <1>2, <1>5, <2>3 DEF Locals, Thens
  <2>5. local' = [local EXCEPT ![BootBsp] = f]
    BY <1>1, <1>2, <1>5, <2>1, <2>3
  <2> QED BY <1>8, <2>1, <2>2, <2>4, <2>5, BspGoes
<1>25. CASE Release(BootBsp)
  <2>1. /\ pc[BootBsp] = "release" /\ tasks' \in Int
        /\ UNCHANGED <<counter, bspIndex, current, insideSmm, tasks>>
    BY <1>1, <1>25 DEF Release, At, shared, Keep
  <2>2. SamePhase("release", "release") /\ SamePhase("release", "bsp_pending")
    BY DEF SamePhase, Dismissing
  <2>3. e.then = "bsp_pending" /\ e.todo \subseteq Others
    BY <1>7, <2>1 DEF BspRole
  <2>4. CASE e.todo = {}
    <3>1. /\ Goto(BootBsp, "bsp_pending") /\ UNCHANGED data
          /\ local' = [local EXCEPT ![BootBsp] = e]
      BY <1>5, <1>8, <1>25, <2>3, <2>4 DEF Release
    <3>2. data' \in [Cpus -> Datum] /\ Signals' = Signals
      BY <1>1, <3>1 DEF Signals
    <3> QED BY <1>5, <1>8, <2>1, <2>2, <3>1, <3>2, BspGoes
  <2>5. CASE e.todo # {}
    <3>1. PICK d \in e.todo : /\ Local(BootBsp, "todo", e.todo \ {d})
                              /\ IF data[d].present THEN ReleaseRun(d) ELSE UNCHANGED data
                              /\ UNCHANGED pc
      BY <1>5, <1>25, <2>5 DEF Release
    <3>2. PICK f : f = [e EXCEPT !.todo = e.todo \ {d}]
      OBVIOUS
    <3>3. /\ f \in Locals /\ f.aps = e.aps /\ f.then = "bsp_pending"
          /\ f.todo \subseteq Others
      BY <1>5, <2>3, <3>2 DEF Locals
    <3>4. local' = [local EXCEPT ![BootBsp] = f]
      BY <1>5, <3>1, <3>2 DEF Local
    <3>5. Goto(BootBsp, "release")
      BY <2>1, <3>1 DEF Meeting, Types, Goto
    <3>6. data' \in [Cpus -> Datum] /\ Signals' = Signals
      <4>1. d \in Cpus /\ d # BootBsp
        BY <1>2, <2>3
      <4>2. CASE data[d].present
        <5>1. Set(d, "run", data[d].run + 1) /\ data[d].run + 1 \in Nat
          BY <1>1, <3>1, <4>1, <4>2 DEF ReleaseRun, Datum
        <5> QED BY <1>1, <1>2, <4>1, <5>1, SetRun DEF Signals
      <4>3. CASE ~data[d].present
        BY <1>1, <3>1, <4>3 DEF Signals
      <4> QED BY <4>2, <4>3
    <3> QED BY <1>8, <2>1, <2>2, <3>3, <3>4, <3>5, <3>6, BspGoes
  <2> QED BY <2>4, <2>5
<1>26. CASE BspPending(BootBsp)
  <2>1. /\ pc[BootBsp] = "bsp_pending" /\ Goto(BootBsp, "wait")
        /\ UNCHANGED <<counter, bspIndex, current, insideSmm, tasks>>
        /\ data' \in [Cpus -> Datum] /\ Signals' = Signals /\ tasks' \in Int
        /\ local' = [local EXCEPT ![BootBsp].left = e.aps, ![BootBsp].then = "bsp_reset"]
    BY <1>1, <1>3, <1>5, <1>26 DEF BspPending, WaitForAllAPs, At, shared, Keep, Signals
  <2>2. PICK f : f = [e EXCEPT !.left = e.aps, !.then = "bsp_reset"]
    OBVIOUS
  <2>3. f \in Locals /\ f.left = e.aps /\ f.then = "bsp_reset"
    BY <1>5, <1>6, <2>2 DEF Locals, Thens
  <2>4. local' = [local EXCEPT ![BootBsp] = f]
    BY <1>1, <1>2, <1>5, <2>1, <2>2
  <2>5. "bsp_pending" \in Dismissing /\ "wait" \in BspLabels
    BY DEF Dismissing, BspLabels
  <2>6. Balance("wait", f, n)
    <3>1. n.k = Locked /\ n.o = 0 /\ n.i + n.g + n.s <= f.left
      BY <1>7, <2>1, <2>3, <2>5 DEF Balance
    <3> QED BY <2>3, <3>1, PhasesApart DEF Balance, Waits
  <2>7. BspRole("wait", f, insideSmm')
    <3>1. ~insideSmm
      BY <1>7, <2>1, <2>5, PhasesApart DEF BspRole, Waits
    <3> QED BY <2>1, <2>3, <2>5, <3>1, PhasesApart DEF BspRole, Waits
  <2> QED BY <1>1, <1>5, <1>6, <2>1, <2>3, <2>4, <2>5, <2>6, <2>7, BspMoves
<1>27. CASE Wait(BootBsp)
  <2>1. /\ pc[BootBsp] = "wait" /\ tasks' \in Int
        /\ UNCHANGED <<counter, bspIndex, current, insideSmm, tasks>>
    BY <1>1, <1>27 DEF Wait, At, shared, Keep
  <2>2. e.then \in {"bsp_busy", "bsp_reset"}
    BY <1>7, <2>1 DEF BspRole
  <2>3. insideSmm <=> e.then = "bsp_busy"
    BY <1>7, <2>1, PhasesApart DEF BspRole, Waits
  <2>4. e.then = "bsp_busy" =>
          /\ n.k <= Locked /\ n.g = 0
          /\ n.o + n.i + (Locked - n.k) <= e.aps
          /\ n.o + n.s + (Locked - n.k) <= e.left
    BY <1>7, <2>1 DEF Balance, Waits
  <2>5. e.then = "bsp_reset" =>
          n.k = Locked /\ n.o = 0 /\ n.i + n.g + n.s <= e.left
    BY <1>7, <2>1 DEF Balance, Waits
  <2>6. CASE e.left = 0
    <3>1. /\ Goto(BootBsp, e.then) /\ UNCHANGED data
          /\ local' = [local EXCEPT ![BootBsp] = e]
      BY <1>5, <1>8, <1>27, <2>6 DEF Wait
    <3>2. data' \in [Cpus -> Datum] /\ Signals' = Signals
      BY <1>1, <3>1 DEF Signals
    <3>3. /\ "bsp_busy" \in Calling /\ "bsp_busy" \in BspLabels
          /\ "bsp_reset" \in Emptied /\ "bsp_reset" \in BspLabels
      BY DEF Calling, Emptied, BspLabels
    <3>4. CASE e.then = "bsp_busy"
      <4>1. n.k = Locked /\ n.o = 0 /\ n.i <= e.aps /\ n.g = 0 /\ n.s = 0
        BY <1>6, <2>4, <2>6, <3>4 DEF Locked
      <4>2. Balance("bsp_busy", e, n)
        BY <3>3, <4>1, PhasesApart DEF Balance, Waits
      <4>3. BspRole("bsp_busy", e, insideSmm')
        BY <2>1, <2>3, <3>3, <3>4 DEF BspRole
      <4> QED
        BY <1>1, <1>5, <1>6, <2>1, <3>1, <3>2, <3>3, <3>4, <4>1, <4>2, <4>3, BspMoves
    <3>5. CASE e.then = "bsp_reset"
      <4>1. n.k = Locked /\ n.o = 0 /\ n.i = 0 /\ n.g = 0 /\ n.s = 0
        BY <1>6, <2>5, <2>6, <3>5
      <4>2. Balance("bsp_reset", e, n)
        BY <3>3, <4>1, PhasesApart DEF Balance, Waits
      <4>3. BspRole("bsp_reset", e, insideSmm')
        BY <2>1, <2>3, <3>3, <3>5, PhasesApart DEF BspRole, Waits
      <4> QED
        BY <1>1, <1>5, <1>6, <2>1, <3>1, <3>2, <3>3, <3>5, <4>1, <4>2, <4>3, BspMoves
    <3> QED BY <2>2, <3>4, <3>5
  <2>7. CASE e.left # 0
    <3>1. /\ Set(BootBsp, "run", n.s - 1) /\ n.s > 0
          /\ Local(BootBsp, "left", e.left - 1) /\ UNCHANGED pc
      BY <1>1, <1>5, <1>6, <1>27, <2>7 DEF Wait, WaitForRun, Signals
    <3>2. PICK f : f = [e EXCEPT !.left = e.left - 1]
      OBVIOUS
    <3>3. /\ f \in Locals /\ f.aps = e.aps /\ f.left = e.left - 1 /\ f.then = e.then
      BY <1>5, <1>6, <3>2 DEF Locals
    <3>4. local' = [local EXCEPT ![BootBsp] = f]
      BY <1>5, <3>1, <3>2 DEF Local
    <3>5. Goto(BootBsp, "wait")
      BY <2>1, <3>1 DEF Meeting, Types, Goto
    <3>6. n.s - 1 \in Nat
      BY <1>6, <3>1
    <3>7. data' \in [Cpus -> Datum] /\ Signals' = n.s - 1
      BY <1>1, <1>2, <3>1, <3>6, SetRun DEF Signals
    <3>8. PICK m : m = [n EXCEPT !.s = n.s - 1]
      OBVIOUS
    <3>9. /\ m \in Tally /\ m.k = n.k /\ m.o = n.o /\ m.i = n.i /\ m.g = n.g
          /\ m.s = n.s - 1
      BY <1>5, <1>6, <3>6, <3>8 DEF Tally
    <3>10. Balance("wait", f, m)
      <4>1. f.then = "bsp_busy" =>
              /\ m.k <= Locked /\ m.g = 0
              /\ m.o + m.i + (Locked - m.k) <= f.aps
              /\ m.o + m.s + (Locked - m.k) <= f.left
        BY <1>6, <2>4, <3>3, <3>9 DEF Locked
      <4>2. f.then = "bsp_reset" =>
              m.k = Locked /\ m.o = 0 /\ m.i + m.g + m.s <= f.left
        BY <1>6, <2>5, <3>3, <3>9
      <4> QED BY <4>1, <4>2, PhasesApart DEF Balance, Waits
    <3>11. "wait" \in BspLabels /\ BspRole("wait", f, insideSmm')
      <4>1. "wait" \in BspLabels
        BY DEF BspLabels
      <4> QED BY <2>1, <2>2, <2>3, <3>3, <4>1, PhasesApart DEF BspRole, Waits
    <3> QED
      BY <1>1, <1>6, <2>1, <3>3, <3>4, <3>5, <3>7, <3>9, <3>10, <3>11, BspMoves
  <2> QED BY <2>6, <2>7
<1>28. CASE BspReset(BootBsp)
  <2>1. /\ pc[BootBsp] = "bsp_reset" /\ Goto(BootBsp, "bsp_reopen")
        /\ UNCHANGED <<counter, bspIndex, current, insideSmm, tasks, local>>
    BY <1>1, <1>3, <1>28 DEF BspReset, At, shared, Keep
  <2>2. data' \in [Cpus -> Datum] /\ Signals' = Signals
    BY <1>1, <1>28 DEF BspReset, Signals
  <2>3. SamePhase("bsp_reset", "bsp_reopen")
    BY DEF SamePhase, Emptied
  <2>4. tasks' \in Int /\ local' = [local EXCEPT ![BootBsp] = e]
    BY <1>1, <1>8, <2>1
  <2> QED BY <1>5, <1>8, <2>1, <2>2, <2>3, <2>4, BspGoes
<1>29. CASE BspReopen(BootBsp)
  <2>1. /\ pc[BootBsp] = "bsp_reopen" /\ Goto(BootBsp, "bsp_out_of_sync")
        /\ UNCHANGED <<bspIndex, current, insideSmm, tasks, local>> /\ counter' = 0
        /\ data' \in [Cpus -> Datum] /\ Signals' = Signals
        /\ tasks' \in Int /\ local' = [local EXCEPT ![BootBsp] = e]
    BY <1>1, <1>8, <1>29 DEF BspReopen, At, Keep, Signals
  <2>2. /\ "bsp_reopen" \in Emptied /\ "bsp_out_of_sync" \in Closed
        /\ "bsp_out_of_sync" \in BspLabels
    BY DEF Emptied, Closed, BspLabels
  <2>3. PICK m : m = [n EXCEPT !.k = 0]
    OBVIOUS
  <2>4. /\ m \in Tally /\ m.k = 0 /\ m.o = n.o /\ m.i = n.i /\ m.g = n.g
        /\ m.s = n.s
    BY <1>5, <1>6, <2>3 DEF Tally
  <2>5. Balance("bsp_out_of_sync", e, m)
    <3>1. n.o = 0 /\ n.i = 0 /\ n.g = 0 /\ n.s = 0
      BY <1>7, <2>1, <2>2 DEF Balance
    <3>2. m.o <= m.k /\ m.i = 0 /\ m.g = 0 /\ m.s = 0
      BY <2>4, <3>1
    <3> QED BY <2>2, <3>2, PhasesApart DEF Balance, Waits
  <2>6. BspRole("bsp_out_of_sync", e, insideSmm')
    <3>1. ~insideSmm
      BY <1>7, <2>1, <2>2, PhasesApart DEF BspRole, Waits
    <3> QED BY <2>1, <2>2, <3>1, PhasesApart DEF BspRole, Waits
  <2>7. /\ m.k = counter' /\ m.o = Count.o /\ m.i = Count.i /\ m.g = Count.g
        /\ m.s = Signals' /\ counter' \in Int /\ insideSmm' \in BOOLEAN
        /\ (insideSmm => insideSmm') /\ UNCHANGED <<bspIndex, current>>
    BY <1>1, <1>6, <2>1, <2>4
  <2> QED BY <1>5, <2>1, <2>2, <2>4, <2>5, <2>6, <2>7, BspMoves
<1>30. CASE BspOutOfSync(BootBsp)
  <2>1. /\ pc[BootBsp] = "bsp_out_of_sync" /\ Goto(BootBsp, "leave")
        /\ UNCHANGED <<counter, bspIndex, current, insideSmm, tasks, local>>
    BY <1>1, <1>3, <1>30 DEF BspOutOfSync, At, shared, Keep
  <2>2. data' \in [Cpus -> Datum] /\ Signals' = Signals
    BY <1>1, <1>30 DEF BspOutOfSync, Signals
  <2>3. SamePhase("bsp_out_of_sync", "leave")
    BY DEF SamePhase, Closed, Outside
  <2>4. tasks' \in Int /\ local' = [local EXCEPT ![BootBsp] = e]
    BY <1>1, <1>8, <2>1
  <2> QED BY <1>5, <1>8, <2>1, <2>2, <2>3, <2>4, BspGoes
<1>31. CASE StartupThisAp(BootBsp)
  <2>1. /\ pc[BootBsp] = "foundation" /\ Goto(BootBsp, "startup")
        /\ UNCHANGED <<counter, bspIndex, current, insideSmm>> /\ tasks' \in Int
    BY <1>1, <1>31 DEF StartupThisAp, At, shared
  <2>2. PICK d \in Others : Set(d, "busy", TRUE) /\ Local(BootBsp, "ap", d)
    BY <1>1, <1>2, <1>31 DEF StartupThisAp
  <2>3. PICK f : f = [e EXCEPT !.ap = d]
    OBVIOUS
  <2>4. f \in Locals /\ f.aps = e.aps /\ f.ap = d
    BY <1>2, <1>5, <2>3 DEF Locals
  <2>5. local' = [local EXCEPT ![BootBsp] = f]
    BY <1>5, <2>2, <2>3 DEF Local
  <2>6. data' \in [Cpus -> Datum] /\ Signals' = Signals
    BY <1>1, <1>2, <2>2, SetFlag DEF Signals
  <2>7. SamePhase("foundation", "startup")
    BY DEF SamePhase, Calling, Foundation
  <2> QED BY <1>8, <2>1, <2>4, <2>5, <2>6, <2>7, BspGoes
<1>32. CASE StartupProcedure(BootBsp)
  <2>1. /\ pc[BootBsp] = "startup" /\ Goto(BootBsp, "startup_release")
        /\ UNCHANGED <<counter, bspIndex, current, insideSmm, tasks, local>>
    BY <1>1, <1>32 DEF StartupProcedure, At, shared, Keep
  <2>2. e.ap \in Others
    BY <1>7, <2>1 DEF BspRole
  <2>3. data' \in [Cpus -> Datum] /\ Signals' = Signals
    <3>1. Set(e.ap, "procedure", tasks)
      BY <1>5, <1>32 DEF StartupProcedure
    <3> QED BY <1>1, <1>2, <2>2, <3>1, SetFlag DEF Signals
  <2>4. SamePhase("startup", "startup_release")
    BY DEF SamePhase, Calling, Foundation
  <2>5. tasks' \in Int /\ local' = [local EXCEPT ![BootBsp] = e]
    BY <1>1, <1>8, <2>1
  <2> QED BY <1>5, <1>8, <2>1, <2>2, <2>3, <2>4, <2>5, BspGoes
<1>33. CASE StartupRelease(BootBsp)
  <2>1. /\ pc[BootBsp] = "startup_release"
        /\ UNCHANGED <<counter, bspIndex, current, insideSmm, tasks, local>>
    BY <1>1, <1>33 DEF StartupRelease, At, shared, Keep
  <2>2. PICK l \in {"startup_wait", "foundation"} : Goto(BootBsp, l)
    BY <1>33 DEF StartupRelease
  <2>3. e.ap \in Others
    BY <1>7, <2>1 DEF BspRole
  <2>4. data' \in [Cpus -> Datum] /\ Signals' = Signals
    <3>1. Set(e.ap, "run", data[e.ap].run + 1)
      BY <1>5, <1>33 DEF StartupRelease, ReleaseRun
    <3>2. e.ap \in Cpus /\ e.ap # BootBsp /\ data[e.ap].run + 1 \in Nat
      BY <1>1, <1>2, <2>3 DEF Datum
    <3> QED BY <1>1, <1>2, <3>1, <3>2, SetRun DEF Signals
  <2>5. SamePhase("startup_release", l)
    BY DEF SamePhase, Calling, Foundation
  <2>6. tasks' \in Int /\ local' = [local EXCEPT ![BootBsp] = e]
    BY <1>1, <1>8, <2>1
  <2>7. l \notin {"release", "startup", "startup_release"}
    OBVIOUS
  <2> QED BY <1>5, <1>8, <2>1, <2>2, <2>4, <2>5, <2>6, <2>7, BspGoes
<1>34. CASE StartupWait(BootBsp)
  <2>1. /\ pc[BootBsp] = "startup_wait" /\ Goto(BootBsp, "foundation")
        /\ UNCHANGED <<counter, bspIndex, current, insideSmm, tasks, local>>
    BY <1>1, <1>3, <1>34 DEF StartupWait, At, shared, Keep
  <2>2. data' \in [Cpus -> Datum] /\ Signals' = Signals
    BY <1>1, <1>34 DEF StartupWait, Signals
  <2>3. SamePhase("startup_wait", "foundation")
    BY DEF SamePhase, Calling, Foundation
  <2>4. tasks' \in Int /\ local' = [local EXCEPT ![BootBsp] = e]
    BY <1>1, <1>8, <2>1
  <2> QED BY <1>5, <1>8, <2>1, <2>2, <2>3, <2>4, BspGoes
<1> QED BY <1>9, <1>10, <1>11, <1>12, <1>13, <1>14, <1>15, <1>16, <1>17, <1>18, <1>19, <1>20, <1>21, <1>22, <1>23, <1>24, <1>25, <1>26, <1>27, <1>28, <1>29, <1>30, <1>31, <1>32, <1>33, <1>34,
       NotBsp DEF Processor, Entry, BSPHandler, SmmStartupThisAp

-----------------------------------------------------------------------------
LEMMA MeetingInit ==
  ASSUME Init, AsBuilt
  PROVE  Meeting
<1>1. /\ BootBsp \in Cpus /\ bspIndex = BootBsp /\ current = BootBsp /\ counter = 0
      /\ insideSmm = FALSE /\ tasks = 0 /\ pc = [c \in Cpus |-> "out"]
      /\ local = [c \in Cpus |-> NoFrame]
      /\ data = [c \in Cpus |-> [run |-> 0, present |-> FALSE, busy |-> FALSE,
                                 procedure |-> 0]]
  BY RendezvousAssumption DEF Init, AsBuilt
<1>2. "out" \in Outside /\ "out" \in Closed /\ "out" \in ApLabels /\ "out" \in BspLabels
  BY DEF Outside, Closed, ApLabels, BspLabels
<1>3. /\ "out" \notin Arriving /\ "out" \notin Held /\ "out" \notin Going
      /\ "out" \notin BspKnown
  BY DEF Arriving, Held, Going, BspKnown
<1>4. Types
  <2>1. data \in [Cpus -> Datum]
    BY <1>1 DEF Datum
  <2>2. local \in [Cpus -> Locals]
    BY <1>1, NoFrameTyped
  <2>3. pc \in [Cpus -> AllLabels]
    BY <1>1, <1>2 DEF AllLabels
  <2>4. /\ counter \in Int /\ tasks \in Int /\ insideSmm \in BOOLEAN
        /\ bspIndex = BootBsp /\ current = BootBsp
    <3>1. counter = 0 /\ tasks = 0
      BY <1>1
    <3>2. insideSmm = FALSE
      BY <1>1
    <3>3. counter \in Int /\ tasks \in Int
      BY <3>1
    <3>4. insideSmm \in BOOLEAN
      BY <3>2
    <3> QED BY <1>1, <3>3, <3>4
  <2> QED BY <2>1, <2>2, <2>3, <2>4 DEF Types
<1>5. Bsp = "out" /\ Signals = 0 /\ \A c \in Others : c \in Cpus /\ pc[c] = "out"
  BY <1>1 DEF Bsp, Signals, Others
<1>6. Roles
  <2>1. BspRole(Bsp, Frm, insideSmm)
    BY <1>1, <1>2, <1>5, PhasesApart DEF BspRole, Waits
  <2>2. \A c \in Others : ApRole(pc[c], local[c], insideSmm)
    BY <1>2, <1>3, <1>5 DEF ApRole
  <2> QED BY <2>1, <2>2 DEF Roles
<1>7. Counts
  <2>1. ASSUME NEW L, "out" \notin L
        PROVE  N(pc, L) = 0
    <3>1. {c \in Others : pc[c] \in L} = {}
      BY <1>5, <2>1
    <3> QED BY <3>1, FS_EmptySet DEF N
  <2>2. N(pc, Arriving) = 0 /\ N(pc, Held) = 0 /\ N(pc, Going) = 0
    BY <1>3, <2>1
  <2>3. /\ Count.k = 0 /\ Count.o = 0 /\ Count.i = 0 /\ Count.g = 0 /\ Count.s = 0
    BY <1>1, <1>5, <2>2 DEF Count
  <2> QED BY <1>2, <1>5, <2>3, PhasesApart DEF Counts, Balance, Waits
<1> QED BY <1>4, <1>6, <1>7 DEF Meeting

LEMMA MeetingKept ==
  ASSUME Meeting,
         UNCHANGED <<counter, tasks, insideSmm, bspIndex, current, data, local, pc>>
  PROVE  Meeting'
<1>1. Types' /\ Roles'
  BY DEF Meeting, Types, Roles, Bsp, Frm
<1>2. Counts'
  BY DEF Meeting, Counts, Count, Bsp, Frm, Signals
<1> QED BY <1>1, <1>2 DEF Meeting

LEMMA MeetingNext ==
  ASSUME Inv, [Next]_vars
  PROVE  Inv'
<1>1. config' = config
  BY DEF Next, vars, shared, RaiseSmi, TakeSmi, Processor
<1> SUFFICES ASSUME AsBuilt, Meeting PROVE Meeting'
  <2>1. AsBuilt' <=> AsBuilt
    BY <1>1 DEF AsBuilt, Election, ConfigureMtrrs
  <2> QED BY <2>1 DEF Inv
<1>2. CASE UNCHANGED vars
  BY <1>2, MeetingKept DEF vars
<1>3. CASE RaiseSmi
  BY <1>3, MeetingKept DEF RaiseSmi, shared
<1>4. ASSUME NEW c \in Cpus, TakeSmi(c) \/ Processor(c)
      PROVE  Meeting'
  <2>1. CASE c = BootBsp
    BY <1>4, <2>1, BspStep
  <2>2. CASE c # BootBsp
    <3>1. c \in Others
      BY <2>2 DEF Others
    <3> QED BY <1>4, <3>1, ApStep
  <2> QED BY <2>1, <2>2
<1> QED BY <1>2, <1>3, <1>4 DEF Next

LEMMA MeetingHolds ==
  ASSUME AsBuilt, Meeting
  PROVE  OthersAreHeld
<1> SUFFICES ASSUME NEW c \in Running, NEW d \in Cpus \ {c}
             PROVE  pc[d] \in Held \cup Outside
  BY DEF OthersAreHeld
<1>1. c \in Cpus /\ pc[c] \in Foundation
  BY DEF Running
<1>2. c = BootBsp
  <2>1. ASSUME c # BootBsp PROVE FALSE
    <3>1. c \in Others
      BY <1>1, <2>1 DEF Others
    <3>2. pc[c] \in ApLabels
      BY <3>1 DEF Meeting, Roles, ApRole
    <3> QED BY <1>1, <3>2 DEF ApLabels, Outside, Arriving, Held, Going, Foundation
  <2> QED BY <2>1
<1>3. d \in Others /\ Bsp \in Calling
  BY <1>1, <1>2 DEF Others, Bsp, Calling
<1>4. N(pc, Arriving) = 0 /\ N(pc, Going) = 0
  BY <1>3 DEF Meeting, Counts, Balance, Count
<1>5. pc[d] \notin Arriving /\ pc[d] \notin Going
  BY <1>3, <1>4, Counted
<1>6. pc[d] \in ApLabels
  BY <1>3 DEF Meeting, Roles, ApRole
<1> QED BY <1>5, <1>6 DEF ApLabels

(* "All CPUs are in sync and don't allow more CPU to run the code in SMM mode *)
(* after this point" (BSPHandler), for any number of processors, any order   *)
(* of their steps and any time at which a timer expires: as SharkBay builds  *)
(* the driver, the foundation runs on the BSP alone, and every other         *)
(* processor is held in the loop of APHandler or kept out by the counter.    *)
THEOREM MeetingCorrect == Spec => [](AsBuilt => OthersAreHeld)
<1>1. Init => Inv
  BY MeetingInit DEF Inv
<1>2. Inv /\ [Next]_vars => Inv'
  BY MeetingNext
<1>3. Inv => (AsBuilt => OthersAreHeld)
  BY MeetingHolds DEF Inv
<1> QED BY <1>1, <1>2, <1>3, PTL DEF Spec
=============================================================================
