-------------------------- MODULE SmmRendezvousInv ---------------------------
(* What holds of SmmRendezvous at every step when a BSP is elected and makes *)
(* its properties hold: who has been let through which barrier, how many     *)
(* signals are still to come, whose MTRRs are switched, and which procedures *)
(* have been run.                                                            *)

EXTENDS SmmRendezvous

(* A BSP is elected, procedures are started on APs at rest and waited for,   *)
(* and the sync timer is long.                                               *)
Elected == Election /\ LateStart /\ BlockStartup /\ PatientTimer

Datum == [run : Nat, present : BOOLEAN, busy : BOOLEAN, procedure : Int]
Nexts == {"out", "bsp_save", "bsp_saved", "bsp_replace", "bsp_replaced", "bsp_busy",
          "bsp_pending", "bsp_restore", "bsp_restored", "bsp_reset"}
Vars == [bsp : Cpus \cup {NoCpu}, aps : Int, left : Int, todo : SUBSET Cpus,
         then : Nexts, ap : Cpus \cup {NoCpu}, saved : {"none", "os", "smm"}]

Typed ==
  /\ config \in Configurations /\ mtrr \in [Cores -> {"os", "smm"}]
  /\ counter \in Int /\ tasks \in 0 .. MaxTasks /\ insideSmm \in BOOLEAN
  /\ bspIndex \in Cpus \cup {NoCpu} /\ current \in Cpus
  /\ data \in [Cpus -> Datum] /\ local \in [Cpus -> Vars]
  /\ pc \in [Cpus -> Labels] /\ runs \in [Tasks -> Nat]

-----------------------------------------------------------------------------
(* Where a processor is that takes no part in the session: not present, or   *)
(* on its way out of the last one.                                           *)
Gone == {"out", "arrive", "exit"}
Leaving == {"leave", "bsp_out_of_sync"}
Away == Gone \cup Leaving

(* Counted, and the BSP not signalled yet.                                   *)
Joining == {"present", "elect", "role", "ap", "ap_notify"}

Open == {"role", "bsp", "bsp_sync", "bsp_check", "bsp_ipi", "bsp_sync_again"}
Closing == {"bsp_in_sync", "bsp_lock"}

(* What the BSP, at label l and going on at t, has the others do.            *)
Phase(l, t, mtrrs) ==
  IF l \in Open THEN "gather"
  ELSE IF l \in Closing THEN "close"
  ELSE IF l = "wait" /\ t = (IF mtrrs THEN "bsp_save" ELSE "bsp_busy") THEN "meet"
  ELSE IF mtrrs /\ \/ l \in {"bsp_save", "bsp_saved"}
                   \/ l = "release" /\ t = "bsp_saved"
                   \/ l = "wait" /\ t = "bsp_replace" THEN "save"
  ELSE IF mtrrs /\ \/ l \in {"bsp_replace", "bsp_replaced"}
                   \/ l = "release" /\ t = "bsp_replaced"
                   \/ l = "wait" /\ t = "bsp_busy" THEN "replace"
  ELSE IF l = "bsp_busy" \/ l \in Foundation THEN "hold"
  ELSE IF \/ l \in {"bsp_dismiss", "bsp_pending"}
          \/ l = "release" /\ t = "bsp_pending"
          \/ l = "wait" /\ t = (IF mtrrs THEN "bsp_restore" ELSE "bsp_reset")
       THEN "dismiss"
  ELSE IF mtrrs /\ \/ l \in {"bsp_restore", "bsp_restored"}
                   \/ l = "release" /\ t = "bsp_restored"
                   \/ l = "wait" /\ t = "bsp_reset" THEN "restore"
  ELSE IF l = "bsp_reset" THEN "over"
  ELSE "none"

(* Each phase is a barrier: at the gate a processor waits for its semaphore, *)
(* behind it it works, until it signals the BSP and is beyond.               *)
Gate(p) ==
  IF p = "save" THEN {"ap_save"}
  ELSE IF p = "replace" THEN {"ap_replace"}
  ELSE IF p \in {"hold", "dismiss"} THEN {"ap_busy", "ap_idle"}
  ELSE IF p = "restore" THEN {"ap_restore"}
  ELSE {}
Work(p) ==
  IF p \in {"gather", "close", "meet"} THEN Joining
  ELSE IF p = "save" THEN {"ap_saving", "ap_saved"}
  ELSE IF p = "replace" THEN {"ap_replacing", "ap_replaced"}
  ELSE IF p = "hold" THEN {"ap_look", "ap_run", "ap_free"}
  ELSE IF p = "dismiss" THEN {"ap_look", "ap_done"}
  ELSE IF p = "restore" THEN {"ap_restoring", "ap_restored"}
  ELSE {}
FirstGate(mtrrs) == IF mtrrs THEN {"ap_save"} ELSE {"ap_busy", "ap_idle"}
Beyond(p, mtrrs) ==
  IF p = "gather" THEN FirstGate(mtrrs) \cup Leaving
  ELSE IF p \in {"close", "meet"} THEN FirstGate(mtrrs)
  ELSE IF p = "save" THEN {"ap_replace"}
  ELSE IF p = "replace" THEN {"ap_busy", "ap_idle"}
  ELSE IF p = "dismiss" /\ mtrrs THEN {"ap_restore"}
  ELSE IF p \in {"dismiss", "restore", "over"} THEN {"leave"}
  ELSE {}
Owing(p) == Gate(p) \cup Work(p)
Last(p, mtrrs) == p = IF mtrrs THEN "restore" ELSE "dismiss"

Ready == {"bsp_save", "bsp_replace", "bsp_busy", "foundation", "startup",
          "startup_release", "bsp_dismiss", "bsp_restore"}

(* The BSP, at label l with the variables f, has not released the semaphore  *)
(* of d.                                                                     *)
Uncalled(l, f, d, busy) ==
  \/ l \in Ready
  \/ l = "release" /\ d \in f.todo
  \/ l = "startup_wait" /\ ~(d = f.ap /\ busy)

(* How many signals are still to come, given or not.                         *)
Awaited(l, f, k) ==
  IF l \in Open \cup Closing THEN k - 1
  ELSE IF l = "wait" THEN f.left
  ELSE IF l = "bsp_reset" THEN 0
  ELSE f.aps

Knows == {"ap_notify", "ap_save", "ap_saving", "ap_saved", "ap_replace",
          "ap_replacing", "ap_replaced", "ap_busy", "ap_idle", "ap_look", "ap_run",
          "ap_free", "ap_done", "ap_restore", "ap_restoring", "ap_restored"}

Number(at, X, L) == Cardinality({d \in X : at[d] \in L})
There == Labels \ Away

-----------------------------------------------------------------------------
(* A session, with b as BSP, in phase p.                                     *)
Now(b) == Phase(pc[b], local[b].then, ConfigureMtrrs)

Placed(b, d, p) ==
  LET uncalled == Uncalled(pc[b], local[b], d, data[d].busy) IN
  /\ pc[d] \in Owing(p) \cup Beyond(p, ConfigureMtrrs) \cup Gone
  /\ uncalled => pc[d] \in Gate(p) \cup Gone
  /\ data[d].run = IF pc[d] \in Gate(p) /\ ~uncalled THEN 1 ELSE 0
  /\ pc[d] \in Knows => local[d].bsp = b

Tallied(b, p) ==
  /\ data[b].run + Number(pc, Cpus \ {b}, Owing(p)) = Awaited(pc[b], local[b], counter)
  /\ IF p \in {"gather", "close"} THEN counter - 1 = Number(pc, Cpus \ {b}, There)
     ELSE /\ counter = Locked
          /\ p = "over" \/ Last(p, ConfigureMtrrs) \/
               local[b].aps = Number(pc, Cpus \ {b}, There)

(* What the BSP itself has in hand.                                          *)
Leads(b, p) ==
  /\ p # "none"
  /\ pc[b] \notin {"role", "bsp"} => current = b
  /\ \/ pc[b] \in Open \cup Closing /\ pc[b] \notin {"role", "bsp"}
     \/ p \in {"meet", "save", "replace", "hold"}
     => insideSmm
  /\ p = "dismiss" => ~insideSmm
  /\ pc[b] = "release" => local[b].todo \subseteq Cpus \ {b}

(* SmmStartupThisAp.                                                         *)
Starting == {"startup", "startup_release", "startup_wait"}
Starts(b) ==
  pc[b] \in Starting =>
    LET a == local[b].ap IN
    /\ a \in Cpus \ {b} /\ pc[a] \notin Gone
    /\ \A d \in Cpus : pc[d] # "ap_busy"
    /\ pc[b] # "startup_wait" => data[a].busy
    /\ ~data[a].busy => pc[a] = "ap_idle"

Session(b, p) ==
  /\ \A d \in Cpus \ {b} : Placed(b, d, p)
  /\ Tallied(b, p) /\ Leads(b, p) /\ Starts(b)

(* Nobody is elected.                                                        *)
Vacant ==
  /\ \A d \in Cpus : data[d].run = 0
  /\ \/ /\ counter = Locked
        /\ \E c \in Cpus : /\ pc[c] = "bsp_reopen"
                           /\ \A d \in Cpus \ {c} : pc[d] \in Away
     \/ /\ counter = Number(pc, Cpus, There)
        /\ \A d \in Cpus : pc[d] \in {"present", "elect"} \cup Away

Led == IF bspIndex = NoCpu THEN Vacant ELSE Session(bspIndex, Now(bspIndex))

-----------------------------------------------------------------------------
Absent == Gone \cup {"present"}
PresentIs == \A c \in Cpus : data[c].present <=> pc[c] \notin Absent

(* The MTRRs of a processor at l, going on at t, are switched as far as it   *)
(* knows, and saved.                                                         *)
Switched(l, t, mtrrs) ==
  /\ mtrrs
  /\ \/ l \in {"ap_replaced", "ap_busy", "ap_idle", "ap_look", "ap_run", "ap_free",
               "ap_done", "ap_restore", "ap_restoring", "bsp_busy", "bsp_dismiss",
               "bsp_pending", "bsp_restore", "bsp_restored"} \cup Foundation
     \/ l = "wait" /\ t \in {"bsp_busy", "bsp_restore"}
     \/ l = "release" /\ t \in {"bsp_pending", "bsp_restored"}
HasSaved(l, t, mtrrs) ==
  \/ Switched(l, t, mtrrs)
  \/ mtrrs /\ \/ l \in {"ap_saved", "ap_replace", "ap_replacing", "bsp_replace",
                        "bsp_replaced"}
              \/ l = "wait" /\ t = "bsp_replace"
              \/ l = "release" /\ t = "bsp_replaced"

IsSwitched(c) == Switched(pc[c], local[c].then, ConfigureMtrrs)
Restoring == bspIndex # NoCpu /\ Now(bspIndex) = "restore"

Mtrrs ==
  /\ \A k \in Cores : mtrr[k] = "smm" => \E c \in Cpus : Core[c] = k /\ IsSwitched(c)
  /\ \A c \in Cpus : IsSwitched(c) /\ ~Restoring => mtrr[Core[c]] = "smm"
  /\ \A c \in Cpus : local[c].saved # "smm"
  /\ \A c \in Cpus : HasSaved(pc[c], local[c].then, ConfigureMtrrs) => local[c].saved = "os"

(* The first n procedures have been run once, and no other.                  *)
Ran(n) == \A t \in Tasks : runs[t] = IF t <= n THEN 1 ELSE 0

Procedures ==
  /\ (\A b \in Cpus : pc[b] \notin Starting) => Ran(tasks)
  /\ \A b \in Cpus : pc[b] \in Starting =>
       LET a == local[b].ap IN
       /\ tasks > 0
       /\ pc[b] # "startup" /\ data[a].busy => data[a].procedure = tasks
       /\ Ran(IF data[a].busy /\ pc[a] # "ap_free" THEN tasks - 1 ELSE tasks)

Together == Typed /\ Led /\ PresentIs /\ Mtrrs /\ Procedures
=============================================================================
