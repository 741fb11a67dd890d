---------------------------- MODULE SmmRendezvous ----------------------------
(* How the processors meet in system management mode (IA32FamilyCpuPkg/      *)
(* PiSmmCpuDxeSmm/MpService.c).  Every processor that takes an SMI runs      *)
(* SmiRendezvous.  One of them, the BSP, waits for the others with a timer,  *)
(* sends SMIs to those that are missing, waits once more, locks the door and *)
(* calls the SMM foundation; the others, the APs, are held in a loop where   *)
(* they run what SmmStartupThisAp gives them, until the BSP lets them go.    *)
(*                                                                           *)
(* All they share is mSmmUcData, in uncached memory.  A step is one access   *)
(* to it, with what the processor does on its own up to the next one; the    *)
(* semaphores are compare-and-exchange loops, one step each.  A processor    *)
(* that spins takes no step until it can go on.                              *)

EXTENDS Integers, FiniteSets

CONSTANTS
  Cpus,            \* the logical processors
  NoCpu,           \* BspIndex is -1
  BootBsp,         \* BspIndex when no BSP is elected
  Core,            \* [Cpus -> cores]: the threads of a core share its MTRRs
  Configurations,  \* the settings that the driver may have been built with
  PatientTimer,    \* PcdCpuSmmApSyncTimeout is long: see Timeout
  MaxSmis,         \* bound: SMIs that the chipset raises
  MaxTasks         \* bound: procedures started on APs

ASSUME RendezvousAssumption ==
  /\ IsFiniteSet(Cpus)
  /\ NoCpu \notin Cpus /\ BootBsp \in Cpus
  /\ DOMAIN Core = Cpus
  /\ Configurations \subseteq [election : BOOLEAN, mtrrs : BOOLEAN,
                              block : BOOLEAN, late : BOOLEAN]
  /\ PatientTimer \in BOOLEAN
  /\ MaxSmis \in Nat /\ MaxTasks \in Nat

NumberOfCpus == Cardinality(Cpus)

Cores == {Core[c] : c \in Cpus}

(* The value of a 32 bit semaphore that is locked.                           *)
Locked == -1

VARIABLES
  config,     \* the one that it was built with
  smi,        \* hardware: the processors with an SMI pending
  mtrr,       \* hardware: the MTRRs of each core, "os" or "smm"
  counter,    \* Counter
  bspIndex,   \* BspIndex
  current,    \* CurrentlyExecutingCpu
  insideSmm,  \* InsideSmm
  allInSync,  \* AllCpusInSync
  data,       \* CpuData: Run, Present, Busy and Procedure (0 is none)
  pc,         \* where each processor is
  local,      \* the local variables of each processor
  smis,       \* how many SMIs were raised
  tasks,      \* how many procedures were started; their numbers are their names
  runs        \* how often each procedure was run

shared == <<counter, bspIndex, current, insideSmm, allInSync>>
vars == <<config, smi, mtrr, counter, bspIndex, current, insideSmm, allInSync, data,
          pc, local, smis, tasks, runs>>

Election       == config.election  \* PcdCpuSmmEnableBspElection
ConfigureMtrrs == config.mtrrs     \* NeedConfigureMtrrs, by the processor's family
BlockStartup   == config.block     \* PcdCpuSmmBlockStartupThisAp
LateStart      == config.late      \* the foundation starts procedures on APs at rest

Tasks == 1 .. MaxTasks

(* A semaphore is released once for every processor that waits for it.      *)
Block == [run : 0 .. NumberOfCpus, present : BOOLEAN, busy : BOOLEAN,
          procedure : 0 .. MaxTasks]

(* Where a processor is.                                                     *)
Labels ==
  {"out", "arrive", "present", "elect", "role", "leave", "exit",
   "bsp", "bsp_sync", "bsp_check", "bsp_ipi", "bsp_sync_again", "bsp_in_sync",
   "bsp_lock", "bsp_save", "bsp_saved", "bsp_replace", "bsp_replaced",
   "bsp_busy", "foundation", "bsp_dismiss", "bsp_pending", "bsp_restore",
   "bsp_restored", "bsp_reset", "bsp_reopen", "bsp_out_of_sync", "wait",
   "release", "startup", "startup_release", "startup_wait",
   "ap", "ap_sync", "ap_check", "ap_sync_again", "ap_check_again", "give_up",
   "ap_notify", "ap_save", "ap_saving", "ap_saved", "ap_replace",
   "ap_replacing", "ap_replaced", "ap_busy", "ap_idle", "ap_look", "ap_run",
   "ap_free", "ap_done", "ap_restore", "ap_restoring", "ap_restored"}

(* bsp: BspIndex as an AP read it; aps: ApCount; left and todo: of the loops *)
(* of WaitForAllAPs, ReleaseAllAPs and of sending SMIs; then: where they go  *)
(* on; ap: the AP that a procedure is started on; saved: Mtrrs.              *)
Frame == [bsp : Cpus \cup {NoCpu}, aps : -2 .. NumberOfCpus,
          left : -2 .. NumberOfCpus, todo : SUBSET Cpus, then : Labels,
          ap : Cpus \cup {NoCpu}, saved : {"none", "os", "smm"}]

NoFrame == [bsp |-> NoCpu, aps |-> 0, left |-> 0, todo |-> {}, then |-> "out",
            ap |-> NoCpu, saved |-> "none"]

-----------------------------------------------------------------------------
(* Small steps.                                                              *)

At(c, l) == pc[c] = l
Goto(c, l) == pc' = [pc EXCEPT ![c] = l]
Set(c, field, v) == data' = [data EXCEPT ![c][field] = v]
Local(c, field, v) == local' = [local EXCEPT ![c][field] = v]

Keep == UNCHANGED <<smi, mtrr, smis, tasks, runs>>

(* ReleaseSemaphore and WaitForSemaphore on Run of processor d.              *)
ReleaseRun(d) == Set(d, "run", data[d].run + 1)
WaitForRun(d) == data[d].run > 0 /\ Set(d, "run", data[d].run - 1)

Below == counter >= 0 /\ counter < NumberOfCpus

(* WaitForAllAPs and ReleaseAllAPs, and where to go on from there.           *)
WaitForAllAPs(c, then) ==
  /\ local' = [local EXCEPT ![c].left = local[c].aps, ![c].then = then]
  /\ Goto(c, "wait")

ReleaseAllAPs(c, then) ==
  /\ local' = [local EXCEPT ![c].todo = Cpus \ {current}, ![c].then = then]
  /\ Goto(c, "release")

Wait(c) ==
  /\ At(c, "wait")
  /\ IF local[c].left = 0
     THEN Goto(c, local[c].then) /\ UNCHANGED <<data, local>>
     ELSE /\ WaitForRun(current)
          /\ Local(c, "left", local[c].left - 1)
          /\ UNCHANGED pc
  /\ UNCHANGED shared /\ Keep

Release(c) ==
  /\ At(c, "release")
  /\ IF local[c].todo = {}
     THEN Goto(c, local[c].then) /\ UNCHANGED <<data, local>>
     ELSE \E d \in local[c].todo :
            /\ Local(c, "todo", local[c].todo \ {d})
            /\ IF data[d].present THEN ReleaseRun(d) ELSE UNCHANGED data
            /\ UNCHANGED pc
  /\ UNCHANGED shared /\ Keep

-----------------------------------------------------------------------------
(* When a timer expires.  A processor cannot go on by itself at these        *)
(* labels; a patient timer does not expire while another one in SMM can.     *)

InSmm == {c \in Cpus : pc[c] # "out"}

Blocked(c) ==
  \/ At(c, "exit") /\ allInSync
  \/ pc[c] \in {"bsp_sync", "bsp_sync_again"} /\ Below
  \/ pc[c] \in {"ap_sync", "ap_sync_again"} /\ ~insideSmm
  \/ At(c, "wait") /\ local[c].left # 0 /\ data[current].run = 0
  \/ pc[c] \in {"ap_save", "ap_replace", "ap_idle", "ap_restore"} /\ data[c].run = 0
  \/ At(c, "give_up") /\ counter = 0
  \/ At(c, "startup_wait") /\ data[local[c].ap].busy

Timeout(c) == PatientTimer => \A d \in InSmm \ {c} : Blocked(d)

-----------------------------------------------------------------------------
(* SmiRendezvous, up to the handler.                                         *)

(* The chipset asserts SMI# to all processors; one that is in SMM already    *)
(* takes it when it leaves.                                                  *)
RaiseSmi ==
  /\ smis < MaxSmis
  /\ smis' = smis + 1
  /\ smi' = Cpus
  /\ UNCHANGED <<config, mtrr, shared, data, pc, local, tasks, runs>>

TakeSmi(c) ==
  /\ At(c, "out") /\ c \in smi
  /\ smi' = smi \ {c}
  /\ Goto(c, "arrive")
  /\ UNCHANGED <<config, mtrr, shared, data, local, smis, tasks, runs>>

(* ReleaseSemaphore returns 0 when the counter is locked.                    *)
Arrive(c) ==
  /\ At(c, "arrive")
  /\ IF counter = Locked
     THEN Goto(c, "exit") /\ UNCHANGED counter
     ELSE /\ counter' = counter + 1
          /\ Goto(c, "present")
  /\ UNCHANGED <<bspIndex, current, insideSmm, allInSync, data, local>> /\ Keep

MarkPresent(c) ==
  /\ At(c, "present")
  /\ Set(c, "present", TRUE)
  /\ Goto(c, IF Election THEN "elect" ELSE "role")
  /\ UNCHANGED <<shared, local>> /\ Keep

Elect(c) ==
  /\ At(c, "elect")
  /\ bspIndex' = IF bspIndex = NoCpu THEN c ELSE bspIndex
  /\ Goto(c, "role")
  /\ UNCHANGED <<counter, current, insideSmm, allInSync, data, local>> /\ Keep

Role(c) ==
  /\ At(c, "role")
  /\ Goto(c, IF bspIndex = c THEN "bsp" ELSE "ap")
  /\ UNCHANGED <<shared, data, local>> /\ Keep

-----------------------------------------------------------------------------
(* BSPHandler.                                                               *)

BspInside(c) ==
  /\ At(c, "bsp")
  /\ insideSmm' = TRUE /\ current' = c
  /\ Goto(c, "bsp_sync")
  /\ UNCHANGED <<counter, bspIndex, allInSync, data, local>> /\ Keep

(* The loop ends, and Counter is looked at once more.                        *)
BspSync(c) ==
  /\ At(c, "bsp_sync")
  /\ ~Below \/ Timeout(c)
  /\ Goto(c, "bsp_check")
  /\ UNCHANGED <<shared, data, local>> /\ Keep

BspCheck(c) ==
  /\ At(c, "bsp_check")
  /\ IF Below
     THEN Local(c, "todo", Cpus) /\ Goto(c, "bsp_ipi")
     ELSE Goto(c, "bsp_in_sync") /\ UNCHANGED local
  /\ UNCHANGED <<shared, data>> /\ Keep

SendSmiIpis(c) ==
  /\ At(c, "bsp_ipi")
  /\ IF local[c].todo = {}
     THEN Goto(c, "bsp_sync_again") /\ UNCHANGED <<local, smi>>
     ELSE \E d \in local[c].todo :
            /\ Local(c, "todo", local[c].todo \ {d})
            /\ smi' = IF data[d].present THEN smi ELSE smi \cup {d}
            /\ UNCHANGED pc
  /\ UNCHANGED <<mtrr, shared, data, smis, tasks, runs>>

BspSyncAgain(c) ==
  /\ At(c, "bsp_sync_again")
  /\ ~Below \/ Timeout(c)
  /\ Goto(c, "bsp_in_sync")
  /\ UNCHANGED <<shared, data, local>> /\ Keep

BspInSync(c) ==
  /\ At(c, "bsp_in_sync")
  /\ allInSync' = TRUE
  /\ Goto(c, "bsp_lock")
  /\ UNCHANGED <<counter, bspIndex, current, insideSmm, data, local>> /\ Keep

BspLock_notLocked(c) ==
  /\ At(c, "bsp_lock")
  /\ local' = [local EXCEPT ![c].aps = counter - 1, ![c].left = counter - 1,
                 ![c].then = IF ConfigureMtrrs THEN "bsp_save" ELSE "bsp_busy"]
  /\ Goto(c, "wait")
  /\ UNCHANGED <<shared, data>> /\ Keep

(* LockdownSemaphore, then wait for the APs that were counted.               *)
BspLock(c) ==
  /\ At(c, "bsp_lock")
  /\ counter' = Locked
  /\ local' = [local EXCEPT ![c].aps = counter - 1, ![c].left = counter - 1,
                 ![c].then = IF ConfigureMtrrs THEN "bsp_save" ELSE "bsp_busy"]
  /\ Goto(c, "wait")
  /\ UNCHANGED <<bspIndex, current, insideSmm, allInSync, data>> /\ Keep

(* The MTRRs: everyone saves them, then everyone replaces them.              *)
BspSave(c) ==
  /\ At(c, "bsp_save")
  /\ ReleaseAllAPs(c, "bsp_saved")
  /\ UNCHANGED <<shared, data>> /\ Keep

BspSaved_notAwaited(c) ==
  /\ At(c, "bsp_saved")
  /\ Local(c, "saved", mtrr[Core[c]])
  /\ Goto(c, "bsp_replace")
  /\ UNCHANGED <<shared, data>> /\ Keep

BspSaved(c) ==
  /\ At(c, "bsp_saved")
  /\ local' = [local EXCEPT ![c].saved = mtrr[Core[c]],
                 ![c].left = local[c].aps, ![c].then = "bsp_replace"]
  /\ Goto(c, "wait")
  /\ UNCHANGED <<shared, data>> /\ Keep

BspReplace(c) ==
  /\ At(c, "bsp_replace")
  /\ ReleaseAllAPs(c, "bsp_replaced")
  /\ UNCHANGED <<shared, data>> /\ Keep

BspReplaced(c) ==
  /\ At(c, "bsp_replaced")
  /\ mtrr' = [mtrr EXCEPT ![Core[c]] = "smm"]
  /\ WaitForAllAPs(c, "bsp_busy")
  /\ UNCHANGED <<smi, shared, data, smis, tasks, runs>>

BspBusy(c) ==
  /\ At(c, "bsp_busy")
  /\ Set(c, "busy", TRUE)
  /\ Goto(c, "foundation")
  /\ UNCHANGED <<shared, local>> /\ Keep

BspNotInside_reset(c) ==
  /\ At(c, "foundation")
  /\ insideSmm' = FALSE
  /\ bspIndex' = IF Election THEN NoCpu ELSE bspIndex
  /\ Goto(c, "bsp_dismiss")
  /\ UNCHANGED <<counter, current, allInSync, data, local>> /\ Keep

(* The foundation has returned.                                              *)
BspNotInside(c) ==
  /\ At(c, "foundation")
  /\ insideSmm' = FALSE
  /\ Goto(c, "bsp_dismiss")
  /\ UNCHANGED <<counter, bspIndex, current, allInSync, data, local>> /\ Keep

BspDismiss(c) ==
  /\ At(c, "bsp_dismiss")
  /\ ReleaseAllAPs(c, "bsp_pending")
  /\ UNCHANGED <<shared, data>> /\ Keep

BspPending_notAwaited(c) ==
  /\ At(c, "bsp_pending")
  /\ Goto(c, IF ConfigureMtrrs THEN "bsp_restore" ELSE "bsp_reset")
  /\ UNCHANGED <<shared, data, local>> /\ Keep

BspPending(c) ==
  /\ At(c, "bsp_pending")
  /\ WaitForAllAPs(c, IF ConfigureMtrrs THEN "bsp_restore" ELSE "bsp_reset")
  /\ UNCHANGED <<shared, data>> /\ Keep

BspRestore(c) ==
  /\ At(c, "bsp_restore")
  /\ ReleaseAllAPs(c, "bsp_restored")
  /\ UNCHANGED <<shared, data>> /\ Keep

BspRestored(c) ==
  /\ At(c, "bsp_restored")
  /\ mtrr' = [mtrr EXCEPT ![Core[c]] = local[c].saved]
  /\ WaitForAllAPs(c, "bsp_reset")
  /\ UNCHANGED <<smi, shared, data, smis, tasks, runs>>

BspReset(c) ==
  /\ At(c, "bsp_reset")
  /\ bspIndex' = IF Election THEN NoCpu ELSE bspIndex
  /\ Goto(c, "bsp_reopen")
  /\ UNCHANGED <<counter, current, insideSmm, allInSync, data, local>> /\ Keep

BspReopen(c) ==
  /\ At(c, "bsp_reopen")
  /\ counter' = 0
  /\ Goto(c, "bsp_out_of_sync")
  /\ UNCHANGED <<bspIndex, current, insideSmm, allInSync, data, local>> /\ Keep

BspOutOfSync_forgotten(c) ==
  /\ At(c, "bsp_out_of_sync")
  /\ Goto(c, "leave")
  /\ UNCHANGED <<shared, data, local>> /\ Keep

BspOutOfSync(c) ==
  /\ At(c, "bsp_out_of_sync")
  /\ allInSync' = FALSE
  /\ Goto(c, "leave")
  /\ UNCHANGED <<counter, bspIndex, current, insideSmm, data, local>> /\ Keep

-----------------------------------------------------------------------------
(* SmmStartupThisAp, called by the BSP out of the foundation.                *)

AtRest == \A d \in Cpus : data[d].present =>
            pc[d] \in {"foundation", "ap_idle", "ap_look", "ap_run", "ap_free"}

(* The AP is present and not busy; otherwise EFI_INVALID_PARAMETER.          *)
StartupThisAp(c) ==
  /\ At(c, "foundation")
  /\ tasks < MaxTasks
  /\ LateStart => AtRest
  /\ \E d \in Cpus \ {current} :
       /\ data[d].present /\ ~data[d].busy
       /\ Set(d, "busy", TRUE)
       /\ Local(c, "ap", d)
  /\ tasks' = tasks + 1
  /\ Goto(c, "startup")
  /\ UNCHANGED <<smi, mtrr, shared, smis, runs>>

StartupProcedure(c) ==
  /\ At(c, "startup")
  /\ Set(local[c].ap, "procedure", tasks)
  /\ Goto(c, "startup_release")
  /\ UNCHANGED <<shared, local>> /\ Keep

StartupRelease_twice(c) ==
  /\ At(c, "startup_release")
  /\ Set(local[c].ap, "run", data[local[c].ap].run + 2)
  /\ Goto(c, IF BlockStartup THEN "startup_wait" ELSE "foundation")
  /\ UNCHANGED <<shared, local>> /\ Keep

StartupRelease_notBlocking(c) ==
  /\ At(c, "startup_release")
  /\ ReleaseRun(local[c].ap)
  /\ Goto(c, "foundation")
  /\ UNCHANGED <<shared, local>> /\ Keep

StartupRelease(c) ==
  /\ At(c, "startup_release")
  /\ ReleaseRun(local[c].ap)
  /\ Goto(c, IF BlockStartup THEN "startup_wait" ELSE "foundation")
  /\ UNCHANGED <<shared, local>> /\ Keep

(* BUSY is acquired, and released again at once.                             *)
StartupWait(c) ==
  /\ At(c, "startup_wait")
  /\ ~data[local[c].ap].busy
  /\ Goto(c, "foundation")
  /\ UNCHANGED <<shared, data, local>> /\ Keep

-----------------------------------------------------------------------------
(* APHandler.                                                                *)

ApBegin(c) ==
  /\ At(c, "ap")
  /\ Local(c, "bsp", bspIndex)
  /\ Goto(c, IF Election THEN "ap_notify" ELSE "ap_sync")
  /\ UNCHANGED <<shared, data>> /\ Keep

ApSync(c) ==
  /\ At(c, "ap_sync")
  /\ insideSmm \/ Timeout(c)
  /\ Goto(c, "ap_check")
  /\ UNCHANGED <<shared, data, local>> /\ Keep

(* The BSP is sent an SMI if it is not there.                                *)
ApCheck(c) ==
  /\ At(c, "ap_check")
  /\ IF insideSmm
     THEN Goto(c, "ap_notify") /\ UNCHANGED smi
     ELSE smi' = smi \cup {local[c].bsp} /\ Goto(c, "ap_sync_again")
  /\ UNCHANGED <<mtrr, shared, data, local, smis, tasks, runs>>

ApSyncAgain(c) ==
  /\ At(c, "ap_sync_again")
  /\ insideSmm \/ Timeout(c)
  /\ Goto(c, "ap_check_again")
  /\ UNCHANGED <<shared, data, local>> /\ Keep

ApCheckAgain(c) ==
  /\ At(c, "ap_check_again")
  /\ Goto(c, IF insideSmm THEN "ap_notify" ELSE "give_up")
  /\ UNCHANGED <<shared, data, local>> /\ Keep

(* WaitForSemaphore on Counter.                                              *)
GiveUp(c) ==
  /\ At(c, "give_up")
  /\ counter # 0
  /\ counter' = counter - 1
  /\ Goto(c, "leave")
  /\ UNCHANGED <<bspIndex, current, insideSmm, allInSync, data, local>> /\ Keep

SignalBsp(c, bsp, next) ==
  /\ ReleaseRun(bsp)
  /\ Goto(c, next)
  /\ UNCHANGED <<shared, local>> /\ Keep

ApNotify(c) ==
  /\ At(c, "ap_notify")
  /\ SignalBsp(c, local[c].bsp, IF ConfigureMtrrs THEN "ap_save" ELSE "ap_busy")

ApSave(c) ==
  /\ At(c, "ap_save")
  /\ WaitForRun(c)
  /\ Goto(c, "ap_saving")
  /\ UNCHANGED <<shared, local>> /\ Keep

ApSaving(c) ==
  /\ At(c, "ap_saving")
  /\ Local(c, "saved", mtrr[Core[c]])
  /\ Goto(c, "ap_saved")
  /\ UNCHANGED <<shared, data>> /\ Keep

ApSaved(c) == At(c, "ap_saved") /\ SignalBsp(c, local[c].bsp, "ap_replace")

ApReplace(c) ==
  /\ At(c, "ap_replace")
  /\ WaitForRun(c)
  /\ Goto(c, "ap_replacing")
  /\ UNCHANGED <<shared, local>> /\ Keep

ApReplacing(c) ==
  /\ At(c, "ap_replacing")
  /\ mtrr' = [mtrr EXCEPT ![Core[c]] = "smm"]
  /\ Goto(c, "ap_replaced")
  /\ UNCHANGED <<smi, shared, data, local, smis, tasks, runs>>

ApReplaced(c) == At(c, "ap_replaced") /\ SignalBsp(c, local[c].bsp, "ap_busy")

(* InitializeSpinLock.                                                       *)
ApBusy(c) ==
  /\ At(c, "ap_busy")
  /\ Set(c, "busy", FALSE)
  /\ Goto(c, "ap_idle")
  /\ UNCHANGED <<shared, local>> /\ Keep

ApIdle(c) ==
  /\ At(c, "ap_idle")
  /\ WaitForRun(c)
  /\ Goto(c, "ap_look")
  /\ UNCHANGED <<shared, local>> /\ Keep

ApLook(c) ==
  /\ At(c, "ap_look")
  /\ Goto(c, IF insideSmm THEN "ap_run" ELSE "ap_done")
  /\ UNCHANGED <<shared, data, local>> /\ Keep

(* The procedure runs.                                                       *)
ApRun(c) ==
  /\ At(c, "ap_run")
  /\ runs' = [t \in Tasks |-> IF t = data[c].procedure THEN runs[t] + 1 ELSE runs[t]]
  /\ Goto(c, "ap_free")
  /\ UNCHANGED <<smi, mtrr, shared, data, local, smis, tasks>>

ApFree(c) ==
  /\ At(c, "ap_free")
  /\ Set(c, "busy", FALSE)
  /\ Goto(c, "ap_idle")
  /\ UNCHANGED <<shared, local>> /\ Keep

(* The BSP is told through BspIndex as it is now.                            *)
ApDone(c) ==
  /\ At(c, "ap_done")
  /\ SignalBsp(c, bspIndex, IF ConfigureMtrrs THEN "ap_restore" ELSE "leave")

ApRestore(c) ==
  /\ At(c, "ap_restore")
  /\ WaitForRun(c)
  /\ Goto(c, "ap_restoring")
  /\ UNCHANGED <<shared, local>> /\ Keep

ApRestoring(c) ==
  /\ At(c, "ap_restoring")
  /\ mtrr' = [mtrr EXCEPT ![Core[c]] = local[c].saved]
  /\ Goto(c, "ap_restored")
  /\ UNCHANGED <<smi, shared, data, local, smis, tasks, runs>>

ApRestored(c) == At(c, "ap_restored") /\ SignalBsp(c, local[c].bsp, "leave")

-----------------------------------------------------------------------------
(* SmiRendezvous, after the handler.                                         *)

Leave(c) ==
  /\ At(c, "leave")
  /\ Set(c, "present", FALSE)
  /\ Goto(c, "exit")
  /\ UNCHANGED <<shared, local>> /\ Keep

(* RSM.                                                                      *)
Exit(c) ==
  /\ At(c, "exit")
  /\ ~allInSync
  /\ Goto(c, "out")
  /\ local' = [local EXCEPT ![c] = NoFrame]
  /\ UNCHANGED <<shared, data>> /\ Keep

-----------------------------------------------------------------------------
Init ==
  /\ config \in Configurations
  /\ smi = {}
  /\ mtrr = [k \in Cores |-> "os"]
  /\ counter = 0
  /\ bspIndex = IF Election THEN NoCpu ELSE BootBsp
  /\ current = BootBsp
  /\ insideSmm = FALSE /\ allInSync = FALSE
  /\ data = [c \in Cpus |-> [run |-> 0, present |-> FALSE, busy |-> FALSE,
                             procedure |-> 0]]
  /\ pc = [c \in Cpus |-> "out"]
  /\ local = [c \in Cpus |-> NoFrame]
  /\ smis = 0 /\ tasks = 0
  /\ runs = [t \in Tasks |-> 0]

Entry(c) == Arrive(c) \/ MarkPresent(c) \/ Elect(c) \/ Role(c) \/ Leave(c) \/ Exit(c)

BSPHandler(c) ==
  \/ BspInside(c) \/ BspSync(c) \/ BspCheck(c) \/ SendSmiIpis(c) \/ BspSyncAgain(c)
  \/ BspInSync(c) \/ BspLock(c) \/ BspSave(c) \/ BspSaved(c) \/ BspReplace(c)
  \/ BspReplaced(c) \/ BspBusy(c) \/ BspNotInside(c) \/ BspDismiss(c)
  \/ BspPending(c) \/ BspRestore(c) \/ BspRestored(c) \/ BspReset(c)
  \/ BspReopen(c) \/ BspOutOfSync(c) \/ Wait(c) \/ Release(c)

SmmStartupThisAp(c) ==
  \/ StartupThisAp(c) \/ StartupProcedure(c) \/ StartupRelease(c) \/ StartupWait(c)

APHandler(c) ==
  \/ ApBegin(c) \/ ApSync(c) \/ ApCheck(c) \/ ApSyncAgain(c) \/ ApCheckAgain(c)
  \/ GiveUp(c) \/ ApNotify(c) \/ ApSave(c) \/ ApSaving(c) \/ ApSaved(c)
  \/ ApReplace(c) \/ ApReplacing(c) \/ ApReplaced(c) \/ ApBusy(c) \/ ApIdle(c)
  \/ ApLook(c) \/ ApRun(c) \/ ApFree(c) \/ ApDone(c) \/ ApRestore(c)
  \/ ApRestoring(c) \/ ApRestored(c)

Processor(c) ==
  /\ Entry(c) \/ BSPHandler(c) \/ SmmStartupThisAp(c) \/ APHandler(c)
  /\ UNCHANGED config

Next == RaiseSmi \/ \E c \in Cpus : TakeSmi(c) \/ Processor(c)

Spec == Init /\ [][Next]_vars

(* A processor in SMM runs; one outside takes a pending SMI in the end.      *)
FairSpec == Spec /\ \A c \in Cpus : WF_vars(Processor(c)) /\ WF_vars(TakeSmi(c))
-----------------------------------------------------------------------------
(* Properties.                                                               *)

(* Every variable has its type; no semaphore is released more often than     *)
(* there are processors to wait for it.                                      *)
TypeOK ==
  /\ config \in Configurations /\ smi \subseteq Cpus
  /\ mtrr \in [Cores -> {"os", "smm"}]
  /\ counter \in -2 .. NumberOfCpus
  /\ bspIndex \in Cpus \cup {NoCpu} /\ current \in Cpus
  /\ insideSmm \in BOOLEAN /\ allInSync \in BOOLEAN
  /\ data \in [Cpus -> Block]
  /\ pc \in [Cpus -> Labels]
  /\ local \in [Cpus -> Frame]
  /\ smis \in 0 .. MaxSmis /\ tasks \in 0 .. MaxTasks
  /\ runs \in [Tasks -> 0 .. 2]

Foundation == {"foundation", "startup", "startup_release", "startup_wait"}

(* The loop of APHandler, and the way into it after the last signal.         *)
Held == {"ap_busy", "ap_idle", "ap_look", "ap_run", "ap_free"}

Outside == {"out", "arrive", "leave", "exit"}

Running == {c \in Cpus : pc[c] \in Foundation}

(* "All CPUs are in sync and don't allow more CPU to run the code in SMM     *)
(* mode after this point" (BSPHandler): while the foundation runs, on one    *)
(* processor, every other is held in the loop of APHandler or is not let in. *)
OthersAreHeld ==
  \A c \in Running : \A d \in Cpus \ {c} : pc[d] \in Held \cup Outside

(* Nobody joins or leaves those that the BSP has counted until the           *)
(* foundation is done.  (A fixed BSP may count an AP that is giving up.)     *)
Present == {c \in Cpus : data[c].present}
SessionIsClosed ==
  [][Election /\ Running # {} /\ Running' = Running => Present' = Present]_vars

(* "We do the backup first and then set MTRR to avoid race condition for     *)
(* threads in the same core" (BSPHandler): nobody saves the MTRRs of SMM as  *)
(* those of the operating system.                                            *)
SavesAreOfOs == \A c \in Cpus : local[c].saved # "smm"

(* The foundation and the procedures on APs run under the MTRRs of SMM, on   *)
(* every core that has a processor in them.                                  *)
RunsUnderSmmMtrrs ==
  ConfigureMtrrs => \A c \in Cpus :
    pc[c] \in Foundation \cup {"ap_run"} => mtrr[Core[c]] = "smm"

(* No processor resumes the operating system while its core still has the    *)
(* MTRRs of SMM, unless another thread of the core is busy in SMM.           *)
ResumesUnderOsMtrrs ==
  \A k \in Cores :
    (\A c \in Cpus : Core[c] = k => pc[c] \in Outside) => mtrr[k] = "os"

(* ASSERT (mSmmUcData->CpuData[CpuIndex].Run == 0) in SmiRendezvous: no      *)
(* signal is left over for the next SMI.                                     *)
NoSignalLeftOver == \A c \in Cpus : pc[c] = "exit" => data[c].run = 0

(* "BUSY should be acquired by SmmStartupThisAp()", an assertion of          *)
(* APHandler.                                                                *)
BusyWhileRunning == \A c \in Cpus : pc[c] = "ap_run" => data[c].busy

(* The assertions hold, provided that the foundation starts procedures on    *)
(* APs that have reached their loop, and waits for them.                     *)
AssertionsHold == LateStart /\ BlockStartup => NoSignalLeftOver /\ BusyWhileRunning

(* The three rules of the MTRRs that the threads of a core share.            *)
MtrrsAreSwitched == SavesAreOfOs /\ RunsUnderSmmMtrrs /\ ResumesUnderOsMtrrs

(* "Wait for all APs to complete their pending tasks" (BSPHandler): when     *)
(* the BSP has waited, every procedure of which the caller of                *)
(* SmmStartupThisAp was told that it is scheduled has been run.              *)
PendingTasksComplete ==
  (\E c \in Cpus : pc[c] \in {"bsp_restore", "bsp_reset"}) =>
    \A t \in 1 .. tasks : runs[t] > 0

(* ... and none is run twice, in this SMI or a later one.  The first is so   *)
(* only where SmmStartupThisAp waits for the procedure.                      *)
ProceduresRunOnce ==
  /\ LateStart /\ BlockStartup => PendingTasksComplete
  /\ LateStart => \A t \in Tasks : runs[t] =< 1

(* An AP answers the BSP that let it go: BspIndex has not been reset, or     *)
(* taken by someone else, before all APs have read it for the last time.     *)
BspIsThere == \A c \in Cpus : pc[c] \in Held \cup {"ap_done"} => bspIndex = local[c].bsp

(* "Give up since BSP is unable to enter SMM and signal the completion of    *)
(* this AP" (APHandler): an AP that takes itself off the counter is not      *)
(* awaited by a BSP that has entered and counted it meanwhile.               *)
GivesUpUncounted == [][\A c \in Cpus : GiveUp(c) => counter # Locked]_vars

(* Every processor that enters SMM leaves it.                                *)
EveryoneLeaves == \A c \in Cpus : pc[c] # "out" ~> pc[c] = "out"
=============================================================================
