# Verification of the firmware's core state machines

TLA+ models of the parts of this firmware (InsydeH2O, EDK II based, for the
SharkBay platform) whose correctness depends on the order in which things
happen: what is in flash when power fails, what a reader sees in the middle of
an update, where each processor is when another one goes on. The repository has
12 839 source files; most of them are device drivers, vendored stacks, tables
and build tools. The modules here model six components of it in detail; the rest
of the inventory says what was left aside and why.

## 1. Inventory

### FTW Lite, the fault tolerant write driver

Source: `InsydeModulePkg/Universal/FirmwareVolume/FtwLiteRuntimeDxe`.

* State. Two areas of flash of the same size: the *working block* (the FV with
  the variable store, and behind it the *work space*: a header with two state
  bits and a journal of 72 write records) and the *spare block*. In memory: a
  copy of the work space (`FtwWorkSpace`), the record in use (`FtwLastRecord`).
* Operations. `Write` (`CommonFtwWrite`): allocate a record, save the spare
  block, write the modified working block to the spare block, mark the record,
  flush the spare block over the working block, mark the record done, restore
  the spare block. `InitializeFtwLite` at every boot: roll back, restart or
  recover what was interrupted. `FtwReclaimWorkSpace` when the journal is full.
* Interactions. Called by the variable driver to rewrite its store; calls the
  FVB services, which erase one block at a time and can only clear bits.
* Hard. Loss of power between any two accesses to flash and in the middle of
  one, also during the recovery; accesses that fail; resets inside the boot.
* Correct when: a write is atomic; the store is never lost; a caller told
  success has its data in flash; a recovery leaves nothing to recover and never
  makes a later write fail; a boot ends.

### UEFI variable services, non-volatile store

Source: `InsydeModulePkg/Universal/Variable/VariableRuntimeDxe`.

* State. A list of records in flash behind one another, each with a State byte
  whose bits are cleared one by one; a copy of it in memory for readers; the
  offset of the end (`NonVolatileLastVariableOffset`).
* Operations. `SetVariable`: mark the old copy, write header, State, data and
  State again (four steps, tried twice), delete the old copies. Deletion, by
  size 0 or attributes 0. `GetVariable`. `Reclaim`: rewrite the live copies
  through FTW Lite, at ready to boot (`ReclaimForOS`) and when there is no room.
* Interactions. FTW Lite for reclaims, FVB for everything else; callers at boot
  time and at run time, where reclaims may be forbidden
  (`PcdRuntimeReclaimSupported`) and the driver leaves a note to itself
  (`NEED_DO_RECLAIM_NAME`) for the next boot.
* Hard. Loss of power between the steps; remains of a half written header; the
  cache against the flash; the last bytes of the store; a variable written by
  the driver itself from inside a write that had no room.
* Correct when: `SetVariable` is one indivisible change of one variable or
  nothing; readers see the truth at all times; at most one copy is added;
  a refusal has a reason and is remembered; every call returns.

### SMM CPU rendezvous

Source: `IA32FamilyCpuPkg/PiSmmCpuDxeSmm/MpService.c`, `SyncTimer.c`.

* State. `mSmmUcData`, in uncached memory shared by all processors: `Counter`,
  `BspIndex`, `InsideSmm`, `AllCpusInSync`, and per processor `Run`, `Busy`,
  `Present`, `Procedure`. The MTRRs, shared by the threads of a core.
* Operations. `SmiRendezvous` on every processor; `BSPHandler`, `APHandler`;
  `SmmStartupThisAp`, called by the SMM foundation and its handlers.
* Interactions. SMIs from the chipset and between processors; the foundation
  (`SmmCoreEntry`), called by the BSP alone.
* Hard. Everything: up to eight processors, compare-and-exchange semaphores,
  time-outs, late arrivals, processors that give up.
* Correct when: while the foundation runs every other processor is held or kept
  out; nobody saves or resumes with the wrong MTRRs; no signal is left for the
  next SMI; a scheduled procedure runs exactly once; everyone gets out.

### Events, TPL and timers of the DXE core

Source: `MdeModulePkg/Core/Dxe/Event` (`Event.c`, `Tpl.c`, `Timer.c`), the timer
interrupt of `SharkBayRcPkg/Pch/SmartTimer`.

* State. `gEfiCurrentTpl`, `gEventPending`, one queue of notifications per TPL,
  the list of signal events, per event `SignalCount` and its timer, the sorted
  list `mEfiTimerList`; the interrupt flag and the stack of the one processor.
* Operations. `CreateEvent`, `SignalEvent`, `CheckEvent`, `WaitForEvent`,
  `CloseEvent`, `SetTimer`, `RaiseTPL`, `RestoreTPL`; `CoreTimerTick` in the
  interrupt handler, `CoreCheckTimers` as a notification of its own.
* Interactions. All drivers call it; it calls their notification functions, which
  call it again; the timer interrupt comes in wherever interrupts are enabled.
* Hard. Reads of the pending bits before the TPL is set; lists walked by one TPL
  and changed by a higher one; events closed while they are on their way.
* Correct when: no signal is lost; notifications only interrupt lower ones; a
  closed event is forgotten; the first timer is the earliest; the queues drain.

### SMM foundation

Source: `MdeModulePkg/Core/PiSmmCore`: the IPL (`PiSmmIpl.c`), a DXE driver; the
core's entry point (`PiSmmCore.c`), handlers (`Smi.c`) and dispatcher
(`Dispatcher.c`, `Dependency.c`).

* State. `gSmmCorePrivate`, shared by both sides: the request of `Communicate`,
  `InSmm`, `SmmEntryPointRegistered`; the handler lists; the driver lists and
  their queues; the state of the SMRAM window.
* Operations. `Communicate`, the IPL's notification functions, `SmmEntryPoint`,
  `SmiManage`, register and unregister, `SmmDispatcher`, ready to lock.
* Interactions. `Communicate` raises an SMI, every processor meets
  (`SmmRendezvous`), the core runs on one. Handlers and drivers call
  `Communicate` in turn. SMIs of devices come at any time.
* Hard. One request slot for callers that interrupt one another; an `InSmm` that
  two paths set and clear; a dispatcher that stops in the middle and goes on in
  another call; lists changed by the handlers that are being called.
* Correct when: a message is answered with its own result; `InSmm` tells the
  truth; drivers start once (with the exception of section 5), in order, and never
  after SMRAM is locked; what is reported as all is all; every call returns.

### How they interact

The entry point of `SmmCore` is what `SmmRendezvous` has as the label
`foundation`; the notification functions of the IPL are events of `EventTpl`.
`SetVariable` from the operating system reaches the variable driver at run time
(or, on platforms with the SMM instance, through an SMI and the rendezvous); the
variable driver asks FTW Lite when it reclaims. `VariableStore` models that call
as one step that happens or does not, which is `AtomicStore`, the specification
that `FtwLite` is shown to implement.

### Not modelled

| Part | Reason |
| --- | --- |
| DXE dispatcher | its lists and queues are those of the SMM dispatcher, which is modelled |
| Handle database and driver connection | sequential under one lock; hard because of the drivers it calls, which are not part of it; the next candidate |
| SMRAM allocation, loading of images, DXE memory, GCD, PEI core | sequential data structures, little to interleave |
| FVB services, flash devices | register access; what they promise is in the flash model of `FtwLite` and `VariableStore` |
| Authenticated variables, secure boot | certificate parsing; the values they produce are values of the model |
| Variable lock | a list that only grows |
| CPU start up, SMBASE relocation, SMM profile, page tables | chipset reference code, register programming |
| IPMI, capsules, IHISI | device hand-shakes, later candidates |
| BDS, HII, setup, USB, PCI, disk, network, ACPI, SMBIOS, CSM, build tools | device policy, vendored stacks, tables, not firmware |

`PROJECT.json` lists the same parts with their sources, and under `hazards`
every place where the modelled code can go wrong in a way a test would hardly
reach, with the property that watches it or the reason why none does.

## 2. Plan

1. `AtomicStore`, `FtwLite` and its proofs: everything else rests on atomic flash.
2. `VariableMap`, `VariableStore`: uses FTW Lite through `AtomicStore`.
3. `SmmRendezvous` and its proof: the concurrent core.
4. `Notifications`, `EventTpl` and its proofs: everything in DXE runs on it.
5. `SmmCore`: what runs while the other processors are held.

All five are done. Left: `DriverConnect` (`Hand/Handle.c`, `DriverSupport.c`), open
and close against connect and disconnect; the SMM instance of FTW Lite beside the
boot services one, two users of one flash; a proof of `ImplementsStore` when accesses fail.

## 3. Modules

| Module | Models |
| --- | --- |
| `AtomicStore` | abstract: a store whose writes take effect in one step or never |
| `FtwLite` | the FTW Lite driver, both flash areas, power and faults |
| `FtwLiteInv` | the inductive invariants of `FtwLite` |
| `FtwLite_proofs` | the proofs of the first, `TypeInv`, of the second, `SafeInv`, of the refinement, of the third, `CleanInv`, and of what a caller finds |
| `VariableMap` | abstract: a map from names to values with one deliberate exception, see below |
| `VariableStore` | the non-volatile half of the variable driver |
| `VariableStoreInv` | the inductive invariants of `VariableStore`: of the store, and of what a call will answer |
| `VariableStore_proofs` | its proof, and that the cache tells the truth and no variable is there twice |
| `VariableMap_proofs` | the proofs of the second: that `VariableStore` implements `VariableMap`, and what a refusal means |
| `MCVariableStore` | names, sizes and preserved tables of the runs |
| `SmmRendezvous` | `SmiRendezvous` and the two handlers, one step per access to shared memory |
| `MCSmmRendezvous` | processors and cores of the runs |
| `SmmRendezvous_proofs` | the proof, for a fixed BSP, that the others are held while the foundation runs |
| `SmmRendezvousInv` | the inductive invariant of `SmmRendezvous` when a BSP is elected |
| `SmmRendezvousElected_proofs` | its proof, and the proofs of all safety properties of the rendezvous |
| `Notifications` | abstract: owed notifications, functions that only higher ones interrupt |
| `EventTpl` | event, TPL and timer services and the timer interrupt |
| `EventTpl_proofs` | the proofs that types and priorities hold, that no signal is lost, that the timers stay sorted, that closed events are forgotten and that `EventTpl` implements `Notifications` |
| `MCEventTpl` | the events, groups and calls of its run |
| `SmmCore` | the IPL, the entry point, the handlers and the dispatcher of SMM |
| `SmmCoreInv` | the inductive invariants of `SmmCore` |
| `SmmCore_proofs` | the proof that `InSmm` tells the truth and that answers are the caller's own |
| `SmmCoreDispatch_proofs` | the proofs that no walk over handlers goes astray, that a success of the dispatcher is one and that drivers are started in order |
| `MCSmmCore` | drivers, volumes and messages of its run |

### FtwLite

`work` and `spare` are the two areas: `N` data blocks, the `healthy` mark in the
first one, and the work space `ws` (header bits `sig`, `valid`, `invalid`, and
the records, each a set of the bits cleared so far). A step is one access that
changes flash and the code behind it up to the next such access; `pc` names the
access. `FtwEraseBlock` and `WriteTargetBlock` are a `job` of many steps, one
per block, with the read back and the retries of the code. The call stack is in
`retC`, `retF`, `retA`, `retW` (who called reclaim, flush, abort, write record).
`Crash` can happen at every step; the block being written may be left half
written, memory is forgotten and the boot starts again.

An access can fail in two ways (`FaultKinds`). It may silently have no effect: the
code finds that out when it reads flash back, and tries again, `MaxTry` times in all,
so that a block or a state bit is lost only when that many accesses in a row fail. Or it,
or the reading back, reports an error status: then there is no retry, the procedure
returns at once (`EraseReports`, `WriteReports`, `UpdateFails`), and the flash holds
the old contents, the new ones, or the first blocks of an erase or part of a block. One
reported error is therefore masked by nothing. `Asserts` tells the builds apart: in a
debug build `ASSERT_EFI_ERROR` stops the machine (`pc = "dead"`), in a release build it is
nothing, and `FtwWriteRecord`, which asserts its statuses and returns `EFI_SUCCESS`, goes on.

`Recovered` is what the next boot will make of the flash. `ImplementsStore` maps
the store of `AtomicStore` to it: it changes in one step, the one that marks the
record `SPARE_COMPLETED`, whatever happens before and after. That is more than the code
does when an access reports an error: the step may then take effect although the caller
is told `EFI_ABORTED`. `OldOrNew` is what is left, in a debug build and while the journal
has room: what a boot recovers only ever changes by the whole of the current request.

### VariableStore

`list` holds the copies with a good header, `tail` what is behind them: blank, or
the remains of a header cut short (`dirty`), or a State byte alone (`stray`).
`cache` is the copy in memory, `Off` once the driver does without it. `op` holds
the local variables of `UpdateVariable`; `op.nested` is the call that
`SetDoReclaimNextBoot` makes from inside another one. `phase` becomes `os` at
ready to boot. A size is a number of units, per name and not per value.

`HasTable` says whether there is a table of preserved variables. Without one
`ElimateVariableWhenRegionFull` returns before it has set the size it is asked for
(`Variable.c:5288-5290`), and its caller compares what its local variable happened to hold:
`CheckRoom` then refuses the call, or goes on with a store that does not fit, which the
model does not follow (`astray`). As the repository is configured there is none:
`PcdDefaultVariableForReclaimFailTable` is all zero (`InsydeModulePkg.dec:485`) and
`OemSvcVariableForReclaimFailTable` is not implemented. `variable_faults` and the
theorems are about a platform with a table, `variable_os` is about one without.

`VariableMap` allows one more thing than a map would: when what is stored leaves
no room, the new value may be stored at the expense of everything that is not
preserved (`ElimateVariableWhenRegionFull`). A read is the state function
`Value`; that it agrees between cache and flash at every step is
`CacheTellsTheTruth`.

### SmmRendezvous

Every processor has a label and the local variables of the function it is in.
`WaitForSemaphore` and `ReleaseSemaphore` are one step each (the
compare-and-exchange that succeeds); a loop over the processors is one step per
processor, in any order where the code counts down, which only adds behaviours.
A processor that spins takes no step. MTRRs are per core, so that one thread
can change what the other runs under. `Timeout` says when a sync timer may
expire: with `PatientTimer` only when no other processor in SMM can go on by
itself, which is the assumption the code states in the comments at
`MpService.c:266-268` ("please make sure PcdCpuSmmMaxSyncLoops has been set to a
large enough value"); a processor outside SMM may be late by any amount.
`LateStart` makes the foundation start procedures only on APs that have reached
their loop; without it the two races of section 5 appear. The run `smm_meeting`
takes both settings of the platform options as initial states (`Configurations`). As
SharkBay is built there are no MTRRs to switch, nobody elects a BSP and procedures are
not waited for: `MtrrsAreSwitched`, `AssertionsHold`, `ProceduresRunOnce`, `BspIsThere`
and `SessionIsClosed` say nothing, or little, there. They are about the elected setting;
`OthersAreHeld` is about both.

### EventTpl

The processor is a stack of frames: where a routine stands, the TPL it goes back
to, its event, and a count. The top frame moves. A section under
`gEventQueueLock` runs with interrupts disabled and is one step, which leaves the
processor at `TPL_HIGH_LEVEL` with the frame of the `CoreRestoreTpl` that
releases the lock on top. Sections under `mEfiTimerLock` can be interrupted and
are several steps: the timer is taken off, set, inserted; the tick may come
between the last read of `gEventPending` and the store of `gEfiCurrentTpl`
(frame `lower`), between the expiry of a timer and its signal, and between the
signal and its return to the list. `Tick` may nest, `MaxNested` deep.

Time is kept relative: `due[e]` is `TriggerTime - mEfiSystemTime`, and the frames
of `CoreCheckTimers` count the ticks since `SystemTime` was read. Nothing looks
further back than `Oldest`.

`LetGo` is the rule of the services, that no code uses an event once its
`CloseEvent` has begun. The calls that code may make are constants (`Signals`,
`Arms`, `Closes`, `Checks`, `WaitList`), each function making `MaxOps` of them.

`Notifications` is what remains without queues, lists, locks and timers: a
signalled event is owed one notification until it has begun or the event is
closed, and functions nest in order of their level. `owed` is mapped to what is
queued, `running` to the functions whose frames have begun: their levels rise
strictly, so that the set says as much as the sequence.

### SmmCore

Again a stack of frames, on one processor: DXE code, notification functions of
the IPL, `Communicate`, the SMI handler, the walk over a list of handlers
(`managing`), a handler or a driver, and what they call. A step runs up to the
next point where an SMI, a handler, a driver or a notification comes in; the two
stores of a request are two steps. `up` is the frame whose buffer a message is,
so that a late or repeated answer lands in the right caller's `reply`.

A driver is a set of protocols it needs and installs, a BEFORE or AFTER, the type
of messages it registers for and the message it sends from its entry point. Its
sections may be inside others which cannot be extracted before some protocol is there
(`Sealed`): its dependency expression is then `unread` (`DepexProtocolError`,
`Dispatcher.c:753-758`), it is not made dependent, and an attempt to load it fails, or not,
since only the expression need be inside. Each search reads again what it can
(`Reread`, 913-918), of any driver that was discovered, and makes it dependent, also
one that the a priori file has brought to the queue before and that is started already.
The search is one step, because nothing runs in between, but it reads as it goes: what
is scheduled BEFORE or AFTER a driver is what was dependent when the search came to it
(`DependentAt`).

`FindVolume` keeps the shared `Index` of the loops (`Dispatcher.c:1316`): the
length of an a priori file makes the loop pass over volumes, which only the next
dispatch event finds; the answer does not show it (`smm_passed_over`). A volume without
a device path is remembered as known and not searched (`NoPath`). Lock and boot events come when the driver of the SMM CPU
I/O protocol has been started, as the platform does it.

## 4. Runs

| Run | Instance | Shows |
| --- | --- | --- |
| `ftw_crash` | 2 blocks, 2 records, 3 writes, 2 losses of power, 1 silent fault, release build | `ImplementsStore`, `StoreNeverLost`, `HealthyIsWhole`, `IdleIsClean`, and the invariants of the proofs |
| `ftw_torn` | 7 records, 2 writes, 2 losses of power, also between two blocks of an erase, 1 fault, silent or reported, debug build | `OldOrNew`, `SuccessIsInFlash`, `JournalOrdered`, `BootEnds` |
| `ftw_lost_by_reclaim` | 1 record, so that the second write reclaims | violated: section 5 |
| `variable_faults` | 3 names that do not all fit, 4 calls; either 2 losses of power, or an error and a write that does not take | `ImplementsMap`, `CacheTellsTheTruth`, `OneAddedCopy`, `RefusedForAReason`, `TypeOK` (which bounds the store) |
| `variable_os` | no reclaim at run time, no table of preserved variables, 5 calls, both ways to delete | `RefusalIsRemembered`, `SetVariableReturns`, `ImplementsMap` |
| `variable_undeleted` | a loss of power and a deletion by attributes | violated: section 5 |
| `smm_meeting` | 3 threads on 2 cores, 2 SMIs, a procedure, in two settings: BSP elected and MTRRs switched; fixed BSP without, as SharkBay is built, where APs may give up | `OthersAreHeld` in both; `MtrrsAreSwitched`, `AssertionsHold`, `ProceduresRunOnce`, `BspIsThere`, `SessionIsClosed` in the first |
| `smm_leaves` | 3 threads, 1 SMI | `EveryoneLeaves` |
| `smm_give_up` | 2 threads, 1 SMI | violated: section 5 |
| `event_ticks` | a periodic and a one-shot timer, a group of two (one created late), an event that signals itself, the idle event; one interrupt at a time | safety, liveness and `ImplementsNotifications` of `EventTpl` |
| `smm_core` | 8 drivers in 3 volumes, one volume late, in front or behind, one without a device path; 2 SMIs, 4 events, 1 message of DXE code besides those of drivers | safety and liveness of `SmmCore` |
| `smm_passed_over` | the same | violated: section 5 |

Why these bounds are enough. Two data blocks tell a torn store from a whole one
and a partial request from a full one; two records are the least with which a
journal goes from one record to the next and fills up; three writes fill it and
reclaim it; a second loss of power interrupts the recovery from the first. Each retry loop
tries twice, so that one silent fault is masked and two are not; a reported error is not
masked at all, and one is enough to end any procedure in the middle, in a write or, after a
loss of power, in the recovery. `ftw_torn` has as many records as its writes and
recoveries can use up, so that no valid work space is reclaimed. Three names of
which two fit make every reclaim path happen (room regained, preserved dropped,
refused). Three threads on two cores
are the least with a shared MTRR and an outsider; two SMIs are the least for a
signal to leak from one into the next. In `event_ticks` two timers are the least
that can be out of order, and one of each kind of event makes every path of
`CoreSignalEvent`, `CoreCheckEvent` and `CoreCloseEvent` happen; the tick is not
bounded in number, only in how many handlers are on the stack, so that a
behaviour never ends. The eight drivers of `smm_core` have two a priori, one of them
sealed until the other one has run, one sealed driver that is not, one
BEFORE, one AFTER, one that can neither be read nor loaded, one whose start registers the
entry point in the middle of the queue, two that send messages from their entry
point and a handler that unregisters itself; one SMI would be enough to come
between the two stores of a request, two also come in a direct dispatch.

`CHECK_DEADLOCK FALSE` is said everywhere but for `event_ticks`, because the bounds
on calls, SMIs, events and losses of power end a behaviour, and a driver that gave
up (`dead`) does nothing.

Fairness. `FtwLite` and `VariableStore`: weak fairness of `Driver`, the code that
has been called runs on; callers, losses of power and faults are not fair.
`SmmRendezvous`: weak fairness of each processor's code in SMM and of taking a
pending SMI, which is a level the hardware keeps; SMIs are not fair. `EventTpl`:
strong fairness of the services at each depth of nested interrupts, because code
that is interrupted again and again still moves on, and of the tick; code returns
and restores the TPL it raised, but is not bound to call anything. The liveness
properties say "or `Overrun`": when interrupts keep coming before the work of the
last ones is done, the lower queues do starve, in the code as in the model.
`SmmCore`: weak fairness of the processor, which runs on; SMIs, events and calls
are not fair.

## 5. Disagreements between the code and its comments

Each of these is shown by a run:

* `ftw_lost_by_reclaim`. "ensuring at all times that either the original contents
  or the modified contents are available" (`FtwLiteRuntimeDxe.c:83`). A reclaim
  erases the working block from its first block on; power lost before the last
  one leaves a work space header that still says valid over erased data.
* `variable_undeleted`. "Setting a data variable with no access ... causes it to
  be deleted" (`Variable.c:1385`). After a loss of power that left an old copy,
  deletion by attributes 0 uncovers it, because the old copies are removed only
  for callers that pass `EFI_VARIABLE_NON_VOLATILE` (2946).
* `smm_give_up`. "Give up since BSP is unable to enter SMM and signal the
  completion of this AP" (`MpService.c:407`). The BSP may enter in that very
  moment; the AP takes the locked counter to -2 and leaves, and the BSP waits for
  it for ever.
* `smm_passed_over`. "If COMM_BUFFER_SMM_DISPATCH_SUCCESS is returned, then the SMM Core
  dispatched all the drivers it could" (`PiSmmCorePrivateData.h:25-26`). A volume that
  stands behind one with an a priori file is passed over (`Dispatcher.c:1316`), none of
  its drivers is discovered, and the answer is the same. `SuccessMeansAll` says what the
  answer does mean: of the drivers that were *discovered*.

These TLC has shown in the same way, on the instances named; they are not kept as runs:

* "Since the content has already backuped in spare block, the write is
  guaranteed to be completed with fault tolerant manner" (`FtwLiteRuntimeDxe.c:443-444`,
  of the flush in `FtwWriteRecord`).
  An access that reports an error ends the flush without a retry, `FtwWriteRecord` only
  asserts the status and returns `EFI_SUCCESS` (659), and goes on to restore the spare
  block. One such access is enough in a release build: `SuccessIsInFlash` does not hold
  with `Asserts = FALSE`, `FaultKinds = {"reported"}`, one write and one fault.
* "This fucniton elimates all the variables except authenticated
  variables and the variables form mVariableModuleGlobal->PreservedVariableTable"
  (`Variable.c:5267-5268`). Without a table nothing is eliminated (5288), the size that the
  caller goes on with is never set, and calls are refused although nothing has to be
  preserved: `RefusedForAReason` does not hold with `HasTable = FALSE`, `Preserved` empty,
  two variables and room for one of them.
* "Wait for all APs to complete their pending tasks"
  (`MpService.c:323`). A procedure scheduled without waiting is dropped when the
  BSP clears `InsideSmm` before the AP wakes up: `PendingTasksComplete` does not hold
  with the settings of `smm_give_up`, a procedure, and `late` set.
* "do not attempt to load or start it again" (`Dispatcher.c:843-844`,
  of a driver that could not be loaded). The driver is set `Initialized`, but a later search
  reads its expression again whatever its state (913-918), makes it dependent (699-700)
  and so schedules, loads and starts it. An a priori driver that *was* started is started
  a second time in the same way, which is why `DriversInOrder` allows that. Both happen to
  the driver `pack` of `smm_core`.

Met while modelling and confirmed with TLC:

* One reported error in a release build: `TypeInv`, `HealthyIsWhole` and `BootEnds` still
  hold; `StoreNeverLost`, `JournalOrdered`, `IdleIsClean`, `SuccessIsInFlash` and
  `ImplementsStore` do not. In a debug build, with two faults of any kind and reclaims, but no loss of power
  between two blocks of an erase, `TypeInv`,
  `HealthyIsWhole`, `SuccessIsInFlash`, `JournalOrdered` and `BootEnds` hold; `StoreNeverLost`
  does not (the erase in a reclaim stops half way), nor `IdleIsClean`, nor `ImplementsStore` (the update that commits the record
  reports an error and has taken all the same).
* Two silent faults in a row in a release build break `SuccessIsInFlash` as well.
* A driver whose BEFORE or AFTER expression is read only after the driver it names has been
  scheduled is never started.
* `UpdateVariable` writes `VAR_ADDED` and deletes the old copy also when both
  attempts failed to verify (1769-1771, 1846): two writes in a row that do not
  take lose the variable with `EFI_SUCCESS`.
* At run time without reclaim a header cut short makes every later write fail
  as `EFI_OUT_OF_RESOURCES` with room left (1752-1754), and nothing asks the next
  boot to reclaim.
* An AP initialises its `Busy` lock after its last signal to the BSP
  (`MpService.c:455`), so that the BSP can have acquired it before: without
  `LateStart` `BusyWhileRunning` fails.
* With `LetGo = FALSE`, a one-shot timer that sets itself again from its own
  function while another one closes it is freed while it is in `mEfiTimerList`
  (`Event.c:728`): the timer is cancelled first and the rest of `CoreCloseEvent`
  runs at a lower TPL.
* A tick between the last read of `gEventPending` and the store of the new TPL
  leaves a notification pending until the next `RestoreTPL` (`Tpl.c:122-134`);
  `WorkIsDone` says that there is one.
* `CoreSignalEvent` of a group does not notify the other members when the event
  itself is still signalled (`Event.c:547-563`), and reads the group of an event
  after it has released the lock.
* A periodic timer that is late is signalled once for all the periods it missed.
* `Communicate` of a notification function that comes in the middle of another
  `Communicate` replaces its request; the other one is answered with
  `EFI_SUCCESS` and its message is never handled (`PiSmmIpl.c:445-470`).
* An SMI between the two stores of a request hands on the size of an earlier one.
* An SMI in a direct dispatch, which is possible once the entry point is
  registered, leaves `InSmm` FALSE for the rest of the dispatch.
* The handler for ready to lock unregisters itself; when the SMM CPU I/O protocol
  is missing it returns an error and the walk goes on from the freed entry.
* A driver whose entry point fails is unloaded with its handlers registered; a
  driver BEFORE or AFTER one of the a priori file is never scheduled.

## 6. Proofs

### FtwLite

These theorems are about any number of blocks, records, values, writes, losses of
power and faults of either kind, in either build; but most of them speak of what
holds as long as flash is `Reliable`. They assume `FtwAssumption`: at least one block and one record,
and constants that can be told apart.

| Theorem | Says |
| --- | --- |
| `TypeCorrect` | `Spec => []TypeInv` |
| `SafeCorrect` | `Spec => []SafeInv` |
| `StoreSurvives` | `Spec => [](Reliable => StoreNeverLost)` |
| `JournalInOrder` | `Spec => [](Reliable => JournalOrdered)` |
| `WritesAreAtomic` | `Spec /\ []Reliable => ImplementsStore` |
| `CleanCorrect` | `Spec => []CleanInv` |
| `MarkedIsWhole` | `Spec => [](Reliable => HealthyIsWhole)` |
| `IdleAfterAnything` | `Spec => [](Reliable => IdleIsClean)` |
| `SuccessIsThere` | `Spec /\ []Reliable => SuccessIsInFlash` |

`TypeInv` is `TypeOK` with `ControlOK`: which label a procedure may return to,
what a job in progress may do when it ends, and where `FtwLastRecord` may point
one past the last record. `TypeOK` alone is not inductive: that a step ends at a
label, and that a record is only touched when there is one, depends on who
called.

Only `TypeCorrect` says something whatever fails.
`Reliable` says that no access to flash has failed so far, with a status or without, and that power is not
lost between two blocks of one erase; section 5 shows that the second part is
needed. A block can still be left half written by a loss of power.

`StoreNeverLost` says nothing about memory or about the two copies, so that it is
far from inductive. `SafeInv` strengthens it, in five parts:

* `Recoverable`: what flash must hold at any moment. If a write is committed, or
  the working block is not valid, the spare block is whole and its journal is the
  one of the working block or has it as a beginning; otherwise the working block
  is whole.
* `Holds`: an assertion for every label, in the manner of Floyd. While blocks are
  being erased and written, it is the assertion at the label the job returns to,
  of what the job writes instead of what flash holds.
* `JobOK`: what a job has written so far, and that what it overwrites is not
  needed: it writes to the spare block only while nothing is in progress, and to
  the working block only while the spare block is what a boot recovers.
* `CallerOK`: when somebody waits for a reply, and whether the write has had its
  effect.
* that no procedure reports a failure.

The proof has one lemma for each kind of change to flash (`RecoverableOpen`,
`RecoverableCommit`, `RecoverableFlushed`, ...) that says what happens to
`Recoverable` and to what a boot recovers, and one lemma for each action, which
shows `Safe'` and, but for `WriteMark`, that the action leaves `Recovered`
unchanged. The refinement follows: `Write` is `Ask`, `WriteMark` is `Commit`,
`WriteEnd` is `Succeed`, an early return is `Fail`, `Crash` is `PowerLoss`, and all
other steps stutter.

`CleanInv` is about what a caller meets: it says, on top of `SafeInv`,

* `LastRecordAt`: by label, whether the last record is free, allocated or being
  rolled back, so that `FtwGetLastRecord` finds a free one whenever nobody is at
  work. It needs `JournalsOK` (only `FtwAbort` completes a record that was never
  allocated), of the saved copy and of what a job writes too;
* `MarkOK`: a block whose work space is valid carries `VARIABLE_STORE_HEALTHY`, and
  so does whatever a boot recovers, through the flush, which takes the mark away
  first and writes it last, with the value it read before (`wasHealthy`);
* that no access was denied, and that once a call has taken effect its data are
  what a boot recovers (`Landed`), which a call that returns success turns into
  what the working block holds.

`MarkedIsWhole` does not hold of flash that fails: with two failing accesses, or
with one and a loss of power between two blocks of an erase, TLC finds a marked
store with an erased block. With that loss of power alone TLC finds no such store.

### VariableStore

These theorems are about any set of variables with any sizes and values, any
capacity and preserved table, either setting of `PcdRuntimeReclaimSupported`, both
ways to delete, and any number of calls, losses of power and accesses that report
an error, before and after one another (`FaultsMix` may be `TRUE`). They assume
`VariableAssumption`, `RequestAssumption` (no request is `NoRequest`) and `Dependable`: a
write that reports success has taken (`MaxMisses = 0`), and there is a table of preserved
variables (`HasTable`). What is written over the remains of an interrupted header may
still come out as something else.

| Theorem | Says |
| --- | --- |
| `Invariance` | `Spec /\ Dependable => []IInv` |
| `TypeCorrect` | `Spec /\ Dependable => []TypeOK` |
| `CacheCorrect` | `Spec /\ Dependable => []CacheTellsTheTruth` |
| `OneAddedCorrect` | `Spec /\ Dependable => []OneAddedCopy` |
| `RefusedCorrect` | `Spec /\ Dependable => RefusedForAReason` |
| `MapImplemented` | `Spec /\ Dependable /\ []Alone => ImplementsMap` |
| `DeletionsMeetOneCopy` | `Spec /\ Dependable /\ (Clearing \/ Faultless) => []Alone` |
| `RefusalRemembered` | `Spec /\ Dependable /\ Undisturbed => RefusalIsRemembered` |

None of the first three properties is inductive. That a second copy is not added depends
on the first one having been marked, which depends on `FindVariable` having met the
newest one, several steps earlier and in the cache. `IInv` says

* `Ordered`, of the list: an added copy is newer than every other live copy of its
  variable (a copy is live when it is added or in transition). So what
  `FindVariable` returns is the newest live copy (`FindVariableIs`), and what a
  reclaim keeps is the newest live copy of each variable and no other (`KeptIs`,
  `KeptOnce`);
* `Whole`: a live copy has been written in full;
* `Mirrors`: copy by copy the cache has the same names, and the same copy where
  either of the two is live; it may be one copy longer, by a header that flash did
  not take, and that one is not live;
* `Local`, by label: the current copy is the newest live one (`Found`), none is added
  while a new one is being written (`Marked`), the new copy is the last one and in
  the state that the previous step gave it (`Placed`), or its header did not become
  valid and there still is room for it. A second attempt follows a rewrite of the
  store, which leaves nothing behind the list (`Attempt`), so that it succeeds: the
  code tries twice, and the third attempt it does not make is not needed.

Three groups of lemmas carry the proof. Of the list: the sum of the sizes (`Used`)
and the selection by rank (`Pick`) are recursive or counted, and what is needed of
them (`UsedLonger`, `PickFits`, `PickOrder`) comes from inductions made through a
well-founded order on the numbers, since the library's induction theorem takes an
operator. Of an access: `EditKills`, `EditMarks`, `EditAdds` and `Agreeing` say what a
State byte, or a copy that does not count, does to the order and to what is found,
`MirrorsEdited` and `MirrorsEnd` that the cache follows. Of a rewrite: `ReclaimedIs`,
`MovedIs` and `WithNewGood` say that it fits, is in order, and has the current copy
where `Reclaim` says it is now. Then one lemma for each action shows `IInv'`;
`TornIsSound` says what a loss of power leaves.

The other three are about what a caller is told. Their theorems have hypotheses that
the code needs:

* `Alone`: when a variable is deleted, the copy that is marked is its only live one.
  Deleting the newest of several uncovers the one before it, which is what
  `variable_undeleted` shows. It holds in two cases. `Clearing`: callers delete with
  a size of 0, so that `DeleteAllOldVariable` goes first, and it meets no failing
  access; its status is not looked at, and after a failure there the copy it could not
  delete comes back. Power may be lost and any other access may fail. And
  `Faultless`: no power is lost and no access fails; then there never are two
  live copies but in the last step of an update (`Single`), however callers delete.
* `Undisturbed`: data are written over blank space only (`OnBlank`), and the driver's
  own variable is written without a failing access (`OwnTakes`). A call whose data
  come out wrong behind the remains of a header is refused at run time although there
  was room, and nothing is remembered; and what becomes of the driver's own
  variable is not looked at either.

Four more conjunctions, beside `IInv`, say by label what the answer will be: `Calls`
(`UpdateVariable` serves the request, or the driver's own variable on behalf of one
that is being refused), `Refused` (what was computed from the list when the call was
refused or sent to the reclaim still holds), `Answered` (while something is to be written the
variable has another value, and what `Done` will return is true of the list) and, for
the last theorem, `Remembered` (the driver's own variable fits while it is written).

That each action is a step of `VariableMap` rests on what it does to the values: one
lemma for each (`MarkOldValues`, `WriteAddedValues`, `RewriteValues`, ...) says that it
leaves them all as they are, sets one, or keeps only the preserved ones beside the new
one. `WriteAdded`, `DeleteVariable` and `ReclaimNonVolatileVariable` are `Commit`,
`WriteAdded` of the driver's own variable and `ForgetReclaim` are `Note`,
`SetVariable` is `Ask`, `Done` is `Succeed`, `Refuse` or `Error`, `Crash` is
`PowerLoss`, with the effect if it falls into the rewrite, and all other steps
stutter. That a rewrite without the variables that need not be preserved happens only when nothing else fits, and
that a refusal has a reason, is said of the map by a sum over a *set* of names and
decided in the code by the length of a *list*. `Weighs` is such a sum as a function of the
subsets, whatever the order in which it is added up; `OccupiedIs` says that a list in
which every name occurs once takes what its names do.

TLC has checked `IInv`, before it was proved and beside the runs of section 4, with
three names, two failing accesses and two losses of power in any order. With a write
that reports success and has not taken `IInv` does not hold, and the properties are
model-checked only (`variable_faults`, one such write and one error).

### EventTpl

These theorems are about any events, groups, levels, timers, delays and calls,
any length of a tick and any depth of nested interrupts. They assume
`EventAssumption`, which says how events are typed and that the events which
exist at the start are registered; nothing in it bounds the instance.

| Theorem | Says |
| --- | --- |
| `TypeCorrect` | `Spec => []TypeOK` |
| `PrioritiesCorrect` | `Spec => []PrioritiesHold` |
| `SignalsCorrect` | `Spec => []SignalsAreKept` |
| `TimersCorrect` | `Spec => []TickSeesEarliest` |
| `ClosedCorrect` | `Spec => []ClosedIsForgotten`, if `OwnersClose` |
| `NotificationsImplemented` | `Spec => ImplementsNotifications` |

`InvHolds` (`Spec => []Inv`) is what the others rest on. `PrioritiesHold` compares
a frame with the frames below it, and a step that pushes one knows only the top;
so `Inv` says of the stack

* `Shape`: what a frame of each label holds by itself;
* `Fits`: at which TPL the code of the top frame may run, and to which TPL the
  frame above another one goes back, so that a frame that returns leaves the
  processor where the frame below can go on;
* `Over`: for *any* two frames, not only neighbours, that the upper one goes back
  to no lower TPL than the lower one holds, dispatches above it, and that not both
  are sections under `mEfiTimerLock`;

and of the data (`DataOK`) its types and that an event is queued at its own level.
The lemmas `Push`, `PushDispatch`, `PushTimer`, `Replace` and `Pop` show it once
for each way in which the stack changes; each action cites one or two of them.

`NoLostSignal` is not inductive because a group is signalled in a second section,
after the lock was released: the walk over `gEventSignalQueue` must come to the
event itself. `Kept` adds `Registered` (a live event of signal type is on that list
until `CloseEvent` takes it off), `Walked` (the walk has queued what it has passed;
at `TPL_HIGH_LEVEL` nothing changes the list meanwhile) and `QueuedIsPending`.

`TickSeesEarliest` alone is not inductive either: it needs that a timer which a
section under `mEfiTimerLock` is about to insert is not on the list, where it would
be out of order as soon as its time is set. `Timely` is `Times` (ordered, and no
event twice) and `Away` (what such a section holds is not on the list); that there
is only one such section at a time comes from `Over`.

`ClosedIsForgotten` is about the moment after the second section of
`CoreCloseEvent`, and `Forgot` about everything that leads to it: no queue holds an
event twice, since the code removes one entry only (this is why `QueueAssumption`
asks it of the events registered at the start); an event whose `CloseEvent` has
cancelled its timer is on no timer list and in no section that would put it back; and
no frame of the stack is still at work on it. It holds under `OwnersClose`: the
application closes the events, lets go of them first (`LetGo`, the rule of the
services) and never closes `gIdleLoopEventGuid`'s. The hypothesis is needed:
when a notification function closes an event of a lower level while that event's
routine is interrupted, TLC finds the interrupted routine with an event whose memory
was freed. The steps only push frames and pop them; `Derived` says that of all of
them at once, so that an action has to show what happens to the lists only.

The refinement needs `Nests`: the functions on the stack rise in level from the
bottom to the top, counting the one that a frame is about to call (`Rises`), and no
queue holds an event twice (`Once`; with a second copy left behind, the event would
still be owed when its function begins). A function is dispatched above all
others because of `Over`, and it is of the level that is dispatched because of
`DataOK`. `Shows` is what `Notifications` sees of a stack, and has one lemma for
each way in which a stack changes; `NextSteps` has one step per action and
`StepsPromised` reads them as steps of `Notifications`: adding to a queue is
`Ring`, taking the head off it is `Begin`, `CloseEvent` is `StartClose`, its two
sections are `Forget` and `EndClose`. The function of the timer interrupt
(`CoreCheckTimers`) begins and finishes in the same way; a step that does none of this
is a stutter.

### SmmRendezvous

| Theorem | Says |
| --- | --- |
| `MeetingCorrect` | `Spec => [](AsBuilt => OthersAreHeld)` |

It is about any number of processors, SMIs and procedures, and about timers that
may expire at any moment, also while the others could go on. It assumes
`RendezvousAssumption`, and `AsBuilt` in the formula itself: no BSP is elected and
no MTRRs are switched, which are the settings of SharkBay (the PCD of the election
is FALSE in `IA32FamilyCpuPkg.dsc:133`, and `NeedConfigureMtrrs` is FALSE for the
class of Haswell, `SmmFeatures.c:129` and 721). Procedures may be started before the AP is
in its loop, and need not be waited for.

That two processors are at certain labels cannot be had from the labels of one
processor at a time: the BSP knows about the others only how often its semaphore was
released. So `Meeting` counts the other processors by where they are, `Arriving`
(counted, the BSP not signalled yet), `Held` (in the loop) and `Going` (let go, with
a last signal to give), and relates the three numbers, phase by phase, to the
counter and to the semaphore of the BSP (`Balance`):

* while the BSP gathers, nobody has left, and the counter is at least the number of
  those who are arriving or held, and the BSP;
* once the counter is locked, everyone who is arriving owes the BSP a signal. One
  who gives up takes the *locked* counter below -1 and owes nothing any more; the
  sum of those who are arriving, of the signals given and of the distance of the
  counter from -1 stays within what the BSP still waits for. It follows that a lost
  AP can only make the BSP wait for ever (`smm_give_up`): when the wait is over,
  nobody is arriving;
* after the foundation each held processor owes one signal again, and when the
  second wait is over nobody is held and no signal is left, so that the counter can
  be opened.

`BalanceKept` shows that the steps of the others keep this in every phase; they
have six kinds of effect on the numbers (`Change`). `ApMoves` and `BspMoves` carry
it over to states, and `ApStep` and `BspStep` have one step per action. `Roles` adds
what the actions need: that `InsideSmm` holds in certain phases only, and that an AP
signals the BSP and not somebody else.

#### With an elected BSP

`Elected` is the other way in which the driver is built: a BSP is elected at every
SMI (`PcdCpuSmmEnableBspElection`), procedures are started on APs that have reached
their loop and are waited for, and the sync timer is long. MTRRs may have to be
switched or not. The theorems assume it of the initial state; `config` never
changes.

| Theorem | Says |
| --- | --- |
| `TogetherHolds` | `Spec /\ Elected => [](Together /\ Elected)` |
| `OthersAreHeldCorrect` | `Spec /\ Elected => []OthersAreHeld` |
| `SessionIsClosedCorrect` | `Spec /\ Elected => SessionIsClosed` |
| `BspIsThereCorrect` | `Spec /\ Elected => []BspIsThere` |
| `MtrrsAreSwitchedCorrect` | `Spec /\ Elected => []MtrrsAreSwitched` |
| `AssertionsHoldCorrect` | `Spec /\ Elected => []AssertionsHold` |
| `ProceduresRunOnceCorrect` | `Spec /\ Elected => []ProceduresRunOnce` |
| `TypeCorrect` | `Spec /\ Elected => []TypeOK` |

They are about any number of processors, any assignment of them to cores, and any
number of SMIs and procedures; sessions follow one another, with late processors of
one still on their way out in the next. The long timer is needed: a BSP that stops
waiting early releases the semaphores of everyone marked present, and a processor
that is still leaving the last session is, so that it would carry a signal over.
`PatientTimer` excludes this, since the processor can go on by itself.

The session goes through phases, each of them a barrier (`Phase`): the BSP releases
every semaphore and waits for as many signals. In a phase a processor is at the gate
(`Gate`), behind it (`Work`), has signalled and is beyond (`Beyond`), or is no part of
the session (`Gone`). `Session` says of each of the others where it may be and that
its semaphore is 1 exactly if it has been called and has not passed the gate
(`Placed`), and of the BSP that the signals given and those still owed are the ones it
waits for (`Tallied`); since sums over processors are needed for that alone, they are
the numbers of processors at a set of labels (`Number`), and `NumberMoves` is all that
is ever used of them. When a wait is over the two numbers are 0, nobody is at the gate
or behind it, and the next phase begins where this one ends (`EveryoneIsBeyond`,
`LeaderEnters`). `Vacant` is what holds from the reset of `BspIndex` to the next
election, while processors of the old session leave and those of the next one are
counted.

The rest hangs on it: `PresentIs`; `Mtrrs`, that the MTRRs of a core are those of SMM
exactly if a thread of it has switched them, except while they are restored, which
begins only when nobody runs under them; and `Procedures`, which have been run, before
and after the AP has taken the one in hand. `TypeOK` bounds the counters: the
semaphore of an AP is 0 or 1 (`Placed`), that of the BSP holds signals of some of the
processors (`Tallied`), `Counter` counts processors unless it is locked, and so do the
counts that the BSP has taken of it (`Bounds`). The proof has one lemma for each way in
which another processor (`OtherMoves` and what follows it) or the BSP (`LeaderTurns`
and what follows it) takes part; `OtherSteps`, `LeaderSteps`, `VacantSteps` and
`SideSteps` have one step per action.

### SmmCore

These theorems are about any drivers, dependencies, volumes, messages, SMIs and
events, and any depth of calls within calls; they assume `CoreAssumption`, which
says how the constants are typed and which drivers there can be: a driver is in one
volume, and once; an a priori file names drivers of its volume; one of these whose
sections are sealed, which may be started twice, registers no handler, because the lists
know a handler by its driver; a dependency
expression begins with one opcode, so that it is a BEFORE or an AFTER and not both
(`SmmPreProcessDepex`); and `SmmReadyToLockHandler` alone installs the protocol that
announces the lock. Drivers may depend on each other in circles.

| Theorem | Says |
| --- | --- |
| `Invariance` | `Spec => []IInv` |
| `InSmmCorrect` | `Spec => []InSmmTellsTheTruth` |
| `AnswersCorrect` | `Spec => []AnswersAreOwn` |
| `WalksInvariance` | `Spec => []WalksHold` |
| `TypeCorrect` | `Spec => []TypeOK` |
| `ReportsInvariance` | `Spec => []ReportsHold` |
| `SuccessMeansAllCorrect` | `Spec => []SuccessMeansAll` |
| `QueuesInvariance` | `Spec => [](LockedOut /\ Queues)` |
| `DriversInOrderCorrect` | `Spec => DriversInOrder` |

No property is inductive. `InSmm` is one bit that two paths set and clear
inside one another, the entry point by storing, a direct dispatch by saving and
restoring; whether the value that is restored is right depends on what the stack
held when it was saved. And that a caller is told of its own message depends on
whose request is in `CommunicationBuffer`, which is known from the whole stack only:
SMIs deliver requests before their callers raise one, handlers send messages of
their own, and notifications come between the stores of a request. `IInv` therefore
is, besides the types of the data (`DataOK`) and of the frames (`TypedStack`),

* `Control`, about the calls in progress: `Shape` says what a frame holds by
  itself, `Fits` which frame may stand on which, `Above` what holds of any two
  frames (the entry point is not entered twice, requests only nest when a
  notification came in between, a legacy boot dispatches nothing else),
  `Interrupted` that only the outermost message can be interrupted by a
  notification, `NoSmis` that none comes before the entry point is registered,
  `Conveyed` that a walk over handlers knows whose message it is about;
  `InSmmIs` and `DirectIs` are then what `InSmm` says about the stack, including
  what each direct dispatch has saved;
* `Requested`, about the messages: `Pending` says that the stored request is that
  of a `Communicate` and that nobody above it on the stack asks for anything;
  `InLegacy` that once `LegacyBoot` has begun nothing but its own dispatch remains;
  `Fate` what has become of each message: for itself (`Alone`), once it was stored
  (`Sending`: whoever is not the stored request has been handled once, or was
  interrupted by a notification), while an SMI serves it (`Serving`) and while its
  handlers are walked (`Walking`: whoever has returned success has answered the
  buffer it was called for).

The proof goes along the ways in which a stack changes: `Becoming` (the top frame
goes on), `Calling`, `Returning`, `HandlerDone` (a handler returns and answers the
frame its message came from). For each there is one lemma that carries `Control`
over and one that carries `Requested` over (`BecomeQuiet`, `CallQuiet`,
`ReturnQuiet`, `HandlerQuiet`), for the steps that store no request and serve none;
`ControlStep` and `RequestedStep` have one step per action. The dispatcher's queues
come from recursive functions, what hangs BEFORE and AFTER a driver (`Hanging`) and
the flattening of a sequence of sequences. That they are sequences of drivers at
all needs an induction, which is made through the set of the numbers for which it
fails (`SetInduction`), since the library's induction theorem cannot be used.

For the other properties what a step does is told once more, in one formula for
all of them: `Moved` (the frame on top turns into another, a new one is put upon it,
or it is taken off and tells one frame below something; `Moves` has one step per
action) and `Effected` (what it does to the lists of handlers, `CommunicationBuffer`
and the dispatcher's queues). Their invariants are then shown once, not per action.

`TypeOK` says that no walk goes astray. `SmiManage` takes the next handler from the one
it stands on, after that one has returned; a handler that unregisters itself is freed
in the middle of its own walk, and SMRAM being locked frees the dispatcher's. None of
the walks below may be on it. `WalksHold` says which walks there can be:

* `Layered`: what stands above a walk. Above that of the dispatcher are the drivers it
  starts and their messages, above any other only its handler and an SMI that nobody
  has stored a request for. Two walks of one message are therefore never in progress
  at once, except for the list of root handlers, which nobody leaves. That the SMI
  has no request is where `Pending` and `Unhurried` come in: while a request is stored
  and no SMI has come for it, no walk stands above it (`NothingStored`).
* `Standing`: a walk stands on a handler of its list, or on one that has ended it by
  returning `EFI_SUCCESS`. `Listed` says that a driver is on the list it registers for,
  so that no root handler unregisters itself, and `Lockable` that SMRAM is locked only
  when `SmmReadyToLockHandler`, which unregisters itself, can return that.

`SuccessMeansAll` is about what has been discovered: nothing is left but drivers that
wait for something that is not there, be it for their dependencies or for what makes their
expression readable (`Hopeless`). It relates the dispatcher's queues when it wrote its answer to those
when the notification function looks at it, several returns and any number of SMIs
later. `ReportsHold` says, of a frame that holds the answer (`Settled`), that all
frames above it rest: they are SMIs with nothing to convey, root handlers and their
walks, or the walk of the dispatcher itself, which has ended; and that no step which
they take touches the queues or installs a protocol (`ReportingQuiet`). `Accounted`
says that no driver is lost between the queues.

`DriversInOrder` is about the moment a driver is started, but what makes it true was
done when the driver was put on the queue, by a recursion, and since then other
drivers have run, sent messages, raised SMIs and installed protocols. `Queues` says it
of every place of the queue: what has to go before the driver there has been started
or stands at an earlier place (`Met`). At the head of the queue there is no earlier place.
It also says where a driver can be (`InOnePlace`): initialized, on the queue once,
dependent, or unread; in one of these only, but for a driver of an a priori file whose
sections are sealed (`Twice`), which stands on the queue, and is started or given up,
while its expression is unread, and later becomes dependent and is queued once
more. `StartedOnce` says that it becomes dependent once only: a driver that is still
waiting somewhere has been started once at most, one that is initialized and waits
is readable, so that it is not read again, and what has been read never becomes unread
again, because a volume is searched once and installed protocols stay.
The step that fills the queue (`Searched`) needs the
order that the recursion produces. The search begins a new recursion for each driver that
it schedules, with the drivers that are dependent by then, which grow as it reads on;
the trees of two of them are apart all the same, because a driver hangs on one other at
most, and what hangs on the later one cannot hang on the earlier one. `Generations` takes the drivers that can be
scheduled, those that hang BEFORE or AFTER one of them, those that hang on these, and
so on. A driver hangs on one other at most, so the generations are disjoint
(`GenerationsApart`); each is a set of drivers, so none is left after as many as there
are drivers (`GenerationsEnd`, by counting), even if expressions form a circle, whose
drivers are in no generation. `AllStrings` then says, level by level, that the string
of a driver holds its generations once each, with what goes BEFORE in front and what
goes AFTER behind (`StringsStep`), and that the strings of two drivers of a generation
have nothing in common, so that their concatenation is as ordered as they are
(`StrungOnce`). The bound of the recursion is thus no restriction: at level
`Cardinality(Drivers)` every string is complete.

`LockedOut` says that the dispatcher's handler is off its list once SMRAM is locked and
that no dispatcher is on the stack. That the handler which locks is never called in the
middle of a dispatch is `Layered` (`NotBelowLock`): no queue that was filled before the
lock is worked on after it.

### Only model-checked

Liveness under fairness and what `FairSpec` adds are out of the prover's reach, and
so is most of what a recursive definition computes. Of the rest, TLC alone has
checked:

* `FtwLite` with failing accesses, silent (`ftw_crash`) or reported, and with power lost between
  two blocks of an erase (`ftw_torn`);
* of `VariableStore`: the properties above when writes report success and do not take,
  and `SetVariableReturns`;
* `SmmRendezvous` with a fixed BSP but for `OthersAreHeld`;
* of `SmmCore`: `CallsReturn`.

## 7. What the models leave out

* `FtwLite`: targets outside the working block, `EFI_BAD_BUFFER_SIZE`, the buffer
  pool, the SMM instance and its service table. Errors that *reads* report, other than the
  reading back of `FtwEraseBlock` and `WriteTargetBlock`: of the work space at the boot
  (`FtwLiteRuntimeDxe.c:353`, whose status is not looked at, and 1207-1225, asserted) and in
  `WorkSpaceRefresh` (`FtwWorkSpace.c:299-308`), of the blocks that a reclaim copies (448,
  496) and of the spare block that a write saves (`FtwLiteRuntimeDxe.c:405`).
* `VariableStore`: volatile variables, attributes and authentication, append
  writes, factory defaults, the SMI path and the SMM instance, `GetNextVariableName`,
  `QueryVariableInfo`. With writes that do not take *and* losses of power together `ImplementsMap`
  does not hold: the remains of both meet in one header. `FaultsMix` is FALSE in the
  runs for that reason: a behaviour has one or the other. The theorems of section 6
  exclude such writes instead and allow errors and losses of power in any order.
  What becomes of a store after a write with a size that was never set (`astray`).
* `SmmRendezvous`: SMM profile, page tables, the debug agent, the callers of
  `SmmStartupThisAp` (some of which repeat a call that cannot succeed,
  `PowerMgmtS3.c:208`).
* `EventTpl`: protocol notifications, runtime events and `ExitBootServices`; the
  calls that code makes are finite lists.
* `SmmCore`: image loading, dependency expressions beyond a set of protocols,
  failing allocations, a `Trigger` that fails (the request would stay in
  `CommunicationBuffer`), SMRAM allocation, the virtual address change, more than
  one notification function at a time. What unseals a driver is a protocol that SMM
  drivers install: one that a DXE driver installs between two dispatches is not an action
  of its own. The handlers of a driver that is started twice.
