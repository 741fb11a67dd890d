------------------------------ MODULE SmmCore ------------------------------
(***************************************************************************)
(* The SMM foundation (MdeModulePkg/Core/PiSmmCore): the SMM IPL, which is *)
(* a DXE driver and passes messages into SMM (PiSmmIpl.c), the entry point *)
(* of the core (PiSmmCore.c), the lists of SMI handlers (Smi.c) and the    *)
(* dispatcher that starts the SMM drivers (Dispatcher.c, Dependency.c).    *)
(*                                                                         *)
(* The core runs on one processor, the others are held meanwhile (module   *)
(* SmmRendezvous).  The processor runs a stack of frames: DXE code, the    *)
(* notification functions of the IPL, Communicate, the SMI handler that    *)
(* Communicate or a device has brought about, and inside it handlers and   *)
(* drivers, which may call Communicate in turn.  The frame on top moves.   *)
(* A step is what runs up to the next point where an SMI, a handler or a   *)
(* driver comes in.                                                        *)
(***************************************************************************)
EXTENDS Integers, FiniteSets, Sequences, SequencesExt, Functions

CONSTANTS
  Drivers,      \* the SMM drivers
  Volumes,      \* the firmware volumes they are in
  Files,        \* [Volumes -> Seq(Drivers)]
  Apriori,      \* [Volumes -> Seq(Drivers)], the a priori file
  NoPath,       \* the volumes without a device path
  Needs,        \* [Drivers -> SUBSET Protocols], the dependency expression
  Before,       \* [Drivers -> Drivers], or NoDriver: a BEFORE expression
  After,        \* [Drivers -> Drivers], or NoDriver: an AFTER expression
  NoDriver,
  Sealed,       \* [Drivers -> SUBSET Protocols], without which a driver's sections
                \* cannot be extracted from its file: the expression is among them,
                \* the image may be
  Installs,     \* [Drivers -> SUBSET Protocols]
  Registers,    \* [Drivers -> types of messages], or NoType
  Calls,        \* [Drivers -> types]: the driver's start calls Communicate
  Protocols,
  CpuDriver,    \* installs the SMM configuration protocol
  Unloadable,   \* drivers whose image does not load
  OneShot,      \* drivers whose handler unregisters itself
  UserTypes,    \* the types of messages of drivers
  NoType,
  CpuIo,        \* the SMM CPU I/O protocol, without which the lock handler fails
  FirstVolumes, \* the sequences of volumes that may be there when the IPL starts
  MaxSmis,      \* bound: asynchronous SMIs
  MaxEvents,    \* bound: events that the IPL is notified of
  MaxCalls      \* bound: calls of Communicate by DXE code

\* The event groups and protocols that the IPL listens to, and the messages that
\* the core registers handlers for.
CoreTypes == {"dispatch", "lock", "legacy", "enddxe"}
Events == CoreTypes \cup {"boot"}
CloseOnLock == {"dispatch", "lock", "boot"}
Types == CoreTypes \cup UserTypes \cup {"root"}

\* A list knows a handler by its driver: one that may be started twice registers none.
ASSUME CoreAssumption ==
  /\ NoDriver \notin Drivers /\ NoType \notin Types
  /\ UserTypes \cap (CoreTypes \cup {"root"}) = {}
  /\ Drivers \cap CoreTypes = {} /\ IsFiniteSet(Drivers)
  /\ Files \in [Volumes -> Seq(Drivers)] /\ Apriori \in [Volumes -> Seq(Drivers)]
  /\ Needs \in [Drivers -> SUBSET Protocols] /\ Installs \in [Drivers -> SUBSET Protocols]
  /\ Sealed \in [Drivers -> SUBSET Protocols] /\ NoPath \subseteq Volumes
  /\ Before \in [Drivers -> Drivers \cup {NoDriver}]
  /\ After \in [Drivers -> Drivers \cup {NoDriver}]
  /\ \A d \in Drivers : Before[d] = NoDriver \/ After[d] = NoDriver
  /\ \A d \in Drivers : "SmmReadyToLock" \notin Installs[d]
  /\ Registers \in [Drivers -> UserTypes \cup {"root", NoType}]
  /\ Calls \in [Drivers -> UserTypes \cup {NoType}]
  /\ CpuDriver \in Drivers /\ Unloadable \subseteq Drivers /\ OneShot \subseteq Drivers
  /\ \A d \in OneShot : Registers[d] # "root"
  /\ \A v \in Volumes :
       /\ IsInjective(Files[v]) /\ IsInjective(Apriori[v])
       /\ ToSet(Apriori[v]) \subseteq ToSet(Files[v])
       /\ \A w \in Volumes \ {v} : ToSet(Files[v]) \cap ToSet(Files[w]) = {}
  /\ \A v \in Volumes : \A d \in ToSet(Apriori[v]) :
       Sealed[d] # {} => Registers[d] = NoType
  /\ CpuIo \in Protocols
  /\ FirstVolumes \subseteq Seq(Volumes) \ {<<>>}
  /\ MaxSmis \in Nat /\ MaxEvents \in Nat /\ MaxCalls \in Nat

VARIABLES
  entry,       \* SmmEntryPointRegistered
  inSmm,       \* InSmm
  buffer,      \* CommunicationBuffer: the frame it belongs to, 0 is NULL
  size,        \* BufferSize: the frame whose CommSize was stored
  status,      \* ReturnStatus
  opened, locked, \* OpenState and LockState of the SMRAM window
  mSmmLocked,
  closed,      \* the events that are closed on lock have been closed
  legacy,      \* mInLegacyBoot
  handlers,    \* [Types -> Seq(handlers)], mSmiEntryList and mRootSmiHandlerList
  ready,       \* the protocols that have been installed
  volumes,     \* the handles with a firmware volume protocol
  known,       \* mFvHandleList
  discovered,  \* mDiscoveredList
  dependent, initialized, \* the drivers in these states
  unread,      \* those with DepexProtocolError
  scheduled,   \* mScheduledQueue
  request,     \* gRequestDispatch
  running,     \* gDispatcherRunning
  started,     \* history: the drivers started, in order
  stack,
  smis, events, calls

private == <<inSmm, buffer, size, status>>
window == <<opened, locked, mSmmLocked, closed>>
lists == <<known, discovered, dependent, initialized, unread, scheduled, request, running,
           started>>
world == <<handlers, ready, volumes>>
bounds == <<smis, events, calls>>
vars == <<entry, inSmm, buffer, size, status, opened, locked, mSmmLocked, closed, legacy,
          handlers, ready, volumes, known, discovered, dependent, initialized, unread,
          scheduled, request, running, started, stack, smis, events, calls>>

-----------------------------------------------------------------------------
\* Frames.  type: of the message, event or handler list; up: the frame whose buffer
\* is conveyed, 0 if none; who: the handler or driver; n: an index or a count; flag: a
\* saved BOOLEAN; reply: what became of the caller's buffer; ret: a status.

Frame(at, type) == [at |-> at, type |-> type, up |-> 0, who |-> NoDriver, n |-> 0,
                    flag |-> FALSE, reply |-> "clear", ret |-> "none"]
Depth == Len(stack)
Top == stack[Depth]
Caller == stack[Depth - 1]
At(label) == Top.at = label
Become(f) == stack' = [stack EXCEPT ![Depth] = f]
Call(f, callee) == stack' = Append([stack EXCEPT ![Depth] = f], callee)
Return(f) == stack' = Append(SubSeq(stack, 1, Depth - 2), f)

InSmi == \E i \in DOMAIN stack : stack[i].at \in {"entry", "sync", "root"}

-----------------------------------------------------------------------------
\* SmmCommunicationCommunicate.

Communicate(type) == Frame("communicate", type)

\* "If not already in SMM, then generate a Software SMI": the request is stored.
PutBuffer ==
  /\ At("communicate") /\ ~inSmm /\ entry
  /\ buffer' = Depth
  /\ Become([Top EXCEPT !.at = "size"])
  /\ UNCHANGED <<entry, inSmm, size, status, window, legacy, world, lists, bounds>>

PutSize ==
  /\ At("size")
  /\ size' = Depth
  /\ Become([Top EXCEPT !.at = "trigger"])
  /\ UNCHANGED <<entry, inSmm, buffer, status, window, legacy, world, lists, bounds>>

Trigger ==
  /\ At("trigger")
  /\ Call([Top EXCEPT !.at = "sent"], Frame("entry", NoType))
  /\ UNCHANGED <<entry, private, window, legacy, world, lists, bounds>>

Sent ==
  /\ At("sent")
  /\ Become([Top EXCEPT !.at = "answered", !.ret = status])
  /\ UNCHANGED <<entry, private, window, legacy, world, lists, bounds>>

Refuse ==
  /\ At("communicate") /\ ~inSmm /\ ~entry
  /\ ~opened \/ locked
  /\ Become([Top EXCEPT !.at = "answered", !.ret = "invalid"])
  /\ UNCHANGED <<entry, private, window, legacy, world, lists, bounds>>

\* In SMM, or before SMIs work: SmiManage is called directly.
Direct ==
  /\ At("communicate")
  /\ inSmm \/ (~entry /\ opened /\ ~locked)
  /\ inSmm' = TRUE
  /\ Call([Top EXCEPT !.at = "direct", !.flag = inSmm, !.n = @ + 1],
          [Frame("manage", Top.type) EXCEPT !.up = Depth])
  /\ UNCHANGED <<entry, buffer, size, status, window, legacy, world, lists, bounds>>

DirectEnds ==
  /\ At("direct")
  /\ inSmm' = Top.flag
  /\ Become([Top EXCEPT !.at = "answered", !.flag = FALSE,
                        !.ret = IF @ = "success" THEN "success" ELSE "notfound"])
  /\ UNCHANGED <<entry, buffer, size, status, window, legacy, world, lists, bounds>>

Answered ==
  /\ At("answered")
  /\ Return([Caller EXCEPT !.reply = Top.reply])
  /\ UNCHANGED <<entry, private, window, legacy, world, lists, bounds>>

-----------------------------------------------------------------------------
\* SmmEntryPoint.

Manage(type) == Frame("manage", type)

EntryConveys ==
  /\ At("entry") /\ ~legacy /\ buffer # 0
  /\ inSmm' = TRUE
  /\ stack' = Append([stack EXCEPT ![Depth].at = "sync", ![buffer].n = @ + 1],
                     [Manage(stack[buffer].type) EXCEPT !.up = buffer])
  /\ UNCHANGED <<entry, buffer, size, status, window, legacy, world, lists, bounds>>

SyncEnds_statusKept ==
  /\ At("sync")
  /\ buffer' = 0
  /\ status' = IF Top.ret = "success" THEN "success" ELSE status
  /\ Call([Top EXCEPT !.at = "root"], Manage("root"))
  /\ UNCHANGED <<entry, inSmm, size, window, legacy, world, lists, bounds>>

SyncEnds ==
  /\ At("sync")
  /\ buffer' = 0
  /\ status' = IF Top.ret = "success" THEN "success" ELSE "notfound"
  /\ Call([Top EXCEPT !.at = "root"], Manage("root"))
  /\ UNCHANGED <<entry, inSmm, size, window, legacy, world, lists, bounds>>

\* No request, or gSmmCorePrivate is no longer there: only the root handlers.
EntryAlone ==
  /\ At("entry")
  /\ legacy \/ buffer = 0
  /\ inSmm' = IF legacy THEN inSmm ELSE TRUE
  /\ Call([Top EXCEPT !.at = "root", !.flag = legacy], Manage("root"))
  /\ UNCHANGED <<entry, buffer, size, status, window, legacy, world, lists, bounds>>

EntryEnds_stillInSmm ==
  /\ At("root")
  /\ Return(Caller)
  /\ UNCHANGED <<entry, private, window, legacy, world, lists, bounds>>

EntryEnds ==
  /\ At("root")
  /\ inSmm' = IF Top.flag THEN inSmm ELSE FALSE
  /\ Return(Caller)
  /\ UNCHANGED <<entry, buffer, size, status, window, legacy, world, lists, bounds>>

-----------------------------------------------------------------------------
\* SmiManage walks a list of handlers, which they may change meanwhile.

CoreHandlers == [dispatch |-> "find", lock |-> "lock", legacy |-> "legacy",
                 enddxe |-> "enddxe"]
HandlerFrame(h, up) ==
  [Frame(IF h \in CoreTypes THEN CoreHandlers[h] ELSE "handler", NoType)
     EXCEPT !.up = up, !.who = h, !.n = 1]

Position(h, type) == CHOOSE p \in DOMAIN handlers[type] : handlers[type][p] = h
Registered(h, type) == \E p \in DOMAIN handlers[type] : handlers[type][p] = h

ManageBegins ==
  /\ At("manage")
  /\ IF handlers[Top.type] = <<>>
       THEN Return([Caller EXCEPT !.ret = "notfound"])
       ELSE LET h == Head(handlers[Top.type]) IN
            Call([Top EXCEPT !.at = "managing", !.who = h], HandlerFrame(h, Top.up))
  /\ UNCHANGED <<entry, private, window, legacy, world, lists, bounds>>

Stops_never == FALSE

\* For a message the first handler that has dealt with it, or cannot, ends the walk.
Stops == Top.type # "root" /\ Top.ret \in {"success", "pending"}

Managed ==
  /\ At("managing")
  /\ LET good == Top.flag \/ Top.ret \in {"success", "quiesced"}
         last == Position(Top.who, Top.type) = Len(handlers[Top.type])
         next == handlers[Top.type][Position(Top.who, Top.type) + 1]
     IN IF Stops THEN Return([Caller EXCEPT !.ret = Top.ret])
        ELSE IF ~Registered(Top.who, Top.type) THEN Become([Top EXCEPT !.at = "astray"])
        ELSE IF last THEN Return([Caller EXCEPT !.ret = IF good THEN "success" ELSE Top.ret])
        ELSE Call([Top EXCEPT !.who = next, !.flag = good], HandlerFrame(next, Top.up))
  /\ UNCHANGED <<entry, private, window, legacy, world, lists, bounds>>

\* A handler returns ret; reply is what it has made of the caller's buffer, if any.
HandlerReturns(ret, reply) ==
  stack' = [i \in 1..Depth - 1 |->
              IF i = Depth - 1 THEN [stack[i] EXCEPT !.ret = ret]
              ELSE IF i = Top.up THEN [stack[i] EXCEPT !.reply = reply]
              ELSE stack[i]]

\* What is left of a list, in its order, when it is cut down to the members of T.
Only(s, T) == FlattenSeq([p \in DOMAIN s |-> IF s[p] \in T THEN <<s[p]>> ELSE <<>>])
Without(type, h) == Only(handlers[type], ToSet(handlers[type]) \ {h})

\* SmiHandlerRegister and SmiHandlerUnRegister, in the handlers of drivers.
DriverHandler ==
  /\ At("handler")
  /\ LET type == Caller.type
         once == Top.who \in OneShot
     IN /\ handlers' = IF once THEN [handlers EXCEPT ![type] = Without(type, Top.who)]
                       ELSE handlers
        /\ \E ret \in IF once THEN {"success"}
                      ELSE {"success", "pending", "quiesced", "source_pending"} :
             HandlerReturns(ret, "handled")
  /\ UNCHANGED <<entry, private, window, legacy, ready, volumes, lists, bounds>>

\* SmmReadyToLockHandler.
ReadyToLockHandler ==
  /\ At("lock")
  /\ handlers' = [handlers EXCEPT !["dispatch"] = Without("dispatch", "dispatch"),
                                  !["lock"] = Without("lock", "lock")]
  /\ ready' = ready \cup {"SmmReadyToLock"}
  /\ HandlerReturns(IF CpuIo \in ready THEN "success" ELSE "notfound", "handled")
  /\ UNCHANGED <<entry, private, window, legacy, volumes, lists, bounds>>

LegacyBootHandler ==
  /\ At("legacy")
  /\ legacy' = TRUE
  /\ HandlerReturns("success", "handled")
  /\ UNCHANGED <<entry, private, window, world, lists, bounds>>

EndOfDxeHandler ==
  /\ At("enddxe")
  /\ ready' = ready \cup {"SmmEndOfDxe"}
  /\ HandlerReturns("success", "handled")
  /\ UNCHANGED <<entry, private, window, legacy, handlers, volumes, lists, bounds>>

-----------------------------------------------------------------------------
\* SmmDriverDispatchHandler: first the volumes that have not been seen yet.  The loops
\* over file types and the a priori file use the Index of the loop over the volumes,
\* which goes on behind the length of the a priori file.

\* A volume without a device path is passed by, and seen all the same.  A driver whose
\* expression could not be read (EFI_PROTOCOL_ERROR) is not made dependent.
Readable(d) == Sealed[d] \subseteq ready

FindVolume ==
  /\ At("find") /\ Top.n <= Len(volumes)
  /\ LET v == volumes[Top.n]
         found == ToSet(Files[v])
     IN IF v \in known \cup NoPath
       THEN /\ known' = known \cup {v}
            /\ Become([Top EXCEPT !.n = @ + 1])
            /\ UNCHANGED <<discovered, dependent, unread, scheduled, request>>
       ELSE /\ known' = known \cup {v}
            /\ discovered' = discovered \o Files[v]
            /\ dependent' = dependent \cup {d \in found \ ToSet(Apriori[v]) : Readable(d)}
            /\ unread' = unread \cup {d \in found : ~Readable(d)}
            /\ scheduled' = scheduled \o Apriori[v]
            /\ request' = (request \/ Files[v] # <<>>)
            /\ Become([Top EXCEPT !.n = Len(Apriori[v]) + 2])
  /\ UNCHANGED <<entry, private, window, legacy, world, initialized, running, started, bounds>>

\* SmmDispatcher, unless there is nothing to do or it is running already.
DispatcherBegins ==
  /\ At("find") /\ Top.n > Len(volumes)
  /\ IF request /\ ~running
       THEN running' = TRUE /\ Become([Top EXCEPT !.at = "drain"])
       ELSE HandlerReturns("success", "error") /\ UNCHANGED running
  /\ UNCHANGED <<entry, private, window, legacy, world, known, discovered, dependent,
                 initialized, unread, scheduled, request, started, bounds>>

\* Take a driver off the scheduled queue, load its image and call its entry point.  One
\* that is not loaded is initialized too.
Drain ==
  /\ At("drain") /\ Top.ret # "entered" /\ scheduled # <<>>
  /\ LET d == Head(scheduled) IN
     /\ scheduled' = Tail(scheduled)
     /\ initialized' = initialized \cup {d}
     /\ \/ /\ d \in Unloadable \/ ~Readable(d)
           /\ UNCHANGED <<stack, started>>
        \/ /\ d \notin Unloadable
           /\ started' = Append(started, d)
           /\ Call(Top, [Frame("start", NoType) EXCEPT !.who = d, !.flag = entry])
  /\ UNCHANGED <<entry, private, window, legacy, world, known, discovered, dependent,
                 unread, request, running, bounds>>

\* What SmmInsertOnScheduledQueueWhileProcessingBeforeAndAfter schedules along with d,
\* and in which order, when the drivers of D are dependent: k levels deep.
Hanging[k \in 0..Cardinality(Drivers)] ==
  [D \in SUBSET Drivers |-> [d \in Drivers |->
     IF k = 0 THEN <<d>>
     ELSE LET on(rel) == Only(discovered, {b \in D : rel[b] = d})
              all(s) == FlattenSeq([i \in DOMAIN s |-> Hanging[k - 1][D][s[i]]])
          IN all(on(Before)) \o <<d>> \o all(on(After))]]

SmmIsSchedulable_needsOnly(d) == Needs[d] \subseteq ready

SmmIsSchedulable(d) ==
  Before[d] = NoDriver /\ After[d] = NoDriver /\ Needs[d] \subseteq ready

\* The search reads again the expressions that could not be read, of drivers that have
\* been started too, and goes through the discovered drivers once: those that are
\* dependent when it comes to d are the ones it has read again by then.
Reread == {d \in unread : Readable(d)}
Place(d) == CHOOSE p \in DOMAIN discovered : discovered[p] = d
DependentAt(d) == dependent \cup {b \in Reread : Place(b) <= Place(d)}

\* The queue is empty: search the discovered drivers for some that can be scheduled.
Search ==
  /\ At("drain") /\ Top.ret # "entered" /\ scheduled = <<>>
  /\ LET can == Only(discovered, {d \in dependent \cup Reread : SmmIsSchedulable(d)})
     IN /\ can # <<>>
        /\ scheduled' = FlattenSeq([i \in DOMAIN can |->
                           Hanging[Cardinality(Drivers)][DependentAt(can[i])][can[i]]])
        /\ dependent' = (dependent \cup Reread) \ ToSet(scheduled')
        /\ unread' = unread \ Reread
  /\ UNCHANGED <<entry, private, window, legacy, world, known, discovered, initialized,
                 request, running, started, stack, bounds>>

\* The search has found none.
DispatcherEnds ==
  /\ At("drain") /\ Top.ret # "entered" /\ scheduled = <<>>
  /\ \A d \in dependent \cup Reread : d \in ToSet(discovered) => ~SmmIsSchedulable(d)
  /\ dependent' = dependent \cup Reread
  /\ unread' = unread \ Reread
  /\ request' = \E d \in ToSet(discovered) : d \notin initialized
  /\ running' = FALSE
  /\ HandlerReturns("success", "success")
  /\ UNCHANGED <<entry, private, window, legacy, world, known, discovered, initialized,
                 scheduled, started, bounds>>

\* The entry point was registered by the driver just started: EFI_NOT_READY.
DispatcherRestarts_success ==
  /\ At("drain") /\ Top.ret = "entered"
  /\ request' = TRUE
  /\ running' = FALSE
  /\ HandlerReturns("success", "success")
  /\ UNCHANGED <<entry, private, window, legacy, world, known, discovered, dependent,
                 initialized, unread, scheduled, started, bounds>>

DispatcherRestarts ==
  /\ At("drain") /\ Top.ret = "entered"
  /\ request' = TRUE
  /\ running' = FALSE
  /\ HandlerReturns("success", "restart")
  /\ UNCHANGED <<entry, private, window, legacy, world, known, discovered, dependent,
                 initialized, unread, scheduled, started, bounds>>

\* A driver registers its handler and installs protocols.  The SMM configuration
\* protocol has the IPL register the entry point (SmmIplSmmConfigurationEventNotify).
StartDriver ==
  /\ At("start")
  /\ LET d == Top.who IN
     /\ handlers' = IF Registers[d] = NoType THEN handlers
                    ELSE [handlers EXCEPT ![Registers[d]] = Append(@, d)]
     /\ ready' = ready \cup Installs[d]
     /\ entry' = (entry \/ d = CpuDriver)
     /\ Become([Top EXCEPT !.at = IF Calls[d] = NoType THEN "started" ELSE "calls"])
  /\ UNCHANGED <<private, window, legacy, volumes, lists, bounds>>

StartCalls ==
  /\ At("calls")
  /\ Call([Top EXCEPT !.at = "started"], Communicate(Calls[Top.who]))
  /\ UNCHANGED <<entry, private, window, legacy, world, lists, bounds>>

StartEnds ==
  /\ At("started")
  /\ Return([Caller EXCEPT !.ret = IF entry /\ ~Top.flag THEN "entered" ELSE "none"])
  /\ UNCHANGED <<entry, private, window, legacy, world, lists, bounds>>

-----------------------------------------------------------------------------
\* The notification functions of the IPL.

\* SmmIplDxeDispatchEventNotify and SmmIplGuidedEventNotify.
NotifyPosts ==
  /\ At("notify") /\ Top.type \notin {"lock", "boot"}
  /\ Call([Top EXCEPT !.at = IF Top.type = "dispatch" THEN "again" ELSE "notified"],
          Communicate(Top.type))
  /\ UNCHANGED <<entry, private, window, legacy, world, lists, bounds>>

DispatchAgain_always ==
  /\ At("again")
  /\ IF Top.reply # "error"
       THEN /\ opened' = FALSE
            /\ Become([Top EXCEPT !.at = "notify", !.reply = "clear"])
       ELSE /\ Return(Caller)
            /\ UNCHANGED opened
  /\ UNCHANGED <<entry, private, locked, mSmmLocked, closed, legacy, world, lists, bounds>>

\* A dispatcher that asks for it is called again, through an SMI, and SMRAM closed.
DispatchAgain ==
  /\ At("again")
  /\ IF Top.reply = "restart"
       THEN /\ opened' = FALSE
            /\ Become([Top EXCEPT !.at = "notify", !.reply = "clear"])
       ELSE /\ Return(Caller)
            /\ UNCHANGED opened
  /\ UNCHANGED <<entry, private, locked, mSmmLocked, closed, legacy, world, lists, bounds>>

\* SmmIplReadyToLockEventNotify.
NotifyLocks ==
  /\ At("notify") /\ Top.type \in {"lock", "boot"}
  /\ IF mSmmLocked
       THEN Return(Caller) /\ UNCHANGED <<locked, closed>>
       ELSE /\ locked' = TRUE
            /\ closed' = TRUE
            /\ Call([Top EXCEPT !.at = "notified"], Communicate("lock"))
  /\ UNCHANGED <<entry, private, opened, mSmmLocked, legacy, world, lists, bounds>>

NotifyEnds ==
  /\ At("notified")
  /\ mSmmLocked' = (mSmmLocked \/ Top.type \in {"lock", "boot"})
  /\ Return(Caller)
  /\ UNCHANGED <<entry, private, opened, locked, closed, legacy, world, lists, bounds>>

-----------------------------------------------------------------------------
\* DXE code, events and SMIs.

\* DXE code runs, and has not started a legacy operating system.
Dxe == At("dxe") /\ ~legacy

AddVolume(v) ==
  /\ Dxe /\ v \notin ToSet(volumes)
  /\ volumes' = Append(volumes, v)
  /\ UNCHANGED <<entry, private, window, legacy, handlers, ready, lists, stack, bounds>>

CallCommunicate(type) ==
  /\ Dxe /\ calls < MaxCalls
  /\ calls' = calls + 1
  /\ Call(Top, Communicate(type))
  /\ UNCHANGED <<entry, private, window, legacy, world, lists, smis, events>>

\* At TPL_CALLBACK, one notification at a time, and in the middle of a Communicate of
\* DXE code below that level, whose flag tells so.  The platform locks SMRAM when the
\* driver of SMM CPU I/O has been started.
Signal(event) ==
  /\ event \in CloseOnLock => ~closed
  /\ event \in {"lock", "boot"} => CpuIo \in ready
  /\ events < MaxEvents
  /\ events' = events + 1
  /\ \/ Dxe /\ Call(Top, Frame("notify", event))
     \/ /\ Depth = 2 /\ ~legacy /\ Top.at \in {"size", "trigger", "sent"}
        /\ Call([Top EXCEPT !.flag = TRUE], Frame("notify", event))
  /\ UNCHANGED <<entry, private, window, legacy, world, lists, smis, calls>>

\* A device raises an SMI; it is taken as soon as the processor is not in SMM.
Smi ==
  /\ entry /\ ~InSmi
  /\ smis < MaxSmis
  /\ smis' = smis + 1
  /\ Call(Top, Frame("entry", NoType))
  /\ UNCHANGED <<entry, private, window, legacy, world, lists, events, calls>>

-----------------------------------------------------------------------------
Init ==
  /\ entry = FALSE
  /\ inSmm = FALSE /\ buffer = 0 /\ size = 0 /\ status = "success"
  /\ opened = TRUE /\ locked = FALSE /\ mSmmLocked = FALSE /\ closed = FALSE
  /\ legacy = FALSE
  /\ handlers = [t \in Types |-> IF t \in CoreTypes THEN <<t>> ELSE <<>>]
  /\ ready = {} /\ volumes \in FirstVolumes
  /\ known = {} /\ discovered = <<>> /\ dependent = {} /\ initialized = {} /\ unread = {}
  /\ scheduled = <<>> /\ request = FALSE /\ running = FALSE /\ started = <<>>
  /\ stack = <<Frame("dxe", NoType)>>
  /\ smis = 0 /\ events = 0 /\ calls = 0

Core ==
  \/ PutBuffer \/ PutSize \/ Trigger \/ Sent \/ Refuse \/ Direct \/ DirectEnds \/ Answered
  \/ EntryConveys \/ SyncEnds \/ EntryAlone \/ EntryEnds
  \/ ManageBegins \/ Managed
  \/ DriverHandler \/ ReadyToLockHandler \/ LegacyBootHandler \/ EndOfDxeHandler
  \/ FindVolume \/ DispatcherBegins \/ Drain \/ Search \/ DispatcherEnds
  \/ DispatcherRestarts \/ StartDriver \/ StartCalls \/ StartEnds
  \/ NotifyPosts \/ DispatchAgain \/ NotifyLocks \/ NotifyEnds

Next ==
  \/ Core
  \/ \E v \in Volumes : AddVolume(v)
  \/ \E t \in UserTypes : CallCommunicate(t)
  \/ \E e \in Events : Signal(e)
  \/ Smi

Spec == Init /\ [][Next]_vars

\* The processor runs on.
FairSpec == Spec /\ WF_vars(Core)

-----------------------------------------------------------------------------
Labels ==
  {"dxe", "communicate", "size", "trigger", "sent", "direct", "answered",
   "entry", "sync", "root", "manage", "managing", "handler", "lock", "legacy",
   "enddxe", "find", "drain", "start", "calls", "started", "notify", "again", "notified"}
Statuses == {"none", "success", "notfound", "invalid", "pending", "quiesced",
             "source_pending", "entered"}

\* The type of the state.  A walk over handlers never stands on one that has been
\* freed ("astray"), and a message is given to SmiManage once.
TypeOK ==
  /\ {entry, inSmm, opened, locked, mSmmLocked, closed, legacy, request, running} \subseteq BOOLEAN
  /\ buffer \in Nat /\ size \in Nat
  /\ status \in {"success", "notfound"}
  /\ handlers \in [Types -> Seq(CoreTypes \cup Drivers)]
  /\ ready \subseteq Protocols \cup {"SmmReadyToLock", "SmmEndOfDxe"}
  /\ volumes \in Seq(Volumes) /\ known \subseteq Volumes
  /\ discovered \in Seq(Drivers) /\ dependent \subseteq Drivers /\ unread \subseteq Drivers
  /\ initialized \subseteq Drivers /\ scheduled \in Seq(Drivers) /\ started \in Seq(Drivers)
  /\ stack \in Seq([at : Labels, type : Types \cup Events \cup {NoType}, up : Nat,
                    who : CoreTypes \cup Drivers \cup {NoDriver}, n : Nat, flag : BOOLEAN,
                    reply : {"clear", "handled", "success", "restart", "error"},
                    ret : Statuses])
  /\ smis \in 0..MaxSmis /\ events \in 0..MaxEvents /\ calls \in 0..MaxCalls

\* "EFI_SUCCESS  The message was successfully posted": whoever is told so had its own
\* message handled, once, whatever SMIs came in between; only a notification in the
\* middle of Communicate takes the request, or its answer, away.
OwnAnswer ==
  At("answered") =>
    /\ Top.ret = "success" => Top.reply # "clear" \/ Top.flag
    /\ Top.ret # "invalid" => Top.n = 1 \/ (Top.flag /\ Top.n = 0)

\* The handlers of a message are told the size of that message, unless the SMI came
\* between the two stores of the request.
OwnSize ==
  At("manage") /\ Caller.at = "sync" /\ stack[Top.up].at # "size" => size = Top.up

AnswersAreOwn == OwnAnswer /\ OwnSize

\* InSmm, which SmmBase2 tells to drivers and Communicate goes by, is set from the time
\* an SMI handler has started until it returns and while a message is dispatched
\* directly, and at no other time.  (An SMI that comes in a direct dispatch, once the
\* entry point is registered, clears it too early.)
InSmmTellsTheTruth ==
  LET inside(labels) == \E i \in DOMAIN stack : stack[i].at \in labels
      served == \E i \in DOMAIN stack :
                  stack[i].at \in {"sync", "root"} /\ ~stack[i].flag
  IN /\ served => inSmm
     /\ inside({"direct"}) /\ ~entry => inSmm
     /\ inSmm => served \/ inside({"direct"})

\* The rules of the dispatcher: a driver is started when what it needs is there, in the
\* order of the a priori file, after the drivers of its volume that go before it, and
\* never after SMRAM was locked; and no driver is started twice, but one of an a priori
\* file whose expression could not be read when it was found, and that one at most twice.
Starts(d) == started' = Append(started, d)
IsApriori(d) == \E v \in Volumes : d \in ToSet(Apriori[v])
DriversInOrder ==
  [][\A d \in Drivers : Starts(d) =>
       /\ d \in ToSet(started) =>
            /\ IsApriori(d) /\ Sealed[d] # {} /\ Sealed[d] \subseteq ready
            /\ \A i, j \in DOMAIN started : started[i] = d /\ started[j] = d => i = j
       /\ "SmmReadyToLock" \notin ready
       /\ ~IsApriori(d) =>
            /\ Needs[d] \subseteq ready \/ Before[d] # NoDriver \/ After[d] # NoDriver
            /\ After[d] # NoDriver => After[d] \in initialized
            /\ \A b \in Drivers, v \in Volumes :
                 /\ Before[b] = d /\ {b, d} \subseteq ToSet(Files[v]) /\ Sealed[b] = {}
                 => b \in initialized
       /\ \A v \in Volumes : \A i, j \in DOMAIN Apriori[v] :
            i < j /\ Apriori[v][j] = d => Apriori[v][i] \in initialized]_vars

\* A dispatch that is reported as complete has left no driver that it has discovered and
\* that could be started, or whose expression could be read, although the dispatcher was
\* interrupted when the entry point was registered.
Hopeless(d) ==
  \/ d \in dependent /\ ~SmmIsSchedulable(d)
  \/ d \in unread /\ ~Readable(d)
SuccessMeansAll ==
  At("again") /\ Top.reply = "success" =>
    /\ scheduled = <<>> /\ ~running
    /\ \A d \in ToSet(discovered) : d \notin initialized => Hopeless(d)

\* "If COMM_BUFFER_SMM_DISPATCH_SUCCESS is returned, then the SMM Core dispatched all
\* the drivers it could" (PiSmmCorePrivateData.h:26): of the volumes that are there and
\* can be dispatched, none has a driver left that can be read and started.
DispatchedAllItCould ==
  At("again") /\ Top.reply = "success" =>
    \A v \in ToSet(volumes) \ NoPath : \A d \in ToSet(Files[v]) :
      d \notin initialized => ~(Readable(d) /\ SmmIsSchedulable(d))

\* Every call of Communicate and every notification returns, the one that keeps
\* calling the dispatcher too.
CallsReturn == Depth > 1 ~> Depth = 1
=============================================================================
