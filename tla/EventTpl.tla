------------------------------ MODULE EventTpl ------------------------------
(***************************************************************************)
(* Events, task priority levels and timers of the DXE core                 *)
(* (MdeModulePkg/Core/Dxe/Event: Event.c, Tpl.c, Timer.c) under the timer  *)
(* interrupt of the platform (SharkBayRcPkg/Pch/SmartTimer).               *)
(*                                                                         *)
(* One processor runs a stack of frames.  The frame on top moves; the tick *)
(* may push the interrupt handler on it whenever interrupts are enabled.   *)
(* A section under gEventQueueLock runs at TPL_HIGH_LEVEL with interrupts  *)
(* disabled: it is one step, which ends with the frame of the              *)
(* CoreRestoreTpl that releases the lock.  A section under mEfiTimerLock   *)
(* runs at TPL_HIGH_LEVEL - 1 and may be interrupted: it is several steps. *)
(* Time is relative: due[e] is TriggerTime - mEfiSystemTime.               *)
(***************************************************************************)
EXTENDS Integers, Sequences, FiniteSets

CONSTANTS
  Events,       \* the events that drivers create
  CheckTimers,  \* mEfiCheckTimerEvent
  Idle,         \* gIdleLoopEvent, one of Events
  App,          \* the code that runs at TPL_APPLICATION
  NotifyTpl,    \* [Events -> {Callback, Notify}]
  NotifySignal, \* events of type EVT_NOTIFY_SIGNAL
  NotifyWait,   \* events of type EVT_NOTIFY_WAIT
  Timers,       \* events of type EVT_TIMER
  Group,        \* [Events -> groups], NoGroup when ExFlag is FALSE
  NoGroup,
  Later,        \* events that do not exist yet when the behaviour starts
  FirstQueue,   \* gEventSignalQueue when it starts
  Signals,      \* <<code, e>>: code calls SignalEvent(e)
  Arms,         \* <<code, e, type, delay>>: code calls SetTimer(e, type, delay)
  Closes,       \* <<code, e>>: code calls CloseEvent(e)
  Checks,       \* <<code, e>>: code calls CheckEvent(e)
  WaitList,     \* what the application passes to WaitForEvent, in order
  LetGo,        \* no code uses an event once its CloseEvent has begun
  Durations,    \* ticks that one timer interrupt may account for
  MaxOps,       \* calls of one notification function
  MaxNested,    \* interrupt handlers on the stack
  MaxDelay,     \* the longest delay in Arms
  MaxLate       \* ticks that may come while CoreCheckTimers runs

Application == 4
Callback == 8
Notify == 16
TimerLevel == 30
High == 31
Levels == {Callback, Notify, TimerLevel}

All == Events \cup {CheckTimers}
Code == All \cup {App}
TplOf(e) == IF e = CheckTimers THEN TimerLevel ELSE NotifyTpl[e]
GroupOf(e) == IF e = CheckTimers THEN NoGroup ELSE Group[e]
OfSignalType == NotifySignal \cup {CheckTimers}
TimerTypes == {"TimerCancel", "TimerPeriodic", "TimerRelative"}

ASSUME EventAssumption ==
  /\ CheckTimers \notin Events /\ App \notin All
  /\ Idle \in NotifySignal \ Later /\ Group[Idle] # NoGroup
  /\ NotifyTpl \in [Events -> {Callback, Notify}]
  /\ NotifySignal \subseteq Events /\ NotifyWait \subseteq Events \ NotifySignal
  /\ Timers \subseteq Events /\ Later \subseteq Events
  /\ Group \in [Events -> {Group[e] : e \in Events}]
  /\ FirstQueue \in Seq(NotifySignal \ Later)
  /\ \A e \in NotifySignal \ Later : \E p \in DOMAIN FirstQueue : FirstQueue[p] = e
  /\ Signals \subseteq Code \X Events /\ Closes \subseteq Code \X Events
  /\ Checks \subseteq Code \X (Events \ NotifySignal)
  /\ Arms \subseteq Code \X Timers \X TimerTypes \X (0..MaxDelay)
  /\ WaitList \in Seq(Events \ NotifySignal)
  /\ LetGo \in BOOLEAN /\ Durations \subseteq Nat \ {0}
  /\ MaxOps \in Nat /\ MaxNested \in Nat /\ MaxDelay \in Nat \ {0} /\ MaxLate \in Nat

\* An event is on gEventSignalQueue once.
ASSUME QueueAssumption == \A p, q \in DOMAIN FirstQueue : p < q => FirstQueue[p] # FirstQueue[q]

VARIABLES
  tpl,          \* gEfiCurrentTpl
  interrupts,   \* the interrupt flag of the processor
  pending,      \* gEventPending, as the set of its bits
  queue,        \* gEventQueue
  signalQueue,  \* gEventSignalQueue
  signalCount,  \* IEVENT.SignalCount
  status,       \* "none", "live" or "freed": the event's memory
  timers,       \* mEfiTimerList
  due,          \* IEVENT.Timer.TriggerTime - mEfiSystemTime
  period,       \* IEVENT.Timer.Period
  stack         \* the frames, the running one last

database == <<pending, queue, signalCount>>
timing == <<timers, due, period>>
cpu == <<tpl, interrupts>>
vars == <<tpl, interrupts, pending, queue, signalQueue, signalCount, status,
          timers, due, period, stack>>

-----------------------------------------------------------------------------
\* Frames: where a routine stands, the TPL it goes back to, its event, a count.

Labels == {"code", "restore", "lower", "dispatch", "notify", "isr",
           "group", "list", "relock", "expire", "signal", "rearm",
           "TimerCancel", "TimerPeriodic", "TimerRelative", "insert",
           "unlink", "free", "look", "wait"}
Frame(at, to, ev, n) == [at |-> at, to |-> to, ev |-> ev, n |-> n]
Top == stack[Len(stack)]
Below == SubSeq(stack, 1, Len(stack) - 1)
At(label) == Top.at = label
Restore(to) == Frame("restore", to, App, 0)
FramesAt(labels) == {i \in DOMAIN stack : stack[i].at \in labels}

\* The end of a section under gEventQueueLock: at TPL_HIGH_LEVEL, CoreReleaseLock
\* about to restore the owner's TPL; then the frames of base go on.
Release(base, owner) ==
  /\ tpl' = High
  /\ interrupts' = FALSE
  /\ stack' = Append(base, Restore(owner))

Without(s, e) ==
  IF \A p \in DOMAIN s : s[p] # e THEN s
  ELSE LET p == CHOOSE p \in DOMAIN s : s[p] = e
       IN SubSeq(s, 1, p - 1) \o SubSeq(s, p + 1, Len(s))
Closing == {stack[i].ev : i \in FramesAt({"unlink", "free"})}
Usable(e) == status[e] = "live" /\ (LetGo => e \notin Closing)

-----------------------------------------------------------------------------
CoreNotifyEvent_notPending(e) ==
  /\ queue' = [queue EXCEPT ![TplOf(e)] = Append(Without(@, e), e)]
  /\ UNCHANGED pending

\* CoreNotifyEvent: move the event to the tail of the queue of its level.
CoreNotifyEvent(e) ==
  /\ queue' = [queue EXCEPT ![TplOf(e)] = Append(Without(@, e), e)]
  /\ pending' = pending \cup {TplOf(e)}

\* The first locked section of CoreSignalEvent.
FirstSignal(e) == signalCount[e] = 0 /\ e \in OfSignalType
SignalsGroup(e) == FirstSignal(e) /\ GroupOf(e) # NoGroup
SignalSection_counts(e) ==
  /\ signalCount' = [signalCount EXCEPT ![e] = @ + 1]
  /\ IF FirstSignal(e) /\ ~SignalsGroup(e)
       THEN CoreNotifyEvent(e)
       ELSE UNCHANGED <<pending, queue>>

SignalSection(e) ==
  /\ signalCount' = [signalCount EXCEPT ![e] = 1]
  /\ IF FirstSignal(e) /\ ~SignalsGroup(e)
       THEN CoreNotifyEvent(e)
       ELSE UNCHANGED <<pending, queue>>

\* CoreSignalEvent called at TPL t on top of the frames of base: a group is
\* signalled in a second section, after the lock was released.
CoreSignalEvent(e, base, t) ==
  /\ SignalSection(e)
  /\ Release(IF SignalsGroup(e) THEN Append(base, Frame("group", t, e, 0)) ELSE base, t)

\* CoreNotifySignalList walks gEventSignalQueue under the lock.  The group is read
\* from the event: when it was freed meanwhile, the walk may find no member.
ListGroup ==
  /\ At("group")
  /\ tpl' = High
  /\ interrupts' = FALSE
  /\ \E first \in {1} \cup IF status[Top.ev] = "freed" THEN {Len(signalQueue) + 1} ELSE {} :
       stack' = Append(Below, [Top EXCEPT !.at = "list", !.n = first])
  /\ UNCHANGED <<database, signalQueue, status, timing>>

ListNotifies ==
  /\ At("list") /\ Top.n <= Len(signalQueue)
  /\ IF Group[signalQueue[Top.n]] = Group[Top.ev]
       THEN CoreNotifyEvent(signalQueue[Top.n])
       ELSE UNCHANGED <<pending, queue>>
  /\ stack' = Append(Below, [Top EXCEPT !.n = @ + 1])
  /\ UNCHANGED <<cpu, signalQueue, signalCount, status, timing>>

ListEnds ==
  /\ At("list") /\ Top.n > Len(signalQueue)
  /\ Release(Append(Below, [Top EXCEPT !.at = "relock"]), Top.to)
  /\ UNCHANGED <<database, signalQueue, status, timing>>

\* CoreSignalEvent takes and releases the lock once more after the group.
Relock ==
  /\ At("relock")
  /\ Release(Below, Top.to)
  /\ UNCHANGED <<database, signalQueue, status, timing>>

-----------------------------------------------------------------------------
\* CoreRestoreTpl: dispatch what the new TPL unmasks, then set it.

Unmasked_same(l) == {p \in pending : p >= l}
Unmasked(l) == {p \in pending : p > l}
Highest == CHOOSE p \in pending : \A q \in pending : q <= p

RestoreDispatches ==
  /\ At("restore") /\ Unmasked(Top.to) # {}
  /\ tpl' = Highest
  /\ interrupts' = TRUE
  /\ stack' = Append(stack, Frame("dispatch", Highest, App, 0))
  /\ UNCHANGED <<database, signalQueue, status, timing>>

\* Nothing to dispatch: with interrupts disabled nothing comes in between,
\* otherwise gEfiCurrentTpl is set some time after gEventPending was read.
RestoreEnds ==
  /\ At("restore") /\ Unmasked(Top.to) = {}
  /\ IF interrupts
       THEN /\ stack' = Append(Below, [Top EXCEPT !.at = "lower"])
            /\ UNCHANGED cpu
       ELSE /\ tpl' = Top.to
            /\ interrupts' = TRUE
            /\ stack' = Below
  /\ UNCHANGED <<database, signalQueue, status, timing>>

RestoreLowers ==
  /\ At("lower")
  /\ tpl' = Top.to
  /\ stack' = Below
  /\ UNCHANGED <<interrupts, database, signalQueue, status, timing>>

-----------------------------------------------------------------------------
\* CoreDispatchEventNotifies: take an event under the lock, release the lock,
\* call the notification function, until the queue of the level is empty.

DispatchTakes_stillSet ==
  /\ At("dispatch") /\ queue[Top.to] # <<>>
  /\ LET e == Head(queue[Top.to]) IN
     /\ queue' = [queue EXCEPT ![Top.to] = Tail(@)]
     /\ Release(Append(Below, Frame("notify", Top.to, e, 0)), tpl)
  /\ UNCHANGED <<pending, signalCount, signalQueue, status, timing>>

DispatchTakes ==
  /\ At("dispatch") /\ queue[Top.to] # <<>>
  /\ LET e == Head(queue[Top.to]) IN
     /\ queue' = [queue EXCEPT ![Top.to] = Tail(@)]
     /\ signalCount' = IF e \in OfSignalType THEN [signalCount EXCEPT ![e] = 0]
                                             ELSE signalCount
     /\ Release(Append(Below, Frame("notify", Top.to, e, 0)), tpl)
  /\ UNCHANGED <<pending, signalQueue, status, timing>>

DispatchEnds ==
  /\ At("dispatch") /\ queue[Top.to] = <<>>
  /\ pending' = pending \ {Top.to}
  /\ Release(Below, tpl)
  /\ UNCHANGED <<queue, signalQueue, signalCount, status, timing>>

CallNotify ==
  /\ At("notify")
  /\ stack' = Append(Append(Below, Frame("dispatch", Top.to, App, 0)),
                     IF Top.ev = CheckTimers THEN Frame("expire", Top.to, App, 0)
                     ELSE Frame("code", Top.to, Top.ev, MaxOps))
  /\ UNCHANGED <<cpu, database, signalQueue, status, timing>>

-----------------------------------------------------------------------------
\* CoreCheckTimers under mEfiTimerLock, at TPL_HIGH_LEVEL - 1.  The frame counts
\* in n the ticks since SystemTime was read.

TimerSections == {"TimerCancel", "TimerPeriodic", "TimerRelative", "insert"}
CheckSections == {"expire", "signal", "rearm"}
HeadExpired == timers # <<>> /\ due[Head(timers)] + Top.n <= 0

ExpireTakes ==
  /\ At("expire") /\ HeadExpired
  /\ timers' = Tail(timers)
  /\ stack' = Append(Below, [Top EXCEPT !.at = "signal", !.ev = Head(timers)])
  /\ UNCHANGED <<cpu, database, signalQueue, status, due, period>>

ExpireEnds ==
  /\ At("expire") /\ ~HeadExpired
  /\ stack' = Below
  /\ UNCHANGED <<cpu, database, signalQueue, status, timing>>

ExpireSignals ==
  /\ At("signal")
  /\ CoreSignalEvent(Top.ev, Append(Below, [Top EXCEPT !.at = "rearm"]), tpl)
  /\ UNCHANGED <<signalQueue, status, timing>>

CoreInsertEventTimer_first(e, d) == timers' = <<e>> \o timers

\* The timer event e goes in front of the first one that is due later.
CoreInsertEventTimer(e, d) ==
  LET k == CHOOSE k \in 0..Len(timers) :
             /\ \A p \in 1..k : d[timers[p]] <= d[e]
             /\ k < Len(timers) => d[timers[k + 1]] > d[e]
  IN timers' = SubSeq(timers, 1, k) \o <<e>> \o SubSeq(timers, k + 1, Len(timers))

\* A periodic timer is set again; one that is late is due at once.
Rearm ==
  /\ At("rearm")
  /\ LET e == Top.ev
         next == due[e] + period[e]
         late == next + Top.n <= 0
     IN IF period[e] # 0
          THEN /\ due' = [due EXCEPT ![e] = IF late THEN -Top.n ELSE next]
               /\ CoreInsertEventTimer(e, due')
               /\ IF late THEN SignalSection(CheckTimers) ELSE UNCHANGED database
          ELSE /\ due' = [due EXCEPT ![e] = 0]
               /\ UNCHANGED <<database, timers>>
  /\ stack' = Append(Below, [Top EXCEPT !.at = "expire", !.ev = App])
  /\ UNCHANGED <<cpu, signalQueue, status, period>>

-----------------------------------------------------------------------------
\* CoreSetTimer under mEfiTimerLock: take the event off the list, and unless it
\* is cancelled compute its time and, later, insert it.

CancelTimer ==
  /\ At("TimerCancel")
  /\ timers' = Without(timers, Top.ev)
  /\ due' = [due EXCEPT ![Top.ev] = 0]
  /\ period' = [period EXCEPT ![Top.ev] = 0]
  /\ stack' = Append(Below, Restore(Top.to))
  /\ UNCHANGED <<cpu, database, signalQueue, status>>

SetTimer ==
  /\ Top.at \in {"TimerPeriodic", "TimerRelative"}
  /\ LET periodic == At("TimerPeriodic")
         delay == IF periodic /\ Top.n = 0 THEN 1 ELSE Top.n
     IN /\ timers' = Without(timers, Top.ev)
        /\ due' = [due EXCEPT ![Top.ev] = delay]
        /\ period' = [period EXCEPT ![Top.ev] = IF periodic THEN delay ELSE 0]
        /\ stack' = Append(Below, [Top EXCEPT !.at = "insert", !.n = delay])
  /\ UNCHANGED <<cpu, database, signalQueue, status>>

InsertTimer ==
  /\ At("insert")
  /\ CoreInsertEventTimer(Top.ev, due)
  /\ IF Top.n = 0 THEN SignalSection(CheckTimers) ELSE UNCHANGED database
  /\ stack' = Append(Below, Restore(Top.to))
  /\ UNCHANGED <<cpu, signalQueue, status, due, period>>

-----------------------------------------------------------------------------
\* The second half of CoreCloseEvent, after the timer was cancelled.

Unlink ==
  /\ At("unlink")
  /\ queue' = [queue EXCEPT ![TplOf(Top.ev)] = Without(@, Top.ev)]
  /\ signalQueue' = Without(signalQueue, Top.ev)
  /\ Release(Append(Below, [Top EXCEPT !.at = "free"]), Top.to)
  /\ UNCHANGED <<pending, signalCount, status, timing>>

Free ==
  /\ At("free")
  /\ status' = [status EXCEPT ![Top.ev] = "freed"]
  /\ signalCount' = [signalCount EXCEPT ![Top.ev] = 0]
  /\ stack' = Below
  /\ UNCHANGED <<cpu, pending, queue, signalQueue, timing>>

-----------------------------------------------------------------------------
\* CoreCheckEvent and CoreWaitForEvent.

\* CoreCheckEvent on top of the frames of base: an event that is not signalled has
\* its function queued, and the release of the lock runs it when the TPL allows.
CoreCheckEvent(e, base) ==
  LET look == Append(base, Frame("look", tpl, e, 0)) IN
  IF signalCount[e] = 0 /\ e \in NotifyWait
    THEN /\ CoreNotifyEvent(e)
         /\ Release(look, tpl)
    ELSE /\ stack' = look
         /\ UNCHANGED <<cpu, pending, queue>>

Answer_goesOn(ready, base) ==
  IF base[Len(base)].at # "wait" THEN base
  ELSE [base EXCEPT ![Len(base)].n = @ + 1]

\* The caller WaitForEvent goes on with the next event, or returns.
Answer(ready, base) ==
  IF base[Len(base)].at # "wait" THEN base
  ELSE IF ready THEN SubSeq(base, 1, Len(base) - 1)
  ELSE [base EXCEPT ![Len(base)].n = @ + 1]

Look ==
  /\ At("look")
  /\ IF signalCount[Top.ev] = 0
       THEN /\ stack' = Answer(FALSE, Below)
            /\ UNCHANGED <<cpu, signalCount>>
       ELSE /\ signalCount' = [signalCount EXCEPT ![Top.ev] = 0]
            /\ Release(Answer(TRUE, Below), Top.to)
  /\ UNCHANGED <<pending, queue, signalQueue, status, timing>>

WaitChecks ==
  /\ At("wait") /\ Top.n <= Len(WaitList)
  /\ CoreCheckEvent(WaitList[Top.n], stack)
  /\ UNCHANGED <<signalQueue, signalCount, status, timing>>

WaitIdles ==
  /\ At("wait") /\ Top.n > Len(WaitList)
  /\ CoreSignalEvent(Idle, Append(Below, [Top EXCEPT !.n = 1]), tpl)
  /\ UNCHANGED <<signalQueue, status, timing>>

-----------------------------------------------------------------------------
\* Code: the application, or a notification function that still has calls left.

Running == At("code") /\ (Top.ev = App \/ Top.n > 0)
Caller == IF Top.ev = App THEN stack
          ELSE [stack EXCEPT ![Len(stack)].n = @ - 1]

CallSignal(e) ==
  /\ Running /\ <<Top.ev, e>> \in Signals /\ Usable(e)
  /\ CoreSignalEvent(e, Caller, tpl)
  /\ UNCHANGED <<signalQueue, status, timing>>

CallSetTimer(e, type, delay) ==
  /\ Running /\ <<Top.ev, e, type, delay>> \in Arms /\ Usable(e)
  /\ tpl' = TimerLevel
  /\ stack' = Append(Caller, Frame(type, tpl, e, delay))
  /\ UNCHANGED <<interrupts, database, signalQueue, status, timing>>

CallClose_stillArmed(e) ==
  /\ Running /\ <<Top.ev, e>> \in Closes /\ Usable(e)
  /\ stack' = Append(Caller, Frame("unlink", tpl, e, 0))
  /\ UNCHANGED <<cpu, database, signalQueue, status, timing>>

CallClose(e) ==
  /\ Running /\ <<Top.ev, e>> \in Closes /\ Usable(e)
  /\ LET unlink == Append(Caller, Frame("unlink", tpl, e, 0)) IN
     IF e \in Timers
       THEN /\ tpl' = TimerLevel
            /\ stack' = Append(unlink, Frame("TimerCancel", tpl, e, 0))
       ELSE /\ stack' = unlink
            /\ UNCHANGED tpl
  /\ UNCHANGED <<interrupts, database, signalQueue, status, timing>>

CallCheck(e) ==
  /\ Running /\ <<Top.ev, e>> \in Checks /\ Usable(e)
  /\ CoreCheckEvent(e, Caller)
  /\ UNCHANGED <<signalQueue, signalCount, status, timing>>

\* CoreCreateEventInternal: a new event of signal type heads gEventSignalQueue.
CallCreate(e) ==
  /\ Running /\ Top.ev = App /\ status[e] = "none"
  /\ status' = [status EXCEPT ![e] = "live"]
  /\ signalQueue' = IF e \in NotifySignal THEN <<e>> \o signalQueue ELSE signalQueue
  /\ signalCount' = [signalCount EXCEPT ![e] = 0]
  /\ Release(Caller, tpl)
  /\ UNCHANGED <<pending, queue, timing>>

CallWait ==
  /\ Running /\ Top.ev = App /\ tpl = Application /\ WaitList # <<>>
  /\ \A i \in DOMAIN WaitList : Usable(WaitList[i])
  /\ stack' = Append(Caller, Frame("wait", Application, App, 1))
  /\ UNCHANGED <<cpu, database, signalQueue, status, timing>>

CallRaise(l) ==
  /\ Running /\ tpl < l
  /\ tpl' = l
  /\ stack' = Caller
  /\ UNCHANGED <<interrupts, database, signalQueue, status, timing>>

CallRestore ==
  /\ At("code") /\ tpl > Top.to
  /\ stack' = Append(stack, Restore(Top.to))
  /\ UNCHANGED <<cpu, database, signalQueue, status, timing>>

Return ==
  /\ At("code") /\ Top.ev # App /\ tpl = Top.to
  /\ stack' = Below
  /\ UNCHANGED <<cpu, database, signalQueue, status, timing>>

-----------------------------------------------------------------------------
\* The timer interrupt: TimerInterruptHandler raises the TPL, CoreTimerTick moves
\* the time on and signals mEfiCheckTimerEvent when the first timer has expired,
\* RestoreTPL may dispatch before the handler returns.

Armed == {timers[i] : i \in DOMAIN timers}
           \cup {stack[i].ev : i \in FramesAt({"insert", "signal", "rearm"})}

Nested == Cardinality(FramesAt({"isr"}))
InTime(d) == \A i \in FramesAt(CheckSections) : stack[i].n + d <= MaxLate

\* From Oldest on it makes no difference any more how late a timer is.
Oldest == -(MaxLate + MaxDelay)
After(d, e) == IF due[e] - d > Oldest THEN due[e] - d ELSE Oldest

Tick_silent(d) ==
  /\ interrupts
  /\ Nested < MaxNested /\ InTime(d)
  /\ due' = [e \in Events |-> IF e \in Armed THEN After(d, e) ELSE due[e]]
  /\ UNCHANGED database
  /\ Release([i \in 1..Len(stack) + 1 |->
                IF i > Len(stack) THEN Frame("isr", tpl, App, 0)
                ELSE IF i \in FramesAt(CheckSections) THEN [stack[i] EXCEPT !.n = @ + d]
                ELSE stack[i]], tpl)
  /\ UNCHANGED <<signalQueue, status, timers, period>>

Tick(d) ==
  /\ interrupts
  /\ Nested < MaxNested /\ InTime(d)
  /\ due' = [e \in Events |-> IF e \in Armed THEN After(d, e) ELSE due[e]]
  /\ IF timers # <<>> /\ due'[Head(timers)] <= 0
       THEN SignalSection(CheckTimers)
       ELSE UNCHANGED database
  /\ Release([i \in 1..Len(stack) + 1 |->
                IF i > Len(stack) THEN Frame("isr", tpl, App, 0)
                ELSE IF i \in FramesAt(CheckSections) THEN [stack[i] EXCEPT !.n = @ + d]
                ELSE stack[i]], tpl)
  /\ UNCHANGED <<signalQueue, status, timers, period>>

EndOfInterrupt ==
  /\ At("isr")
  /\ stack' = Below
  /\ UNCHANGED <<cpu, database, signalQueue, status, timing>>

-----------------------------------------------------------------------------
Init ==
  /\ tpl = Application /\ interrupts = TRUE
  /\ pending = {} /\ queue = [l \in Levels |-> <<>>]
  /\ signalQueue = FirstQueue
  /\ signalCount = [e \in All |-> 0]
  /\ status = [e \in All |-> IF e \in Later THEN "none" ELSE "live"]
  /\ timers = <<>>
  /\ due = [e \in Events |-> 0] /\ period = [e \in Events |-> 0]
  /\ stack = <<Frame("code", Application, App, 0)>>

Core ==
  \/ ListGroup \/ ListNotifies \/ ListEnds \/ Relock
  \/ RestoreDispatches \/ RestoreEnds \/ RestoreLowers
  \/ DispatchTakes \/ DispatchEnds \/ CallNotify
  \/ ExpireTakes \/ ExpireEnds \/ ExpireSignals \/ Rearm
  \/ CancelTimer \/ SetTimer \/ InsertTimer \/ Unlink \/ Free
  \/ Look \/ WaitChecks \/ WaitIdles
  \/ EndOfInterrupt

Calls ==
  \/ \E e \in Events : CallSignal(e) \/ CallClose(e) \/ CallCheck(e) \/ CallCreate(e)
  \/ \E a \in Arms : CallSetTimer(a[2], a[3], a[4])
  \/ CallWait
  \/ \E l \in {Callback, Notify} : CallRaise(l)

Next ==
  \/ Core
  \/ Calls
  \/ CallRestore
  \/ Return
  \/ \E d \in Durations : Tick(d)

Spec == Init /\ [][Next]_vars

(***************************************************************************)
(* Fairness.  Code that is interrupted again and again still moves on: a   *)
(* timer interrupt is served in less than a period, and no more than       *)
(* MaxNested are under way.  Code returns and restores the TPL it raised,  *)
(* and the timer keeps interrupting.                                       *)
(***************************************************************************)
Works(n) == Nested = n /\ (Core \/ Return)
FairSpec ==
  /\ Spec
  /\ \A n \in 0..MaxNested - 1 : SF_vars(Works(n))
  /\ WF_vars(Works(MaxNested))
  /\ SF_vars(CallRestore)
  /\ SF_vars(\E d \in Durations : Tick(d))

-----------------------------------------------------------------------------
\* The type of the state.
TypeOK ==
  /\ tpl \in Levels \cup {Application, High} /\ interrupts \in BOOLEAN
  /\ pending \subseteq Levels
  /\ queue \in [Levels -> Seq(All)]
  /\ signalQueue \in Seq(NotifySignal)
  /\ signalCount \in [All -> 0..1]
  /\ status \in [All -> {"none", "live", "freed"}]
  /\ timers \in Seq(Timers)
  /\ due \in [Events -> Int] /\ period \in [Events -> Nat]
  /\ stack \in Seq([at : Labels, to : Levels \cup {Application}, ev : Code, n : Int])

Callees == OfSignalType \cup NotifyWait
Queued(e) == \E p \in DOMAIN queue[TplOf(e)] : queue[TplOf(e)][p] = e

\* CoreSignalEvent does nothing while SignalCount is set: an event whose count is
\* set and whose function is not queued could never be signalled again.  In the
\* middle of a group, and of CloseEvent, the two may differ.
NoLostSignal ==
  \A e \in OfSignalType \ Closing :
    status[e] = "live" /\ signalCount[e] = 1 => \/ Queued(e)
                          \/ \E p \in FramesAt({"group", "list"}) : stack[p].ev = e

\* CoreRestoreTpl looks at gEventPending only: the bit of a level is set as long
\* as a function is queued there, also while the level is being dispatched.
QueuedIsPending == \A l \in Levels : queue[l] # <<>> => l \in pending

\* A signal is kept until its function is called: it is queued, and the queue is
\* one that CoreRestoreTpl will look at.
SignalsAreKept == NoLostSignal /\ QueuedIsPending

\* A notification function is never entered again, nor interrupted by one of its
\* own or of a lower level, whatever the tick and nested CoreRestoreTpl do.
NotifiesNest ==
  \A p, q \in FramesAt({"dispatch", "notify"}) : p < q => stack[p].to < stack[q].to

\* The assertions of Tpl.c (104, 105), Event.c (172) and Library.c (71): TPLs are
\* only lowered by CoreRestoreTpl, a level is dispatched at its own TPL, and
\* mEfiTimerLock is never acquired while it is held.
AssertsHold ==
  /\ At("restore") => Top.to <= tpl
  /\ At("dispatch") => tpl = Top.to
  /\ Cardinality(FramesAt(TimerSections \cup CheckSections)) <= 1

\* Nothing refers to an event whose memory CloseEvent gave back: no queue, no
\* list, no routine that is under way, as long as its users let go of it.
ClosedIsForgotten ==
  \A e \in Events : status[e] = "freed" =>
    /\ \A l \in Levels : \A p \in DOMAIN queue[l] : queue[l][p] # e
    /\ \A p \in DOMAIN timers : timers[p] # e
    /\ \A p \in DOMAIN signalQueue : signalQueue[p] # e
    /\ \A p \in DOMAIN stack : stack[p].ev # e

\* CoreTimerTick looks at the first timer only: no later one may be due earlier,
\* also after late timers were set again and while others are being inserted.
TickSeesEarliest ==
  \A p, q \in DOMAIN timers : p < q => due[timers[p]] <= due[timers[q]]

\* Priorities hold, whatever the interrupt handler dispatches on its way out.
PrioritiesHold == NotifiesNest /\ AssertsHold

(***************************************************************************)
(* The services implement Notifications: an event is owed its notification *)
(* while it is queued, and its function has begun when the dispatcher has  *)
(* taken it off its queue.                                                 *)
(***************************************************************************)
Begun ==
  ({stack[p].ev : p \in FramesAt({"notify", "code"})} \ {App})
    \cup {CheckTimers : p \in FramesAt(CheckSections)}
Promised ==
  INSTANCE Notifications WITH
    Callees <- Callees,
    Level <- [e \in All |-> TplOf(e)],
    Closable <- Events,
    closing <- Closing,
    owed <- {e \in All : Queued(e)},
    running <- Begun
ImplementsNotifications == Promised!Spec

\* A timer interrupt that comes while code still runs above TPL_APPLICATION.
Overrun == \E p \in FramesAt({"isr"}) : stack[p].to > Application

\* The queues drain: every queued notification function is called in the end, also
\* one that the race between the tick and the end of CoreRestoreTpl left pending,
\* unless timer interrupts keep coming before the work of the last ones is done.
QueuesDrain == \A l \in Levels : queue[l] # <<>> ~> queue[l] = <<>> \/ Overrun

\* An expired timer is signalled in the end, whatever happened between the reading
\* of the time and the insertion of the timer.
Expired(e) == e \in Armed /\ due[e] <= 0
ExpiredIsSignalled == \A e \in Timers : Expired(e) ~> ~Expired(e) \/ Overrun

WorkIsDone == QueuesDrain /\ ExpiredIsSignalled

\* WaitForEvent returns when an event of its list is signalled.
Waiting == FramesAt({"wait"}) # {}
WaitReturns ==
  \A p \in DOMAIN WaitList :
    Waiting /\ signalCount[WaitList[p]] = 1 ~> ~Waiting \/ Overrun
=============================================================================
