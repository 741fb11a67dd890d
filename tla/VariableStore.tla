---------------------------- MODULE VariableStore ----------------------------
(* The non-volatile half of the variable driver (InsydeModulePkg/Universal/  *)
(* Variable/VariableRuntimeDxe).  The store in flash is a list of variables  *)
(* behind one another; a variable is changed by writing a new copy at the    *)
(* end, in four steps, between marking the old copy "in deleted transition"  *)
(* and "deleted".  State bits can only be cleared.  When there is no room    *)
(* left the live copies are rewritten through FTW Lite, which this module    *)
(* takes at its word (module AtomicStore): the write happens, or it does not.*)
(*                                                                           *)
(* A step is one access that changes the flash, with the code in memory that *)
(* follows it up to the next one; power can be lost between any two, and in  *)
(* the middle of one.  A copy of the list is kept in memory for reading.     *)

EXTENDS Naturals, Sequences, FiniteSets

CONSTANTS
  Names,          \* the variables, with NeedReclaim
  NeedReclaim,    \* NEED_DO_RECLAIM_NAME, the driver's own
  Values,         \* what a variable may hold
  Absent,         \* in a request: delete the variable
  Size,           \* [Names -> Nat], what a copy takes, header and padding included
  Capacity,       \* what the store holds
  Threshold,      \* VARIABLE_RECLAIM_THRESHOLD
  Preserved,      \* the variables of PreservedVariableTable, and the authenticated ones
  HasTable,       \* PreservedVariableTable is not NULL
  NoRequest,      \* nobody is setting a variable
  Off,            \* NonVolatileVariableCache is NULL
  RuntimeReclaim, \* PcdRuntimeReclaimSupported
  Deletes,        \* how callers delete: "size" 0, or "access" attributes 0
  MaxSets,        \* bound: calls of SetVariable
  MaxCrashes,     \* bound: losses of power
  MaxErrors,      \* bound: flash accesses that report an error
  MaxMisses,      \* bound: writes that report success and did not take
  FaultsMix       \* power is also lost where accesses have failed, and they fail after

ASSUME VariableAssumption ==
  /\ NeedReclaim \in Names
  /\ Size \in [Names -> Nat \ {0}]
  /\ Capacity \in Nat /\ Threshold \in Nat
  /\ Size[NeedReclaim] =< Threshold
  /\ Preserved \subseteq Names
  /\ Absent \notin Values
  /\ Deletes \subseteq {"size", "access"}
  /\ RuntimeReclaim \in BOOLEAN /\ HasTable \in BOOLEAN
  /\ MaxSets \in Nat /\ MaxCrashes \in Nat
  /\ MaxErrors \in Nat /\ MaxMisses \in Nat /\ FaultsMix \in BOOLEAN

(* MAX_TRY_SET_VARIABLE_TIMES.                                               *)
MaxTry == 2

(* The bits of State that have been cleared: 0xFF is {}.                     *)
HeaderValidOnly == {"header"}                 \* 0x7f
Added           == {"header", "added"}        \* 0x3f
InDeletion      == Added \cup {"transition"}  \* 0x3e
StateBits       == InDeletion \cup {"deleted"}

(* Data that has not been written, or only in part.                          *)
Blank == "blank"
Broken == "broken"

Copy == [name : Names, val : Values \cup {Blank, Broken}, state : SUBSET StateBits]

Requests == [name : Names \ {NeedReclaim}, val : Values \cup {Absent},
             by : Deletes \cup {"data"}]

ASSUME RequestAssumption ==
  NoRequest \notin Requests \cup [name : Names, val : Values \cup {Absent}]

VARIABLES
  list,       \* flash: the copies with a valid header, in order
  tail,       \* flash: behind them "clean", "dirty", or only a "stray" State
  cache,      \* NonVolatileVariableCache, a list too
  phase,      \* "post", then "os" from ready to boot on
  pc,         \* the next access to flash, or "idle", or "dead"
  st,         \* Status of UpdateVariable
  req,        \* what the caller of SetVariable asked for
  reply,      \* what the last call of SetVariable returned
  op,         \* the local variables of UpdateVariable
  sets, crashes, errors, misses

flash  == <<list, tail>>
caller == <<req, reply>>
bounds == <<sets, crashes, errors, misses>>
vars == <<list, tail, cache, phase, pc, st, req, reply, op, sets, crashes,
          errors, misses>>

-----------------------------------------------------------------------------
(* Lists of copies.                                                          *)

Least(S) == CHOOSE i \in S : \A j \in S : i =< j
Greatest(S) == CHOOSE i \in S : \A j \in S : i >= j

(* The offset behind the last copy of l.                                     *)
Used(l) ==
  LET offset[k \in 0 .. Len(l)] ==
        IF k = 0 THEN 0 ELSE offset[k - 1] + Size[l[k].name]
  IN offset[Len(l)]

AddedCopies(l, n) == {i \in DOMAIN l : l[i].name = n /\ l[i].state = Added}
OldCopies(l, n) == {i \in DOMAIN l : l[i].name = n /\ l[i].state = InDeletion}

(* FindVariable: the first copy that is added, else the last of those in     *)
(* transition, else none, 0.                                                 *)
FindVariable(l, n) ==
  IF AddedCopies(l, n) # {} THEN Least(AddedCopies(l, n))
  ELSE IF OldCopies(l, n) # {} THEN Greatest(OldCopies(l, n))
  ELSE 0

(* More than one copy has been met before the search ended.                  *)
SeveralFound(l, n) ==
  IF AddedCopies(l, n) # {}
  THEN \E i \in OldCopies(l, n) : i < FindVariable(l, n)
  ELSE Cardinality(OldCopies(l, n)) > 1

ExistNewerVariable(l, i) ==
  \E j \in DOMAIN l : /\ j > i
                      /\ l[j].name = l[i].name
                      /\ l[j].state \in {Added, InDeletion}

(* What a caller of GetVariable finds in l.                                  *)
Value(l, n) == IF FindVariable(l, n) = 0 THEN Absent ELSE l[FindVariable(l, n)].val

Ranked(S, k) == CHOOSE i \in S : Cardinality({j \in S : j =< i}) = k

(* The copies of l whose index is in S, in order.                            *)
Pick(l, S) == [k \in 1 .. Cardinality(S) |-> l[Ranked(S, k)]]

Kept_addedOnly(l) == {i \in DOMAIN l : l[i].state = Added}
Kept_everything(l) == DOMAIN l

(* The copies that a reclaim keeps.                                          *)
Kept(l) == {i \in DOMAIN l : \/ l[i].state = Added
                             \/ l[i].state = InDeletion /\ ~ExistNewerVariable(l, i)}

(* Reclaim: the copies kept; one in transition is added again, unless it is  *)
(* the current one, or there is no CurrentVariable.                          *)
Reclaimed(l, cur, restore) ==
  Pick([i \in DOMAIN l |-> IF restore /\ i # cur THEN [l[i] EXCEPT !.state = Added]
                                                 ELSE l[i]], Kept(l))

(* Where Reclaim says the current variable is now.                           *)
Moved(l, cur) ==
  IF cur \in Kept(l) /\ l[cur].state = InDeletion
  THEN Cardinality({i \in Kept(l) : i =< cur}) ELSE 0

(* What ReclaimNonVolatileVariable keeps besides the new variable: no copy   *)
(* of the variable itself.  ElimateVariableWhenRegionFull keeps less, and    *)
(* does nothing, not even set the size of what it keeps, without a table.    *)
KeptBeside(l, n) == {i \in Kept(l) : l[i].name # n}
KeptWhenFull(l, n) == {i \in KeptBeside(l, n) : l[i].name \in Preserved}

AddedAgain(l, S) == Pick([i \in DOMAIN l |-> [l[i] EXCEPT !.state = Added]], S)

Fits_newNotCounted(l, n) == Used(l) < Capacity

Fits(l, n) == Used(l) + Size[n] =< Capacity

SizeIsUnset(l, n) == ~HasTable /\ ~Fits(AddedAgain(l, KeptBeside(l, n)), n)

(* The list ReclaimNonVolatileVariable writes, or <<>> when nothing fits.    *)
WithNew(l, n, v) ==
  LET new  == [name |-> n, val |-> v, state |-> Added]
      all  == AddedAgain(l, KeptBeside(l, n))
      some == AddedAgain(l, KeptWhenFull(l, n))
  IN IF Fits(all, n) THEN Append(all, new)
     ELSE IF Fits(some, n) THEN Append(some, new)
     ELSE <<>>

-----------------------------------------------------------------------------
(* UpdateVariableStore: one access, to flash and then to the cache.  An      *)
(* access that reports an error turns the cache off.                         *)

NoFault == UNCHANGED <<errors, misses>>
MayFail == FaultsMix \/ crashes = 0
Misses == MayFail /\ misses < MaxMisses /\ misses' = misses + 1 /\ UNCHANGED errors

Soiled == IF tail = "stray" THEN "stray" ELSE "dirty"

FlashIn(S) == \E f \in S : list' = f[1] /\ tail' = f[2]

AccessFails ==
  /\ MayFail /\ errors < MaxErrors
  /\ errors' = errors + 1
  /\ cache' = Off
  /\ UNCHANGED <<flash, misses>>

(* The State byte of copy i; in the cache it becomes what was written.  If   *)
(* there is no valid header at i, a byte behind the list changes.            *)
WriteState(i, state) ==
  /\ IF i \in DOMAIN list
     THEN list' = [list EXCEPT ![i].state = @ \cup state] /\ UNCHANGED tail
     ELSE /\ tail' = IF "added" \in state THEN "stray" ELSE Soiled
          /\ UNCHANGED list
  /\ cache' = IF cache = Off \/ i \notin DOMAIN cache THEN cache
              ELSE [cache EXCEPT ![i].state = state]
  /\ NoFault

ClearBits(i, bits) == WriteState(i, list[i].state \cup bits)

FtwVariableSpace_cacheKept(l) ==
  /\ list' = l /\ tail' = "clean"
  /\ UNCHANGED cache
  /\ NoFault

(* FtwVariableSpace: the whole store becomes l.                              *)
FtwVariableSpace(l) ==
  /\ list' = l /\ tail' = "clean"
  /\ cache' = IF cache = Off THEN Off ELSE l
  /\ NoFault

-----------------------------------------------------------------------------
(* SetVariable, up to the first access.                                      *)

NoOp == [name |-> NeedReclaim, val |-> Absent, cur |-> 0, at |-> 0,
         tries |-> 0, scan |-> 1, nested |-> FALSE]

Op == [name : Names, val : Values \cup {Absent}, cur : Nat, at : Nat,
       tries : 0 .. MaxTry, scan : Nat, nested : BOOLEAN]

(* The list that FindVariable walks.                                         *)
View == IF cache = Off THEN list ELSE cache

AtRuntimeUnreclaimed == phase = "os" /\ ~RuntimeReclaim

SetVariable ==
  /\ pc = "idle"
  /\ sets < MaxSets
  /\ sets' = sets + 1
  /\ reply' = "none"
  /\ \E r \in Requests :
       /\ (r.val = Absent) = (r.by \in Deletes)
       /\ req' = r
       /\ op' = [NoOp EXCEPT !.name = r.name, !.val = r.val,
                             !.cur = FindVariable(View, r.name)]
       /\ pc' = IF r.by # "access" /\ SeveralFound(View, r.name)
                THEN "clean" ELSE "update"
  /\ UNCHANGED <<flash, cache, phase, st, crashes, errors, misses>>

(* The copies that a loss of power left behind a newer one.                  *)
Outdated(n) == {i \in OldCopies(list, n) : i >= op.scan /\ ExistNewerVariable(list, i)}

(* DeleteAllOldVariable; its status is not looked at.                        *)
DeleteAllOldVariable ==
  /\ pc = "clean"
  /\ IF Outdated(op.name) = {}
     THEN pc' = "update" /\ UNCHANGED <<flash, cache, op, errors, misses>>
     ELSE /\ \/ ClearBits(Least(Outdated(op.name)), {"deleted"})
             \/ AccessFails
          /\ op' = [op EXCEPT !.scan = Least(Outdated(op.name)) + 1]
          /\ UNCHANGED pc
  /\ UNCHANGED <<phase, st, caller, sets, crashes>>

Return(status) == pc' = "done" /\ st' = status
Goto(label) == pc' = label /\ UNCHANGED st

-----------------------------------------------------------------------------
(* UpdateVariable.                                                           *)

UpdateNothing ==
  /\ pc = "update"
  /\ \/ op.cur = 0 /\ op.val = Absent /\ Return("notfound")
     \/ op.cur = 0 /\ op.val # Absent /\ Goto("sync")
     \/ op.cur # 0 /\ list[op.cur].val = op.val /\ Return("success")
  /\ UNCHANGED <<flash, cache, phase, caller, op, bounds>>

DeleteVariable ==
  /\ pc = "update"
  /\ op.cur # 0 /\ op.val = Absent
  /\ \/ ClearBits(op.cur, {"deleted"}) /\ Return("success")
     \/ AccessFails /\ Return("error")
  /\ UNCHANGED <<phase, caller, op, sets, crashes>>

MarkOld_forgotten ==
  /\ pc = "update"
  /\ op.cur # 0 /\ op.val # Absent /\ list[op.cur].val # op.val
  /\ Goto("sync")
  /\ UNCHANGED <<flash, cache, phase, caller, op, bounds>>

MarkOld_deleted ==
  /\ pc = "update"
  /\ op.cur # 0 /\ op.val # Absent /\ list[op.cur].val # op.val
  /\ ClearBits(op.cur, {"deleted"}) /\ Goto("sync")
  /\ UNCHANGED <<phase, caller, op, sets, crashes>>

(* Mark the old variable as in delete transition.                            *)
MarkOld ==
  /\ pc = "update"
  /\ op.cur # 0 /\ op.val # Absent /\ list[op.cur].val # op.val
  /\ \/ ClearBits(op.cur, {"transition"}) /\ Goto("sync")
     \/ AccessFails /\ Return("error")
  /\ UNCHANGED <<phase, caller, op, sets, crashes>>

(* The cache is flushed when it does not end where the store ends, and the   *)
(* old variable looked up again.                                             *)
SyncCache ==
  /\ pc = "sync"
  /\ IF cache = Off \/ Used(cache) = Used(list)
     THEN Goto("room") /\ UNCHANGED <<flash, cache, op, errors, misses>>
     ELSE /\ op' = [op EXCEPT !.cur = FindVariable(list, op.name)]
          /\ \/ /\ AddedCopies(list, op.name) # {}
                /\ list' = [list EXCEPT ![op'.cur].state = InDeletion]
                /\ cache' = list'
                /\ UNCHANGED tail /\ NoFault /\ Goto("room")
             \/ /\ AddedCopies(list, op.name) # {}
                /\ AccessFails /\ Return("error")
             \/ /\ AddedCopies(list, op.name) = {}
                /\ cache' = list
                /\ UNCHANGED flash /\ NoFault /\ Goto("room")
  /\ UNCHANGED <<phase, caller, sets, crashes>>

(* When the size of what is kept was never set, its value decides: the call  *)
(* is refused, or the new variable is written wherever it points, over other *)
(* ones.  What becomes of such a store is not followed ("astray").           *)
CheckRoom ==
  /\ pc = "room"
  /\ op' = [op EXCEPT !.at = Len(list) + 1]
  /\ IF Fits(list, op.name)
     THEN Goto("header")
     ELSE IF AtRuntimeUnreclaimed
     THEN Goto("remember")
     ELSE IF SizeIsUnset(list, op.name)
     THEN Return("full") \/ Goto("astray")
     ELSE IF WithNew(list, op.name, op.val) = <<>>
     THEN Return("full")
     ELSE Goto("ftw")
  /\ UNCHANGED <<flash, cache, phase, caller, bounds>>

(* ReclaimNonVolatileVariable writes the new variable along with the others. *)
ReclaimNonVolatileVariable ==
  /\ pc = "ftw"
  /\ \/ /\ FtwVariableSpace(WithNew(list, op.name, op.val))
        /\ Return("success")
     \/ AccessFails /\ Return("error")
  /\ UNCHANGED <<phase, caller, op, sets, crashes>>

SetDoReclaimNextBoot_unguarded ==
  /\ pc = "remember"
  /\ IF FindVariable(View, NeedReclaim) # 0
     THEN Return("full") /\ UNCHANGED op
     ELSE /\ op' = [NoOp EXCEPT !.val = CHOOSE v \in Values : TRUE, !.nested = TRUE]
          /\ Goto("sync")
  /\ UNCHANGED <<flash, cache, phase, caller, bounds>>

SetDoReclaimNextBoot_never ==
  /\ pc = "remember"
  /\ Return("full")
  /\ UNCHANGED <<flash, cache, phase, caller, op, bounds>>

(* SetDoReclaimNextBoot, when the store must not be reclaimed any more: a    *)
(* variable of the driver's own asks the next boot to do it.                 *)
SetDoReclaimNextBoot ==
  /\ pc = "remember"
  /\ IF \/ Capacity - Used(list) < Threshold
        \/ FindVariable(View, NeedReclaim) # 0
     THEN Return("full") /\ UNCHANGED op
     ELSE /\ op' = [NoOp EXCEPT !.val = CHOOSE v \in Values : TRUE, !.nested = TRUE]
          /\ Goto("sync")
  /\ UNCHANGED <<flash, cache, phase, caller, bounds>>

-----------------------------------------------------------------------------
(* The four steps.                                                           *)

NewCopy(state) == [name |-> op.name, val |-> Blank, state |-> state]

(* Step 1 writes the header: over blank space; over a State byte that is     *)
(* there already; or over the remains of an earlier header, where it may not *)
(* be valid, or be another one.                                              *)
HeaderWritten ==
  CASE tail = "clean" -> {<<Append(list, NewCopy({})), tail>>}
    [] tail = "stray" -> {<<Append(list, NewCopy(Added)), "clean">>}
    [] tail = "dirty" -> {<<list, tail>>, <<Append(list, NewCopy({})), tail>>,
                          <<Append(list, [NewCopy({}) EXCEPT !.val = Broken]), tail>>}

(* A part of the header: the copy does not count until its sizes are there.  *)
HeaderTorn == {<<list, tail>>, <<list, Soiled>>, <<Append(list, NewCopy({})), tail>>}

(* Step 3 writes name and data.                                              *)
DataWritten ==
  IF op.at \notin DOMAIN list THEN {<<list, Soiled>>}
  ELSE {<<[list EXCEPT ![op.at].val = v], tail>> :
          v \in IF list[op.at].val # Blank THEN {Broken}
                ELSE IF tail = "dirty" THEN {op.val, Broken} ELSE {op.val}}

DataTorn ==
  IF op.at \notin DOMAIN list THEN {<<list, tail>>, <<list, Soiled>>}
  ELSE {<<list, tail>>, <<[list EXCEPT ![op.at].val = Broken], tail>>}

WriteHeader ==
  /\ pc = "header"
  /\ \/ /\ \/ FlashIn(HeaderWritten) /\ NoFault
           \/ FlashIn(HeaderTorn) /\ Misses
        /\ cache' = IF cache = Off THEN Off ELSE Append(cache, NewCopy({}))
        /\ Goto("state")
     \/ AccessFails /\ Return("error")
  /\ UNCHANGED <<phase, caller, op, sets, crashes>>

WriteHeaderValid ==
  /\ pc = "state"
  /\ \/ WriteState(op.at, HeaderValidOnly) /\ Goto("data")
     \/ AccessFails /\ Return("error")
  /\ UNCHANGED <<phase, caller, op, sets, crashes>>

IsCorrectVariable(l, i) ==
  i \in DOMAIN l /\ l[i] = [name |-> op.name, val |-> op.val,
                            state |-> HeaderValidOnly]

WriteData ==
  /\ pc = "data"
  /\ op' = [op EXCEPT !.tries = @ + 1]
  /\ \/ /\ \/ FlashIn(DataWritten) /\ NoFault
           \/ FlashIn(DataTorn) /\ Misses
        /\ cache' = IF cache = Off THEN Off
                    ELSE [cache EXCEPT ![op.at].val = op.val]
        /\ IF IsCorrectVariable(list', op.at) THEN Goto("added")
           ELSE IF AtRuntimeUnreclaimed THEN Return("full")
           ELSE Goto("retry")
     \/ AccessFails /\ Return("error")
  /\ UNCHANGED <<phase, caller, sets, crashes>>

(* Reclaim drops the copy that could not be written.                         *)
Retry ==
  /\ pc = "retry"
  /\ \/ /\ FtwVariableSpace(Reclaimed(list, op.cur, TRUE))
        /\ op' = [op EXCEPT !.cur = Moved(list, @), !.at = Len(list') + 1]
        /\ Goto(IF op.tries < MaxTry THEN "header" ELSE "added")
     \/ AccessFails /\ Return("error") /\ UNCHANGED op
  /\ UNCHANGED <<phase, caller, sets, crashes>>

WriteAdded ==
  /\ pc = "added"
  /\ \/ /\ WriteState(op.at, Added)
        /\ IF op.cur # 0 THEN Goto("old") ELSE Return("success")
     \/ AccessFails /\ Return("error")
  /\ UNCHANGED <<phase, caller, op, sets, crashes>>

(* Mark the old variable as deleted.                                         *)
DeleteOld ==
  /\ pc = "old"
  /\ \/ ClearBits(op.cur, {"deleted"}) /\ Return("success")
     \/ AccessFails /\ Return("error")
  /\ UNCHANGED <<phase, caller, op, sets, crashes>>

(* Done: SetVariable returns the status, except that a caller refused for    *)
(* want of room is told so whatever became of the driver's own variable.     *)
Done ==
  /\ pc = "done"
  /\ pc' = "idle"
  /\ reply' = IF op.nested THEN "full" ELSE st
  /\ req' = NoRequest
  /\ op' = NoOp
  /\ UNCHANGED <<flash, cache, phase, st, bounds>>

-----------------------------------------------------------------------------
(* ReadyToBootCallback, and from there on the operating system.              *)

NeedDoReclaim == ~RuntimeReclaim /\ FindVariable(View, NeedReclaim) # 0

ReclaimForOS ==
  /\ pc = "idle" /\ phase = "post"
  /\ phase' = "os"
  /\ IF Capacity - Used(list) < Threshold \/ NeedDoReclaim
     THEN Goto("reclaim") ELSE Goto("idle")
  /\ UNCHANGED <<flash, cache, caller, op, bounds>>

(* Reclaim without a current variable, here and in VariableCommonInitialize. *)
Reclaim ==
  /\ pc = "reclaim"
  /\ \/ /\ FtwVariableSpace(Reclaimed(list, 0, FALSE))
        /\ Goto(IF phase = "os" THEN "forget" ELSE "idle")
     \/ AccessFails /\ Goto(IF phase = "os" THEN "idle" ELSE "dead")
  /\ UNCHANGED <<phase, caller, op, sets, crashes>>

(* DeleteNeedDoReclaimVariable.                                              *)
ForgetReclaim ==
  /\ pc = "forget"
  /\ Goto("idle")
  /\ IF NeedDoReclaim
     THEN \/ ClearBits(FindVariable(View, NeedReclaim), {"deleted"})
          \/ AccessFails
     ELSE UNCHANGED <<flash, cache, errors, misses>>
  /\ UNCHANGED <<phase, caller, op, sets, crashes>>

(* VariableCommonInitialize.                                                 *)
Boot ==
  /\ pc = "boot"
  /\ cache' = list
  /\ Goto(IF Capacity - Used(list) < Threshold THEN "reclaim" ELSE "idle")
  /\ UNCHANGED <<flash, phase, caller, op, bounds>>

-----------------------------------------------------------------------------
(* Loss of power.                                                            *)

(* What the interrupted access may leave behind.                             *)
Torn ==
  CASE pc = "header"  -> HeaderTorn
    [] pc = "data"    -> DataTorn
    [] pc = "ftw"     -> {flash, <<WithNew(list, op.name, op.val), "clean">>}
    [] pc = "retry"   -> {flash, <<Reclaimed(list, op.cur, TRUE), "clean">>}
    [] pc = "reclaim" -> {flash, <<Reclaimed(list, 0, FALSE), "clean">>}
    [] OTHER          -> {flash}

Crash ==
  /\ pc # "astray"
  /\ crashes < MaxCrashes /\ (FaultsMix \/ errors + misses = 0)
  /\ crashes' = crashes + 1
  /\ FlashIn(Torn)
  /\ cache' = Off
  /\ phase' = "post"
  /\ pc' = "boot" /\ st' = "success"
  /\ req' = NoRequest /\ reply' = "none"
  /\ op' = NoOp
  /\ UNCHANGED <<sets, errors, misses>>

-----------------------------------------------------------------------------
Init ==
  /\ list = <<>> /\ tail = "clean"
  /\ cache = Off
  /\ phase = "post"
  /\ pc = "boot" /\ st = "success"
  /\ req = NoRequest /\ reply = "none"
  /\ op = NoOp
  /\ sets = 0 /\ crashes = 0 /\ errors = 0 /\ misses = 0

Driver ==
  \/ DeleteAllOldVariable
  \/ UpdateNothing \/ DeleteVariable \/ MarkOld
  \/ SyncCache \/ CheckRoom \/ ReclaimNonVolatileVariable
  \/ SetDoReclaimNextBoot
  \/ WriteHeader \/ WriteHeaderValid \/ WriteData \/ Retry \/ WriteAdded
  \/ DeleteOld \/ Done
  \/ Reclaim \/ ForgetReclaim \/ Boot

Next == Driver \/ SetVariable \/ ReclaimForOS \/ Crash

Spec == Init /\ [][Next]_vars

(* The driver runs on until it returns.                                      *)
FairSpec == Spec /\ WF_vars(Driver)

-----------------------------------------------------------------------------
(* Properties.                                                               *)

Labels == {"boot", "idle", "dead", "clean", "update", "sync", "room", "ftw",
           "remember", "header", "state", "data", "retry", "added", "old",
           "done", "reclaim", "forget"}

(* Every variable has its type, and the copies in flash fit in the store.    *)
TypeOK ==
  /\ list \in Seq(Copy) /\ Used(list) =< Capacity
  /\ tail \in {"clean", "dirty", "stray"}
  /\ cache = Off \/ cache \in Seq(Copy)
  /\ phase \in {"post", "os"}
  /\ pc \in Labels
  /\ st \in {"success", "error", "full", "notfound"}
  /\ req \in Requests \cup {NoRequest}
  /\ reply \in {"none", "success", "error", "full", "notfound"}
  /\ op \in Op
  /\ sets \in 0 .. MaxSets /\ crashes \in 0 .. MaxCrashes
  /\ errors \in 0 .. MaxErrors /\ misses \in 0 .. MaxMisses

(* A call of SetVariable changes the variable it names, and no other, in one *)
(* step or never, whatever is lost or fails on the way, and is only answered *)
(* with success when the value is there; other variables are given up only   *)
(* when what is stored leaves no room for the new value.                     *)
Map == INSTANCE VariableMap WITH
  map <- [n \in Names |-> Value(list, n)],
  pending <- IF req = NoRequest THEN NoRequest
             ELSE [name |-> req.name, val |-> req.val]

ImplementsMap == Map!Spec

(* "Setting a data variable with no access, or zero DataSize attributes      *)
(* specified causes it to be deleted" (UpdateVariable): when the call has    *)
(* succeeded no older value of the variable comes back.                      *)
DeletedIsGone ==
  [][reply' = "success" /\ reply # "success" /\ req.val = Absent =>
       Value(list, req.name) = Absent]_vars

(* A reader is served from memory and sees, at any moment of an update, what *)
(* a reader of the flash would see, and what would be found after a loss of  *)
(* power at that moment.                                                     *)
CacheTellsTheTruth ==
  cache # Off => \A n \in Names : Value(cache, n) = Value(list, n)

(* No variable is found twice: of the copies of a variable one at most has   *)
(* been added and not been superseded.                                       *)
OneAddedCopy == \A n \in Names : Cardinality(AddedCopies(list, n)) =< 1

(* "This fucniton elimates all the variables except authenticated variables  *)
(* and the variables form mVariableModuleGlobal->PreservedVariableTable"     *)
(* (Variable.c:5267): a call is refused for want of room only when what must *)
(* be preserved leaves none, however many dead copies fill the store.        *)
RefusedForAReason ==
  [][reply' = "full" /\ reply # "full" /\ ~AtRuntimeUnreclaimed =>
       Map!Full([n \in Names |-> IF n \in Preserved THEN Value(list, n) ELSE Absent],
                req.name)]_vars

(* When the store must not be reclaimed any more, whoever is refused for     *)
(* want of room can rely on the next boot to make some: the free space is    *)
(* below the threshold, or the driver's own variable asks for it.            *)
RefusalIsRemembered ==
  [][reply' = "full" /\ reply # "full" /\ AtRuntimeUnreclaimed =>
       \/ Capacity - Used(list) < Threshold
       \/ Value(list, NeedReclaim) # Absent]_vars

(* Every call returns, or has written a variable over others for want of a   *)
(* table of preserved variables.                                             *)
SetVariableReturns == (req # NoRequest) ~> (req = NoRequest \/ pc = "astray")
=============================================================================
