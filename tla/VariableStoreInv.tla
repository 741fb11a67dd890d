--------------------------- MODULE VariableStoreInv ---------------------------
(* The inductive invariant of VariableStore for a flash in which an access   *)
(* that reports success has taken: accesses may fail and power may be lost,  *)
(* in any order, and interrupted writes leave their remains.                 *)
(* And what a call will be answered, step by step.                           *)

EXTENDS VariableStore

(* What the driver relies on: no write reports success without having taken, *)
(* and there is a table of preserved variables.                              *)
Dependable == MaxMisses = 0 /\ HasTable

Live == {Added, InDeletion}

IsLive(c) == c.state \in Live

LiveCopies(l, n) == {i \in DOMAIN l : l[i].name = n /\ IsLive(l[i])}

(* k is the newest live copy of n, 0 if there is none.                       *)
Newest(l, n, k) ==
  \/ k = 0 /\ LiveCopies(l, n) = {}
  \/ k \in LiveCopies(l, n) /\ \A i \in LiveCopies(l, n) : i =< k

(* An added copy is newer than every other live copy of its variable, and    *)
(* what is live has been written in full.                                    *)
Ordered(l) ==
  \A n \in Names : \A i \in AddedCopies(l, n) : \A j \in LiveCopies(l, n) : j =< i

Whole(l) == \A i \in DOMAIN l : IsLive(l[i]) => l[i].val \in Values

(* The cache shows what the flash holds, where it matters to a reader; it    *)
(* may have one copy more, whose header did not become valid.                *)
Shows(c, f) == /\ c.name = f.name
               /\ (IsLive(c) \/ IsLive(f)) => c = f

Mirrors(c, l) ==
  /\ Len(c) \in {Len(l), Len(l) + 1}
  /\ \A i \in DOMAIN l : Shows(c[i], l[i])
  /\ Len(c) = Len(l) + 1 => ~IsLive(c[Len(c)])

(* The types, without those of the local variables.                          *)
DataOK ==
  /\ list \in Seq(Copy) /\ Used(list) =< Capacity
  /\ tail \in {"clean", "dirty"}
  /\ cache = Off \/ cache \in Seq(Copy)
  /\ phase \in {"post", "os"}
  /\ pc \in Labels
  /\ st \in {"success", "error", "full", "notfound"}
  /\ req \in Requests \cup {NoRequest}
  /\ reply \in {"none", "success", "error", "full", "notfound"}
  /\ op \in Op
  /\ sets \in 0 .. MaxSets /\ crashes \in 0 .. MaxCrashes
  /\ errors \in 0 .. MaxErrors /\ misses \in 0 .. MaxMisses

Store == Ordered(list) /\ Whole(list) /\ (cache # Off => Mirrors(cache, list))

-----------------------------------------------------------------------------
(* What UpdateVariable knows where it stands.                                *)

(* The current variable is the newest live copy; once it has been marked     *)
(* none is added until the new one is.                                       *)
Found == Newest(list, op.name, op.cur)
Marked == Found /\ AddedCopies(list, op.name) = {} /\ op.val \in Values

SameLength == cache # Off => Len(cache) = Len(list)

(* The new copy is at the end of the list with this state, or its header did *)
(* not become valid and there still is room for it.                          *)
Placed(state) ==
  /\ \/ /\ op.at = Len(list) /\ op.at # 0
        /\ list[op.at].name = op.name /\ list[op.at].state = state
        /\ tail = "clean" => list[op.at].val = Blank
     \/ /\ op.at = Len(list) + 1
        /\ tail = "dirty" /\ Fits(list, op.name)
  /\ cache # Off => /\ Len(cache) = op.at
                    /\ cache[op.at].name = op.name
                    /\ cache[op.at].state = state

(* The first attempt, or the second, behind a list that has been rewritten.  *)
Attempt == op.tries = 0 \/ (op.tries = 1 /\ tail = "clean")

Local ==
  /\ pc \in {"clean", "update"} => Found /\ op.tries = 0
  /\ pc = "sync" => Marked /\ op.tries = 0
  /\ pc = "room" => Marked /\ op.tries = 0 /\ SameLength
  /\ pc = "remember" => op.val \in Values /\ op.tries = 0
  /\ pc = "ftw" => Marked
  /\ pc = "header" => /\ Marked /\ Attempt /\ SameLength
                      /\ op.at = Len(list) + 1 /\ Fits(list, op.name)
  /\ pc = "state" => Marked /\ Attempt /\ Placed({})
  /\ pc = "data" => Marked /\ Attempt /\ Placed(HeaderValidOnly)
  /\ pc = "retry" => /\ Marked /\ op.tries = 1
                     /\ \/ /\ op.at = Len(list) /\ op.at # 0
                           /\ list[op.at].name = op.name
                           /\ ~IsLive(list[op.at])
                        \/ Fits(list, op.name)
  /\ pc = "added" => /\ Marked /\ SameLength
                     /\ op.at = Len(list) /\ op.at # 0
                     /\ IsCorrectVariable(list, op.at)
                     /\ cache # Off => cache[op.at] = list[op.at]
  /\ pc = "old" => /\ op.at \in AddedCopies(list, op.name)
                   /\ list[op.at].val = op.val
                   /\ op.cur \in OldCopies(list, op.name)

IInv == DataOK /\ Store /\ Local

-----------------------------------------------------------------------------
(* What SetVariable will answer.                                             *)

(* UpdateVariable has found something to write and has not written it.       *)
Writing == {"sync", "room", "remember", "ftw", "header", "state", "data",
            "retry", "added"}

InCall == Writing \cup {"clean", "update", "old", "done"}

(* UpdateVariable serves the request, or the driver's own variable on behalf *)
(* of one that has been refused.                                             *)
Calls ==
  /\ pc \notin InCall => req = NoRequest /\ ~op.nested
  /\ pc \in InCall => req \in Requests
  /\ pc \in {"clean", "update"} => ~op.nested
  /\ pc \in InCall /\ ~op.nested => op.name = req.name /\ op.val = req.val
  /\ op.nested => AtRuntimeUnreclaimed /\ op.name = NeedReclaim
  /\ pc = "remember" => AtRuntimeUnreclaimed

(* When the store may be reclaimed, a call is refused for want of room only  *)
(* where ReclaimNonVolatileVariable finds none.                              *)
Refused ==
  /\ pc = "ftw" => ~AtRuntimeUnreclaimed /\ WithNew(list, op.name, op.val) # <<>>
  /\ pc = "done" /\ st = "full" /\ ~AtRuntimeUnreclaimed =>
       Map!Full([n \in Names |-> IF n \in Preserved THEN Value(list, n) ELSE Absent],
                req.name)

(* The copies that DeleteAllOldVariable has passed are deleted, and once it  *)
(* is through there is none but the current one.                             *)
Cleaned ==
  /\ pc = "clean" => \A i \in OldCopies(list, op.name) : i # op.cur => i >= op.scan
  /\ pc = "update" => LiveCopies(list, op.name) \subseteq {op.cur}

(* A deletion meets no older copy of the variable, which would be found when *)
(* the current one is deleted.                                               *)
Alone == pc = "update" /\ op.val = Absent => LiveCopies(list, op.name) \subseteq {op.cur}

(* A variable has one live copy, or an update is about to delete the other.  *)
Single ==
  \A n \in Names : \A i, j \in LiveCopies(list, n) :
    i = j \/ (pc = "old" /\ n = op.name /\ {i, j} \subseteq {op.cur, op.at})

(* No power is lost and no access reports an error.                          *)
Faultless == MaxCrashes = 0 /\ MaxErrors = 0

(* The caller is told what has become of the variable.                       *)
Answered ==
  /\ pc \in Writing \/ op.nested => req.val # Absent /\ Value(list, req.name) # req.val
  /\ pc = "done" /\ ~op.nested =>
       /\ st = "success" => Value(list, req.name) = req.val
       /\ st = "full" => req.val # Absent /\ Value(list, req.name) # req.val
       /\ st = "notfound" => req.val = Absent /\ Value(list, req.name) = Absent

(* No access fails in DeleteAllOldVariable, which would not look at it.      *)
CleansAll == pc = "clean" => errors' = errors

\* What RefusalIsRemembered promises.
Needed ==
  \/ Capacity - Used(list) < Threshold
  \/ Value(list, NeedReclaim) # Absent

(* While the driver writes its own variable there is room for it; whoever is *)
(* about to be refused can rely on the next boot.                            *)
Remembered ==
  /\ op.nested => /\ pc \in {"sync", "room", "header", "state", "data", "added", "done"}
                  /\ op.cur = 0
  /\ op.nested /\ pc \in {"sync", "room"} => Fits(list, NeedReclaim)
  /\ pc = "done" /\ (op.nested \/ st = "full") /\ AtRuntimeUnreclaimed => Needed

(* No data is written behind a header that may not be the one meant, and no  *)
(* access fails while the driver writes its own variable.                    *)
OnBlank == pc = "data" => tail = "clean"
OwnTakes == op.nested => errors' = errors
=============================================================================
