----------------------------- MODULE VariableMap -----------------------------
(* What the variable services promise about the non-volatile variables.  A   *)
(* call of SetVariable changes the one variable it names, in one indivisible *)
(* step or not at all, whatever happens meanwhile; a caller told "success"   *)
(* finds the value it asked for.  One exception is deliberate: when what is  *)
(* stored does not leave room, everything that is not in the preserved table *)
(* is given up for the new value.                                            *)

EXTENDS Naturals, FiniteSetsExt

CONSTANTS
  Names,       \* the variables
  NeedReclaim, \* the one the driver keeps for itself
  Values,      \* what a variable may hold
  Absent,      \* the variable does not exist
  Size,        \* [Names -> Nat], space a variable takes
  Capacity,    \* space of the store
  Preserved,   \* the variables of the preserved table
  NoRequest    \* nobody is setting a variable

VARIABLES
  map,         \* [Names -> Values \cup {Absent}]
  pending,     \* the variable being set and its value, or NoRequest
  reply        \* what the last call returned

vars == <<map, pending, reply>>

Requests == [name : Names \ {NeedReclaim}, val : Values \cup {Absent}]

(* What the variables other than n take.                                     *)
Occupied(m, n) == MapThenSumSet(LAMBDA k : Size[k],
                                {k \in Names \ {n} : m[k] # Absent})

Full(m, n) == Occupied(m, n) + Size[n] > Capacity

Init ==
  /\ map = [n \in Names |-> Absent]
  /\ pending = NoRequest
  /\ reply = "none"

Ask ==
  /\ pending = NoRequest
  /\ pending' \in Requests
  /\ reply' = "none"
  /\ UNCHANGED map

(* What a request does: it sets its own variable; when there is no room for  *)
(* it, it may do so at the expense of what is not preserved.                 *)
Effect ==
  \/ map' = [map EXCEPT ![pending.name] = pending.val]
  \/ /\ pending.val # Absent
     /\ Full(map, pending.name)
     /\ map' = [n \in Names |-> IF n = pending.name THEN pending.val
                                ELSE IF n \in Preserved THEN map[n] ELSE Absent]

Commit ==
  /\ pending # NoRequest
  /\ Effect
  /\ UNCHANGED <<pending, reply>>

Succeed ==
  /\ pending # NoRequest
  /\ map[pending.name] = pending.val
  /\ pending' = NoRequest
  /\ reply' = "success"
  /\ UNCHANGED map

(* No room, or nothing to delete.                                            *)
Refuse ==
  /\ pending # NoRequest
  /\ \/ pending.val # Absent /\ map[pending.name] # pending.val /\ reply' = "full"
     \/ pending.val = Absent /\ map[pending.name] = Absent /\ reply' = "notfound"
  /\ pending' = NoRequest
  /\ UNCHANGED map

(* The flash part reports an error: the caller cannot know.                  *)
Error ==
  /\ pending # NoRequest
  /\ pending' = NoRequest
  /\ reply' = "error"
  /\ UNCHANGED map

(* The driver notes for itself that the store wants reclaiming.              *)
Note ==
  /\ \E v \in Values \cup {Absent} : map' = [map EXCEPT ![NeedReclaim] = v]
  /\ UNCHANGED <<pending, reply>>

(* The caller hears nothing; what it asked for may have happened just now.   *)
PowerLoss ==
  /\ pending' = NoRequest
  /\ reply' = "none"
  /\ \/ UNCHANGED map
     \/ pending # NoRequest /\ Effect

Next == Ask \/ Commit \/ Succeed \/ Refuse \/ Error \/ Note \/ PowerLoss

Spec == Init /\ [][Next]_vars
=============================================================================
