---------------------------- MODULE AtomicStore ----------------------------
(* What the Firmware Volume "fault tolerant write" service promises to its   *)
(* caller (the comment of CommonFtwWrite): whatever happens, either the      *)
(* original contents or the modified contents of the store are available.    *)
(* A write is a partial update of the blocks of the store.  It takes effect  *)
(* in one indivisible step, or never, and a caller that is told "success"    *)
(* knows that it did.                                                        *)

CONSTANTS
  Blocks,     \* the data blocks of the store
  Values,     \* what a block may hold
  Initial,    \* what every block holds at first
  Keep,       \* in a request: this block is not written
  NoRequest   \* nobody is writing

VARIABLES
  store,      \* [Blocks -> Values], the contents of the store
  pending,    \* the request being carried out, or NoRequest
  committed,  \* TRUE once the pending request has taken effect
  reply       \* the last reply to a caller

vars == <<store, pending, committed, reply>>

Requests == [Blocks -> Values \cup {Keep}] \ {[b \in Blocks |-> Keep]}

(* The contents c, updated by the request r.                                 *)
Overlay(c, r) == [b \in Blocks |-> IF r[b] = Keep THEN c[b] ELSE r[b]]

Init ==
  /\ store = [b \in Blocks |-> Initial]
  /\ pending = NoRequest
  /\ committed = FALSE
  /\ reply = "none"

Ask ==
  /\ pending = NoRequest
  /\ pending' \in Requests
  /\ reply' = "none"
  /\ UNCHANGED <<store, committed>>

Commit ==
  /\ pending # NoRequest
  /\ ~committed
  /\ store' = Overlay(store, pending)
  /\ committed' = TRUE
  /\ UNCHANGED <<pending, reply>>

Succeed ==
  /\ pending # NoRequest
  /\ committed
  /\ pending' = NoRequest
  /\ committed' = FALSE
  /\ reply' = "success"
  /\ UNCHANGED store

(* The write is given up with an error: it has had no effect.                *)
Fail ==
  /\ pending # NoRequest
  /\ ~committed
  /\ pending' = NoRequest
  /\ reply' \in {"aborted", "denied"}
  /\ UNCHANGED <<store, committed>>

(* Power is lost: the caller hears nothing, the store is one or the other.   *)
PowerLoss ==
  /\ pending' = NoRequest
  /\ committed' = FALSE
  /\ reply' = "none"
  /\ UNCHANGED store

Next == Ask \/ Commit \/ Succeed \/ Fail \/ PowerLoss

Spec == Init /\ [][Next]_vars
=============================================================================
