--------------------------- MODULE Notifications ---------------------------
(***************************************************************************)
(* What the event services promise, without queues, locks, timers or the   *)
(* interrupt: a signalled event is owed a notification until it gets it or *)
(* is being closed, however often it is signalled meanwhile, and a         *)
(* notification function is only interrupted by functions of higher level. *)
(***************************************************************************)
EXTENDS Integers

CONSTANTS
  Callees,   \* the events with a notification function
  Closable,  \* the events that may be closed
  Level      \* [Callees -> TPL]

VARIABLES
  owed,      \* events whose function is to be called
  running,   \* events whose function has begun, each of higher level than the last
  closing    \* events that are being closed

vars == <<owed, running, closing>>

Init == owed = {} /\ running = {} /\ closing = {}

Ring(e) ==
  /\ owed' = owed \cup {e}
  /\ UNCHANGED <<running, closing>>

Begin(e) ==
  /\ \A r \in running : Level[r] < Level[e]
  /\ owed' = owed \ {e}
  /\ running' = running \cup {e}
  /\ UNCHANGED closing

\* The innermost function returns.
Finish(e) ==
  /\ \A r \in running \ {e} : Level[r] < Level[e]
  /\ running' = running \ {e}
  /\ UNCHANGED <<owed, closing>>

StartClose(e) == closing' = closing \cup {e} /\ UNCHANGED <<owed, running>>
Forget(e) == owed' = owed \ {e} /\ UNCHANGED <<running, closing>>
EndClose(e) == closing' = closing \ {e} /\ UNCHANGED <<owed, running>>

Next ==
  \/ \E e \in Callees : Ring(e)
  \/ \E e \in owed : Begin(e)
  \/ \E e \in running : Finish(e)
  \/ \E e \in Closable : StartClose(e)
  \/ \E e \in closing : Forget(e) \/ EndClose(e)

Spec == Init /\ [][Next]_vars
=============================================================================
