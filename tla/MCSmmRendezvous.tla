-------------------------- MODULE MCSmmRendezvous ---------------------------
(* Small instances of SmmRendezvous: two or three processors, the first two  *)
(* of them threads of one core.                                              *)

EXTENDS SmmRendezvous

CONSTANTS p, q, r, core0, core1

TwoThreads == {p, q}
ThreeThreads == {p, q, r}
OneCore == [c \in TwoThreads |-> core0]
Elected == [election |-> TRUE, mtrrs |-> TRUE, block |-> TRUE, late |-> TRUE]
Platform == [election |-> FALSE, mtrrs |-> FALSE, block |-> FALSE, late |-> FALSE]
OneElected == {Elected}
OnePlatform == {Platform}
OneUnblocked == {[Platform EXCEPT !.late = TRUE]}
Both == {Elected, Platform}
TwoCores == [c \in ThreeThreads |-> IF c = r THEN core1 ELSE core0]
=============================================================================
