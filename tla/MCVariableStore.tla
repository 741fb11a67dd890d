--------------------------- MODULE MCVariableStore ---------------------------
(* Small instances of VariableStore: three variables of different size and   *)
(* the driver's own, in a store that they do not all fit in.                 *)

EXTENDS VariableStore

CONSTANTS a, b, c, need, v0, v1

TwoNames == {a, b, need}
ThreeNames == {a, b, c, need}
SizeOfTwo == [n \in TwoNames |-> IF n = b THEN 2 ELSE 1]
SizeOfThree == [n \in ThreeNames |-> IF n = b THEN 2 ELSE 1]
PreserveA == {a}
PreserveAB == {a, b}
PreserveNone == {}
=============================================================================
