------------------------------ MODULE History ------------------------------
(***************************************************************************)
(* What a circular buffer promises (include/popops/CircBuf.hpp:20-44): it  *)
(* remembers the last Size tensors added, and prev(i) returns the one that *)
(* is i entries old.                                                       *)
(***************************************************************************)
EXTENDS Integers

CONSTANTS Size, Tensors

VARIABLES
  recent,   \* recent[i] is the tensor that is i entries old
  result    \* what prev returned last

vars == <<recent, result>>

Age == 0 .. Size - 1

\* Before the first add the contents are whatever the memory holds.
Init == recent \in [Age -> Tensors] /\ result \in Tensors

Add ==
  /\ \E t \in Tensors : recent' = [i \in Age |-> IF i = 0 THEN t ELSE recent[i - 1]]
  /\ UNCHANGED result

Prev ==
  /\ \E i \in Age : result' = recent[i]
  /\ UNCHANGED recent

Next == Add \/ Prev

Spec == Init /\ [][Next]_vars
=============================================================================
