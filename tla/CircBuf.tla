------------------------------ MODULE CircBuf ------------------------------
(***************************************************************************)
(* The circular buffer of popops (lib/popops/CircBuf.cpp): the program     *)
(* that a caller builds with calls of add and prev in any order, and runs. *)
(* Each call adds two compute sets to the program: one computes a slot,    *)
(* and the next one copies a tensor to or from that slot of hist.          *)
(***************************************************************************)
EXTENDS Integers

CONSTANTS
  Size,      \* the number of entries
  Tensors,   \* the tensors that are added
  Bits       \* the width of unsigned

\* CircOffset adds two numbers up to Size.
ASSUME SizeAssumption == Size \in Nat \ {0} /\ 2^Bits \in Nat /\ 2 * Size <= 2^Bits

VARIABLES
  next,      \* the compute set to run next, "none" between two calls
  index,     \* the slot of the latest entry
  hist,      \* the tensor in each slot
  in,        \* the argument of add
  prevIdx,   \* the slot that prev reads
  age,       \* the argument of prev
  output     \* what prev returned last

vars == <<next, index, hist, in, prevIdx, age, output>>

Slots == 0 .. Size - 1

\* hist has no initial value, and the other tensors no use yet.
Init ==
  /\ next = "none"
  /\ index = 0
  /\ hist \in [Slots -> Tensors]
  /\ in \in Tensors
  /\ prevIdx = 0
  /\ age = 0
  /\ output \in Tensors

\* The codelets of dynamicSlice and dynamicUpdate take an offset past the end
\* for 0.
Slot(offset) == IF offset >= Size THEN 0 ELSE offset

\* add, CircBufIncrIndex
IncrIndex ==
  /\ next = "none"
  /\ in' \in Tensors
  /\ index' = ((index + 1) % 2^Bits) % Size
  /\ next' = "update"
  /\ UNCHANGED <<hist, prevIdx, age, output>>

\* Mutant: the tensor is written one slot ahead.
UpdateAhead ==
  /\ next = "update"
  /\ hist' = [hist EXCEPT ![Slot(index + 1)] = in]
  /\ next' = "none"
  /\ UNCHANGED <<index, in, prevIdx, age, output>>

\* add, dynamicUpdate
Update ==
  /\ next = "update"
  /\ hist' = [hist EXCEPT ![Slot(index)] = in]
  /\ next' = "none"
  /\ UNCHANGED <<index, in, prevIdx, age, output>>

\* Mutant: the offset is counted from the slot that is written next.
OffsetFromNext ==
  /\ next = "none"
  /\ age' \in Slots
  /\ LET updated == (index + 1 + Size - age') % 2^Bits
     IN prevIdx' = IF updated >= Size THEN updated - Size ELSE updated
  /\ next' = "slice"
  /\ UNCHANGED <<index, hist, in, output>>

\* prev, CircOffset; an age of Size or more aborts while the graph is built.
Offset ==
  /\ next = "none"
  /\ age' \in Slots
  /\ LET updated == (index + (Size - age')) % 2^Bits
     IN prevIdx' = IF updated >= Size THEN updated - Size ELSE updated
  /\ next' = "slice"
  /\ UNCHANGED <<index, hist, in, output>>

\* prev, dynamicSlice
Slice ==
  /\ next = "slice"
  /\ output' = hist[Slot(prevIdx)]
  /\ next' = "none"
  /\ UNCHANGED <<index, hist, in, prevIdx, age>>

Next == IncrIndex \/ Update \/ Offset \/ Slice

Spec == Init /\ [][Next]_vars

-----------------------------------------------------------------------------
\* The codelets stay in range: no slot they compute needs the correction that
\* dynamicSlice and dynamicUpdate make.
TypeOK ==
  /\ next \in {"none", "update", "slice"}
  /\ index \in Slots
  /\ hist \in [Slots -> Tensors]
  /\ in \in Tensors
  /\ prevIdx \in Slots
  /\ age \in Slots
  /\ output \in Tensors

\* i slots back from slot s, round the buffer
Back(s, i) == IF i <= s THEN s - i ELSE s + Size - i

\* Between its two compute sets prev has the slot of the entry it was asked for.
SliceIsOfAge == next = "slice" => prevIdx = Back(index, age)

\* The slot of the latest entry that is in the buffer: the index runs ahead of
\* the buffer between the two compute sets of add.
Latest == IF next = "update" THEN Back(index, 1) ELSE index

\* The entries by age.  For a buffer of one, Back(0, 1) is 0.
Recent == [i \in Slots |-> hist[Back(Latest, i)]]

HistorySpec == INSTANCE History WITH recent <- Recent, result <- output

\* add makes every entry one older and drops the oldest, however often the index
\* has gone round; prev returns the entry of the age it is asked for.
ImplementsHistory == HistorySpec!Spec

=============================================================================
