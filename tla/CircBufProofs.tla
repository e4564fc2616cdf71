--------------------------- MODULE CircBufProofs ---------------------------
(***************************************************************************)
(* The circular buffer implements History for every size.                  *)
(***************************************************************************)
EXTENDS CircBuf, TLAPS

\* A number that is within bounds is its own remainder, and one past the end has
\* the remainder 0.
LEMMA SmallRemainder ==
  ASSUME NEW n \in Nat, NEW d \in Nat \ {0}, n < d
  PROVE  n % d = n
  BY Z3

LEMMA FullRemainder ==
  ASSUME NEW d \in Nat \ {0}
  PROVE  d % d = 0
  BY Z3

\* What CircBufIncrIndex computes: the next slot, round the buffer.
LEMMA NextSlot ==
  ASSUME NEW s \in Slots
  PROVE  ((s + 1) % 2^Bits) % Size = IF s + 1 = Size THEN 0 ELSE s + 1
<1>1. s + 1 \in Nat /\ s + 1 <= Size /\ s + 1 < 2^Bits
  BY SizeAssumption DEF Slots
<1>2. (s + 1) % 2^Bits = s + 1
  BY <1>1, SmallRemainder, SizeAssumption
<1>3. CASE s + 1 = Size
  BY <1>2, <1>3, FullRemainder, SizeAssumption
<1>4. CASE s + 1 # Size
  BY <1>1, <1>2, <1>4, SmallRemainder, SizeAssumption
<1> QED
  BY <1>3, <1>4

\* Going back from a slot stays in the buffer.
LEMMA BackInRange ==
  ASSUME NEW s \in Slots, NEW i \in Slots
  PROVE  Back(s, i) \in Slots
  BY SizeAssumption DEF Back, Slots

\* What CircOffset computes: the slot that many entries back.
LEMMA OffsetGoesBack ==
  ASSUME NEW s \in Slots, NEW i \in Slots
  PROVE  LET updated == (s + (Size - i)) % 2^Bits
         IN (IF updated >= Size THEN updated - Size ELSE updated) = Back(s, i)
<1>1. s + (Size - i) \in Nat /\ s + (Size - i) < 2^Bits
  BY SizeAssumption DEF Slots
<1>2. (s + (Size - i)) % 2^Bits = s + (Size - i)
  BY <1>1, SmallRemainder, SizeAssumption
<1> QED
  BY <1>2, SizeAssumption DEF Back, Slots

-----------------------------------------------------------------------------
\* The invariant: types, and the slot that prev is about to read.
IInv == TypeOK /\ SliceIsOfAge

LEMMA InitIInv == Init => IInv
  BY SizeAssumption DEF Init, IInv, TypeOK, SliceIsOfAge, Slots

LEMMA NextIInv == IInv /\ [Next]_vars => IInv'
<1> SUFFICES ASSUME IInv, [Next]_vars PROVE IInv'
  OBVIOUS
<1> USE DEF IInv, TypeOK, SliceIsOfAge
<1>1. CASE IncrIndex
  <2>1. index' \in Slots
    BY <1>1, NextSlot, SizeAssumption DEF IncrIndex, Slots
  <2> QED
    BY <1>1, <2>1 DEF IncrIndex
<1>2. CASE Update
  BY <1>2 DEF Update
<1>3. CASE Offset
  <2>1. prevIdx' = Back(index, age')
    BY <1>3, OffsetGoesBack DEF Offset
  <2>2. prevIdx' \in Slots
    BY <1>3, <2>1, BackInRange DEF Offset
  <2> QED
    BY <1>3, <2>1, <2>2 DEF Offset
<1>4. CASE Slice
  <2>1. Slot(prevIdx) \in Slots
    BY SizeAssumption DEF Slot, Slots
  <2> QED
    BY <1>4, <2>1 DEF Slice
<1>5. CASE UNCHANGED vars
  BY <1>5 DEF vars
<1> QED
  BY <1>1, <1>2, <1>3, <1>4, <1>5 DEF Next

\* The slots that the codelets compute are in range, whatever the size and the
\* number of calls.
THEOREM TypeCorrect == Spec => []TypeOK
<1>1. IInv => TypeOK
  BY DEF IInv
<1> QED
  BY InitIInv, NextIInv, <1>1, PTL DEF Spec

\* prev reads the slot of the entry it was asked for.
THEOREM SliceIsOfAgeHolds == Spec => []SliceIsOfAge
<1>1. IInv => SliceIsOfAge
  BY DEF IInv
<1> QED
  BY InitIInv, NextIInv, <1>1, PTL DEF Spec

-----------------------------------------------------------------------------
\* Incrementing the index is a step ahead of the buffer: what was latest still is.
LEMMA IncrIndexHidden ==
  ASSUME IInv, IncrIndex
  PROVE  Recent' = Recent /\ output' = output
<1>1. index \in Slots /\ next = "none" /\ next' = "update"
  BY DEF IInv, TypeOK, IncrIndex
<1>2. index' = IF index + 1 = Size THEN 0 ELSE index + 1
  BY <1>1, NextSlot DEF IncrIndex
<1>3. Latest = index
  BY <1>1 DEF Latest
<1>4. Latest' = Back(index', 1)
  BY <1>1 DEF Latest, Back
<1>5. Back(index', 1) = index
  BY <1>1, <1>2, SizeAssumption DEF Back, Slots
<1>6. \A i \in Slots : Back(Latest, i)' = Back(Latest, i)
  BY <1>3, <1>4, <1>5 DEF Back
<1>7. hist' = hist /\ output' = output
  BY DEF IncrIndex
<1> QED
  BY <1>6, <1>7 DEF Recent

\* Writing the slot ahead of the buffer makes every entry one older and the new
\* tensor the latest.
LEMMA UpdateAdds ==
  ASSUME IInv, Update
  PROVE  HistorySpec!Add
<1>1. index \in Slots /\ next = "update" /\ next' = "none" /\ index' = index
      /\ hist \in [Slots -> Tensors] /\ in \in Tensors
  BY DEF IInv, TypeOK, Update
<1>2. Slot(index) = index
  BY <1>1, SizeAssumption DEF Slot, Slots
<1>3. hist' = [hist EXCEPT ![index] = in]
  BY <1>2 DEF Update
<1>4. Latest = Back(index, 1) /\ Latest' = index
  BY <1>1 DEF Latest
<1>5. ASSUME NEW i \in Slots
      PROVE  Recent'[i] = IF i = 0 THEN in ELSE Recent[i - 1]
  <2>1. Recent'[i] = hist'[Back(index, i)]
    BY <1>1, <1>4 DEF Recent, Back
  <2>2. CASE i = 0
    <3>1. Back(index, i) = index
      BY <1>1, <2>2, SizeAssumption DEF Back, Slots
    <3> QED
      BY <1>1, <1>3, <2>1, <2>2, <3>1
  <2>3. CASE i # 0
    <3>1. i - 1 \in Slots
      BY <2>3, SizeAssumption DEF Slots
    <3>2. Back(index, i) # index /\ Back(index, i) \in Slots
      BY <1>1, <2>3, BackInRange, SizeAssumption DEF Back, Slots
    <3>3. Back(Back(index, 1), i - 1) = Back(index, i)
      BY <1>1, <2>3, SizeAssumption DEF Back, Slots
    <3>4. Recent[i - 1] = hist[Back(index, i)]
      BY <1>4, <3>1, <3>3 DEF Recent
    <3> QED
      BY <1>1, <1>3, <2>1, <2>3, <3>2, <3>4
  <2> QED
    BY <2>2, <2>3
<1>6. Recent' = [i \in Slots |-> IF i = 0 THEN in ELSE Recent[i - 1]]
  BY <1>5 DEF Recent
<1>7. output' = output
  BY DEF Update
<1> QED
  BY <1>1, <1>6, <1>7 DEF HistorySpec!Add, HistorySpec!Age, Slots

\* The slice is the entry of the age that was asked for.
LEMMA SliceReads ==
  ASSUME IInv, Slice
  PROVE  HistorySpec!Prev
<1>1. prevIdx \in Slots /\ age \in Slots /\ next = "slice" /\ next' = "none"
  BY DEF IInv, TypeOK, Slice
<1>2. Slot(prevIdx) = prevIdx
  BY <1>1, SizeAssumption DEF Slot, Slots
<1>3. prevIdx = Back(index, age)
  BY <1>1 DEF IInv, SliceIsOfAge
<1>4. Latest = index /\ Latest' = index
  BY <1>1 DEF Latest, Slice
<1>5. output' = Recent[age]
  BY <1>1, <1>2, <1>3, <1>4 DEF Slice, Recent
<1>6. Recent' = Recent
  BY <1>4 DEF Recent, Slice, Back
<1> QED
  BY <1>1, <1>5, <1>6 DEF HistorySpec!Prev, HistorySpec!Age, Slots

LEMMA InitRefines == Init => HistorySpec!Init
<1> SUFFICES ASSUME Init PROVE HistorySpec!Init
  OBVIOUS
<1>1. IInv
  BY InitIInv
<1>2. Latest = index /\ index \in Slots
  BY <1>1 DEF Latest, Init, IInv, TypeOK
<1>3. Recent \in [Slots -> Tensors]
  BY <1>1, <1>2, BackInRange DEF Recent, IInv, TypeOK
<1> QED
  BY <1>3 DEF HistorySpec!Init, HistorySpec!Age, Slots, Init

LEMMA NextRefines ==
  IInv /\ [Next]_vars => [HistorySpec!Next]_(HistorySpec!vars)
<1> SUFFICES ASSUME IInv, [Next]_vars
             PROVE  HistorySpec!Next \/ (Recent' = Recent /\ output' = output)
  BY DEF HistorySpec!vars
<1>1. CASE IncrIndex
  BY <1>1, IncrIndexHidden
<1>2. CASE Update
  BY <1>2, UpdateAdds DEF HistorySpec!Next
<1>3. CASE Offset
  BY <1>3 DEF Offset, Recent, Latest, Back
<1>4. CASE Slice
  BY <1>4, SliceReads DEF HistorySpec!Next
<1>5. CASE UNCHANGED vars
  BY <1>5 DEF vars, Recent, Latest, Back
<1> QED
  BY <1>1, <1>2, <1>3, <1>4, <1>5 DEF Next

\* The circular buffer keeps the promise of CircBuf.hpp for every size.
THEOREM HistoryImplemented == Spec => ImplementsHistory
<1>1. Spec => []IInv
  BY InitIInv, NextIInv, PTL DEF Spec
<1> QED
  BY <1>1, InitRefines, NextRefines, PTL
     DEF Spec, ImplementsHistory, HistorySpec!Spec
=============================================================================
