--------------------------- MODULE MCConvolutions ---------------------------
(***************************************************************************)
(* The geometry of convolutions: their parameters on the way from the call *)
(* to the parts that tiles work out (SubConvolutions), and the ranges of   *)
(* inputs, kernel and outputs that go together (ConvRanges), on which that *)
(* relies.  A behaviour is of one or of the other.                         *)
(***************************************************************************)
EXTENDS SubConvolutions

CONSTANT RangeConvolutions   \* parameters whose ranges are asked about

VARIABLES inputs, kernel, outputs, of, about

rangeVars == <<of, inputs, kernel, outputs>>

Ranges == INSTANCE ConvRanges WITH Convolutions <- RangeConvolutions, params <- of

InputTransforms ==
  [truncLower : 0 .. 1, truncUpper : {0}, dilation : {1, 2},
   padLower : {0, 2}, padUpper : {1}, flip : BOOLEAN]
KernelTransforms ==
  [truncLower : {0}, truncUpper : 0 .. 1, dilation : {1, 2},
   padLower : 0 .. 1, padUpper : {0}, flip : BOOLEAN]
OutputTransforms ==
  [truncLower : 0 .. 1, truncUpper : {0}, stride : {1, 2},
   padLower : {0}, padUpper : 0 .. 1]

\* Every transform with every other
MCConvolutions ==
  [input : {3}, kernel : {2}, it : InputTransforms, kt : KernelTransforms, ot : OutputTransforms]
MCFieldSplits == {2, 3}
MCGrainSizes == {2}
MCKernelSplits == {1, 2}

RangeInputTransforms == {t \in InputTransforms : t.padLower = 0}
RangeKernelTransforms == {[t EXCEPT !.truncUpper = 0] : t \in KernelTransforms}
RangeOutputTransforms == {t \in OutputTransforms : t.padUpper = 0}

\* Two flips at once are nothing new to a range.
MCRangeConvolutions ==
  {p \in [input : {3}, kernel : {2}, it : RangeInputTransforms, kt : RangeKernelTransforms,
          ot : RangeOutputTransforms] : ~ (p.it.flip /\ p.kt.flip)}

AnyOf(S) == CHOOSE p \in S : Valid(p)

Intervals(size) == {Ranges!Interval(b, e) : b \in 0 .. size, e \in 0 .. size}
Within(size) == {r \in Intervals(size) : r.begin < r.end}

\* Ranges that have been narrowed down come first, and those that are left
BothInit ==
  \/ /\ about = "ranges"
     /\ of \in {p \in RangeConvolutions : Valid(p)}
     /\ inputs \in Within(of.input) /\ kernel \in Within(of.kernel)
     /\ outputs \in Within(OutputSize(of))
     /\ InitOf(AnyOf(Convolutions))
  \/ about = "parts" /\ Init /\ Ranges!InitOf(AnyOf(RangeConvolutions))

PartsNext == about = "parts" /\ Next /\ UNCHANGED <<rangeVars, about>>
RangesNext == about = "ranges" /\ Ranges!Next /\ UNCHANGED <<vars, about>>

BothSpec == BothInit /\ [][PartsNext \/ RangesNext]_<<vars, rangeVars, about>>

-----------------------------------------------------------------------------
\* The ranges that go together are the elements that do (ConvRanges).
RangesRight == about = "ranges" => Ranges!RangesRight

\* Canonical parameters mean what was asked for (SubConvolutions); a partition that has
\* been chosen changes nothing of them.
CanonicalFormRight == about = "parts" /\ partition = NoPartition => CanonicalRight
=============================================================================
