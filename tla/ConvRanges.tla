----------------------------- MODULE ConvRanges -----------------------------
(***************************************************************************)
(* Queries of the ranges that a convolution uses (ConvUtil.hpp): which     *)
(* inputs go with some of the kernel in some of the outputs, and so on,    *)
(* while the ranges asked about are narrowed down.                         *)
(***************************************************************************)
EXTENDS ConvGeometry

CONSTANT Convolutions   \* parameters that are asked about

VARIABLES params, inputs, kernel, outputs

vars == <<params, inputs, kernel, outputs>>

InitOf(p) ==
  /\ params = p
  /\ inputs = AllInputs(params) /\ kernel = AllKernel(params) /\ outputs = AllOutputs(params)

Init == \E p \in Convolutions : Valid(p) /\ InitOf(p)

\* Without its first or its last element
Narrower(r) == {Interval(r.begin + 1, r.end), Interval(r.begin, r.end - 1)}

NarrowInput  == inputs # Empty /\ inputs' \in Narrower(inputs) /\ UNCHANGED <<params, kernel, outputs>>
NarrowKernel == kernel # Empty /\ kernel' \in Narrower(kernel) /\ UNCHANGED <<params, inputs, outputs>>
NarrowOutput == outputs # Empty /\ outputs' \in Narrower(outputs) /\ UNCHANGED <<params, inputs, kernel>>

Next == NarrowInput \/ NarrowKernel \/ NarrowOutput

Spec == Init /\ [][Next]_vars

-----------------------------------------------------------------------------
True(S) == Indices(Hull(S))

\* "Given an output range, return the subset whose calculation involves the
\* specified range" of kernel elements or of inputs (ConvUtil.hpp:48-60): the
\* quick bounds and, where they are not exact, the scan give the outputs that
\* have a term, with every transform there is.
OutputRangesRight ==
  /\ Indices(OutputRangeForKernelRange(params, outputs, kernel)) =
       True(UsedOutputs(params, Indices(outputs), 0 .. params.input - 1, Indices(kernel)))
  /\ Indices(OutputRangeForInputRange(params, outputs, inputs)) =
       True(UsedOutputs(params, Indices(outputs), Indices(inputs), 0 .. params.kernel - 1))

\* The kernel range holds every kernel element that meets one of the inputs.
KernelRangeCovers ==
  True(UsedKernel(params, Indices(outputs), Indices(inputs)))
    \subseteq Indices(KernelRange(params, outputs, inputs))

\* "Return the input range that is associated with the specified kernel index
\* range when calculating the specified output range" (ConvUtil.hpp:72-73):
\* neither too small, which would leave out inputs, nor too large.
InputRangeRight ==
  Indices(InputRange(params, outputs, kernel)) =
    True(UsedInput(params, Indices(outputs), Indices(kernel)))

\* The ranges that go together are the elements that do.
RangesRight == OutputRangesRight /\ KernelRangeCovers /\ InputRangeRight
=============================================================================
