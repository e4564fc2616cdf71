---------------------------- MODULE ConvGeometry ----------------------------
(***************************************************************************)
(* The geometry of a convolution of poplin in one field dimension          *)
(* (ConvParams.cpp, ConvUtil.cpp, and getSubConvolution in                 *)
(* Convolution.cpp).  The dimensions do not interact, but that all of them *)
(* become a zero convolution when one does.                                *)
(*                                                                         *)
(* A convolution is a record of the sizes of input and kernel, how each of *)
(* them is truncated, dilated, padded and flipped before it is used, and   *)
(* how the output is truncated, strided and padded.                        *)
(***************************************************************************)
EXTENDS Integers, FiniteSets

None == -1

Least(S) == CHOOSE x \in S : \A y \in S : x <= y
Greatest(S) == CHOOSE x \in S : \A y \in S : x >= y

-----------------------------------------------------------------------------
(* Sizes *)

Dilated(size, dilation) == IF size = 0 THEN 0 ELSE 1 + (size - 1) * dilation

Transformed(size, t) ==
  t.padLower + Dilated(size - (t.truncLower + t.truncUpper), t.dilation) + t.padUpper

TransformedInputSize(p) == Transformed(p.input, p.it)
TransformedKernelSize(p) == Transformed(p.kernel, p.kt)
UntransformedOutputSize(p) == TransformedInputSize(p) + 1 - TransformedKernelSize(p)

OutputSize(p) ==
  LET truncated == UntransformedOutputSize(p) - (p.ot.truncLower + p.ot.truncUpper)
  IN p.ot.padLower + (truncated + p.ot.stride - 1) \div p.ot.stride + p.ot.padUpper

Valid(p) ==
  /\ p.it.truncLower + p.it.truncUpper <= p.input
  /\ p.kt.truncLower + p.kt.truncUpper <= p.kernel
  /\ TransformedKernelSize(p) # 0
  /\ TransformedInputSize(p) >= TransformedKernelSize(p)
  /\ p.ot.truncLower + p.ot.truncUpper <= UntransformedOutputSize(p)

-----------------------------------------------------------------------------
(* Indices before and after a transform *)

\* The output's transform undone is one that truncates what was padded, ...
Undone(ot) ==
  [truncLower |-> ot.padLower, truncUpper |-> ot.padUpper, dilation |-> ot.stride,
   padLower |-> ot.truncLower, padUpper |-> ot.truncUpper, flip |-> FALSE]

Apply(i, size, t) ==
  LET padded == (i - t.truncLower) * t.dilation + t.padLower
  IN CASE i < t.truncLower \/ i >= size - t.truncUpper -> None
       [] t.flip -> Transformed(size, t) - 1 - padded
       [] OTHER  -> padded

Reverse(j, size, t) ==
  LET padded == IF t.flip THEN Transformed(size, t) - 1 - j ELSE j
      dilated == padded - t.padLower
  IN CASE dilated < 0 \/ padded >= Transformed(size, t) - t.padUpper -> None
       [] dilated % t.dilation # 0 -> None
       [] OTHER -> dilated \div t.dilation + t.truncLower

InputIndex(p, o, k) ==
  LET kernel == Apply(k, p.kernel, p.kt)
      output == Apply(o, OutputSize(p), Undone(p.ot))
  IN IF None \in {kernel, output} THEN None ELSE Reverse(kernel + output, p.input, p.it)

KernelIndex(p, o, i) ==
  LET input == Apply(i, p.input, p.it)
      output == Apply(o, OutputSize(p), Undone(p.ot))
  IN IF None \in {input, output} \/ input - output \notin 0 .. TransformedKernelSize(p) - 1
     THEN None ELSE Reverse(input - output, p.kernel, p.kt)

-----------------------------------------------------------------------------
(* Ranges, which may be larger than what they stand for if not exact *)

Empty == [begin |-> 0, end |-> 0, exact |-> TRUE, dilated |-> FALSE]

ConvRange(begin, end, exact, dilated) ==
  IF begin >= end THEN Empty
  ELSE [begin |-> begin, end |-> end, exact |-> exact,
        dilated |-> dilated /\ end - begin >= 3]

Interval(begin, end) == ConvRange(begin, end, TRUE, FALSE)
Indices(r) == r.begin .. r.end - 1

RefineBegin(r, bound) ==
  IF bound > r.begin
  THEN ConvRange(bound, r.end, r.exact /\ ~ r.dilated, r.dilated) ELSE r

RefineEnd(r, bound) ==
  IF bound < r.end
  THEN ConvRange(r.begin, bound, r.exact /\ ~ r.dilated, r.dilated) ELSE r

Refine(r, begin, end) == RefineEnd(RefineBegin(r, begin), end)

\* The range between two transformed ends, which a flip has swapped
Between(a, z, exact, dilated) == ConvRange(Least({a, z}), Greatest({a, z}) + 1, exact, dilated)

EndsApplied(r, size, t) ==
  IF r = Empty THEN r
  ELSE Between(Apply(r.begin, size, t), Apply(r.end - 1, size, t),
               r.exact, r.dilated \/ t.dilation > 1)

ApplyToRange(range, size, t) ==
  EndsApplied(Refine(range, t.truncLower, size - t.truncUpper), size, t)

\* A range without the zeros of the dilation at its ends, from where the elements begin
TrimEnd(r, origin, dilation) ==
  IF r = Empty THEN r
  ELSE RefineEnd(r, origin + ((r.end - 1 - origin) \div dilation) * dilation + 1)

TrimZeros(r, origin, dilation) ==
  IF r = Empty \/ dilation = 1 THEN r
  ELSE TrimEnd(RefineBegin(r, origin + ((r.begin - origin + dilation - 1) \div dilation) * dilation),
               origin, dilation)

EndsReversed(r, size, t) ==
  IF r = Empty THEN r
  ELSE Between(Reverse(r.begin, size, t), Reverse(r.end - 1, size, t), r.exact, r.dilated)

\* The range of what is transformed to within the codomain
ReverseFrom(range, codomain, size, t) ==
  EndsReversed(TrimZeros(Refine(range, codomain.begin, codomain.end), codomain.begin, t.dilation),
               size, t)

ReverseOfRange(range, size, t) ==
  ReverseFrom(range, ApplyToRange(Interval(0, size), size, t), size, t)

\* Mutant: what is cut off at zero does not matter.
ExactAnyway(a, b, cut) == a.exact /\ b.exact

\* Whether a range made of two is exact, if it is cut off at zero or not
ExactOf(a, b, cut) == a.exact /\ b.exact /\ ~ (cut /\ (a.dilated \/ b.dilated))

\* The difference of two ranges, none of which is negative
Difference(a, b) == IF a.begin < b.end - 1 THEN 0 ELSE a.begin - (b.end - 1)

\* Ranges of the input, the kernel and the output, after their transforms
In(p, range) == ApplyToRange(range, p.input, p.it)
Kernel(p, range) == ApplyToRange(range, p.kernel, p.kt)
Out(p, range) == ApplyToRange(range, OutputSize(p), Undone(p.ot))

OutputOf(p, in, k, bounds) ==
  IF \/ Empty \in {in, k} \/ k.begin > in.end - 1
     \/ k.end - 1 + UntransformedOutputSize(p) <= in.begin
  THEN Empty
  ELSE Refine(ReverseOfRange(ConvRange(Difference(in, k), in.end - k.begin,
                                       ExactOf(in, k, in.begin < k.end - 1),
                                       in.dilated \/ k.dilated),
                             OutputSize(p), Undone(p.ot)),
              bounds.begin, bounds.end)

OutputRangeQuick(p, inputRange, kernelRange, bounds) ==
  OutputOf(p, In(p, inputRange), Kernel(p, kernelRange), bounds)

Sum(a, b) ==
  ConvRange(a.begin + b.begin, a.end - 1 + b.end, a.exact /\ b.exact, a.dilated \/ b.dilated)

InputOf(p, out, k, bounds) ==
  IF Empty \in {out, k} THEN Empty
  ELSE Refine(ReverseOfRange(Sum(out, k), p.input, p.it), bounds.begin, bounds.end)

InputRangeQuick(p, bounds, kernelRange, outputRange) ==
  InputOf(p, Out(p, outputRange), Kernel(p, kernelRange), bounds)

KernelEnd(p, in, out) ==
  IF in.end - out.begin > TransformedKernelSize(p) THEN TransformedKernelSize(p)
  ELSE in.end - out.begin

\* A dilated range cut off at the end of the kernel is taken for an exact one.
KernelIsExact(p, in, out) ==
  \/ (out.dilated \/ in.dilated) /\ in.end - out.begin > TransformedKernelSize(p)
  \/ ExactOf(out, in, in.begin < out.end - 1)

KernelOf(p, in, out, bounds) ==
  IF \/ Empty \in {out, in} \/ in.end - 1 < out.begin
     \/ in.begin >= out.end - 1 + TransformedKernelSize(p)
  THEN Empty
  ELSE Refine(ReverseOfRange(ConvRange(Difference(in, out), KernelEnd(p, in, out),
                                       KernelIsExact(p, in, out), out.dilated \/ in.dilated),
                             p.kernel, p.kt),
              bounds.begin, bounds.end)

KernelRangeQuick(p, inputRange, bounds, outputRange) ==
  KernelOf(p, In(p, inputRange), Out(p, outputRange), bounds)

\* The smallest interval that holds all of S
Hull(S) == IF S = {} THEN Empty ELSE Interval(Least(S), Greatest(S) + 1)

\* A range as a pair, which no longer tells whether it is exact
Plain(r) == Interval(r.begin, r.end)

AllInputs(p) == Interval(0, p.input)
AllKernel(p) == Interval(0, p.kernel)
AllOutputs(p) == Interval(0, OutputSize(p))

\* Where the quick range is not exact, its indices are tried one by one ...
OutputsOfKernel(p, quick, k) ==
  IF quick.exact THEN Plain(quick)
  ELSE Hull({o \in Indices(quick) : InputIndex(p, o, k) # None})
OutputRangeForKernelIndex(p, bounds, k) ==
  OutputsOfKernel(p, OutputRangeQuick(p, AllInputs(p), Interval(k, k + 1), bounds), k)

OutputsOfInput(p, quick, i) ==
  IF quick.exact THEN Plain(quick)
  ELSE Hull({o \in Indices(quick) : KernelIndex(p, o, i) # None})
OutputRangeForInputIndex(p, bounds, i) ==
  OutputsOfInput(p, OutputRangeQuick(p, Interval(i, i + 1), AllKernel(p), bounds), i)

\* ... for all indices of the range asked about.
OutputsOfKernels(p, quick, kernelRange) ==
  IF quick.exact THEN Plain(quick)
  ELSE Hull(UNION {Indices(OutputRangeForKernelIndex(p, Plain(quick), k)) :
                     k \in Indices(kernelRange)})
OutputRangeForKernelRange(p, bounds, kernelRange) ==
  OutputsOfKernels(p, OutputRangeQuick(p, AllInputs(p), kernelRange, bounds), kernelRange)

OutputsOfInputs(p, quick, inputRange) ==
  IF quick.exact THEN Plain(quick)
  ELSE Hull(UNION {Indices(OutputRangeForInputIndex(p, Plain(quick), i)) :
                     i \in Indices(inputRange)})
OutputRangeForInputRange(p, bounds, inputRange) ==
  OutputsOfInputs(p, OutputRangeQuick(p, inputRange, AllKernel(p), bounds), inputRange)

InputsOfKernel(p, out, k) ==
  IF out = Empty THEN Empty
  ELSE Between(InputIndex(p, out.begin, k), InputIndex(p, out.end - 1, k), TRUE, FALSE)
InputRangeForKernelIndex(p, outputRange, k) ==
  InputsOfKernel(p, OutputRangeForKernelIndex(p, outputRange, k), k)

KernelOfInput(p, out, i) ==
  IF out = Empty THEN Empty
  ELSE Between(KernelIndex(p, out.begin, i), KernelIndex(p, out.end - 1, i), TRUE, FALSE)
KernelRangeForInputIndex(p, outputRange, i) ==
  KernelOfInput(p, OutputRangeForInputIndex(p, outputRange, i), i)

\* The scans stop early when they come to the bounds, which nothing exceeds.
InputsOfKernels(p, quick, outputRange, kernelRange) ==
  IF quick.exact THEN Plain(quick)
  ELSE Hull(UNION {Indices(InputRangeForKernelIndex(p, outputRange, k)) :
                     k \in Indices(KernelRangeQuick(p, Plain(quick), kernelRange, outputRange))})
InputRange(p, outputRange, kernelRange) ==
  InputsOfKernels(p, InputRangeQuick(p, AllInputs(p), kernelRange, outputRange),
                  outputRange, kernelRange)

KernelOfInputs(p, quick, outputRange, inputRange) ==
  IF quick.exact THEN Plain(quick)
  ELSE Hull(UNION {Indices(KernelRangeForInputIndex(p, outputRange, i)) :
                     i \in Indices(InputRangeQuick(p, inputRange, Plain(quick), outputRange))})
KernelRange(p, outputRange, inputRange) ==
  KernelOfInputs(p, KernelRangeQuick(p, inputRange, AllKernel(p), outputRange),
                 outputRange, inputRange)

-----------------------------------------------------------------------------
(* What a convolution computes (include/poplin/ConvParams.hpp:15-80) *)

\* The elements of a field, or None, after truncation, dilation, padding and flip
Field(size, t) ==
  LET truncated == size - (t.truncLower + t.truncUpper)
      n == t.padLower + Dilated(truncated, t.dilation) + t.padUpper
      dilated == [j \in 0 .. n - 1 |->
                    IF j < t.padLower \/ j >= n - t.padUpper \/ (j - t.padLower) % t.dilation # 0
                    THEN None ELSE (j - t.padLower) \div t.dilation + t.truncLower]
  IN [j \in 0 .. n - 1 |-> dilated[IF t.flip THEN n - 1 - j ELSE j]]

\* The products that add up to each output: pairs of an input and a kernel element
Outputs(p) == 0 .. OutputSize(p) - 1
Meaning(p) ==
  LET in == Field(p.input, p.it)  k == Field(p.kernel, p.kt)
      at(o, j) == <<in[p.ot.truncLower + (o - p.ot.padLower) * p.ot.stride + j], k[j]>>
  IN [o \in Outputs(p) |->
        IF o < p.ot.padLower \/ o >= OutputSize(p) - p.ot.padUpper THEN {}
        ELSE {t \in {at(o, j) : j \in DOMAIN k} : t[1] # None /\ t[2] # None}]

\* The elements that are used for some of the outputs with some of the kernel, ...
UsedInput(p, outputs, kernel) ==
  {t[1] : t \in {t \in UNION {Meaning(p)[o] : o \in outputs} : t[2] \in kernel}}
UsedKernel(p, outputs, input) ==
  {t[2] : t \in {t \in UNION {Meaning(p)[o] : o \in outputs} : t[1] \in input}}
\* ... and the outputs that some terms are for
UsedOutputs(p, outputs, input, kernel) ==
  {o \in outputs : \E t \in Meaning(p)[o] : t[1] \in input /\ t[2] \in kernel}
=============================================================================
