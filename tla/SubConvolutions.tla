-------------------------- MODULE SubConvolutions --------------------------
(***************************************************************************)
(* What poplin does to the parameters of a convolution: they are brought   *)
(* into a canonical form, turned into those of the backward and the weight *)
(* update pass, and at each level of the machine split into the parts that *)
(* the IPUs, then the tiles, work out (ConvParams::canonicalize,           *)
(* getGradientParams, getWeightUpdateParams, iteratePartitionParallel,     *)
(* getSubConvolution).                                                     *)
(***************************************************************************)
EXTENDS ConvGeometry

CONSTANTS
  Convolutions,   \* parameters that a convolution may be asked for with
  FieldSplits,    \* into how many parts the output may be split, ...
  GrainSizes,     \* ... the grain sizes it is split in, ...
  KernelSplits,   \* ... and into how many the kernel may be
  Levels          \* levels of the machine

ASSUME SplitsAssumption ==
  /\ FieldSplits \subseteq Nat \ {0} /\ GrainSizes \subseteq Nat \ {0}
  /\ KernelSplits \subseteq Nat \ {0} /\ Levels \in Nat

VARIABLES
  asked,      \* the parameters before they were made canonical
  params,     \* canonical ones
  forward,    \* those of the forward pass
  pass,       \* the pass they are for
  partition,  \* how they are to be split, or none
  level       \* levels they have been split at

vars == <<asked, params, forward, pass, partition, level>>

-----------------------------------------------------------------------------
(* The canonical form *)

Smallest(a, b) == IF a < b THEN a ELSE b
Largest(a, b) == IF a < b THEN b ELSE a

ZeroInput(size) ==
  [truncLower |-> 0, truncUpper |-> size, dilation |-> 1,
   padLower |-> 1, padUpper |-> 0, flip |-> FALSE]

\* getZeroConv: nothing is convolved with nothing and all of the output is padding.
ZeroConv(p) ==
  [input |-> p.input, kernel |-> p.kernel,
   it |-> ZeroInput(p.input), kt |-> ZeroInput(p.kernel),
   ot |-> [truncLower |-> 0, truncUpper |-> 1, stride |-> 1,
           padLower |-> 0, padUpper |-> OutputSize(p)]]

\* Outputs that are known to be zero are padding.
PadZeros(p) ==
  LET nonZero == OutputRangeForKernelRange(p, AllOutputs(p), AllKernel(p))
      lower == Largest(nonZero.begin, p.ot.padLower)
      upper == Largest(OutputSize(p) - nonZero.end, p.ot.padUpper)
  IN [p EXCEPT
        !.ot.truncLower = @ + (lower - p.ot.padLower) * p.ot.stride,
        !.ot.truncUpper = @ + (upper - p.ot.padUpper) * p.ot.stride,
        !.ot.padLower = lower, !.ot.padUpper = upper]

\* Outputs at the end that the stride skips are truncated.
TruncateSkipped(p) ==
  LET size == UntransformedOutputSize(p) - (p.ot.truncLower + p.ot.truncUpper)
      skipped == (size - 1) % p.ot.stride
  IN [p EXCEPT !.ot.truncUpper = @ + skipped,
               !.ot.stride = IF size - skipped = 1 THEN 1 ELSE @]

\* Mutant: of what is truncated, the zeros between are not padded.
TruncateUnusedDense(t, size, used) ==
  LET lower == Largest(used.begin, t.truncLower)
      upper == Largest(size - used.end, t.truncUpper)
  IN [t EXCEPT
        !.padLower = @ + (lower - t.truncLower), !.padUpper = @ + (upper - t.truncUpper),
        !.truncLower = lower, !.truncUpper = upper]

\* Elements that are not in the range used are truncated, and padded instead.
TruncateUnused(t, size, used) ==
  LET lower == Largest(used.begin, t.truncLower)
      upper == Largest(size - used.end, t.truncUpper)
  IN [t EXCEPT
        !.padLower = @ + (lower - t.truncLower) * t.dilation,
        !.padUpper = @ + (upper - t.truncUpper) * t.dilation,
        !.truncLower = lower, !.truncUpper = upper]

UnusedInput(p, outputs) ==
  [p EXCEPT !.it = TruncateUnused(@, p.input, InputRange(p, Interval(0, outputs), AllKernel(p)))]

UnusedKernel(p, outputs) ==
  [p EXCEPT !.kt = TruncateUnused(@, p.kernel, KernelRange(p, Interval(0, outputs), AllInputs(p)))]

\* Padding at one side, the lower or the upper one after the flip
Unpad(t, lower, n) ==
  IF lower # t.flip THEN [t EXCEPT !.padLower = @ - n] ELSE [t EXCEPT !.padUpper = @ - n]
PadAt(t, lower) == IF lower # t.flip THEN t.padLower ELSE t.padUpper

\* Padding of both the input and the kernel meets nothing.
UnpadBoth(p, lower) ==
  LET n == Least({PadAt(p.it, lower), PadAt(p.kt, lower), TransformedKernelSize(p) - 1})
  IN [p EXCEPT !.it = Unpad(@, lower, n), !.kt = Unpad(@, lower, n)]

\* Padding of the input is not needed for an output that is truncated.
UnpadTruncated(p, lower) ==
  LET truncated == IF lower THEN p.ot.truncLower ELSE p.ot.truncUpper
      n == Least({PadAt(p.it, lower), truncated, UntransformedOutputSize(p) - 1})
      q == [p EXCEPT !.it = Unpad(@, lower, n)]
  IN IF lower THEN [q EXCEPT !.ot.truncLower = @ - n] ELSE [q EXCEPT !.ot.truncUpper = @ - n]

\* One element needs neither dilation nor a flip.
Straightened(t, size) ==
  IF size > t.truncLower + 1 + t.truncUpper THEN t
  ELSE [t EXCEPT !.dilation = 1, !.flip = FALSE,
                 !.padLower = IF t.flip THEN t.padUpper ELSE @,
                 !.padUpper = IF t.flip THEN t.padLower ELSE @]

Straight(p) == [p EXCEPT !.it = Straightened(@, p.input), !.kt = Straightened(@, p.kernel)]

\* Both are truncated for all the outputs that p has.
UsedOnly(p, outputs) == UnusedKernel(UnusedInput(p, outputs), outputs)

Canonical(p) ==
  IF OutputRangeForKernelRange(p, AllOutputs(p), AllKernel(p)) = Empty THEN ZeroConv(p)
  ELSE Straight(UnpadTruncated(UnpadTruncated(
                  UnpadBoth(UnpadBoth(UsedOnly(TruncateSkipped(PadZeros(p)), OutputSize(p)),
                                      TRUE), FALSE), TRUE), FALSE))

-----------------------------------------------------------------------------
(* The other passes *)

\* The input and the output change places, and the kernel is given flipped.
Gradient(p) ==
  LET around == TransformedKernelSize(p) - 1
  IN [input |-> OutputSize(p), kernel |-> p.kernel,
      it |-> [Undone(p.ot) EXCEPT !.padLower = @ + around, !.padUpper = @ + around,
                                  !.flip = p.it.flip],
      kt |-> [truncLower |-> p.kt.truncUpper, truncUpper |-> p.kt.truncLower,
              dilation |-> p.kt.dilation, padLower |-> p.kt.padUpper,
              padUpper |-> p.kt.padLower, flip |-> p.kt.flip # p.it.flip],
      ot |-> [truncLower |-> p.it.padLower, truncUpper |-> p.it.padUpper,
              stride |-> p.it.dilation, padLower |-> p.it.truncLower,
              padUpper |-> p.it.truncUpper]]

\* Mutant: the kernel's flip does not concern the input.
InputAsBefore(p) == p.it

\* A flipped kernel flips the output of the weight update, which is to flip both
\* of what it convolves.
InputForUpdate(p) == [p.it EXCEPT !.flip = p.it.flip # p.kt.flip]

\* The kernel and the output change places.
WeightUpdate(p) ==
  [input |-> p.input, kernel |-> OutputSize(p),
   it |-> InputForUpdate(p),
   kt |-> [Undone(p.ot) EXCEPT !.flip = p.kt.flip],
   ot |-> [truncLower |-> p.kt.padLower, truncUpper |-> p.kt.padUpper,
           stride |-> p.kt.dilation, padLower |-> p.kt.truncLower,
           padUpper |-> p.kt.truncUpper]]

-----------------------------------------------------------------------------
(* Parts *)

Share(n, split, i) == Interval((i * n) \div split, ((i + 1) * n) \div split)

\* getTileOutRange: whole grains, of which the last may be cut short
OutRange(p, part, i) ==
  LET n == OutputSize(p)
      grains == Share((n + part.grain - 1) \div part.grain, part.field, i)
  IN Interval(grains.begin * part.grain, Smallest(grains.end * part.grain, n))

Parts(p, part) ==
  [f \in 0 .. part.field - 1, k \in 0 .. part.kernel - 1 |->
     [out |-> OutRange(p, part, f), kernel |-> Share(p.kernel, part.kernel, k)]]

\* What is truncated beyond the padding is taken from the end that holds more
\* than zeros.
Balanced(p, lower, upper) ==
  LET n == OutputSize(p)
      over1 == Largest(0, lower - (n - p.ot.padUpper))
      l == lower - over1  u == upper + over1
      over2 == Largest(0, u - (n - p.ot.padLower))
  IN [lower |-> l + over2, upper |-> u - over2]

\* Truncated by n outputs of the remaining size, the first of them padding
TruncateLower(p, n) ==
  LET pad == Smallest(p.ot.padLower, n)
      q == [p EXCEPT !.ot.padLower = @ - pad]
      rest == n - pad
  IN [q EXCEPT !.ot.truncLower =
        IF rest = OutputSize(q) - q.ot.padUpper
        THEN @ + 1 + (rest - 1) * q.ot.stride ELSE @ + rest * q.ot.stride]

TruncateUpper(p, n) ==
  LET pad == Smallest(p.ot.padUpper, n)
      q == [p EXCEPT !.ot.padUpper = @ - pad]
      rest == n - pad
  IN [q EXCEPT !.ot.truncUpper =
        IF rest = OutputSize(q) - q.ot.padLower
        THEN @ + 1 + (rest - 1) * q.ot.stride ELSE @ + rest * q.ot.stride]

\* Mutant: what lies above the slice is not padded.
TruncateKernelUnpadded(p, slice) ==
  LET begin == Largest(slice.begin, p.kt.truncLower)
      end == Smallest(slice.end, p.kernel - p.kt.truncUpper)
      size == TransformedKernelSize(p)
      low == [p EXCEPT !.kt.truncLower = begin]
      lower == [low EXCEPT !.kt.padLower = @ + size - TransformedKernelSize(low)]
  IN IF begin >= end
     THEN [p EXCEPT !.kt.truncLower = 0, !.kt.truncUpper = p.kernel,
                    !.kt.padLower = 0, !.kt.padUpper = size]
     ELSE [lower EXCEPT !.kt.truncUpper = p.kernel - end]

\* The kernel outside the slice is padding.
TruncateKernel(p, slice) ==
  LET begin == Largest(slice.begin, p.kt.truncLower)
      end == Smallest(slice.end, p.kernel - p.kt.truncUpper)
      size == TransformedKernelSize(p)
      low == [p EXCEPT !.kt.truncLower = begin]
      lower == [low EXCEPT !.kt.padLower = @ + size - TransformedKernelSize(low)]
      up == [lower EXCEPT !.kt.truncUpper = p.kernel - end]
  IN IF begin >= end
     THEN [p EXCEPT !.kt.truncLower = 0, !.kt.truncUpper = p.kernel,
                    !.kt.padLower = 0, !.kt.padUpper = size]
     ELSE [up EXCEPT !.kt.padUpper = @ + size - TransformedKernelSize(up)]

\* The parameters of a part of p, before they are canonical
Truncated(p, part) ==
  LET cut == Balanced(p, part.out.begin, OutputSize(p) - part.out.end)
  IN TruncateKernel(TruncateUpper(TruncateLower(p, cut.lower), cut.upper), part.kernel)

\* The truncation of input and kernel carried out
Sliced(t) == [t EXCEPT !.truncLower = 0, !.truncUpper = 0]
CarriedOut(p) ==
  [p EXCEPT !.input = @ - (p.it.truncLower + p.it.truncUpper), !.it = Sliced(@),
            !.kernel = @ - (p.kt.truncLower + p.kt.truncUpper), !.kt = Sliced(@)]

SubConvolution(p, part) == CarriedOut(Canonical(Truncated(p, part)))

-----------------------------------------------------------------------------
NoPartition == [field |-> 0, grain |-> 0, kernel |-> 0]

InitOf(p) ==
  /\ asked = p /\ params = Canonical(p) /\ forward = params
  /\ pass = "forward"
  /\ partition = NoPartition /\ level = 0

Init == \E p \in Convolutions : Valid(p) /\ InitOf(p)

\* The parameters of another pass are derived from those of the forward pass.
Derive(other, p) ==
  /\ pass = "forward" /\ level = 0 /\ partition = NoPartition
  /\ pass' = other
  /\ asked' = p /\ params' = Canonical(p)
  /\ UNCHANGED <<forward, partition, level>>

DeriveGradient == Derive("backward", Gradient(params))
DeriveWeightUpdate == Derive("update", WeightUpdate(params))

\* The plan has a partition for each level ...
ChoosePartition ==
  /\ level < Levels /\ partition = NoPartition
  /\ partition' \in [field : FieldSplits, grain : GrainSizes, kernel : KernelSplits]
  /\ UNCHANGED <<asked, params, forward, pass, level>>

\* ... and each part is split further at the next.
TakePart ==
  /\ partition # NoPartition
  /\ LET parts == Parts(params, partition)
     IN \E i \in DOMAIN parts : /\ asked' = Truncated(params, parts[i])
                              /\ params' = SubConvolution(params, parts[i])
  /\ partition' = NoPartition /\ level' = level + 1
  /\ UNCHANGED <<forward, pass>>

Next == DeriveGradient \/ DeriveWeightUpdate \/ ChoosePartition \/ TakePart

Spec == Init /\ [][Next]_vars

-----------------------------------------------------------------------------
Natural(p) ==
  /\ p.input \in Nat /\ p.kernel \in Nat
  /\ \A t \in {p.it, p.kt} :
       t \in [truncLower : Nat, truncUpper : Nat, dilation : Nat \ {0},
              padLower : Nat, padUpper : Nat, flip : BOOLEAN]
  /\ p.ot \in [truncLower : Nat, truncUpper : Nat, stride : Nat \ {0},
               padLower : Nat, padUpper : Nat]

TypeOK ==
  /\ Natural(asked) /\ Natural(params) /\ Natural(forward)
  /\ pass \in {"forward", "backward", "update"} /\ level \in 0 .. Levels

\* The canonical form is valid, computes the same, and is its own canonical form
\* (the assertion of CanonicalConvParams).
CanonicalMeansTheSame ==
  Valid(asked) /\ (level = 0 => Meaning(params) = Meaning(asked))

CanonicalIsIdempotent == Valid(params) /\ Canonical(params) = params

\* The backward pass multiplies each gradient of an output by the (flipped)
\* kernel element it was computed with, for the input it was computed from.
\* The weight update pass multiplies inputs and gradients for their kernel element.
PassesAreTransposed ==
  level = 0 =>
    LET there == Meaning(forward)  here == Meaning(params)
    IN \A i \in 0 .. forward.input - 1, k \in 0 .. forward.kernel - 1, o \in Outputs(forward) :
         LET used == <<i, k>> \in there[o]
         IN /\ pass = "backward" => (used <=> <<o, forward.kernel - 1 - k>> \in here[i])
            /\ pass = "update" => (used <=> <<i, o>> \in here[k])

\* The terms of each output that a part computes, in the indices of the whole
Shifted(terms, q, part) ==
  [o \in Indices(part.out) |->
     {<<t[1] + q.it.truncLower, t[2] + q.kt.truncLower>> : t \in terms[o - part.out.begin]}]
OfWhole(q, part) == Shifted(Meaning(CarriedOut(q)), q, part)
MeaningOfPart(part) == OfWhole(Canonical(Truncated(params, part)), part)

\* What is computed makes the whole, each term once.
MakeTheWhole(computed, whole) ==
  \A o \in DOMAIN whole :
    LET of == {c \in computed : o \in DOMAIN c.terms}
    IN /\ whole[o] = UNION {c.terms[o] : c \in of}
       /\ \A c, d \in of : c # d => c.terms[o] \cap d.terms[o] = {}

\* The parts compute every term of the whole, and none of them twice.
PartsMakeTheWhole ==
  partition # NoPartition =>
    LET parts == Parts(params, partition)
    IN MakeTheWhole({[part |-> i, terms |-> MeaningOfPart(parts[i])] : i \in DOMAIN parts},
                    Meaning(params))

\* The canonical form of parameters means what they mean, and is its own.
CanonicalRight == TypeOK /\ CanonicalMeansTheSame /\ CanonicalIsIdempotent
=============================================================================
