------------------------- MODULE SparsePropagation -------------------------
(***************************************************************************)
(* How the buckets of a sparse matrix meet the dense operands of a fully   *)
(* connected layer (FullyConnected.cpp).  Each tile first works on buckets *)
(* at home.  Then, in the propagation phase, a control program moves them  *)
(* on from tile to tile, as far as the partitioner has found that parts of *)
(* the matrix have overflowed (findOverflowDistance); a tile works on what *)
(* has its own subgroup id.                                                *)
(*                                                                         *)
(* All passes are in terms of the dimensions of the forward pass, to which *)
(* dimShuffleToFwd takes them: x, y and z are 1, 2 and 3.  In a forward or *)
(* a GradA pass buckets move; in a GradW pass either they move with their  *)
(* partial sums, or the dense operands move the other way.                 *)
(***************************************************************************)
EXTENDS SparseBuckets

CONSTANTS
  WordBits,       \* sizeof(MetaInfoType), as many bits as a word of connectivity has
  UnsignedBits    \* the width of the counters on the device

VARIABLES
  pass,             \* "forward" (or GradA), "gradWBuckets" or "gradWInputs"
  info,             \* overflowInfo: end, how far to go, and words, which x to visit
  pc,               \* "idle"; "test" or "exchange" in a loop; "return"; "done"
  level,            \* of the loops, counted from the outermost
  indices,          \* of the loops
  totalRemaining,
  offset,           \* how far what moves has moved (for inputs: backwards)
  visited           \* the offsets that tiles have computed at

device == <<pass, info, pc, level, indices, totalRemaining, offset, visited>>

Partition == <<X, Y, Z>>
Product(v) == v[1] * v[2] * v[3]
AsUnsigned(n) == n % 2^UnsignedBits

-----------------------------------------------------------------------------
(* Overflow information, worked out on the host *)

\* distanceToSubGroup
DistanceTo(pn, g) ==
  <<(X + g.index[1] - IndexOf(pn)[1]) % X, (Y + g.index[2] - IndexOf(pn)[2]) % Y>>

HeldBy(pn) == {g \in ToSet(main[pn].groups) : ~ IsEmpty(g)}
Distances == {<<0, 0>>} \cup UNION {{DistanceTo(pn, g) : g \in HeldBy(pn)} : pn \in PNs}
IsFarther(a, b) == a[1] > b[1] \/ (a[1] = b[1] /\ a[2] >= b[2])
Connected == UNION {{DistanceTo(pn, g)[1] : g \in HeldBy(pn)} : pn \in PNs}

\* Mutant: not all of y is visited though there are moves in x.
EndOfFarthest ==
  LET farthest == CHOOSE d \in Distances : \A e \in Distances : IsFarther(d, e)
  IN <<farthest[1] + 1, farthest[2] + 1, Z>>

EndIndices ==
  LET farthest == CHOOSE d \in Distances : \A e \in Distances : IsFarther(d, e)
  IN <<farthest[1] + 1, IF farthest[1] = 0 THEN farthest[2] + 1 ELSE Y, Z>>

\* findOverflowDistance
OverflowInfo ==
  [end |-> EndIndices,
   words |-> [w \in 0 .. CeilDiv(X, WordBits) - 1 |-> {b \in 0 .. WordBits - 1 : w * WordBits + b \in Connected}]]

\* BitIsSet
BitIsSet(x) == x % WordBits \in info.words[x \div WordBits]

-----------------------------------------------------------------------------
(* The plan of a pass *)

\* propagationPartitions: inputs are broadcast to all of z at once.
Increment(p, d) == IF p = "gradWInputs" /\ d = 3 THEN Z ELSE 1

\* getPropagationStartingOffsetFlat: what the initial distribution covers
StartFlat(p) == IF p = "gradWBuckets" THEN 1 ELSE Z

\* getPropagationStartingOffsetCanonical
StartIndices(p) == <<StartFlat(p) \div (Y * Z), (StartFlat(p) \div Z) % Y, StartFlat(p) % Z>>

Dims(p) == SelectSeq(<<1, 2, 3>>, LAMBDA d : Partition[d] > Increment(p, d))
NeedsPropagation(p) == StartFlat(p) < Product(Partition)

\* Starting indices that are past the bounds of their loops carry over to outer ones.
Fitted(p, end) ==
  FoldRight(LAMBDA k, v :
      LET inner == Dims(p)[k + 1]  outer == Dims(p)[k]
      IN IF v[inner] >= end[inner] THEN [v EXCEPT ![inner] = 0, ![outer] = @ + 1] ELSE v,
    [k \in 1 .. Len(Dims(p)) - 1 |-> k], StartIndices(p))

\* What is worked on before anything moves: with inputs or buckets of all z, or not
AtHome(p) ==
  IF p = "gradWBuckets" THEN <<<<0, 0, 0>>>> ELSE [n \in 1 .. Z |-> <<0, 0, n - 1>>]

Distribute ==
  /\ phase = "done" /\ pc = "idle"
  /\ pass' \in {"forward"} \cup (IF problem.gradW THEN {"gradWBuckets", "gradWInputs"} ELSE {})
  /\ info' = OverflowInfo
  /\ visited' = AtHome(pass')
  /\ totalRemaining' = AsUnsigned(Product(info'.end) - StartFlat(pass'))
  /\ IF NeedsPropagation(pass') /\ totalRemaining' # 0
     THEN /\ pc' = "test" /\ level' = 1
          /\ indices' = Fitted(pass', info'.end)
          /\ offset' = StartIndices(pass')
     ELSE pc' = "done" /\ UNCHANGED <<level, indices, offset>>
  /\ UNCHANGED vars

-----------------------------------------------------------------------------
(* The control program of the propagation phase *)

Dim == Dims(pass)[level]
Innermost == level = Len(Dims(pass))
Continues == totalRemaining # 0 /\ indices[Dim] < info.end[Dim]

\* A loop ends: what is left of the body of the loop around it is done next.
EndLoop ==
  /\ pc = "test" /\ ~ Continues
  /\ IF level = 1 THEN pc' = "return" /\ UNCHANGED level ELSE level' = level - 1 /\ pc' = "exchange"
  /\ UNCHANGED <<pass, info, indices, totalRemaining, offset, visited>>

Skips == Dim = 1 /\ ~ BitIsSet(indices[1])

EnterLoop ==
  /\ pc = "test" /\ Continues /\ ~ Skips /\ ~ Innermost
  /\ level' = level + 1
  /\ UNCHANGED <<pass, info, pc, indices, totalRemaining, offset, visited>>

DimsInside == SubSeq(Dims(pass), level + 1, Len(Dims(pass)))

\* numInnerIterations
InnerIterations ==
  FoldLeft(LAMBDA n, d : n * (info.end[d] - indices[d]), Increment(pass, 1), DimsInside)

\* Mutant: the count and the move are in the branch that is not taken.
SkipAndStay == pc = "test" /\ Continues /\ Skips /\ UNCHANGED device

\* Nothing has moved this far in x: all inner iterations are counted as done.
SkipOuter ==
  /\ pc = "test" /\ Continues /\ Skips
  /\ totalRemaining' = AsUnsigned(totalRemaining - InnerIterations)
  /\ pc' = "exchange"
  /\ UNCHANGED <<pass, info, level, indices, offset, visited>>

\* propagationCompute
Compute ==
  /\ pc = "test" /\ Continues /\ ~ Skips /\ Innermost
  /\ visited' = visited \o
       (IF pass = "gradWInputs" THEN [n \in 1 .. Z |-> <<offset[1], offset[2], n - 1>>]
        ELSE <<offset>>)
  /\ totalRemaining' = AsUnsigned(totalRemaining - Increment(pass, Dim))
  /\ pc' = "exchange"
  /\ UNCHANGED <<pass, info, level, indices, offset>>

Moved(d) == [offset EXCEPT ![d] = (@ + Increment(pass, d)) % Partition[d]]

IndicesAfter(v, d) ==
  LET next == [v EXCEPT ![d] = @ + Increment(pass, d)]
  IN IF Innermost THEN next ELSE [next EXCEPT ![Dims(pass)[level + 1]] = 0]

\* propagationExchanges, at the end of the body of a loop
Exchange ==
  /\ pc = "exchange"
  /\ IF totalRemaining # 0
     THEN offset' = Moved(Dim) /\ indices' = IndicesAfter(indices, Dim)
     ELSE UNCHANGED <<offset, indices>>
  /\ pc' = "test"
  /\ UNCHANGED <<pass, info, level, totalRemaining, visited>>

\* Mutant: only what the indices have counted is gone back.
RoundsByEnd(d) == IF indices[d] > 0 THEN info.end[d] - indices[d] ELSE 0
\* remainingExchanges: the way round to the tile a bucket began at
RemainingExchanges(d) == IF indices[d] > 0 THEN Partition[d] - indices[d] ELSE 0

\* propagationMustReachStartingOffset, for partial sums that move; then postPropagation
\* takes them from where they are.
Return ==
  /\ pc = "return"
  /\ offset' = IF pass = "gradWBuckets"
               THEN [d \in 1 .. 3 |->
                       IF d \in ToSet(Dims(pass))
                       THEN (offset[d] + RemainingExchanges(d)) % Partition[d] ELSE offset[d]]
               ELSE offset
  /\ pc' = "done"
  /\ UNCHANGED <<pass, info, level, indices, totalRemaining, visited>>

-----------------------------------------------------------------------------
DeviceInit ==
  /\ pass = "forward" /\ pc = "idle" /\ level = 1
  /\ info = [end |-> <<0, 0, 0>>, words |-> <<>>]
  /\ indices = <<0, 0, 0>> /\ totalRemaining = 0 /\ offset = <<0, 0, 0>> /\ visited = <<>>

Control == EndLoop \/ EnterLoop \/ SkipOuter \/ Compute \/ Exchange \/ Return

PropagationNext ==
  \/ Next /\ UNCHANGED device
  \/ Distribute
  \/ Control /\ UNCHANGED vars

\* The engine goes on with a program that it has begun, and the host with a partition.
PropagationSpec ==
  Init /\ DeviceInit /\ [][PropagationNext]_<<vars, device>> /\ WF_<<vars, device>>(PropagationNext)
=============================================================================
