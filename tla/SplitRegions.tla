---------------------------- MODULE SplitRegions ----------------------------
(***************************************************************************)
(* Dividing regions of a tensor into partitions, for vertices, workers or  *)
(* tiles (splitRegions of lib/poputil/Util.cpp): in order, in whole        *)
(* grains, in no more partitions than are asked for or than a least size   *)
(* allows, and with pieces no longer than a region may be.                 *)
(***************************************************************************)
EXTENDS Integers, Sequences, SequencesExt

VARIABLES
  call,       \* the arguments: sizes of the items and the five limits
  vertex,     \* the partition that is being filled
  vertexSize, \* the elements it still gets
  item,       \* the current item, and where in it to go on
  offset,
  parts       \* the pieces given to each partition: item, offset and length

splitVars == <<call, vertex, vertexSize, item, offset, parts>>

UDiv(a, b) == (a + b - 1) \div b
Smaller(a, b) == IF a < b THEN a ELSE b
Larger(a, b) == IF a < b THEN b ELSE a
SumOf(s) == FoldLeft(+, 0, s)

\* The arguments respect grainSize for regions.
MaxElementsPerRegion == call.grainSize * (call.maxRegion \div call.grainSize)
TotalSize == SumOf(call.items)
NumGrains == UDiv(TotalSize, call.grainSize)

\* Mutant: the grains of the least size are rounded down.
MinGrainsRoundedDown == Larger(1, call.minSize \div call.grainSize)
MinGrains == UDiv(call.minSize, call.grainSize)

\* As even as may be, with no more than the largest partition; a least size
\* counts for more than a largest.
MaxGrainsPerPartition ==
  LET most == Smaller(UDiv(NumGrains, call.maxPartitions), call.maxSize \div call.grainSize)
  IN IF call.minSize = 0 THEN most
     ELSE Larger(most, UDiv(NumGrains, Larger(1, NumGrains \div MinGrains)))

VerticesToCreate == IF TotalSize = 0 THEN 0 ELSE UDiv(NumGrains, MaxGrainsPerPartition)

\* Elements of the grains from one even share to the next; the last grain may be
\* short.
SizeOf(v) ==
  LET grain(u) == (u * NumGrains) \div VerticesToCreate
  IN Smaller(TotalSize, grain(v + 1) * call.grainSize) - grain(v) * call.grainSize

\* extend with the rest of the item, of the region or of the partition, whichever
\* is shortest, after going on to the next item at the end of one.
Extend ==
  /\ vertexSize > 0
  /\ LET over == offset = call.items[item]
         i == IF over THEN item + 1 ELSE item
         from == IF over THEN 0 ELSE offset
         size == Smaller(vertexSize, Smaller(MaxElementsPerRegion, call.items[i] - from))
     IN /\ item' = i
        /\ offset' = from + size
        /\ vertexSize' = vertexSize - size
        /\ parts' = [parts EXCEPT ![vertex + 1] =
                       Append(@, [item |-> i, offset |-> from, size |-> size])]
  /\ UNCHANGED <<call, vertex>>

NextVertex ==
  /\ vertexSize = 0 /\ vertex + 1 < VerticesToCreate
  /\ vertex' = vertex + 1
  /\ vertexSize' = SizeOf(vertex + 1)
  /\ UNCHANGED <<call, item, offset, parts>>

\* A region may hold a grain, and so may a partition.
SplitInitWith(c) ==
  /\ c.grainSize <= c.maxRegion /\ c.grainSize <= c.maxSize
  /\ call = c
  /\ vertex = 0 /\ item = 1 /\ offset = 0
  /\ vertexSize = IF TotalSize = 0 THEN 0 ELSE SizeOf(0)
  /\ parts = [v \in 1 .. VerticesToCreate |-> <<>>]

SplitNext == Extend \/ NextVertex

-----------------------------------------------------------------------------
\* Properties

SplitDone == vertexSize = 0 /\ vertex + 1 >= VerticesToCreate
SizeOfPart(part) == SumOf([i \in DOMAIN part |-> part[i].size])

\* The pieces, one after another, are the items, and none is longer than a region
\* may be.
PartsMakeTheItems ==
  LET pieces == FlattenSeq(parts)
      elements(p) == [j \in 1 .. p.size |-> <<p.item, p.offset + j - 1>>]
      whole(i) == [j \in 1 .. call.items[i] |-> <<i, j - 1>>]
      given == FlattenSeq([i \in DOMAIN call.items |-> whole(i)])
      made == FlattenSeq([i \in DOMAIN pieces |-> elements(pieces[i])])
  IN /\ made = SubSeq(given, 1, Len(made))
     /\ SplitDone => made = given
     /\ \A i \in DOMAIN pieces : pieces[i].size <= call.maxRegion

\* No partition but the last ends within a grain.  Where the largest size allows,
\* there are no more partitions than were asked for.  Where the items have the
\* least size at all, each partition has it too, but for what the last grain
\* lacks; and none is larger than the largest size that leaves room for the
\* least in whole grains twice.
PartsWithinLimits ==
  SplitDone =>
    LET size(v) == SizeOfPart(parts[v])
        missing == NumGrains * call.grainSize - TotalSize
        grains(v) == UDiv(size(v), call.grainSize)
    IN /\ \A v \in 1 .. Len(parts) - 1 : size(v) % call.grainSize = 0
       /\ call.maxPartitions * (call.maxSize \div call.grainSize) >= NumGrains
            => Len(parts) <= call.maxPartitions
       /\ TotalSize >= call.minSize =>
            \A v \in DOMAIN parts :
              size(v) >= call.minSize - (IF v = Len(parts) THEN missing ELSE 0)
       /\ 2 * MinGrains <= call.maxSize \div call.grainSize =>
            \A v \in DOMAIN parts : size(v) <= call.maxSize
       /\ \A v, w \in DOMAIN parts : grains(v) - grains(w) \in -1 .. 1

\* Each element is in one part, and the parts are of the sizes asked for.
PartsRight == PartsMakeTheItems /\ PartsWithinLimits
=============================================================================
