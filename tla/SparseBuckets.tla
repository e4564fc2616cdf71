--------------------------- MODULE SparseBuckets ---------------------------
(***************************************************************************)
(* The partitioner of popsparse (SparsePartitionerImpl.cpp): the non-zero  *)
(* values of a sparse matrix are dealt out to the buckets of fixed size    *)
(* that processing nodes (PNs) have, those that overflow are moved to      *)
(* others, and each bucket is written out as meta information.             *)
(*                                                                         *)
(* A non-zero value is its place in the matrix.  A subgroup (TilePartition)*)
(* has the rows of one part of the matrix, each with the columns of its    *)
(* values.  Rows and columns are counted in blocks.                        *)
(***************************************************************************)
EXTENDS Integers, Sequences, FiniteSets, SequencesExt, WorkerSplit

CONSTANTS
  Problems,   \* matrices and plans to partition them by, see Problem
  SizeBits    \* the width of size_t

Problem ==
  [rows : Nat, columns : Nat, nonZeros : SUBSET (Nat \X Nat),
   xSplits : Seq(Nat), ySplits : Seq(Nat),    \* where the parts begin
   zSplits : Nat, zGrains : Nat,              \* how many, and the grains of each
   bucketsPerZ : Nat, workers : Nat \ {0},
   metaInfo : Nat, nzBlocks : Nat,            \* what a bucket can hold
   metaInfoGradA : Nat,                       \* and its stream for GradA
   blocks : BOOLEAN, gradW : BOOLEAN,         \* useBlockMetaInfoFormat, gradWEnabled
   workerCosts : BOOLEAN, force : BOOLEAN, speed : BOOLEAN]   \* PartitionerOptions

ASSUME ProblemsAssumption ==
  /\ SizeBits \in Nat
  /\ \A p \in Problems :
       /\ p.nonZeros \subseteq (0 .. p.rows - 1) \X (0 .. p.columns - 1)
       /\ p.xSplits # <<>> /\ p.ySplits # <<>> /\ p.xSplits[1] = 0 /\ p.ySplits[1] = 0

VARIABLES
  problem,
  main,      \* pnBuckets: the bucket of each PN
  over,      \* overflowBuckets
  phase,     \* "strip", "round", "source", "target", "done" or "failed";
             \* "written" or "thrown" once the buckets are written (SparseMetaInfo)
  round,     \* of the six rounds of rebalancing, over three ranges
  order,     \* ovfOrder
  source,    \* place in order of the bucket that is moved
  targets,   \* the PNs in the order they are tried in
  target     \* the place in targets

vars == <<problem, main, over, phase, round, order, source, targets, target>>

-----------------------------------------------------------------------------
(* The parts of the matrix *)

X == Len(problem.xSplits)
Y == Len(problem.ySplits)
Z == problem.zSplits * problem.bucketsPerZ
PNs == 0 .. X * Y * Z - 1

\* getPNId and getTileIndexFromPnId
PNId(x, y, z) == x * Y * Z + y * Z + z
IndexOf(pn) == <<pn \div (Y * Z), (pn \div Z) % Y, pn % Z>>

Begin(splits, n) == splits[n + 1]
End(splits, n, size) == IF n + 1 = Len(splits) THEN size ELSE splits[n + 2]

Row(number, columns) == [row |-> number, cols |-> columns]
Group(index, rows) ==
  [index |-> index, rows |-> SortSeq(rows, LAMBDA a, b : Len(a.cols) > Len(b.cols))]

\* The values of each row, and of all of them
RowWeights(g) == [n \in DOMAIN g.rows |-> Len(g.rows[n].cols)]
NumNonZeros(g) == PartialSum(RowWeights(g), Len(g.rows))
IsEmpty(g) == g.rows = <<>>

\* The elements of a set of numbers below n
Ascending(S, n) == SelectSeq([i \in 1 .. n |-> i - 1], LAMBDA i : i \in S)

\* getPositionValuePairsPerRow: what is in a tile, in order of rows and columns,
\* relative to the tile
InRectangle(r0, r1, c0, c1) ==
  SelectSeq([n \in 1 .. (r1 - r0) * (c1 - c0) |-> <<(n - 1) \div (c1 - c0), (n - 1) % (c1 - c0)>>],
            LAMBDA p : <<p[1] + r0, p[2] + c0>> \in problem.nonZeros)
InTile(x, y) ==
  InRectangle(Begin(problem.xSplits, x), End(problem.xSplits, x, problem.rows),
              Begin(problem.ySplits, y), End(problem.ySplits, y, problem.columns))

\* splitRegions: the n'th of at most count pieces, in grains of one
Piece(s, n, pieces) ==
  IF n >= pieces THEN <<>>
  ELSE SubSeq(s, (n * Len(s)) \div pieces + 1, ((n + 1) * Len(s)) \div pieces)
PieceOf(s, n, count) ==
  IF s = <<>> THEN <<>> ELSE Piece(s, n, CeilDiv(Len(s), CeilDiv(Len(s), count)))

\* getTilePartition
RowWith(number, places) == Row(number, [n \in DOMAIN places |-> places[n][2]])
RowsWith(numbers, places) ==
  [i \in DOMAIN numbers |->
     RowWith(numbers[i], SelectSeq(places, LAMBDA p : p[1] = numbers[i]))]
AsRows(places) == RowsWith(Ascending({p[1] : p \in ToSet(places)}, problem.rows), places)
PartitionAt(index) ==
  Group(index, AsRows(PieceOf(InTile(index[1], index[2]), index[3], Z)))
PartitionOf(pn) == PartitionAt(IndexOf(pn))

-----------------------------------------------------------------------------
(* Sizes *)

SubGroupEntry == IF problem.blocks THEN 7 ELSE 9
WorkerEntry == IF problem.blocks THEN 0 ELSE 5
GradWWorkerEntry == 4
OutputEntry == 2

\* fixedMetaInfoCost: of a subgroup that all workers work on
FixedCost ==
  SubGroupEntry + WorkerEntry * problem.workers
    + (IF problem.gradW THEN GradWWorkerEntry * problem.workers
                               + (IF problem.blocks THEN 0 ELSE 1)
       ELSE 0)

\* sizesForTilePartition: with workerCosts, by the workers that have a share
MetaInfoCost(g) ==
  OutputEntry * Len(g.rows) + NumNonZeros(g)
    + (IF problem.blocks \/ ~ problem.workerCosts THEN FixedCost
       ELSE SubGroupEntry
              + Len(SplitTileBetweenWorkers(Len(g.rows), problem.zGrains, problem.workers, <<>>))
                * (WorkerEntry + (IF problem.gradW THEN GradWWorkerEntry ELSE 0)))

\* fillBucketSizes, where empty subgroups take nothing
Bucket(groups) ==
  [groups |-> groups,
   mi |-> PartialSum([i \in DOMAIN groups |-> IF IsEmpty(groups[i]) THEN 0 ELSE MetaInfoCost(groups[i])],
                     Len(groups)),
   nz |-> PartialSum([i \in DOMAIN groups |-> NumNonZeros(groups[i])], Len(groups))]

NoBucket == Bucket(<<>>)
HasNone(b) == b.mi = 0 /\ b.nz = 0
IsLess(a, b) == a.mi < b.mi \/ (a.mi = b.mi /\ a.nz < b.nz)

MetaInfoLimit == problem.metaInfo - 1    \* one for the end of the bucket
Overflown(b) == b.mi > MetaInfoLimit \/ b.nz > problem.nzBlocks

-----------------------------------------------------------------------------
(* Overflow *)

FirstRows(g, n) == Bucket(<<[g EXCEPT !.rows = SubSeq(@, 1, n)]>>)
RowsAfter(g, n) == Bucket(<<Group(g.index, Reverse(SubSeq(g.rows, n + 1, Len(g.rows))))>>)
Suffices(b) == IF problem.force THEN HasNone(b) ELSE ~ Overflown(b)

\* removeRows: the last, that is the smallest, rows of a bucket until the rest fits
RowsKept(g) ==
  CHOOSE n \in 0 .. Len(g.rows) - 1 :
    /\ n = 0 \/ Suffices(FirstRows(g, n))
    /\ \A m \in n + 1 .. Len(g.rows) - 1 : ~ Suffices(FirstRows(g, m))

Strips(b) == IF problem.force THEN ~ HasNone(b) ELSE Overflown(b)

Strip ==
  /\ phase = "strip"
  /\ main' = [pn \in PNs |->
       IF Strips(main[pn]) THEN FirstRows(main[pn].groups[1], RowsKept(main[pn].groups[1]))
       ELSE main[pn]]
  /\ over' = [pn \in PNs |->
       IF Strips(main[pn]) THEN RowsAfter(main[pn].groups[1], RowsKept(main[pn].groups[1]))
       ELSE NoBucket]
  /\ phase' = "round"
  /\ UNCHANGED <<problem, round, order, source, targets, target>>

-----------------------------------------------------------------------------
(* Rebalancing *)

\* The ranges of PNs that buckets move within
Ranges ==
  IF problem.force THEN <<Z, Z * Y * X, Z * Y>> ELSE <<Z, Z * Y, Z * Y * X>>
Range1 == Ranges[(round + 1) \div 2]
SplitColumns == round % 2 = 0

AllMoved == \A pn \in PNs : HasNone(over[pn])

\* In each range the biggest first
StartRound ==
  /\ phase = "round" /\ round <= 6 /\ ~ AllMoved
  /\ order' = FlattenSeq([n \in 1 .. Cardinality(PNs) \div Range1 |->
                SortSeq([i \in 1 .. Range1 |-> (n - 1) * Range1 + i - 1],
                        LAMBDA a, b : IsLess(over[b], over[a]))])
  /\ source' = 1 /\ phase' = "source"
  /\ UNCHANGED <<problem, main, over, round, targets, target>>

Finish ==
  /\ phase = "round" /\ (round > 6 \/ AllMoved)
  /\ phase' = IF AllMoved THEN "done" ELSE "failed"
  /\ UNCHANGED <<problem, main, over, round, order, source, targets, target>>

\* Mutant: the same round again, for ever.
NextSourceOfTheRound ==
  IF source < Len(order)
  THEN source' = source + 1 /\ phase' = "source" /\ UNCHANGED round
  ELSE phase' = "round" /\ UNCHANGED <<round, source>>

NextSource ==
  IF source < Len(order)
  THEN source' = source + 1 /\ phase' = "source" /\ UNCHANGED round
  ELSE phase' = "round" /\ round' = round + 1 /\ UNCHANGED source

\* The PNs of the range of the place in order: for speed, the way that buckets are
\* cycled, or else the emptiest first; and if spills are forced, the other way round
StartSource ==
  /\ phase = "source"
  /\ LET pn == order[source]
         first == ((source - 1) \div Range1) * Range1
         bySize == SortSeq([i \in 1 .. Range1 |-> first + i - 1],
                           LAMBDA a, b : IsLess(main[a], main[b]))
     IN IF HasNone(over[pn])
        THEN NextSource /\ UNCHANGED <<targets, target>>
        ELSE /\ targets' = [i \in 1 .. Range1 |->
                  IF problem.force THEN first + ((pn - first + i - 1) % Range1)
                  ELSE IF problem.speed THEN first + ((pn - first + Range1 - (i - 1)) % Range1)
                  ELSE bySize[i]]
             /\ target' = 1 /\ phase' = "target"
             /\ UNCHANGED <<source, round>>
  /\ UNCHANGED <<problem, main, over, order>>

AsSize(n) == n % 2^SizeBits

\* findPartitionsToRemove: of the first rows, how many values are taken, so that they
\* fit in what is available; a last row in part, if columns are split
RECURSIVE Taken(_, _, _, _)
TakenOf(size, remaining) == IF size > remaining /\ SplitColumns THEN remaining ELSE size
Remainder(available, mi, nz) == Least(AsSize(available.mi - mi), AsSize(available.nz - nz))
AndTaken(some, rows, available, mi, nz) ==
  IF some = 0 \/ mi > available.mi \/ nz > available.nz THEN <<>>
  ELSE <<some>> \o Taken(rows, available, mi, nz)
WithTaken(some, rows, available, mi, nz) ==
  AndTaken(some, rows, available, mi + some + OutputEntry, nz + some)
Taken(rows, available, mi, nz) ==
  IF rows = <<>> THEN <<>>
  ELSE WithTaken(TakenOf(Len(Head(rows).cols), Remainder(available, mi, nz)),
                 Tail(rows), available, mi, nz)

\* removeIntervals: the ends of the rows, from the last row to the first
Removed(g, taken) ==
  Group(g.index, Reverse([i \in DOMAIN taken |->
    LET cols == g.rows[i].cols
    IN Row(g.rows[i].row, SubSeq(cols, Len(cols) - taken[i] + 1, Len(cols)))]))

\* Mutant: a row that is moved in part stays whole.
RemainingWithoutResize(g, taken) ==
  [g EXCEPT !.rows = SelectSeq(
     [i \in DOMAIN @ |->
        IF i \in DOMAIN taken /\ taken[i] = Len(@[i].cols) THEN [@[i] EXCEPT !.cols = <<>>]
        ELSE @[i]],
     LAMBDA r : r.cols # <<>>)]

Remaining(g, taken) ==
  [g EXCEPT !.rows = SelectSeq(
     [i \in DOMAIN @ |->
        IF i \in DOMAIN taken
          THEN [@[i] EXCEPT !.cols = SubSeq(@, 1, Len(@) - taken[i])]
        ELSE @[i]],
     LAMBDA r : r.cols # <<>>)]

Fits(b, cand) == b.mi + cand.mi <= MetaInfoLimit /\ b.nz + cand.nz <= problem.nzBlocks

From == order[source]
To == targets[target]
Available == [mi |-> AsSize(MetaInfoLimit - main[To].mi), nz |-> AsSize(problem.nzBlocks - main[To].nz)]
SkipsOwn(pn, home) == problem.force /\ pn = home
IntervalsToMove == Taken(over[From].groups[1].rows, Available, FixedCost, 0)

NextTarget ==
  IF target < Len(targets)
  THEN target' = target + 1 /\ UNCHANGED <<phase, source, round>>
  ELSE NextSource /\ UNCHANGED target

Skip ==
  /\ phase = "target"
  /\ SkipsOwn(To, From) \/ (~ Fits(main[To], over[From]) /\ IntervalsToMove = <<>>)
  /\ NextTarget
  /\ UNCHANGED <<problem, main, over, order, targets>>

\* What is held after a bucket has come
Joined(b, cand) ==
  [groups |-> b.groups \o cand.groups, mi |-> b.mi + cand.mi, nz |-> b.nz + cand.nz]

\* The sizes are added up and set to 0, and copies of the subgroups stay behind.
MoveAll ==
  /\ phase = "target" /\ ~ SkipsOwn(To, From) /\ Fits(main[To], over[From])
  /\ main' = [main EXCEPT ![To] = Joined(@, over[From])]
  /\ over' = [over EXCEPT ![From].mi = 0, ![From].nz = 0]
  /\ NextSource
  /\ UNCHANGED <<problem, order, targets, target>>

MoveSome ==
  /\ phase = "target" /\ ~ SkipsOwn(To, From) /\ ~ Fits(main[To], over[From])
  /\ IntervalsToMove # <<>>
  /\ LET g == over[From].groups[1]
     IN /\ main' = [main EXCEPT ![To] = Bucket(Append(@.groups, Removed(g, IntervalsToMove)))]
        /\ over' = [over EXCEPT ![From] = Bucket(<<Remaining(g, IntervalsToMove)>>)]
  /\ IF HasNone(over'[From]) THEN NextSource /\ UNCHANGED target ELSE NextTarget
  /\ UNCHANGED <<problem, order, targets>>

-----------------------------------------------------------------------------
\* createBucketsForPN
Filled(g) == Bucket(IF IsEmpty(g) THEN <<>> ELSE <<g>>)
InitOf(p) ==
  /\ problem = p
  /\ main = [pn \in PNs |-> Filled(PartitionOf(pn))]
  /\ over = [pn \in PNs |-> NoBucket]
  /\ phase = "strip" /\ round = 1 /\ order = <<>> /\ source = 1 /\ targets = <<>> /\ target = 1

Init == \E p \in Problems : InitOf(p)

Next == Strip \/ StartRound \/ Finish \/ StartSource \/ Skip \/ MoveAll \/ MoveSome

Spec == Init /\ [][Next]_vars
=============================================================================
