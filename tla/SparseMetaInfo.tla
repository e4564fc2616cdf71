--------------------------- MODULE SparseMetaInfo ---------------------------
(***************************************************************************)
(* What the buckets of popsparse are written as: a stream of numbers for   *)
(* each bucket (bucketsImplInternal in SparsePartitionerImpl.cpp), and     *)
(* what the workers of the codelets compute when they read it.  A term is  *)
(* a value of the matrix, given by its place, times one of the dense input,*)
(* given by y and z, that is added to the output of x and z.               *)
(***************************************************************************)
EXTENDS SparseBuckets

CONSTANTS
  TypeFactor,   \* getYOffsetTypeScaleFactor: the bytes of a value
  GrainZ,       \* the size of a grain of the columns of the dense input
  MetaInfoBits  \* the width of the numbers in a stream

VARIABLE written   \* what each PN's bucket is written as, when it is

EndSubGroupId == 0

\* formSubgroupId: a transposed subgroup, for GradA, has the id of the other
SubGroupIdAt(x, y) == x * Y + y + 1
SubGroupId(g) == SubGroupIdAt(g.index[1], g.index[2])
TransposedId(g) == SubGroupIdAt(g.index[2], g.index[1])

\* The values before row n of a subgroup, rows counted from 0
SparseOffset(g, n) == PartialSum(RowWeights(g), n)
NumZ == problem.zGrains * GrainZ

-----------------------------------------------------------------------------
(* Writing *)

\* The workers of a subgroup: weights are of no use for a single row
Workers(g) ==
  SplitTileBetweenWorkers(Len(g.rows), problem.zGrains, problem.workers,
                          IF Len(g.rows) = 1 THEN <<>> ELSE RowWeights(g))

GradWWorkers(g) == SplitTileBetweenWorkers(1, NumNonZeros(g), problem.workers, <<>>)

\* The row, from 0, that a value is in
RowOf(g, value) ==
  CHOOSE n \in 0 .. Len(g.rows) - 1 :
    SparseOffset(g, n) <= value /\ value < SparseOffset(g, n + 1)

\* The entry of the n'th GradW worker, whose share begins in a row.  Its offset to the
\* first output entry is counted from its own entry, in numbers.
EntryInRow(g, shares, n, row, inFirst) ==
  <<shares[n].c0,
    shares[n].c0 - inFirst + (Len(shares) - n + 1) * GradWWorkerEntry + row * OutputEntry,
    inFirst, Columns(shares[n])>>
EntryFromRow(g, shares, n, row) ==
  EntryInRow(g, shares, n, row, shares[n].c0 - SparseOffset(g, row))
GradWEntry(g, shares, n) == EntryFromRow(g, shares, n, RowOf(g, shares[n].c0))

GradWEntriesOf(g, shares) == FlattenSeq([n \in DOMAIN shares |-> GradWEntry(g, shares, n)])
GradWEntries(g) == GradWEntriesOf(g, GradWWorkers(g))

\* Mutant: the entries for GradW are not passed over.
EntryBeforeGradW(share, left, before, gradWs, perNz) ==
  <<IF perNz = 2 THEN 0 ELSE before,
    Columns(share) * GrainZ, share.c0 * GrainZ, Rows(share) - 1,
    share.r0 * OutputEntry + left * WorkerEntry + before * perNz>>

\* The entry of a worker with a share, before which there are so many values; with as
\* many entries to come, its own and those for GradW.  perNz is 2 for GradA, that has no
\* offset of values.
WorkerEntryOf(share, left, before, gradWs, perNz) ==
  <<IF perNz = 2 THEN 0 ELSE before,
    Columns(share) * GrainZ, share.c0 * GrainZ, Rows(share) - 1,
    share.r0 * OutputEntry + left * WorkerEntry + Len(gradWs) + before * perNz>>

WorkerEntries(g, shares, gradWs, perNz) ==
  FlattenSeq([n \in DOMAIN shares |->
    WorkerEntryOf(shares[n], Len(shares) - n + 1, SparseOffset(g, shares[n].r0), gradWs, perNz)])

\* What is written for the values of a row: for GradA, that has the place of each among
\* the subgroup's values, two numbers each
OffsetsOf(cols, perNz) ==
  IF perNz = 1 THEN [i \in DOMAIN cols |-> cols[i] * TypeFactor * NumZ]
  ELSE FlattenSeq([i \in DOMAIN cols |-> <<cols[i][2] * TypeFactor, cols[i][1] * TypeFactor * NumZ>>])
RowEntries(g, perNz) ==
  FlattenSeq([n \in DOMAIN g.rows |->
    <<g.rows[n].row, Len(g.rows[n].cols)>> \o OffsetsOf(g.rows[n].cols, perNz)])

\* A subgroup in the format of elements
ElementsOf(id, g, shares, gradWs, first, rows) ==
  <<id, g.index[1], g.index[2], NumNonZeros(g), first + Len(rows), NumZ,
    Len(g.rows) - 1, first, Len(shares)>>
ElementsFor(g, shares, gradWs, perNz, rows) ==
  ElementsOf(IF perNz = 2 THEN TransposedId(g) ELSE SubGroupId(g), g, shares, gradWs,
             SubGroupEntry + WorkerEntry * Len(shares) + Len(gradWs), rows)
    \o WorkerEntries(g, shares, gradWs, perNz) \o gradWs \o rows
Elements(g, gradWs, perNz) == ElementsFor(g, Workers(g), gradWs, perNz, RowEntries(g, perNz))

WithNumber(g) == <<Len(GradWWorkers(g))>> \o GradWEntries(g)

\* A subgroup in the format of blocks
BlocksOf(g, gradWs, rows) ==
  <<SubGroupId(g), g.index[1], g.index[2], NumNonZeros(g),
    SubGroupEntry + Len(gradWs) + Len(rows), Len(g.rows) - 1,
    Len(gradWs) \div GradWWorkerEntry>> \o gradWs \o rows
Blocks(g) ==
  BlocksOf(g, IF problem.gradW THEN GradWEntries(g) ELSE <<>>,
           FlattenSeq([n \in DOMAIN g.rows |->
             <<g.rows[n].row, Len(g.rows[n].cols) - 1>> \o g.rows[n].cols]))

Held(b) == SelectSeq(b.groups, LAMBDA g : ~ IsEmpty(g))

\* bucketForForward
ForwardEntries(g) ==
  IF problem.blocks THEN Blocks(g)
  ELSE Elements(g, IF problem.gradW THEN WithNumber(g) ELSE <<>>, 1)
ForwardOf(groups) ==
  FlattenSeq([i \in DOMAIN groups |-> ForwardEntries(groups[i])]) \o <<EndSubGroupId>>
ForwardStream(b) == ForwardOf(Held(b))

\* The values that go with it, each as its place in its part of the matrix, and in all
\* of it
ValuesOf(g) ==
  FlattenSeq([n \in DOMAIN g.rows |->
    [i \in DOMAIN g.rows[n].cols |-> <<g.rows[n].row, g.rows[n].cols[i]>>]])
Placed(g, value) ==
  <<Begin(problem.xSplits, g.index[1]) + value[1], Begin(problem.ySplits, g.index[2]) + value[2]>>
PlacedAll(g, values) == [n \in DOMAIN values |-> Placed(g, values[n])]
ValuesIn(groups) ==
  FlattenSeq([i \in DOMAIN groups |-> PlacedAll(groups[i], ValuesOf(groups[i]))])
Values(b) == ValuesIn(Held(b))

\* bucketForGradA: the transposed subgroup has, for each column, the rows of its
\* values and which of the subgroup's values they are.  Its rows, the columns, are put
\* in order of size, and x and y are exchanged.
PlacesOf(values, y) ==
  SortSeq(SelectSeq([n \in DOMAIN values |-> n], LAMBDA n : values[n][2] = y),
          LAMBDA m, n : values[m][1] < values[n][1])
ColumnOf(values, y, places) ==
  [row |-> y, cols |-> [k \in DOMAIN places |-> <<values[places[k]][1], places[k] - 1>>]]
ColumnsOf(values, columns) ==
  [i \in DOMAIN columns |-> ColumnOf(values, columns[i], PlacesOf(values, columns[i]))]
ByColumn(values) ==
  ColumnsOf(values, Ascending({v[2] : v \in ToSet(values)}, problem.columns))
Transposed(g) ==
  Group(<<g.index[2], g.index[1], g.index[3]>>, ByColumn(ValuesOf(g)))

GradAOf(groups) ==
  FlattenSeq([i \in DOMAIN groups |-> Elements(Transposed(groups[i]), <<>>, 2)])
    \o <<EndSubGroupId>>
GradAStream(b) == GradAOf(Held(b))

\* bucketsImplInternal throws if it comes to more than the planned sizes, or if a
\* number does not fit.
FitsStream(s, size) == Len(s) <= size /\ \A n \in DOMAIN s : s[n] < 2^MetaInfoBits
WithinSizes(w) ==
  \A pn \in PNs :
    /\ FitsStream(w[pn].forward, problem.metaInfo)
    /\ Len(w[pn].values) <= problem.nzBlocks
    /\ FitsStream(w[pn].gradA, problem.metaInfoGradA)

\* bucketImplAllPasses
Write ==
  /\ phase = "done"
  /\ written' = [pn \in PNs |->
       [forward |-> ForwardStream(main[pn]), values |-> Values(main[pn]),
        gradA |-> IF problem.blocks THEN <<>> ELSE GradAStream(main[pn])]]
  /\ phase' = IF WithinSizes(written') THEN "written" ELSE "thrown"
  /\ UNCHANGED <<problem, main, over, round, order, source, targets, target>>

PartitionInit == Init /\ written = <<>>

Ended == phase \in {"failed", "written", "thrown"} /\ UNCHANGED <<vars, written>>

PartitionNext == (Next /\ UNCHANGED written) \/ Write \/ Ended

PartitionSpec == PartitionInit /\ [][PartitionNext]_<<vars, written>>

-----------------------------------------------------------------------------
(* Reading: places in a stream and among the values are counted from 0 *)

Word(s, at) == s[at + 1]

\* The rows that are read from at on: where the entry of each is, and how many values
\* those before it have.  A value has perNz numbers, and numY is stored less one in
\* the format of blocks.
RECURSIVE RowsFrom(_, _, _, _, _)
RowsFrom(s, at, numX, perNz, before) ==
  IF numX = 0 THEN <<>>
  ELSE LET numY == Word(s, at + 1) + (IF problem.blocks THEN 1 ELSE 0)
       IN <<[x |-> Word(s, at), at |-> at + OutputEntry, numY |-> numY, before |-> before]>>
            \o RowsFrom(s, at + OutputEntry + numY * perNz, numX - 1, perNz, before + numY)

TermsFrom(s, values, rows, first, numZ, from) ==
  FlattenSeq([r \in DOMAIN rows |-> FlattenSeq([z \in 1 .. numZ |->
    [k \in 1 .. rows[r].numY |->
       <<rows[r].x, first + z - 1, (Word(s, rows[r].at + k - 1) \div TypeFactor) \div NumZ,
         values[from + rows[r].before + k]>>]])])

\* workerCompute of SparseDenseMatMulElementWise, for the worker's entry at at and the
\* subgroup's values from from on
ForwardWorker(s, values, at, from) ==
  TermsFrom(s, values, RowsFrom(s, at + Word(s, at + 4), Word(s, at + 3) + 1, 1, 0),
            Word(s, at + 2), Word(s, at + 1), from + Word(s, at))

GradATermsFrom(s, values, rows, first, numZ, from) ==
  FlattenSeq([r \in DOMAIN rows |-> FlattenSeq([z \in 1 .. numZ |->
    [k \in 1 .. rows[r].numY |->
       <<rows[r].x, first + z - 1, (Word(s, rows[r].at + 2 * k - 1) \div TypeFactor) \div NumZ,
         values[from + (Word(s, rows[r].at + 2 * k - 2) \div TypeFactor) + 1]>>]])])

\* workerCompute of SparseDenseMatMulGradAElementWise
GradAWorker(s, values, at, from) ==
  GradATermsFrom(s, values, RowsFrom(s, at + Word(s, at + 4), Word(s, at + 3) + 1, 2, 0),
                 Word(s, at + 2), Word(s, at + 1), from + Word(s, at))

BlockTermsFrom(s, values, rows, from) ==
  FlattenSeq([r \in DOMAIN rows |-> FlattenSeq([z \in 1 .. NumZ |->
    [k \in 1 .. rows[r].numY |->
       <<rows[r].x, z - 1, Word(s, rows[r].at + k - 1), values[from + rows[r].before + k]>>]])])

\* compute of SparseDenseMatMulBlock: all rows of a subgroup, whose columns of the
\* dense input the workers share by themselves
BlockRows(s, at) ==
  RowsFrom(s, at + SubGroupEntry + Word(s, at + 6) * GradWWorkerEntry, Word(s, at + 5) + 1, 1, 0)
ForwardBlocks(s, values, at, from) == BlockTermsFrom(s, values, BlockRows(s, at), from)

\* workerCompute of the GradW codelets, from the entry of a row on: a row may be begun
\* and left in the middle.  What is added up over z is one term.
RECURSIVE GradWRows(_, _, _, _, _, _)
InRow(s, at) == Word(s, at + 1) + (IF problem.blocks THEN 1 ELSE 0)
ColumnAt(s, at) == IF problem.blocks THEN Word(s, at) ELSE (Word(s, at) \div TypeFactor) \div NumZ
FromRow(s, values, at, skip, value, remaining, numY) ==
  [k \in 1 .. numY |->
     <<Word(s, at), ColumnAt(s, at + OutputEntry + skip + k - 1), values[value + k]>>]
    \o GradWRows(s, values, at + OutputEntry + InRow(s, at), 0, value + numY, remaining - numY)
GradWRows(s, values, at, skip, value, remaining) ==
  IF remaining = 0 THEN <<>>
  ELSE FromRow(s, values, at, skip, value, remaining, Least(remaining, InRow(s, at) - skip))

GradWWorker(s, values, at, from) ==
  GradWRows(s, values, at + Word(s, at + 1), Word(s, at + 2), from + Word(s, at), Word(s, at + 3))

\* compute: the subgroups with an id, with where their values begin
RECURSIVE SubGroups(_, _, _, _)
SubGroups(s, id, at, from) ==
  IF Word(s, at) = EndSubGroupId THEN <<>>
  ELSE (IF Word(s, at) = id THEN <<[at |-> at, from |-> from]>> ELSE <<>>)
         \o SubGroups(s, id, at + Word(s, at + 4), from + Word(s, at + 3))

EntryOf(at, w) == at + SubGroupEntry + (w - 1) * WorkerEntry

ForwardTermsAt(s, values, at, from) ==
  IF problem.blocks THEN ForwardBlocks(s, values, at, from)
  ELSE FlattenSeq([w \in 1 .. Word(s, at + 8) |-> ForwardWorker(s, values, EntryOf(at, w), from)])
ForwardTermsOf(s, values, found) ==
  FlattenSeq([i \in DOMAIN found |-> ForwardTermsAt(s, values, found[i].at, found[i].from)])
ForwardTerms(s, values, id) == ForwardTermsOf(s, values, SubGroups(s, id, 0, 0))

GradATermsAt(s, values, at, from) ==
  FlattenSeq([w \in 1 .. Word(s, at + 8) |-> GradAWorker(s, values, EntryOf(at, w), from)])
GradATermsOf(s, values, found) ==
  FlattenSeq([i \in DOMAIN found |-> GradATermsAt(s, values, found[i].at, found[i].from)])
GradATerms(s, values, id) == GradATermsOf(s, values, SubGroups(s, id, 0, 0))

\* The entries are after those of the other workers and their number.
GradWEntriesFrom(s, values, number, first, from) ==
  FlattenSeq([w \in 1 .. Word(s, number) |->
     GradWWorker(s, values, first + (w - 1) * GradWWorkerEntry, from)])
GradWTermsAt(s, values, at, from) ==
  IF problem.blocks THEN GradWEntriesFrom(s, values, at + 6, at + SubGroupEntry, from)
  ELSE GradWEntriesFrom(s, values, EntryOf(at, Word(s, at + 8) + 1),
                        EntryOf(at, Word(s, at + 8) + 1) + 1, from)
GradWTermsOf(s, values, found) ==
  FlattenSeq([i \in DOMAIN found |-> GradWTermsAt(s, values, found[i].at, found[i].from)])
GradWTerms(s, values, id) == GradWTermsOf(s, values, SubGroups(s, id, 0, 0))

-----------------------------------------------------------------------------
\* getGroupIndices
PartOf(id) == <<(id - 1) \div Y, (id - 1) % Y>>

\* bucketsToCOOMatrix: the values of a bucket, read back by the host, each with its row
\* and its column
ColumnRead(s, at, zs) == IF problem.blocks THEN Word(s, at) ELSE Word(s, at) \div (TypeFactor * zs)
ReadRows(s, values, rows, x, y, zs, from) ==
  FlattenSeq([r \in DOMAIN rows |-> [k \in 1 .. rows[r].numY |->
    <<x + rows[r].x, y + ColumnRead(s, rows[r].at + k - 1, zs), values[from + rows[r].before + k]>>]])
ReadAt(s, values, part, at, from) ==
  ReadRows(s, values,
    IF problem.blocks THEN BlockRows(s, at)
    ELSE RowsFrom(s, at + Word(s, at + 7), Word(s, at + 6) + 1, 1, 0),
    Begin(problem.xSplits, part[1]), Begin(problem.ySplits, part[2]), Word(s, at + 5), from)
ReadOf(s, values, id, found) ==
  FlattenSeq([i \in DOMAIN found |-> ReadAt(s, values, PartOf(id), found[i].at, found[i].from)])
ReadBack(s, values) ==
  FlattenSeq([id \in 1 .. X * Y |-> ReadOf(s, values, id, SubGroups(s, id, 0, 0))])
=============================================================================
