------------------------------ MODULE MCSparse ------------------------------
(***************************************************************************)
(* The partitioner of popsparse on small matrices, from the values of a    *)
(* matrix to what the workers make of the buckets; or from there to the    *)
(* way of the buckets round the tiles.  The two come after one another in  *)
(* a program.  A behaviour is of either, on matrices of its own.           *)
(***************************************************************************)
EXTENDS SparseMetaInfo, SparsePropagation

CONSTANT Moving   \* the problems whose buckets are propagated

VARIABLE use      \* "write" or "propagate"

allVars == <<vars, device, written, use>>

SparseInit ==
  /\ \/ use = "write" /\ \E p \in Problems : InitOf(p)
     \/ use = "propagate" /\ \E p \in Moving : InitOf(p)
  /\ DeviceInit /\ written = <<>>

WriteNext == use = "write" /\ PartitionNext /\ UNCHANGED <<device, use>>
MoveNext == use = "propagate" /\ PropagationNext /\ UNCHANGED <<written, use>>
Stopped == use = "propagate" /\ (pc = "done" \/ phase = "failed") /\ UNCHANGED allVars

\* The engine goes on with a program that it has begun, and the host with a partition.
SparseSpec == SparseInit /\ [][WriteNext \/ MoveNext \/ Stopped]_allVars /\ WF_allVars(MoveNext)

Grid44 == (0 .. 3) \X (0 .. 3)
MCMatrices ==
  {{<<0, 0>>, <<0, 1>>, <<0, 2>>, <<1, 0>>, <<1, 3>>, <<2, 2>>},
   {<<0, 0>>, <<0, 1>>, <<0, 2>>, <<0, 3>>},
   {<<0, 1>>, <<1, 0>>, <<1, 1>>, <<2, 0>>, <<3, 0>>, <<3, 3>>, <<3, 2>>},
   {<<r, c>> \in Grid44 : r # 2},
   Grid44, {<<3, 3>>}}

\* What fits depends on the fixed cost of a subgroup, of 9 to 49 numbers here.
Sizes == {22, 31, 44}

Flags ==
  {f \in [blocks : BOOLEAN, gradW : BOOLEAN, workerCosts : {FALSE}, force : BOOLEAN, speed : BOOLEAN] :
     ~ (f.force /\ f.speed)}

\* More than any bucket of these comes to: the partitioner counts the forward stream
\* alone, and it is the plan that makes room for this one.
GradASize == 100

Made(nonZeros, xs, ys, z, size, nz, workers, f) ==
  [rows |-> 4, columns |-> 4, nonZeros |-> nonZeros, xSplits |-> xs, ySplits |-> ys,
   zSplits |-> z[1], zGrains |-> z[2], bucketsPerZ |-> z[3], workers |-> workers,
   metaInfo |-> size, nzBlocks |-> nz, metaInfoGradA |-> GradASize, blocks |-> f.blocks, gradW |-> f.gradW,
   workerCosts |-> f.workerCosts, force |-> f.force, speed |-> f.speed]

\* Splits of z, their grains and the buckets of each
MCProblems ==
  {Made(m, xs, ys, z, size, nz, workers, f) :
     m \in MCMatrices, xs \in {<<0>>, <<0, 3>>}, ys \in {<<0>>, <<0, 2>>},
     z \in {<<1, 1, 1>>, <<2, 3, 1>>, <<1, 2, 2>>}, size \in Sizes, nz \in {3, 6},
     workers \in {1, 3}, f \in Flags}

\* Matrices that spill over in x, in y, or not at all
MovingMatrices ==
  {{<<0, 0>>, <<0, 1>>, <<0, 2>>, <<1, 0>>, <<1, 3>>, <<2, 2>>},
   {<<0, 1>>, <<1, 0>>, <<1, 1>>, <<2, 0>>, <<3, 0>>, <<3, 3>>, <<3, 2>>},
   {<<0, 0>>, <<0, 1>>, <<0, 2>>, <<0, 3>>}, {<<0, 2>>, <<0, 3>>, <<1, 2>>, <<1, 3>>},
   {<<3, 0>>, <<3, 1>>, <<2, 0>>, <<2, 1>>}, Grid44}

MCMoving ==
  {[rows |-> 4, columns |-> 4, nonZeros |-> m, xSplits |-> xs, ySplits |-> ys,
    zSplits |-> z, zGrains |-> 2, bucketsPerZ |-> 1, workers |-> 1,
    metaInfo |-> size, nzBlocks |-> nz, metaInfoGradA |-> GradASize, blocks |-> FALSE, gradW |-> TRUE,
    workerCosts |-> FALSE, force |-> how = "force", speed |-> how = "speed"] :
     m \in MovingMatrices, xs \in {<<0>>, <<0, 2>>, <<0, 1, 3>>}, ys \in {<<0>>, <<0, 2>>},
     z \in {1, 2}, size \in {26, 30, 45}, nz \in {2, 4, 16}, how \in {"force", "speed", "size"}}

-----------------------------------------------------------------------------
\* Everything has its type; what a bucket is said to hold is what it holds, while
\* parts of buckets come and go.
TypeOK ==
  /\ phase \in {"strip", "round", "source", "target", "done", "failed", "written", "thrown"}
  /\ round \in 1 .. 7
  /\ ToSet(order) \subseteq PNs /\ ToSet(targets) \subseteq PNs
  /\ \A pn \in PNs :
       /\ main[pn] = Bucket(main[pn].groups)
       /\ HasNone(over[pn]) \/ over[pn] = Bucket(over[pn].groups)

\* The places of the values in a bucket
Places(b) == Values(b)

\* Buckets that are empty by their sizes may have subgroups that were copied.
Everywhere ==
  LET pns == Ascending(PNs, Cardinality(PNs))
  IN FlattenSeq([i \in DOMAIN pns |->
       Places(main[pns[i]]) \o (IF HasNone(over[pns[i]]) THEN <<>> ELSE Places(over[pns[i]]))])

\* Every value of the matrix is in one bucket, the PN's or one that overflowed, once,
\* whatever rows and parts of rows have been moved.
NothingLost ==
  /\ ToSet(Everywhere) = problem.nonZeros
  /\ Len(Everywhere) = Cardinality(problem.nonZeros)

\* Once what overflows has been stripped off, no PN's bucket overflows again.
NoneOverflows == phase # "strip" => \A pn \in PNs : ~ Overflown(main[pn])

\* "Meta info exceeds specified bucket size" is never thrown: what the partitioner has
\* counted for a bucket, piece by piece, is what is written.
NothingThrown == phase # "thrown"

\* Wherever the partitioner has got to, the buckets hold the matrix, as far as they do
\* not overflow, and what they are said to take is what is written.
BucketsHoldAll == TypeOK /\ NothingLost /\ NoneOverflows /\ NothingThrown

SubGroupIds == 1 .. X * Y

\* Terms, each once, of the values that a bucket holds of a subgroup
OnceEach(terms, expected) == Len(terms) = Cardinality(expected) /\ ToSet(terms) = expected

HeldOf(b, id) == {g \in ToSet(Held(b)) : SubGroupId(g) = id}
With(b, id) == UNION {{<<v, Placed(g, v)>> : v \in ToSet(ValuesOf(g))} : g \in HeldOf(b, id)}

\* In the forward pass, the workers of a tile add up the product of each value in the
\* bucket with each z, once, in the right place: shares of rows and columns that several
\* workers have, offsets from each entry, and values that are counted on from row to row.
ForwardRight ==
  phase = "written" =>
    \A pn \in PNs, id \in SubGroupIds :
      OnceEach(ForwardTerms(written[pn].forward, written[pn].values, id),
               {<<w[1][1], z, w[1][2], w[2]>> : w \in With(main[pn], id), z \in 0 .. NumZ - 1})

\* In the pass for the gradient of the input, with the matrix transposed: the same.
GradARight ==
  phase = "written" /\ ~ problem.blocks =>
    \A pn \in PNs, id \in SubGroupIds :
      OnceEach(GradATerms(written[pn].gradA, written[pn].values, id),
               {<<w[1][2], z, w[1][1], w[2]>> : w \in With(main[pn], id), z \in 0 .. NumZ - 1})

\* In the pass for the gradient of the values, each value's is worked out once, though
\* a worker begins and ends in the middle of rows.
GradWRight ==
  phase = "written" /\ problem.gradW =>
    \A pn \in PNs, id \in SubGroupIds :
      OnceEach(GradWTerms(written[pn].forward, written[pn].values, id),
               {<<w[1][1], w[1][2], w[2]>> : w \in With(main[pn], id)})

\* What the host reads back from the buckets of all PNs is the matrix that it gave.
HostReadsMatrix ==
  phase = "written" =>
    LET pns == Ascending(PNs, Cardinality(PNs))
    IN OnceEach(FlattenSeq([i \in DOMAIN pns |->
                  ReadBack(written[pns[i]].forward, written[pns[i]].values)]),
                {<<v[1], v[2], v>> : v \in problem.nonZeros})

\* What the workers and the host make of the buckets, in every pass, is what the matrix
\* and its transpose are.
StreamsRight == ForwardRight /\ GradARight /\ GradWRight /\ HostReadsMatrix

\* Where the loops are, each counted from the outermost
Position ==
  <<IF phase = "strip" THEN 0 ELSE IF phase \in {"round", "source", "target"} THEN 1 ELSE
      IF phase = "done" THEN 2 ELSE 3,
    round, IF phase \in {"source", "target"} THEN source ELSE 0, IF phase = "target" THEN target ELSE 0>>

\* No bucket, whole or in parts, is moved again and again: each step is further on in
\* one of the loops, all of which are bounded, so that the partitioner comes to an end.
NeverGoesBack ==
  [][\E n \in 1 .. 4 : Position'[n] > Position[n] /\ \A m \in 1 .. n - 1 : Position'[m] = Position[m]]_vars

\* "This will give exact cost as the final real allocation" (useActualWorkerSplitCosts,
\* SparsePartitionerImpl.hpp:82-84), so that what fits by these costs can be written.
ExactCost == problem.workerCosts => phase # "thrown"

\* Costs by the workers that have a share
MCActualCosts ==
  {[p EXCEPT !.workerCosts = TRUE] : p \in {p \in MCProblems : ~ p.blocks /\ p.gradW /\ p.workers = 3}}

-----------------------------------------------------------------------------
(* Propagation *)

\* Everything has its type, and the unsigned count of what remains never wraps.
DeviceTypeOK ==
  /\ pc \in {"idle", "test", "exchange", "return", "done"}
  /\ level \in 1 .. 3
  /\ totalRemaining \in 0 .. Product(Partition)
  /\ \A d \in 1 .. 3 : indices[d] \in 0 .. Partition[d] /\ offset[d] \in 0 .. Partition[d] - 1

\* The offset from the PN of a bucket to a tile
OffsetTo(pn, tile) ==
  [d \in 1 .. 3 |-> (Partition[d] + tile[d] - IndexOf(pn)[d]) % Partition[d]]

Times(o) == Len(SelectSeq(visited, LAMBDA v : v = o))

\* In every pass, each part of the matrix, wherever it has spilled to, meets the
\* operands of each of its tiles, that is, its place in x and y and every z, and it meets
\* them once: no more is added to an output than belongs there.
EachMeetsOnce ==
  /\ DeviceTypeOK
  /\ pc = "done" =>
       \A pn \in PNs : \A g \in HeldBy(pn), z \in 0 .. Z - 1 :
         Times(OffsetTo(pn, <<g.index[1], g.index[2], z>>)) = 1

\* Partial sums that have moved with their buckets are back at their bucket's PN, as
\* long as some part of the matrix has stayed at its own x.
PartialsBack ==
  pc = "done" /\ pass = "gradWBuckets" /\ BitIsSet(0) => offset = <<0, 0, 0>>

\* "We ensure these always end up at their original position when doing propagation
\* phases" (FullyConnected.cpp:1867-1868)
PartialsAlwaysBack == pc = "done" /\ pass = "gradWBuckets" => offset = <<0, 0, 0>>

\* The control program comes to an end, on counters that are unsigned.
ComesToAnEnd == (pc # "idle") ~> (pc = "done")
=============================================================================
