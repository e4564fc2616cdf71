# Verification of poplibs: solver, planners, and the programs they build

This directory specifies parts of poplibs in TLA+, checks the specifications
with TLC on small instances and proves the central ones with TLAPS for every
instance. Each definition is translated from the C++ source; the lines it stands
for are in `PROJECT.json` under `map`.

## 1. Inventory

poplibs is a set of C++ libraries that build computation graphs for Graphcore
IPUs, and the codelets (C++ and assembly) that run on the tiles. Nearly all of
the host code is single-threaded graph construction: it decides, at compile
time, which tile does what and in which order. What is hard in it is therefore
search, index arithmetic and the order of steps, more than concurrency. The
graph itself runs in bulk-synchronous steps on many tiles at once.

| Component | State | Operations | Interaction | What makes it hard, what makes it correct |
|---|---|---|---|---|
| **popsolver** (`lib/popsolver`) | domains of variables, worklist and queued flags, the stack of the search, the incumbent | `Model` methods that add variables and constraints; `Constraint::propagate`; `Scheduler::propagate`; `Model::minimize` | called by the planners of poplin and popsparse; the search and the scheduler share the domains; constraints call back into the scheduler | a long search over shared mutable domains; state kept across failures; wrap-around. Correct: no solution lost, the result is an optimum |
| **TensorCollectives** (`lib/popops`) | fragments of a tensor per IPU, in-flight copies | `reduceScatter`, `allGather`, `allReduce` over rings, bidirectional pairs, meet in the middle | copies between IPUs in lock step; built on elementwise operations | modular index arithmetic per step and direction. Correct: each fragment has each rank's contribution exactly once |
| **CircBuf** (`lib/popops`) | buffer, index tensor | `add`, `prev` | programs appended by the caller, run in order | wrap-around of the index |
| **Dynamic slice, gather, scatter, sequence slice** (`lib/popops`) | tensors, offsets | `dynamicSlice`, `dynamicUpdate`, `multiSlice`, `multiUpdate` | planned through popsolver; codelets per tile | partition of the index space, out-of-range offsets |
| **Reductions** (`lib/popops/reduction`) | patterns of columns per tile, stages | plan, stage creation, pattern detection | uses poputil tile mappings | every input reduced exactly once |
| **Sort, top-k** (`lib/popops`) | keys and values per tile | heap sort vertices, odd-even exchange, bitonic merge | BSP steps across tiles | sorting networks on partial powers of two |
| **Convolution planner** (`lib/poplin`) | plans, a cache of plans | `getPlan`, the cost model as a popsolver model | popsolver; a planning cache filled by several threads | search bounds, cache keys |
| **poplin operations** | matmul, Winograd, Cholesky, triangular solve, norms | graph builders | poputil, popops | block recursion |
| **popnn** | RNN state machines, CTC loss and inference, pooling, losses | loops of programs over time steps | poplin, popops | loop-carried state, recomputation intervals |
| **popsparse** | bucketed sparsity metadata, partitions, overflow buckets | `SparsePartitionerImpl`, dynamic exchange over buckets, block-sparse hypergraph partitioning | popsolver plans, popops | buckets overflow and move between tiles |
| **poputil, poplibs_support** | tile mappings, option maps, visitors | tile mapping and regions, memoisation, graph functions | used everywhere | interval arithmetic |
| **poprand, popfloat** | seeds, number formats | random codelets, format casts | codelets | numeric formats |
| **codelets** (`*/codelets`) | per-vertex | arithmetic on tiles | called by the graph | supervisor and worker partitions, assembly |
| **poplibs_test, tests, tools** | reference implementations | | | not part of the product |

How the modelled parts meet: the planners of poplin and popsparse build a
`Model`, call `Model::minimize`, and get a `Solution`. `minimize` makes a
`Scheduler` from the model's domains and constraints; the search changes domains
through the scheduler, the scheduler calls `Constraint::propagate`, and that
changes domains through the scheduler again. The planner of poplin keeps plans
in a cache that several threads fill, and deals tiles out to convolutions that
run together; each plan says how the parameters of a convolution are split into
parts. The partitioner of popsparse fills the buckets that the control program
of a fully connected layer then moves round the tiles. Collectives, the circular
buffer, recurrent networks, sorting, top-k and the CTC decoder build graph
programs, and what is modelled of them is the program as it runs.

## 2. Modules

| Module | Models | Builds on |
|---|---|---|
| `Constraints` | the `propagate` of each constraint, as operators from domains to an outcome; what each constraint means | |
| `ConstraintCalls` | one constraint, called and called again, from any domains | `Constraints` |
| `ModelBuilder` | the methods of `Model` that add variables and constraints | `Constraints` |
| `ConstraintSystem` | what the scheduler may assume of constraints, as named assumptions on CONSTANTS | |
| `Scheduler` | `Scheduler.cpp`, `.hpp`, and its client's protocol | `ConstraintSystem` |
| `Propagation` | the abstract scheduler: a call of `propagate` is one step | `ConstraintSystem` |
| `Minimize` | both `Model::minimize` | `Scheduler` |
| `Optimizer` | the abstract search: an incumbent that only improves, returned when nothing beats it | |
| `PlanCache` | the planning cache of poplin, its memo tables, the joint plans of fully connected layers | |
| `MultiPlan` | the tiles dealt out to convolutions that run at the same time | |
| `ConvGeometry` | a convolution's parameters and what they mean, in one field dimension | |
| `SubConvolutions` | canonical form, backward and weight update pass, split into parts | `ConvGeometry` |
| `ConvRanges` | the queries of ranges of inputs, kernel and outputs that go together | `ConvGeometry` |
| `WorkerSplit` | how a tile's sparse work is shared among its workers | |
| `SparseBuckets` | the partitioner of popsparse: buckets, overflow, rebalancing | `WorkerSplit` |
| `SparseMetaInfo` | the streams the buckets are written as, and the codelets and the host that read them | `SparseBuckets` |
| `SparsePropagation` | the control program that moves buckets, or operands, round the tiles | `SparseBuckets` |
| `RingCollectives` | `reduceScatter`, then `allGather`, as they run | |
| `RankCollectives` | how ranks of several IPUs cut and reorder tensors; the choice of `AUTO` | |
| `AllReduce` | `allReduce` on rings, or on ranks of several IPUs | `RingCollectives`, `RankCollectives` |
| `CircBuf`, `History` | `CircBuf::add`, `prev` as they run; the abstract circular buffer | |
| `RnnShards` | the loops over time steps of a recurrent network, `shiftRnnTensor` | |
| `IntervalSort` | sorting in place: heap sorts of intervals and exchanges between them | |
| `TopK` | the bitonic network for the k best of n | |
| `SplitRegions` | `splitRegions`: regions divided into partitions | |
| `CandidateSort` | the plan and the sorts of the candidates of the CTC decoder | |
| `CTCBeamSearch` | the CTC beam search decoder, compute set by compute set | `CandidateSort` |
| `PrefixSearch` | the abstract beam search: sequences and what leads to them | |

Theorems are in `ConstraintProofs`, `FixedPointProofs`, `SchedulerProofs`,
`MinimizeProofs`, `PlannerProofs`, `CircBufProofs`, `RnnShardsProofs` and
`RingProofs`.
A module `MC...` gives constants for runs. Some of these compose machines that
share nothing (`MCConstraints`, `MCPlanner`, `MCConvolutions`, `MCSparse`,
`MCOperations`): the initial state chooses one, and a behaviour is of that one
alone, while the variables of the others keep a first value. A property there
says what it says of the machine chosen.
`BeamPlans` has the plans and the calls of the decoder that are checked.

### Constraints, ConstraintCalls, ModelBuilder

A domain is a record of `min` and `max`; the state that `propagate` works on is
a record `PropState` of the domains, the variables touched, whether it returned
true, and whether an `assert` failed. `SetMin`, `SetMax` and `SetValue` are the methods of
the scheduler a constraint calls, with their asserts. The statements of each
`propagate` follow one another as steps from one `PropState` to the next. The loop of `Product` is a recursive
function that runs `ProductPass` until nothing changes. `Sum` keeps the sums it
took at the start while the domains change under it, as the code does. Numbers in
`BigInteger` are taken modulo `2^(2 * Bits)`, those in `DataType` modulo `2^Bits`,
so that both wrap where the code's do.

`ConstraintCalls` starts from every combination of domains and calls
`propagate` twice. That is where it is checked that real constraints are what
the assumptions of `ConstraintSystem` say.

In `ModelBuilder` the state is what `Model` keeps (`model`), the variables the
caller has (`handles`), and the calls it has made (`asked`, for the properties). A method
is an operator from the model before to the model after and the variable
returned, composed of others exactly where the code calls them. The properties
compare all solutions of the constraints built with the meaning of the calls
over the integers.

### Scheduler and Propagation

| Specification | Code |
|---|---|
| `domains`, `worklist`, `constraints` | the members of `Scheduler` of those names |
| `queued` | the numbers whose flag is set in `Scheduler::queued` |
| `saved` | the copies of `getDomains()` that the frames of `minimize` hold |
| `status` | what the call of `propagate` under way, or the last, returns |
| `entry` | none: the domains at the call, for the properties |
| `EvaluateConstraint` | one iteration of the loop in `propagate` |
| `PropagateDone` | the return of true; a return of false is part of `EvaluateConstraint` |
| `Branch`, `Bound`, `Restore` | the client's `set`, `setMax`, `setDomains` |

`Propagate`, `Scope` and `Holds` are CONSTANT operators here: proofs use nothing
but the assumptions about them, and the runs put the operators of `Constraints`
in their place. `propagate` returns with the worklist not empty after a failure,
and `Restore` does not clear it, as in the code.

`Propagation` has no worklist. A call either ends in domains that are a common
fixed point and keep all solutions, or says that there is none. `Scheduler` is
shown to implement it, with the domains seen as they were at the call until it
returns.

### Minimize and Optimizer

The recursion is the sequence `frames`, one frame for each value loop under way,
with the frame's copy of the domains at the same place in `saved`. `pc` names
the place in the innermost `minimize`: `enter` (choosing a variable), `loop`, `branch`
(propagating a value), `return`, `tighten` (a bound to set), `bound`
(propagating it). Every action that changes domains is one of `Scheduler`'s
conjoined with what the search does, so a step of the search that `Scheduler`'s client may not take shows as a deadlock.

`Optimizer` is written from the documentation of `minimize` alone: an incumbent,
replaced by better ones, returned when no solution is better.

### PlanCache and MultiPlan

A layer is what plans are asked for: a convolution, or a fully connected layer
with its passes. `plans` is `planCache` and `estimates` the memo table, each of
the cache a caller passes and of the one a call without a cache makes. `Preplan`
and `GetPlan` are the two entries to the planner. `preplanConvolutions` starts a
job for each key (`jobs`), and the jobs share the memo table with no lock around
look-up and insertion together: `FindEstimate`, `MissEstimate` and
`InsertEstimate` are the steps of a job, in any interleaving. A search of
popsolver is one step that picks, among candidate plans of known cycles and
memory, one of fewest cycles that fits the bound (what `Minimize` is shown to
do), after one look-up that stands for the many of a search. If nothing fits, a
job goes on as the code does: with twice the bound, with separate plans of the
passes, and so on (`Continue`). `Commit` is the insertion, in order, of what the
jobs found, `Throw` what happens when one found nothing; `FindPlan` and
`MissPlan` are the look-up of `getPlan`, with the plan of another pass derived
from the joint one.

`MultiPlan` has the loops of `getParallelMultiPlan`: the largest convolution
first, the others from the smallest up; `start` in the code's arithmetic, with
unsigned numbers that wrap. A run of the planner is a choice of how many of the
tiles offered are used, or an error.

### ConvGeometry, SubConvolutions, ConvRanges

What a convolution computes is the set of its terms: which input meets which
element of the kernel in which output (`Meaning`). Field dimensions do not
interact, so that one of them is enough. `canonicalize`, `getGradientParams`,
`getWeightUpdateParams` and `getSubConvolution` are operators on the record of
parameters, and the properties compare terms.

### The sparse modules

A value of a matrix is its place in it. `SparseBuckets` puts them into
subgroups and buckets, finds what is over the size of a bucket, and moves it in
the order of the code's rounds; sizes of meta information are counted as in
`SparsePartitionerImpl`. `SparseMetaInfo` writes the streams of numbers and reads
them as each codelet does: the properties are about the terms that result. `Write`
throws where `bucketsImplInternal` does, on a stream or values that are too many or a
number that is too large. The partitioner balances the buckets by the sizes of the forward stream
alone; whether the transposed one for GradA fits the size planned for it is only
seen when it is written, and the runs plan enough (`GradASize`).
`SparsePropagation` has one action for each step of the program in `FullyConnected.cpp`
that moves buckets between tiles, with the counters on the device.

### RingCollectives, RankCollectives, AllReduce

The state of `RingCollectives` is that of the graph program: `data`, the tensors in flight at each
index of the ring per direction (`data`, `clockwiseData`, `anticlockwiseData`
in the code), `chunks` between the two halves, `passing` and `results` while
gathering. An element of a tensor is the set of inputs reduced into it, so that a
contribution that is lost, doubled or misplaced shows. `Copy` and `Reduce` are
the two programs of a reducing step, `GatherCopy` the one of a gathering step. The graph
runs them in order on all IPUs at once; the code builds `Copy(concat(...))` for
all ranks and both directions, and so does an action. In `RankCollectives` an
element is its position, and what is modelled is how fragments are cut, spread
over the IPUs of a rank and put back in order, no more: that each rank is brought the
fragments that are its own is taken from the ring. `FragmentsArrive` is where that is
so, and `AllReduce` assumes it of every call.

### CircBuf and History

Each of `add` and `prev` is two compute sets, and an action each: `IncrIndex`
then `Update`, `Offset` then `Slice`. The index moves ahead of the data between
the first two. `History` is indexed by age and has no slots. The refinement
mapping turns slots into ages, going back from the slot of the latest entry.

### RnnShards

The state of the cell is the sequence of steps that it has been taken through,
so that a step left out, repeated or out of order shows. `Iterate` is one
iteration of the `Repeat` of a shard: the cell (`Process`), zeros for a step that
no member of the batch has (`Reset`), or zeros for what is past the shard
(`Outside`), then `updateGather` and the counters. What is written for a step is
in `out`, what waits to be gathered in `temp`, and `gathered` has the pairs of
each gather: the step of an input and the step of the interim output it meets.

### IntervalSort, TopK, SplitRegions

`IntervalSort` heap sorts each interval as one step (the heap sort is an operator
written after `HeapSortVertex`), and exchanges the elements at the edges until
none is out of order. `TopK` lays its inputs out and takes one sweep of compare
and swap per action; by the 0-1 principle the inputs are zeros and ones.
`SplitRegions` has one action for each region that `splitRegions` looks at.

### The CTC modules

`CTCBeamSearch` has one action for each compute set: generating candidates,
merging, marking, sorting, updating. Beams are entries of a history of parents
and symbols, as in the vertices. `PrefixSearch` has sequences of symbols and the
probabilities of what leads to them, and the decoder is shown to implement it.
Probabilities are whole numbers; their sum and product are what the logarithmic
ones of the code stand for.


## 3. Runs

Seven runs hold; five check one property each that the code violates (section 6).

| Run | Question | Instance |
|---|---|---|
| `scheduler` | does the worklist stay coherent, and does `propagate` keep its contract, for any client? | four systems of three constraints, 27 initial domains of three variables, values 0..3, two copies |
| `minimize` | does branch and bound return a lexicographic optimum, and none only where there is none? | five systems, 27 initial domains, four vectors of objectives, 3-bit words |
| `constraints` | is each `propagate` sound, exact on assignments and idempotent; and does what the methods of `Model` build mean what was asked? | ten calls, bounds of domains from {0, 1, 2, 3, 6} of 3-bit words; any two methods on two variables and their results |
| `planner` | do plans agree and fit, however jobs interleave; and do convolutions planned together get tiles of their own? | nine layers, two calls after each other, every interleaving; 1 to 7 convolutions on 6, 8 or 12 tiles, two to a bus |
| `convolutions` | do canonical form, other passes and parts compute what the convolution does, and do ranges go together? | one field dimension; input 3, kernel 2; dilation and stride up to 2, with truncation, padding and flips; one level of 2 or 3 field parts, 1 or 2 kernel parts, grains of 2 |
| `sparse` | is every element of a sparse matrix in a bucket, and does every part meet its operands once? | 4 by 4 matrices on up to 2 by 2 by 2 tiles, 1 or 3 workers, in buckets from too small to ample; propagation over up to 3 by 2 by 2 tiles |
| `operations` | does each tensor operation do what it is for? | see below |
| `doubled_sum` | and a sum with a repeated operand? | `sum({x, x})` |
| `sparse_exact_cost` | are costs by the actual workers exact? | one bucket |
| `partials_home` | are partial sums always back where they began? | forced spills |
| `rank_groups` | does the reduction of candidates read what was ranked? | 21 classes, 7 beams, 38 tiles |
| `selection_sort` | are merged candidates nulled with the selection sort? | three classes, three beams |

In `operations` a behaviour is of one of: the circular buffer (three slots, three
tensors); the recurrent network (up to five steps, all numbers of shards whose last
shard has steps, batches up to two, all lengths in the batch, gathers up to the
length); interval sort (three elements of three keys, five of two); top-k (n
from 2 to 6 with every k, n = 7 and 9 with k = 3, and windows of 22 elements with k
= 18; inputs are zeros and ones); division of regions (up to two regions of length 0
to 4, and some of three); all-reduce over rings (clockwise with 1 to 7 ranks; all pairs of
methods with 1, 2, 4 and 8; some with 16) or ranks (six elements on the IPUs of a rank in every
way: two ranks of two or three IPUs, by one way and by both, four of two, and three
that reduce clockwise; ranks of one IPU: 2 and 4 with every method, 8 and 16 with
`AUTO`, and 3, 6 and 10 that reduce clockwise and gather with `AUTO`); beam search (three classes with each as blank, widths 1 to 3, three
steps).

What each property says stands above it in its module. Why the bounds are
enough:

- *Constraints.* Rounding, zero and equal bounds happen with domains of up to four
  values; 6 is the upper end of the default domain in 3-bit words, so that the
  largest products and sums pass the word. Two calls are enough for
  idempotence. The longest method of `Model` (`mod`) adds four variables and five
  constraints; a second method on the result of the first gives every
  composition of two, and repeats constants. The meaning is claimed for
  values up to 2 (`Small`): larger ones meet the end of the default domain in an
  intermediate product.
- *Scheduler.* A failure that leaves constraints queued needs three constraints
  and a cycle of orders; a stale worklist after `Restore` needs two copies.
- *Minimize.* Three variables give two loops that wait on a third; the systems
  have objectives that fall and grow with an operand, priorities from a call,
  and no solution. The vectors have a second objective that decides.
- *Planner.* The nine layers reach every branch of `Continue`. Two calls are enough to
  find what another made, or to make it twice. Six tiles are too few for seven
  convolutions; 12 on buses of two leave rounding to be made up for.
- *Convolutions.* Each transform of a convolution meets each other. Dimensions of the field are
  independent in the code.
- *Sparse.* The sizes leave buckets that overflow to a neighbour in each direction,
  that overflow more than one way, and that fit. `WordBits` 2 makes the bit mask of
  tiles to visit take two words.
- *Recurrent network.* Five steps in two shards have a last one that is shorter;
  gathers of two leave one that is not full. The theorem of section 5 has no bound.
- *Sort and top-k.* By the 0-1 principle zeros and ones decide a network. The
  windows of 22 are what remains a power of two twice over.
- *Collectives.* The tests run 2, 4, 8 and 16 ranks; so do the runs, with odd numbers too
  for the clockwise ring. Tensors have no element, fewer than there are
  fragments, as many, and more. `SizeBits` is 16 in place of 64 for `size_t`: remainders of
  wrapped numbers are taken by the number of ranks, and 2^16 and 2^64 leave the
  same remainder for every number of ranks in the runs. The theorem of section 5 has
  no bound. Numbers of ranks that are no power of two reduce clockwise in all calls, of
  rings (`RingsFit`) and of ranks (`FragmentsArrive`): what happens otherwise is in
  section 6. Thresholds of `AUTO` are
  scaled to 4, 8 and 12 bytes.
- *Beam search.* Three steps are what it takes to merge two ways to the same sequence
  and go on from them. The plans are those by which every row of a rank is
  written; the selection sort is for widths below the number of classes. What
  happens otherwise is in section 6.

`CHECK_DEADLOCK FALSE` is in the runs of programs and callers that stop:
`constraints` and `planner` (after a bounded number of calls), `convolutions` (one
step), `operations` (programs end), `scheduler` (a client that has nothing to
put back stops), and the runs that look for a violation.

## 4. Fairness

- popsolver runs in one thread, and a function called runs until it returns. In
  `Scheduler` that is weak fairness of the loop of `propagate`, and none of the
  client: it may stop whenever it likes. In `Minimize` it is weak fairness of the
  whole next-state relation.
- A job of the planner is a thread of a pool, and goes on: `PlanCache` has weak
  fairness of each job's steps, and of what the caller does once the jobs have
  ended. None of the calls themselves: there may be no further one.
- A graph program runs to its end, hence weak fairness of the steps of
  `SparsePropagation`, of `IntervalSort` and of `RingCollectives`. Other modules claim
  no liveness.

## 5. Proofs

Each theorem is of every value of the constants that meets the assumptions of
its module, and those TLC evaluates on the runs. A hypothesis beyond them is named
in the theorem.

### ConstraintProofs

For all seven kinds of constraints, any number of operands, any domains and any
width of numbers: `DispatchSound`, and from it `CallsNarrowSoundly`
(`NarrowsSoundly`) and `CallsDecideAssignments` (`DecidesAssignment`). The invariant
(`IInv`) compares what is left after any number of calls with the domains at the
first one: no solution of those is lost, and where they were single values an ok
means that these meet the constraint.

Each constraint has a lemma (`LessSound`, `MaxSound`, `SumSound`, `ProductSound`, ...) that its
`propagate` is `Sound`: the state stays `Fine` (no assert failed, no domain inverted),
domains are `Narrower`, and it `Decides`. The argument goes by these:

- Loops over operands are folds of the library, recursive functions of sets of positions. That
  they are well-defined (`FoldExists`) and go through a list of states, one for each
  operand (`FoldSteps`), is shown by the smallest position where it would fail
  (`Smallest`, `UpTo`); no induction theorem with an operator for parameter is needed.
- `SumOperandIs`: one operand of a sum. The sums of the others, taken once at the call, do
  not wrap as long as the operand's own domain is the one they were made from: this is
  where distinct operands are needed. `SumIsBounded` is why 128 bits hold a sum of
  64-bit operands.
- `ProductPassKeeps`: one pass of `Product` keeps every pair of factors with a
  product in range (`UpperFactor`, `LowerFactor` are the rounded divisions), also where
  both factors are one variable.
- The loop of `Product` ends from every state (`ProductPassTightens`): each change
  takes something from the widths of the three domains. Hence the recursive
  function is well-defined (`LoopExists`), and what a pass keeps its result keeps
  (`LoopLeads`).

The hypothesis `CallsFit` says what the constraints and domains that `Model` makes
are: distinct variables but in a product, at most 2^64 operands of a sum, domains
that are not the whole of `DataType`, whose size would wrap to 0 and make
`GenericAssignment` take it for a single value, and functions of at most one
value. TLC evaluates it on the run `constraints`. `Model` itself enforces neither
that operands are distinct (`doubled_sum` shows what happens) nor that a client's domain
stops short of `DataType::max()`.

### FixedPointProofs

`DispatchSettled`, and from it `CallsReachFixedPoint` (`FixedPoint`): from the domains
that a successful call leaves, a call of any of the seven constraints succeeds,
narrows nothing and sets nothing, which is what `Scheduler.cpp:57-60` asks of them. It takes
up `ConstraintProofs` where soundness left off: that bounds what one call may
lose, while this needs exactly what each call leaves. For each constraint, a lemma
`...Rests` says of what domains a call changes nothing, and `...Settled` that a call leaves
such domains.

- A maximum and a minimum are clipped to what the operands have between them, operand by
  operand; `MaxSettled` and `MinSettled` find the operands' extrema after it.
- `SumSettled`: each operand is narrowed by sums taken before any was. Those of the
  domains that are left may be smaller, and yet allow no more: what one operand loses
  shows up as slack in no other (`SumsFit`, by `SumsAdd` and `ExcessSum`, on sums of
  the differences).
- `ProductSettled`: the loop ends where a pass touched nothing (`LoopEnds`), and such a
  pass left the state as it was at each of its six steps (`ProductPassIdle`), so that
  one more would do the same.

`FixedPoint` is proved with `IInv` and `AnswerSettled`: before the first call nothing has been
done, and after it the domains are a fixed point. The hypothesis is `CallsFit`, as above,
without which it is wrong (`less(x, x)`, section 6).

### SchedulerProofs

For all systems of constraints that meet the assumptions of `ConstraintSystem`,
any number of variables, any bound on values and depth: `TypeCorrect`,
`QueueIntegrityHolds`, `FixedPointHolds`, `SolutionsAreKept`, `InductiveInvariant`
(`IInv`), and `ContractImplemented`: `Scheduler` implements `Propagation`.

That a return of true is at a common fixed point is not inductive: it says nothing while
`propagate` runs. `IInv` adds `QuietIsFixed`, that a constraint out of the
worklist is at its fixed point, for the current domains unless a call has just
failed, and for every saved copy always; and `OnlyNarrows`, from which solutions
are kept from call to return. After a failure the domains are worthless, and the
copies carry the invariant to the next call: that is why leaving the worklist as
it is does no harm. `IdempotenceAssumption` is what the comment at
`Scheduler.cpp:57-60` asks of constraints, and it is used at exactly one place:
where a constraint leaves the queue after its own changes. That real constraints
lose no solution (`SoundnessAssumption`, of the variables of the constraint) and decide
assignments (`DecisionAssumption`) is what `DispatchSound` proves, and
`IdempotenceAssumption` is `DispatchSettled`. The other assumptions hold of
them as far as `constraints` and TLC's evaluation in `scheduler` and `minimize`
show. Constraints with repeated operands are excepted.

### MinimizeProofs

`SearchInvariant` (`SearchInv`), and from it `AssertsNeverFail` (`AssertsHold`),
`NoBetterSolutionMissed` (`NothingMissed`) and `OptimizerImplemented`
(`ImplementsOptimizer`). A step of the search is a step of the scheduler's
client, so `IInv` is at hand. `SearchInv` adds what the recursion keeps: the stack of
copies lies nested, each frame's variable had more than one value in its copy
and the value under way is in it; the incumbent is in the copy of each loop it was
reported to; it is on its way to the caller (`Reported`), for `minimize` returns a
solution only if the outermost call says that it improved; and every solution better
than the incumbent is ahead: in the domains, or in the copy of a frame with a value not
yet tried. `NothingMissed` alone is
not inductive, since a return leaves no trace of why the rest of a copy needs no
look.

The hypothesis `BelowLimit` says that initial domains end below `DataType::max()`.
Without it the value loop wraps (`Model.cpp:411`).
`DefaultsAreBelowLimit` shows that it holds of every variable made with the
default domain.

### PlannerProofs

`EstimatesAreExact`: whatever the interleaving of jobs, a memo table has only what
the cost model says. `PlansAreDetermined`: what a cache holds and what `getPlan`
returns is a function of the layer alone. From it `PlansAlwaysAgree`
(`PlansAgree`) and `AlwaysFitsWithFewestCycles` (`FitsWithFewestCycles`).

The invariant (`PlansInv`) is that every cached plan is the `FinalPlan` of its key and each
job has found what it should by now. The hard part is the chain of attempts at
growing bounds: `Reach` is the set of bounds a job comes to from the first, and
`OneEnd` that only one of them is where it ends. A set is used in place of
recursion over bounds, as induction over data is out of the prover's reach. Which
of several jobs gives a plan first does not matter (`WithPlansRight`), and separate
passes are planned as they would be alone (`PlannedAlike`).

Of several convolutions planned together: `PlansLieInTurn` (`DealInv`) and `TilesAreDealtOut` (`TilesDealtOut`). The plans made
lie one after the other on whole buses, from where the reserved tiles end, and
what is set aside for those still to come is left. A plan may use up to a bus less
one tile more than its share by rounding up; that the shares of the
others make up for it is the invariant's arithmetic. The hypothesis `Enough` says that
there are tiles enough for the convolutions and the least number of tiles each,
and that the numbers are no wider than `unsigned`.

### RnnShardsProofs

`RnnInvariant` and `RecurrenceIsRight` (`RecurrenceRight`): cutting a sequence into
shards changes nothing of what the cell is run on, what is kept and what is
gathered. The invariant is about the frontier, how many steps of the whole are
behind: those have been run, each once and in order, and kept; of them, the
ones since the last multiple of the gather's size wait in the buffer, each at
its place, and the others have been gathered with their own inputs
(`GatheredFrom`). The hypothesis `StepsFit` says that twice the number of steps is
no wider than `unsigned`, as the loops round up to a multiple.

### RingProofs

`RingInvariant` and `AllReduceIsRight` (`RingInOrder`): for any number of ranks and
elements and any two methods, the operands of each reduce step are the same fragment
from ranks that have none in common, each rank is left its fragment of the whole
sum, no chunk is missing when gathering ends, and every rank then has the
whole in order. The invariant says, for each direction, what every index holds
after n steps: the fragment `FragmentNum(dir, i, n - 1)`, reduced over `Sources(dir,
i, n)`, the ranks of the n places behind i and of i itself; while gathering, the
chunk n places behind it. The argument goes by these lemmas:

- `RingBijects`: the even ranks upwards and the odd ones downwards take each place once.
- `FragmentNums`: what an index receives in a step is what its neighbour reduced in
  the step before, and in the last step it is its own. This is where remainders of
  wrapped numbers matter (`ModWrapped`).
- `SourcesGrow`, `SourcesMeet`: a step adds one rank that was not there; the two
  directions meet with all ranks between them, and none in both.
- `FragmentIs`, `PieceOfCut`, `MarkTwice`: limits of pieces, rounded down, are the
  same from both sides, and those of every second of twice as many are those of one.
- `AllHeld`: a chunk comes from one direction or the other in time.
- `Flattened`: cuts that follow one another concatenate to one. `FlattenSeq` is a
  recursive function; that it is the one expected is shown by the smallest index
  at which it would not be (`Smallest`, from the well-foundedness of numbers).

The hypothesis `RingsFit` says of the calls that products of positions are no wider
than `unsigned`; that the number of ranks divides the range of `size_t`, unless the
reduction is clockwise (section 6 has what happens otherwise); and that rings met
in the middle are even. TLC evaluates it on the run `operations`.

### CircBufProofs

For every size, every set of tensors and every width that holds twice the size:
`TypeCorrect`, `SliceIsOfAgeHolds` (`SliceIsOfAge`) and `HistoryImplemented`
(`ImplementsHistory`). The slot that `prev` reads is computed one step before it is
read, hence the strengthening by `SliceIsOfAge`. `NextSlot` and `OffsetGoesBack` are
the modular arithmetic of the two codelets; `IncrIndexHidden` shows that moving
the index ahead is invisible, `UpdateAdds` that the write is what adds the entry.

### Only model-checked

- Liveness (`PropagateReturns`, `Terminates`, `EveryCallEnds`, `ComesToAnEnd`,
  `ComesToBeSorted`, `RingTerminates`): the prover does not do `ENABLED`.
- `ModelBuilder`: its property compares the sets of all solutions of the constraints a
  method adds, with new variables for intermediate results.
- `RankCollectives`, `WorkerSplit` and the sparse modules on them use recursive
  operators, for which the prover has no backend.
- `TopK`, `IntervalSort`, `CTCBeamSearch`: a network and a heap are correct by
  induction over their size.
- `SubConvolutions`, `ConvRanges`: two records of fifteen numbers that compute the
  same; each case is nonlinear arithmetic.

## 6. Where code and documentation disagree

The five that a run shows:

1. `Constraint.cpp:163`: `sum({x, x})` rejects domains that hold solutions
   (`doubled_sum`).
2. `SparsePartitionerImpl.cpp:403`: costs with actual worker splits are not exact
   (`sparse_exact_cost`).
3. `FullyConnected.cpp:541`: with forced spills and nothing left at its own x,
   partial sums end on the wrong tile (`partials_home`).
4. `CTCInferencePlan.cpp:320`: in a smaller last group some partitions rank nothing,
   and the reduction adds up what nobody wrote (`rank_groups`).
5. `CTCInferenceConnection.cpp:393`: the selection sort does not see which
   candidates were merged (`selection_sort`).

Others, met while modelling. Where they are in a modelled part the model does as
the code does, and the constants leave out the inputs that lead there.

- `Constraint.cpp:299`: `less(x, x)` is not idempotent as `Scheduler.cpp:57` asks. It is
  in no run, and `CallsFit` leaves it out.
- `Model.cpp:411`: the value loop wraps past `DataType::max()` and does not end, and the
  size of a domain of all values is 0, so that its variable counts as assigned. The
  default domain ends one below. The runs and the theorems on the search have no such
  domain (`BelowLimit`), and no property covers this.
- `Model.cpp:253`: `ceildivConstrainDivisor` has no solution where the dividend is 0.
- `TensorCollectives.cpp:482` (and 551): the anticlockwise fragment number is a
  remainder of a wrapped `size_t`, wrong where the ranks are no power of two. Nothing
  is checked or claimed of such calls.
  Line 723 picks `MEET_IN_MIDDLE_RING` for odd rings where 520 asserts an even number;
  737 adds where the bytes gathered are a product; 231 multiplies in 32 bits
  what 272 takes in 64.
- `ConvPlan.cpp:1309`: with `availableMemoryProportion` 0 cycles are minimised (against
  1530); 1290 replans for cycles under a doubled bound, where `Convolution.hpp:89-91`
  speaks of memory; the assertion at 1867 fails with few tiles.
- `ConvUtil.cpp:463`: the quick kernel range is not exact (against 413); that it has
  every element used is what is checked.
- `Rnn.cpp:427`, `468`: any number of shards up to `getMaxShards` is accepted
  (`Lstm.cpp:404`, `Gru.cpp:291`), but with nine steps in seven shards the last one
  ends before it begins. In `shiftRnnTensor` (898-900) the end of the last shard lacks the
  multiple. `outputs` and `created` are not put back to zero by `resetProg`.
- `HeapSortVertex`: the comment says end - 2 where the code begins at size - 3.
  With k = n top-k is a copy, sorted only if asked for.
- `Util.cpp`: the comment's (3, 3, 3, 2) is (2, 3, 3, 3) in the code;
  `maxElementsPerRegion` below the grain size does not end, `maxSize` below it
  divides by zero.
- CTC decoding of an entry with `dataLength` 0 never sets `complete`.
- `CTCInference.cpp:980`: the vertex that updates the beams is connected with the times
  0 to `maxT` of the history (`CTCInferenceConnection.cpp:59-62`), `maxT` of its
  `maxT` + 1 rows, and writes the row of the current step, the last of which is `maxT`:
  at the last step it writes one row past what it is connected with. It is right only
  as that row lies behind the others on the tile. `CTCBeamSearch` has all rows.
- `PNBucket::move` copies subgroups, so that overflow buckets keep rows whose sizes are 0.
  `findPartitionsToRemove` never splits a row when meta information is what binds.

## 7. Not modelled

The table of section 1 has the parts, `components` in `PROJECT.json` the reasons. In
what is modelled: logging, debug names and the count of evaluations; the cost
model of convolutions, which the planner takes as given; tile mappings of
temporary tensors in the collectives; the grains of an entry in the circular
buffer; conversions between sparse formats, the planner of sparse layers, and the
weight update with buckets exchanged over more than one z; the loss of CTC and where
its decoder places things. Elements that tie in a sort are taken in the order
given. Arithmetic on tiles and assembly codelets are outside what a model checker
can say.

## 8. Plan

Done: all modules of section 2. Theorems still to come, in this order:

1. `ConvRanges`: the range returned is the hull of the inputs used.
2. `SplitRegions`: partitions differ by at most one grain.
