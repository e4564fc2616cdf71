---------------------------- MODULE MCOperations ----------------------------
(***************************************************************************)
(* Operations on tensors, each a program of its own: the circular buffer,  *)
(* the loop of a recurrent network, sorting in place, the k best of some   *)
(* elements, dividing regions among workers, all-reduce over ranks, and    *)
(* the beam search of connectionist temporal classification.  A behaviour  *)
(* is of one of them: they share nothing.                                  *)
(***************************************************************************)
EXTENDS CircBuf, RnnShards, AllReduce, BeamPlans

CONSTANTS Rows, Plans

VARIABLES
  operation,                                           \* whose behaviour it is
  bounds, elems, given, at,
  topk, ones, t, mergeStep, sortStep, nThisStep,
  call, vertex, vertexSize, item, itemOffset, parts,
  beamCall, step, stage, currentTimestep, complete, parent, addend, length, last, pb, pnb, pTotal,
  copies, extends, merged, marked, ranked, sorted, labels

Sorting == INSTANCE IntervalSort
Best == INSTANCE TopK WITH given <- ones
Split == INSTANCE SplitRegions WITH offset <- itemOffset
BeamSearch == INSTANCE CTCBeamSearch WITH call <- beamCall

ASSUME StepsAssumption == StepsFit /\ MaxSteps > 0
ASSUME AllReduceAssumption == CollectivesAssumption
ASSUME RingsAssumption == RingsFit

sortVars == <<bounds, elems, given, at>>
topkVars == <<topk, ones, t, mergeStep, sortStep, nThisStep>>
splitVars == <<call, vertex, vertexSize, item, itemOffset, parts>>
collectiveVars == <<ringVars, rankVars, ranks>>
beamVars == <<beamCall, step, stage, currentTimestep, complete, parent, addend, length, last, pb,
              pnb, pTotal, copies, extends, merged, marked, ranked, sorted, labels>>
allVars == <<vars, rnnVars, sortVars, topkVars, splitVars, collectiveVars, beamVars, operation>>

MCMethods == {"CLOCKWISE_RING", "ANTICLOCKWISE_RING", "BIDIRECTIONAL_RING_PAIR",
              "MEET_IN_MIDDLE_RING"}

Calls1(sizes, elements, reduce, gather) ==
  [ranks : sizes, elements : elements, reduce : reduce, gather : gather]

Clockwise == {"CLOCKWISE_RING"}

\* Rings of every size clockwise, and of the sizes the collective tests use for
\* all methods.  Elements fewer than the fragments, as many, and more.
MCRingCalls ==
  Calls1(1 .. 7, {0, 1, 5, 16}, Clockwise, Clockwise \cup {"ANTICLOCKWISE_RING"})
    \cup Calls1({1, 2, 4, 8}, {3, 9, 16}, MCMethods, MCMethods)
    \cup Calls1({16}, {17}, MCMethods, {"MEET_IN_MIDDLE_RING"})

RankCallsOf(n, ipus, elements, bytes, reduce, gather) ==
  [ranks : n, ipus : {ipus}, ipuOf : [1 .. elements -> 0 .. ipus - 1], bytes : bytes,
   reduce : reduce, gather : gather]

OneWayAndBoth == {"CLOCKWISE_RING", "BIDIRECTIONAL_RING_PAIR"}

\* Every way to spread six elements over the IPUs of a rank.  Ranks that are no power of
\* two reduce clockwise only, as FragmentsArrive asks; they gather either way.
MCRankCalls ==
  UNION {RankCallsOf({2}, ipus, 6, {2}, OneWayAndBoth, OneWayAndBoth) : ipus \in {2, 3}}
    \cup UNION {RankCallsOf({3}, ipus, 6, {2}, Clockwise, OneWayAndBoth) : ipus \in {2, 3}}
    \cup RankCallsOf({4}, 2, 6, {2}, {"BIDIRECTIONAL_RING_PAIR"}, OneWayAndBoth)
    \cup RankCallsOf({2, 4}, 1, 5, {2}, MCMethods \cup {"AUTO"}, MCMethods \cup {"AUTO"})
    \cup RankCallsOf({8, 16}, 1, 7, {2, 4, 12}, {"AUTO"}, {"AUTO"})
    \cup RankCallsOf({3, 6, 10}, 1, 7, {2, 12}, Clockwise, {"AUTO"})
    \cup RankCallsOf({2}, 2, 5, {2}, {"AUTO"}, {"AUTO"})

MCThresholds == <<4, 8, 12>>

\* Tensors for CircBuf, all different from one another, one for each slot
MCTensors == 1 .. 3

\* What an operation is at that is not the one of the behaviour
OneCall == CHOOSE r \in Calls : r.seqLen = 1
OneRing == CHOOSE c \in MCRingCalls : TRUE
OneRankCall == CHOOSE c \in MCRankCalls : TRUE
OneBeam == CHOOSE c \in MCPlans : c.width = 1
CircBufIdle == Init /\ hist = [s \in Slots |-> 1] /\ in = 1 /\ output = 1
RnnIdle == RnnInitWith(OneCall)
SortIdle == Sorting!SortInitWith(<<1>>, {})
TopKIdle == Best!TopKInitWith(<<1, 0>>, 1, TRUE, TRUE)
SplitIdle == Split!SplitInitWith([items |-> <<1>>, grainSize |-> 1, maxPartitions |-> 1,
                                  minSize |-> 0, maxSize |-> 1, maxRegion |-> 1])
RingIdle == IdleAt(OneRing, OneRankCall)
BeamIdle == BeamSearch!InitOf(OneBeam)

\* Keys that are all in one order or another, or many of them equal
MCKeys == UNION { [1 .. 3 -> 1 .. 3], [1 .. 5 -> 1 .. 2] }

\* Numbers of elements with and without a power of two left over, and one of
\* which sequences of four and of sixteen are made
MCSizes == { <<n, k>> \in (2 .. 6) \X (1 .. 6) : k <= n } \cup {<<7, 3>>, <<9, 3>>}

\* Twenty-two elements, some in the middle being ones: the least for which it
\* matters which elements take part in a sweep
MCOnes == { [i \in 1 .. 22 |-> IF a < i /\ i <= b THEN 1 ELSE 0] :
             a \in {0, 5, 10, 15, 17, 19}, b \in {7, 11, 16, 18, 21, 22} }

\* Items that end within grains and partitions, and empty ones
MCItems == UNION { [1 .. l -> 0 .. 4] : l \in 1 .. 2 } \cup {<<3, 11, 8>>, <<1, 0, 0, 9>>, <<10, 5, 27>>}
MCSplits ==
  [items : MCItems, grainSize : 1 .. 3, maxPartitions : {2, 3, 6}, minSize : {0, 3, 5},
   maxSize : {3, 6, 100}, maxRegion : {5, 100}]

AnyInit ==
  \/ /\ operation = "circ_buf" /\ Init
     /\ RnnIdle /\ SortIdle /\ TopKIdle /\ SplitIdle /\ RingIdle /\ BeamIdle
  \/ /\ operation = "rnn" /\ \E r \in Calls : RnnInitWith(r)
     /\ CircBufIdle /\ SortIdle /\ TopKIdle /\ SplitIdle /\ RingIdle /\ BeamIdle
  \/ /\ operation = "sort"
     /\ \E keys \in MCKeys : \E cuts \in SUBSET (1 .. Len(keys) - 1) : Sorting!SortInitWith(keys, cuts)
     /\ CircBufIdle /\ RnnIdle /\ TopKIdle /\ SplitIdle /\ RingIdle /\ BeamIdle
  \/ /\ operation = "topk"
     /\ \E largest, ascending \in BOOLEAN :
          \/ \E size \in MCSizes : \E s \in [1 .. size[1] -> {0, 1}] :
               Best!TopKInitWith(s, size[2], largest, ascending)
          \/ \E s \in MCOnes : Best!TopKInitWith(s, 18, largest, ascending)
     /\ CircBufIdle /\ RnnIdle /\ SortIdle /\ SplitIdle /\ RingIdle /\ BeamIdle
  \/ /\ operation = "split" /\ \E c \in MCSplits : Split!SplitInitWith(c)
     /\ CircBufIdle /\ RnnIdle /\ SortIdle /\ TopKIdle /\ RingIdle /\ BeamIdle
  \/ /\ operation = "collective" /\ CollectivesInit(OneRing, OneRankCall)
     /\ CircBufIdle /\ RnnIdle /\ SortIdle /\ TopKIdle /\ SplitIdle /\ BeamIdle
  \/ /\ operation = "beam search" /\ BeamSearch!Init
     /\ CircBufIdle /\ RnnIdle /\ SortIdle /\ TopKIdle /\ SplitIdle /\ RingIdle

CircBufNext ==
  /\ operation = "circ_buf" /\ Next
  /\ UNCHANGED <<rnnVars, sortVars, topkVars, splitVars, collectiveVars, beamVars, operation>>
StepsNext ==
  /\ operation = "rnn" /\ RnnNext
  /\ UNCHANGED <<vars, sortVars, topkVars, splitVars, collectiveVars, beamVars, operation>>
SortNext ==
  /\ operation = "sort" /\ Sorting!SortNext
  /\ UNCHANGED <<vars, rnnVars, topkVars, splitVars, collectiveVars, beamVars, operation>>
TopKNext ==
  /\ operation = "topk" /\ Best!TopKNext
  /\ UNCHANGED <<vars, rnnVars, sortVars, splitVars, collectiveVars, beamVars, operation>>
SplitNext ==
  /\ operation = "split" /\ Split!SplitNext
  /\ UNCHANGED <<vars, rnnVars, sortVars, topkVars, collectiveVars, beamVars, operation>>
OneIpuNext ==
  /\ operation = "collective" /\ RingsNext
  /\ UNCHANGED <<vars, rnnVars, sortVars, topkVars, splitVars, beamVars, operation>>
SeveralIpusNext ==
  /\ operation = "collective" /\ RanksNext
  /\ UNCHANGED <<vars, rnnVars, sortVars, topkVars, splitVars, beamVars, operation>>
BeamNext ==
  /\ operation = "beam search" /\ BeamSearch!Next
  /\ UNCHANGED <<vars, rnnVars, sortVars, topkVars, splitVars, collectiveVars, operation>>

\* A program that has been started runs to its end.
AnySpec ==
  /\ AnyInit
  /\ [][CircBufNext \/ StepsNext \/ SortNext \/ TopKNext \/ SplitNext \/ OneIpuNext
         \/ SeveralIpusNext \/ BeamNext]_allVars
  /\ WF_allVars(SortNext) /\ WF_allVars(OneIpuNext)

-----------------------------------------------------------------------------
\* The properties of the operations, whose modules say what they mean

\* A sort comes to its end, in order.
ComesToBeSorted == operation = "sort" => Sorting!ComesToBeSorted

\* The k best in the order asked for
KBestInOrder == operation = "topk" => Best!KBestInOrder

\* Tiles and workers do the comparisons of a sweep in its orders.
WorkersDoTheSweep == operation = "topk" => Best!WorkersDoTheSweep

\* Pieces make the items, within the limits.
PartsRight == operation = "split" => Split!PartsRight

\* The beam search is a search of prefixes, whose best come out.
ImplementsPrefixSearch == BeamSearch!ImplementsPrefixSearch
LabelsAreTheBest == operation = "beam search" => BeamSearch!LabelsAreTheBest
=============================================================================
