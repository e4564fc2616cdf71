-------------------------- MODULE RankCollectives --------------------------
(***************************************************************************)
(* All-reduce over ranks of several IPUs each                              *)
(* (lib/popops/TensorCollectives.cpp): how the elements of a rank's tensor *)
(* are cut into fragments, come out as chunks on each IPU, and are put     *)
(* back in order.  How fragments travel between the ranks, and are reduced *)
(* on the way, is in RingCollectives; here every rank has what the ring    *)
(* brings it when each step takes the fragment it should, which it does    *)
(* for the calls that FragmentsArrive holds of and for no others.          *)
(*                                                                         *)
(* An element is its position in the rank's tensor.  All ranks have the    *)
(* same tensor on the same of their IPUs (checkTensorIpuMappings), and no  *)
(* step moves an element to another IPU of its rank (cloneToRank).         *)
(***************************************************************************)
EXTENDS Integers, SequencesExt

CONSTANTS
  Calls,         \* the calls, see Call
  UnsignedBits,  \* the width of unsigned, 32 in the code
  SizeBits,      \* the width of size_t, 64 in the code; see README for its stand-in
  Thresholds     \* bytes per IPU from which a pair of rings is faster, for more
                 \* than 2, 4 and 8 IPUs

Method == {"CLOCKWISE_RING", "ANTICLOCKWISE_RING", "BIDIRECTIONAL_RING_PAIR",
           "MEET_IN_MIDDLE_RING"}
Call == [ranks : Nat \ {0, 1}, ipus : Nat \ {0}, ipuOf : Seq(Nat), bytes : Nat \ {0},
         reduce : Method \cup {"AUTO"}, gather : Method \cup {"AUTO"}]

\* Reducing anticlockwise, the number of a fragment is a remainder of a number below 0
\* that has wrapped in size_t: another fragment's, unless the ranks divide its range.
\* AUTO goes clockwise between ranks of several IPUs.
FragmentsArrive(c) ==
  \/ c.reduce = "CLOCKWISE_RING" \/ (c.reduce = "AUTO" /\ c.ipus > 1)
  \/ 2^SizeBits % c.ranks = 0

VARIABLES
  call,       \* the call whose program is made
  phase,      \* the step that comes next
  methods,    \* the methods it takes, when they are picked
  fragments,  \* the fragments of a rank's tensor
  chunks,     \* the chunk with each index, on each IPU of its rank
  gathered,   \* the pieces a rank has gathered, in order
  result      \* the tensor it returns

vars == <<call, phase, methods, fragments, chunks, gathered, result>>

Ipus == 0 .. call.ipus - 1
Elements == Len(call.ipuOf)
Input == [e \in 1 .. Elements |-> e]

-----------------------------------------------------------------------------
(* The choice of a method *)

TotalIpus == call.ranks * call.ipus

\* The method for a number of chunks and of bytes per IPU, at the thresholds of a phase
MethodFor(chunksToMove, bytesPerIpu, scale) ==
  CASE chunksToMove # TotalIpus \/ TotalIpus <= 2 -> "CLOCKWISE_RING"
    [] \/ bytesPerIpu < scale * Thresholds[1]
       \/ TotalIpus > 4 /\ bytesPerIpu < scale * Thresholds[2]
       \/ TotalIpus > 8 /\ bytesPerIpu < scale * Thresholds[3] -> "MEET_IN_MIDDLE_RING"
    [] OTHER -> "BIDIRECTIONAL_RING_PAIR"

AutoReduce == MethodFor(call.ranks, (call.ranks * Elements * call.bytes) \div TotalIpus, 2)

\* There are chunks for all IPUs; the size of an element is added to each chunk's
\* number of them.
AutoGather == MethodFor(TotalIpus, (Elements + TotalIpus * call.bytes) \div TotalIpus, 1)

Pick ==
  /\ phase = "pick" /\ phase' = "split"
  /\ methods' = [reduce |-> IF call.reduce = "AUTO" THEN AutoReduce ELSE call.reduce,
                 gather |-> IF call.gather = "AUTO" THEN AutoGather ELSE call.gather]
  /\ UNCHANGED <<call, fragments, chunks, gathered, result>>

-----------------------------------------------------------------------------
(* Fragments *)

AsUnsigned(n) == n % 2^UnsignedBits

\* splitIntoFragments: the f'th of the pieces of t
Piece(t, f, pieces) ==
  LET begin == AsUnsigned(Len(t) * f) \div pieces
      end == AsUnsigned(Len(t) * (f + 1)) \div pieces
  IN SubSeq(t, begin + 1, IF end < Len(t) THEN end ELSE Len(t))

\* getOnIpuTensor of getPerIpuTensors
OnIpu(t, ipu) == SelectSeq(t, LAMBDA e : call.ipuOf[e] = ipu)

\* Concatenated over the IPUs of a rank
OverIpus(op(_)) == FlattenSeq([k \in 1 .. call.ipus |-> op(k - 1)])

\* splitRankIntoFragments: a part of what each IPU has, so that all links between
\* two ranks are used
Fragment(t, f, pieces) ==
  IF call.ipus = 1 THEN Piece(t, f, pieces)
  ELSE OverIpus(LAMBDA k : Piece(OnIpu(t, k), f, pieces))

Pieces(method) == IF method = "BIDIRECTIONAL_RING_PAIR" THEN 2 ELSE 1

\* In an odd ring reducing stops at an assertion, and gathering leaves a hole.
CanMeet(method) == method = "MEET_IN_MIDDLE_RING" => call.ranks % 2 = 0

Split ==
  /\ phase = "split" /\ phase' = "chunks" /\ CanMeet(methods.reduce)
  /\ LET pieces == call.ranks * Pieces(methods.reduce)
     IN fragments' = [f \in 1 .. pieces |-> Fragment(Input, f - 1, pieces)]
  /\ UNCHANGED <<call, methods, chunks, gathered, result>>

\* The tensor that is reduced at the i'th place of the ring, which FragmentsArrive makes
\* the fragments with the number of that place
Reduced(i) ==
  IF Pieces(methods.reduce) = 2 THEN fragments[2 * i + 1] \o fragments[2 * i + 2]
  ELSE fragments[i + 1]

\* createChunks
CreateChunks ==
  /\ phase = "chunks" /\ phase' = "gather"
  /\ chunks' = [i \in 1 .. call.ranks |->
                  [k \in Ipus |-> IF call.ipus = 1 THEN Reduced(i - 1)
                                  ELSE OnIpu(Reduced(i - 1), k)]]
  /\ UNCHANGED <<call, methods, fragments, gathered, result>>

\* concatModelParallelChunks
Concatenated(i) == OverIpus(LAMBDA k : chunks[i][k])

\* Mutant: all pieces that went clockwise come first.
GatheredByDirection(n, pieces) ==
  LET chunk == Concatenated(((n - 1) % call.ranks) + 1)
  IN IF pieces = 1 THEN chunk ELSE Fragment(chunk, (n - 1) \div call.ranks, 2)

\* The n'th piece of those that all chunks travel in
GatheredPiece(n, pieces) ==
  LET chunk == Concatenated((n - 1) \div pieces + 1)
  IN IF pieces = 1 THEN chunk ELSE Fragment(chunk, (n - 1) % 2, 2)

\* Each rank has the chunks in order of their indices, each in two pieces if they
\* went both ways.
Gather ==
  /\ phase = "gather" /\ phase' = "reorder" /\ CanMeet(methods.gather)
  /\ gathered' = LET pieces == Pieces(methods.gather)
                 IN [n \in 1 .. call.ranks * pieces |-> GatheredPiece(n, pieces)]
  /\ UNCHANGED <<call, methods, fragments, chunks, result>>

-----------------------------------------------------------------------------
(* reorderRank *)

\* getIpuMapping: the intervals of a tensor that are on an IPU, as large as can be
Intervals(t, ipu) ==
  LET on(e) == e \in DOMAIN t /\ call.ipuOf[t[e]] = ipu
      begins == SetToSortSeq({e \in DOMAIN t : on(e) /\ ~ on(e - 1)}, <)
      ends == SetToSortSeq({e \in DOMAIN t : on(e) /\ ~ on(e + 1)}, <)
  IN [i \in 1 .. Len(begins) |-> <<begins[i], ends[i]>>]

SizeOf(interval) == interval[2] + 1 - interval[1]

\* splitIntervals: toMatch cut where reference changes from one interval to the
\* next, of which the first sizeSoFar elements are matched
RECURSIVE Matched(_, _, _)
Matched(toMatch, reference, sizeSoFar) ==
  IF toMatch = <<>> THEN <<>>
  ELSE LET this == Head(toMatch)  size == SizeOf(this)  whole == SizeOf(Head(reference))
       IN IF size + sizeSoFar <= whole
          THEN <<this>> \o (IF size + sizeSoFar = whole
                            THEN Matched(Tail(toMatch), Tail(reference), 0)
                            ELSE Matched(Tail(toMatch), reference, sizeSoFar + size))
          ELSE <<<<this[1], this[1] + whole - 1>>>>
                 \o Matched(<<<<this[1] + whole, this[2]>>>> \o Tail(toMatch),
                            Tail(reference), 0)

\* What the pieces have on the first IPU, then on the next
Unordered == OverIpus(LAMBDA k : FlattenSeq([n \in DOMAIN gathered |-> OnIpu(gathered[n], k)]))

\* Every interval of the input takes the elements at its place.
InOrder ==
  LET reference(k) == Intervals(Input, k)
      matched == [k \in Ipus |-> Matched(Intervals(Unordered, k), reference(k), 0)]
      places == {<<reference(k)[i][1], k, i>> :
                   <<k, i>> \in UNION {{k} \X DOMAIN reference(k) : k \in Ipus}}
      sorted == SetToSortSeq(places, LAMBDA a, b : a[1] < b[1])
  IN FlattenSeq([n \in 1 .. Len(sorted) |->
       LET m == matched[sorted[n][2]][sorted[n][3]] IN SubSeq(Unordered, m[1], m[2])])

ReorderRank ==
  /\ phase = "reorder" /\ phase' = "done"
  /\ result' = IF call.ipus = 1 THEN FlattenSeq(gathered) ELSE InOrder
  /\ UNCHANGED <<call, methods, fragments, chunks, gathered>>

-----------------------------------------------------------------------------
InitOf(c) ==
  /\ call = c
  /\ phase = "pick"
  /\ methods = [reduce |-> "AUTO", gather |-> "AUTO"]
  /\ fragments = <<>> /\ chunks = <<>> /\ gathered = <<>> /\ result = <<>>

Init == \E c \in Calls : InitOf(c)

Done == phase = "done" /\ UNCHANGED vars

Next == Pick \/ Split \/ CreateChunks \/ Gather \/ ReorderRank \/ Done

Spec == Init /\ [][Next]_vars

-----------------------------------------------------------------------------
\* After splitting, fragments have each element once: what rounding cuts off one
\* of them, on any of the IPUs, is in the next ("This function gets the tensor on
\* each ipu, splits that into fragments", TensorCollectives.cpp:271-272).
FragmentsMakeTheTensor ==
  phase = "chunks" =>
    LET all == FlattenSeq(fragments)
    IN Len(all) = Elements /\ ToSet(all) = ToSet(Input)

\* All links between the IPUs of two ranks carry the same share of a fragment, but
\* for rounding ("to use all the links must split each ipus part of the tensor into
\* as many fragments as ranks", TensorCollectives.cpp:269-271).
LinksShared ==
  phase = "chunks" =>
    \A k \in Ipus, f \in DOMAIN fragments :
      LET here == Len(OnIpu(Input, k))  n == Len(fragments)
      IN Len(OnIpu(fragments[f], k)) \in {here \div n, (here + n - 1) \div n}

\* The intervals that reorderRank matches are the same in number and size (the
\* assertions at TensorCollectives.cpp:119-120).
IntervalsMatch ==
  phase = "reorder" /\ call.ipus > 1 =>
    \A k \in Ipus :
      LET reference == Intervals(Input, k)
          matched == Matched(Intervals(Unordered, k), reference, 0)
      IN /\ Len(matched) = Len(reference)
         /\ \A i \in DOMAIN reference : SizeOf(matched[i]) = SizeOf(reference[i])

\* What is cut up is put together in the order of the input, however that is spread over
\* the IPUs of the ranks, and though cutting, concatenating and gathering each shuffle it
\* ("the returned tensors indexing won't match the original.  To fix this must reorder the
\* tensor before returning it", TensorCollectives.cpp:905-907).
ResultInOrder == phase = "done" => result = Input

\* However the tensor is spread over the IPUs of a rank, it is cut in fragments that
\* links share, and put together again in the order of the input.  That each fragment is
\* reduced over all ranks on its way is not said here (RingInOrder says it, of ranks of
\* one IPU).
RanksInOrder == FragmentsMakeTheTensor /\ LinksShared /\ IntervalsMatch /\ ResultInOrder
=============================================================================
