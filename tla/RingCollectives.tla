-------------------------- MODULE RingCollectives --------------------------
(***************************************************************************)
(* The collectives of popops (lib/popops/TensorCollectives.cpp): the graph *)
(* program that reduceScatter and allGather build, run one after the other *)
(* as allReduce does, with one IPU per rank.                               *)
(*                                                                         *)
(* The program is a sequence of steps, each one Copy between neighbours in *)
(* the ring followed, while reducing, by one elementwise operation.  All   *)
(* IPUs take a step together, as graph programs run in lock step.          *)
(*                                                                         *)
(* A tensor is a sequence of elements, and an element the set of inputs it *)
(* has been reduced from, each a pair <<rank, position in its tensor>>.    *)
(* Reducing two elements joins the sets; that no input is reduced twice is *)
(* a property (OperandsMatch), so that sets are enough.                    *)
(***************************************************************************)
EXTENDS Integers, SequencesExt

CONSTANTS
  RingCalls,  \* the calls: ranks, elements and the two methods, see Call
  WordBits,   \* the width of unsigned (32 in the code)
  SizeBits    \* the width of size_t (64); see README for its small stand-in

\* CollectiveMethod, once AUTO is resolved
Method == {"CLOCKWISE_RING", "ANTICLOCKWISE_RING", "BIDIRECTIONAL_RING_PAIR",
           "MEET_IN_MIDDLE_RING"}
Call == [ranks : Nat \ {0}, elements : Nat, reduce : Method, gather : Method]

\* What is assumed of the constants
RingAssumption == WordBits \in Nat /\ SizeBits \in Nat /\ RingCalls \subseteq Call

\* The products of splitIntoFragments are no wider than unsigned.  Numbers below 0
\* wrap in size_t before their remainder is taken, which is right only if the
\* ranks divide its range.  Rings met in the middle have an even number of ranks:
\* reducing asserts it, gathering relies on it.
CallFits(c) ==
  /\ 2 * c.ranks * c.elements < 2^WordBits
  /\ 2 * c.ranks <= 2^SizeBits
  /\ c.reduce # "CLOCKWISE_RING" => 2^SizeBits % c.ranks = 0
  /\ c.ranks > 1 /\ "MEET_IN_MIDDLE_RING" \in {c.reduce, c.gather} => c.ranks % 2 = 0

\* What the theorems take for granted of the calls
RingsFit ==
  /\ RingAssumption /\ 2^WordBits \in Nat /\ 2^SizeBits \in Nat
  /\ \A c \in RingCalls : CallFits(c)

VARIABLES
  ringCall,   \* the call whose program runs
  ringPhase,  \* "copy" or "reduce" of a reduce-scatter step, "chunks" after the
              \* last, "gather" while gathering, "done"
  ringStep,   \* the steps of the phase that are done
  data,       \* the tensor at each index of the ring, per direction
  chunks,     \* Chunks, per rank
  passing,    \* the chunk at each index of the ring while gathering, per direction
  results,    \* resultChunks, per rank, as far as it is filled in
  ringOutput  \* the tensor returned, per rank

ringVars == <<ringCall, ringPhase, ringStep, data, chunks, passing, results, ringOutput>>

-----------------------------------------------------------------------------
(* The ring *)

AsUnsigned(n) == n % 2^WordBits
AsSize(n) == n % 2^SizeBits

N == ringCall.ranks
Rank == 0 .. N - 1
Index == 0 .. N - 1
Direction == {"clockwise", "anticlockwise"}

\* createRing: the even ranks upwards, then the odd ones downwards
Ring ==
  LET evens == (N + 1) \div 2
      highestOdd == IF N % 2 = 0 THEN N - 1 ELSE N - 2
  IN [i \in Index |-> IF i < evens THEN 2 * i ELSE highestOdd - 2 * (i - evens)]

RecvIndex(dir, i) == IF dir = "clockwise" THEN (i + N - 1) % N ELSE (i + 1) % N

\* With two ranks the code reduces clockwise instead of meeting in the middle.
ReduceMethod ==
  IF ringCall.reduce = "MEET_IN_MIDDLE_RING" /\ N = 2 THEN "CLOCKWISE_RING"
  ELSE ringCall.reduce

Directions(method) ==
  CASE method = "CLOCKWISE_RING"     -> {"clockwise"}
    [] method = "ANTICLOCKWISE_RING" -> {"anticlockwise"}
    [] OTHER                         -> Direction

NumSteps(method) == IF method = "MEET_IN_MIDDLE_RING" THEN N \div 2 ELSE N - 1

\* The directions data is sent in: in the last step of a meeting in the middle,
\* anticlockwise only.
Sends(method, s) ==
  {dir \in Directions(method) :
     ~ (method = "MEET_IN_MIDDLE_RING" /\ dir = "clockwise" /\ s = NumSteps(method) - 1)}

-----------------------------------------------------------------------------
(* Fragments *)

\* splitIntoFragments: the f'th of the pieces of t
Piece(t, f, pieces) ==
  LET begin == AsUnsigned(Len(t) * f) \div pieces
      end == AsUnsigned(Len(t) * (f + 1)) \div pieces
  IN SubSeq(t, begin + 1, end)

Input(rank) == [e \in 1 .. ringCall.elements |-> {<<rank, e>>}]

\* The f'th fragment of a rank's tensor that travels in a direction.  With a
\* pair of rings, the even ones go clockwise and the odd ones anticlockwise.
Fragment(dir, rank, f) ==
  IF ReduceMethod = "BIDIRECTIONAL_RING_PAIR"
    THEN Piece(Input(rank), IF dir = "clockwise" THEN 2 * f ELSE 2 * f + 1, 2 * N)
    ELSE Piece(Input(rank), f, N)

\* Mutant: meeting in the middle clockwise takes the fragment of a full ring.
FragmentNumLate(dir, i, s) ==
  LET steps == NumSteps(ReduceMethod)
  IN IF dir = "clockwise" THEN AsSize(i + steps - 1 - s) % N
     ELSE AsSize(i - (steps - 1 - s)) % N

\* fragmentNum: the fragment that index i receives and reduces in step s
FragmentNum(dir, i, s) ==
  LET steps == NumSteps(ReduceMethod)
      last == IF ReduceMethod = "MEET_IN_MIDDLE_RING" THEN steps - 2 ELSE steps - 1
  IN IF dir = "clockwise" THEN AsSize(i + last - s) % N
     ELSE AsSize(i - (steps - 1 - s)) % N

-----------------------------------------------------------------------------
Nothing == [dir \in Direction |-> <<>>]

RingInitOf(c) ==
  /\ ringCall = c
  /\ ringPhase = IF ringCall.ranks = 1 THEN "chunks" ELSE "copy"
  /\ ringStep = 0
  /\ data = Nothing
  /\ chunks = <<>>
  /\ passing = Nothing
  /\ results = <<>>
  /\ ringOutput = <<>>

RingInit == \E c \in RingCalls : RingInitOf(c)

\* Each index of the ring receives from its neighbour, in the first step a
\* fragment and later what the neighbour has reduced.
Copy ==
  /\ ringPhase = "copy"
  /\ data' =
       [dir \in Direction |->
          IF dir \notin Sends(ReduceMethod, ringStep) THEN data[dir]
          ELSE [i \in Index |->
                  LET from == RecvIndex(dir, i)
                  IN IF ringStep = 0 THEN Fragment(dir, Ring[from], FragmentNum(dir, i, 0))
                     ELSE data[dir][from]]]
  /\ ringPhase' = "reduce"
  /\ UNCHANGED <<ringCall, ringStep, chunks, passing, results, ringOutput>>

\* The second operand of opInPlace: a local fragment, or where the two
\* directions meet what came the other way.
Local(dir, i) ==
  IF ReduceMethod = "MEET_IN_MIDDLE_RING" /\ ringStep = NumSteps(ReduceMethod) - 1
    THEN data["clockwise"][i]
    ELSE Fragment(dir, Ring[i], FragmentNum(dir, i, ringStep))

\* opInPlace with an operator that combines: elements are joined with those of the
\* second operand, in the place of the first.
OpInPlace(a, b) == [k \in DOMAIN b |-> a[k] \cup b[k]]

\* What index i received is reduced with the local operand, in place.  The code
\* concatenates the operands of all indices first; they have the same lengths
\* (OperandsMatch), so that element meets element here as it does there.
Reduce ==
  /\ ringPhase = "reduce"
  /\ data' =
       [dir \in Direction |->
          IF dir \notin Sends(ReduceMethod, ringStep) THEN data[dir]
          ELSE [i \in Index |-> OpInPlace(data[dir][i], Local(dir, i))]]
  /\ ringStep' = ringStep + 1
  /\ ringPhase' = IF ringStep' = NumSteps(ReduceMethod) THEN "chunks" ELSE "copy"
  /\ UNCHANGED <<ringCall, chunks, passing, results, ringOutput>>

-----------------------------------------------------------------------------
\* The tensor reduced at index i
Reduced(i) ==
  CASE N = 1 -> Input(0)
    [] N > 1 /\ ReduceMethod = "CLOCKWISE_RING" -> data["clockwise"][i]
    [] N > 1 /\ ReduceMethod = "BIDIRECTIONAL_RING_PAIR" ->
         data["clockwise"][i] \o data["anticlockwise"][i]
    [] OTHER -> data["anticlockwise"][i]

\* With a pair of rings a chunk is gathered in two parts, otherwise in one.
Parts == IF ringCall.gather = "BIDIRECTIONAL_RING_PAIR" THEN 2 ELSE 1
PartOf(dir) == IF Parts = 2 /\ dir = "anticlockwise" THEN 1 ELSE 0

\* createChunks: a chunk has the number of its place in the ring, and the rank
\* there holds it.  Gathering begins with each rank's own chunk.
CreateChunks ==
  /\ ringPhase = "chunks"
  /\ chunks' = [rank \in Rank |->
                  LET i == CHOOSE j \in Index : Ring[j] = rank
                  IN [tensor |-> Reduced(i), index |-> i]]
  /\ results' = [rank \in Rank |->
                   [p \in (0 .. Parts - 1) \X {chunks'[rank].index} |->
                      Piece(chunks'[rank].tensor, p[1], Parts)]]
  /\ ringPhase' = "gather"
  /\ ringStep' = 0
  /\ UNCHANGED <<ringCall, data, passing, ringOutput>>

\* What index i receives in a gathering step
Received(dir, i) ==
  LET from == RecvIndex(dir, i)
      chunk == chunks[Ring[from]]
  IN IF ringStep = 0
       THEN [tensor |-> Piece(chunk.tensor, PartOf(dir), Parts), index |-> chunk.index]
       ELSE passing[dir][from]

\* Mutant: the step is not counted.
GatherAgain ==
  /\ ringPhase = "gather"
  /\ ringStep < NumSteps(ringCall.gather)
  /\ passing' = [dir \in Direction |->
                   IF dir \in Sends(ringCall.gather, ringStep)
                     THEN [i \in Index |-> Received(dir, i)] ELSE passing[dir]]
  /\ UNCHANGED <<ringCall, ringPhase, ringStep, data, chunks, results, ringOutput>>

\* Chunks move one place round the ring, and stay with every rank they pass.
GatherCopy ==
  /\ ringPhase = "gather"
  /\ ringStep < NumSteps(ringCall.gather)
  /\ passing' = [dir \in Direction |->
                   IF dir \in Sends(ringCall.gather, ringStep)
                     THEN [i \in Index |-> Received(dir, i)] ELSE passing[dir]]
  /\ results' =
       [rank \in Rank |->
          LET i == CHOOSE j \in Index : Ring[j] = rank
              New(dir) == <<PartOf(dir), Received(dir, i).index>>
              new == {dir \in Direction : dir \in Sends(ringCall.gather, ringStep)}
          IN [p \in DOMAIN results[rank] \cup {New(dir) : dir \in new} |->
                IF \E dir \in new : New(dir) = p
                  THEN Received(CHOOSE dir \in new : New(dir) = p, i).tensor
                  ELSE results[rank][p]]]
  /\ ringStep' = ringStep + 1
  /\ UNCHANGED <<ringCall, ringPhase, data, chunks, ringOutput>>

\* Each rank concatenates its chunks, in order of their numbers.  A chunk that
\* is missing is a null tensor in the code, which cannot be concatenated.
Finish ==
  /\ ringPhase = "gather"
  /\ ringStep = NumSteps(ringCall.gather)
  /\ \A rank \in Rank : DOMAIN results[rank] = (0 .. Parts - 1) \X Index
  /\ ringOutput' = [rank \in Rank |->
                  FlattenSeq([n \in 1 .. N * Parts |->
                    results[rank][<<(n - 1) % Parts, (n - 1) \div Parts>>]])]
  /\ ringPhase' = "done"
  /\ UNCHANGED <<ringCall, ringStep, data, chunks, passing, results>>

Done == ringPhase = "done" /\ UNCHANGED ringVars

RingNext == Copy \/ Reduce \/ CreateChunks \/ GatherCopy \/ Finish \/ Done

\* A graph program runs to its end.
RingSpec == RingInit /\ [][RingNext]_ringVars /\ WF_ringVars(RingNext)

-----------------------------------------------------------------------------
Element == SUBSET (Rank \X (1 .. ringCall.elements))

RingTypeOK ==
  /\ ringCall \in RingCalls
  /\ ringPhase \in {"copy", "reduce", "chunks", "gather", "done"}
  /\ ringStep \in 0 .. N - 1
  /\ \A dir \in Direction :
       /\ data[dir] = <<>> \/ data[dir] \in [Index -> Seq(Element)]
       /\ passing[dir] = <<>>
          \/ passing[dir] \in [Index -> [tensor : Seq(Element), index : Index]]
  /\ chunks = <<>> \/ chunks \in [Rank -> [tensor : Seq(Element), index : Index]]
  /\ ringOutput = <<>> \/ ringOutput \in [Rank -> Seq(Element)]

\* Two tensors have the same elements of the tensor that is reduced, and no rank's
\* contribution in common.
Match(a, b) ==
  /\ Len(a) = Len(b)
  /\ \A k \in DOMAIN b : a[k] \cap b[k] = {} /\ \A x \in a[k], y \in b[k] : x[2] = y[2]

\* Elementwise operations join what belongs together and is new: at each reduce
\* step the two operands match, and a sum counts nothing twice.  The fragment
\* numbers of neighbours at different steps, in two directions and with unsigned
\* remainders, have to agree for this.
OperandsMatch ==
  ringPhase = "reduce" =>
    \A dir \in Sends(ReduceMethod, ringStep), i \in Index : Match(data[dir][i], Local(dir, i))

Total == [e \in 1 .. ringCall.elements |-> Rank \X {e}]

\* After reduceScatter "the IPU at index N" has "the reduced result for the N'th
\* fragment" (TensorCollectives.cpp:466-467): every contribution, once.
ScatteredInOrder ==
  chunks # <<>> =>
    \A i \in Index : chunks[Ring[i]] = [tensor |-> Piece(Total, i, N), index |-> i]

\* After allReduce every rank has the whole tensor, reduced over all ranks, in
\* the order of the input.
GatheredInOrder == ringPhase = "done" => \A rank \in Rank : ringOutput[rank] = Total

\* When the steps of gathering are done every rank has every part of every chunk,
\* so that no tensor to concatenate is null.
NothingMissing ==
  ringPhase = "gather" /\ ringStep = NumSteps(ringCall.gather) =>
    \A rank \in Rank : DOMAIN results[rank] = (0 .. Parts - 1) \X Index

\* Whatever the methods, what is joined belongs together, and every rank has its
\* fragment and then the whole.
RingInOrder ==
  RingTypeOK /\ OperandsMatch /\ ScatteredInOrder /\ NothingMissing /\ GatheredInOrder
=============================================================================
