----------------------------- MODULE RnnShards -----------------------------
(***************************************************************************)
(* The loop of a recurrent network over time steps (lib/popnn/Rnn.cpp).    *)
(* The sequence is cut into shards, which hand their state on.  A loop of  *)
(* a shard slices the tensors of one step at a counter, runs the cell and  *)
(* writes what it made back at the counter.  Going in reverse, what the    *)
(* cell made may be kept in a buffer, of which a second function gathers   *)
(* several steps at a time, and then a loop goes on past the shard's steps *)
(* until its number of iterations is a multiple of them.                   *)
(***************************************************************************)
EXTENDS Integers, Sequences

CONSTANTS
  MaxSteps,      \* the longest sequence
  UnsignedBits   \* the width of unsigned

VARIABLES
  rnn,        \* the arguments of Rnn()
  phase,      \* "begin" a shard, "loop", or "done"
  shard,      \* currIndex
  left,       \* the iterations that Repeat has left
  counter,    \* timeStepCounter
  offset,     \* gatherOffset
  temp,       \* the step whose interim output is at each place of tempBuffer
  state,      \* the steps that the cell has taken the state through
  out,        \* what is written for each step and member of the batch
  gathered    \* of each gather, the pairs of an input's step and an interim
              \* output's step

rnnVars == <<rnn, phase, shard, left, counter, offset, temp, state, out, gathered>>

DivUp(a, b) == (a + b - 1) \div b
RoundUp(a, b) == DivUp(a, b) * b
Least(a, b) == IF a < b THEN a ELSE b
Most(a, b) == IF a < b THEN b ELSE a

\* What stands for an interim output of zeros, and for one never written; for a
\* state of zeros, and for one never written
Zero == -1
Junk == -2
ZeroState == <<>>
JunkState == <<Junk>>

-----------------------------------------------------------------------------
\* RnnState

SeqLengthExclLast(r) == DivUp(r.seqLen, r.numShards)
Begin(i) == i * SeqLengthExclLast(rnn)

\* currInterval: the last shard ends with the sequence
End(i) == IF i < rnn.numShards - 1 THEN Begin(i) + SeqLengthExclLast(rnn) ELSE rnn.seqLen
SequenceLength(i) == End(i) - Begin(i)

\* stepsPerGather is 0 where the caller gathers nothing.
Gathers == rnn.stepsPerGather > 0
GatherCadence(i) == IF Gathers THEN rnn.stepsPerGather ELSE SequenceLength(i)
GatherSize(i) == Least(GatherCadence(i), SequenceLength(i))
NumLoopIterations(i) == RoundUp(SequenceLength(i), GatherSize(i))

\* A counter within the interval of a gather is kept if it has several steps
\* and the shard more of them.
CountsOffset(i) ==
  Gathers /\ rnn.stepsPerGather > 1 /\ rnn.stepsPerGather < SequenceLength(i)

\* A loop that is longer than its shard goes on over zeros.
ZeroPaddingRequired(i) == rnn.reverse /\ NumLoopIterations(i) > SequenceLength(i)

\* useVariableTimeSteps: the longest of the batch
Variable == rnn.timeSteps # <<>>
NumTimeSteps(r) ==
  IF r.timeSteps = <<>> THEN r.seqLen
  ELSE CHOOSE n \in 0 .. r.seqLen :
         /\ \E b \in DOMAIN r.timeSteps : r.timeSteps[b] = n
         /\ \A b \in DOMAIN r.timeSteps : r.timeSteps[b] <= n

\* useVariableTimeSteps: the steps of a shard
TimeSteps(i) ==
  Most(Least(NumTimeSteps(rnn) - Begin(i), SeqLengthExclLast(rnn)), 0)

\* initCounter
FirstCounter(i) == IF rnn.reverse THEN NumLoopIterations(i) - 1 ELSE 0

\* updateCounter
NextCounter == (counter + (IF rnn.reverse THEN -1 ELSE 1)) % 2^UnsignedBits

\* Mutant: after a gather the counter starts as it does for a shard.
OffsetFromBelow(initialization) == rnn.stepsPerGather - 1

\* initGatherOffset: updateGatherOffset comes after the body of a loop.
InitialOffset(initialization) ==
  IF initialization THEN rnn.stepsPerGather - 1 ELSE rnn.stepsPerGather

-----------------------------------------------------------------------------
\* The program of a shard

Batch == IF Variable THEN DOMAIN rnn.timeSteps ELSE {1}

\* The codelets of dynamic slices take an offset past the end for 0, and go on
\* from 0 at the end.
SliceAt(at, size) == IF at >= size THEN 0 ELSE at
StepAt(at, j) ==
  Begin(shard) + ((SliceAt(at, SequenceLength(shard)) + j) % SequenceLength(shard))

\* maskOut: there is one only where the members of a batch differ.
Mask(b) ==
  IF Variable /\ Len(rnn.timeSteps) > 1
  THEN rnn.timeSteps[b] > Begin(shard) + counter ELSE TRUE

\* updateGather: with one step to gather, the buffer is the interim output.
TempWith(value) ==
  LET at == IF CountsOffset(shard) THEN offset
            ELSE IF rnn.stepsPerGather > 1 THEN counter ELSE 0
  IN [temp EXCEPT ![SliceAt(at, GatherSize(shard))] = value]

\* gatherSlices: each place of the buffer is met by the input of some step, one
\* slice of the shard from the counter, or the shard.  Zeros add nothing.
Gathering(buffer) ==
  LET size == GatherSize(shard)
      first == IF size < SequenceLength(shard) THEN counter ELSE 0
  IN Append(gathered, { <<StepAt(first, j), buffer[j]>> :
                        j \in { i \in 0 .. size - 1 : buffer[i] # Zero } })

\* runGather in a loop: what is to gather is gathered when the offset has come
\* to 0, but only where the cell has run (runs).
RunGather(value, runs) ==
  IF ~Gathers THEN UNCHANGED <<temp, gathered>>
  ELSE /\ temp' = TempWith(value)
       /\ gathered' =
            IF /\ runs /\ rnn.stepsPerGather < SequenceLength(shard)
               /\ rnn.stepsPerGather > 1 => offset = 0
            THEN Gathering(temp') ELSE gathered

\* The reset of the offset, and then updateGatherOffset
UpdateOffset ==
  offset' = IF CountsOffset(shard)
            THEN (IF offset = 0 THEN InitialOffset(FALSE) ELSE offset) - 1
            ELSE offset

\* The cell runs, and updateShard.
Process ==
  /\ state' = Append(state, StepAt(counter, 0))
  /\ out' = [out EXCEPT ![StepAt(counter, 0)] =
               [b \in Batch |-> IF Mask(b) THEN state' ELSE ZeroState]]
  /\ RunGather(StepAt(counter, 0), TRUE)

\* resetProg: zeros for a step after the last of every member
Reset ==
  /\ out' = [out EXCEPT ![StepAt(counter, 0)] = [b \in Batch |-> ZeroState]]
  /\ RunGather(Zero, FALSE)
  /\ UNCHANGED state

\* outsideLimit: zeros for what is not of the shard
Outside ==
  /\ RunGather(Zero, FALSE)
  /\ UNCHANGED <<state, out>>

\* initCounter and initGatherOffset, with the state of the shard before. Nothing
\* has been written to a buffer.
BeginShard ==
  /\ phase = "begin"
  /\ counter' = FirstCounter(shard)
  /\ offset' = IF CountsOffset(shard) THEN InitialOffset(TRUE) ELSE 0
  /\ temp' = [j \in 0 .. GatherSize(shard) - 1 |-> Junk]
  /\ left' = NumLoopIterations(shard)
  /\ phase' = "loop"
  /\ UNCHANGED <<rnn, shard, state, out, gathered>>

\* One iteration of the Repeat
Iterate ==
  /\ phase = "loop" /\ left > 0
  /\ IF ZeroPaddingRequired(shard) /\ counter >= SequenceLength(shard) THEN Outside
     ELSE IF Variable /\ counter >= TimeSteps(shard) THEN Reset
     ELSE Process
  /\ counter' = NextCounter
  /\ UpdateOffset
  /\ left' = left - 1
  /\ UNCHANGED <<rnn, phase, shard>>

\* postProg, which gathers a shard as a whole, and next()
EndShard ==
  /\ phase = "loop" /\ left = 0
  /\ gathered' = IF Gathers /\ rnn.stepsPerGather >= SequenceLength(shard)
                 THEN Gathering(temp) ELSE gathered
  /\ IF shard = (IF rnn.reverse THEN 0 ELSE rnn.numShards - 1)
     THEN phase' = "done" /\ UNCHANGED shard
     ELSE phase' = "begin" /\ shard' = shard + (IF rnn.reverse THEN -1 ELSE 1)
  /\ UNCHANGED <<rnn, left, counter, offset, temp, state, out>>

\* Shards that all but the last have equally many steps of leave the last some.
\* For other numbers of shards its interval ends before it begins.
LastHasSteps(r) == SeqLengthExclLast(r) * (r.numShards - 1) < r.seqLen

\* timeSteps is empty, or a number for the batch, or one for each of its two
\* members. Only steps in reverse are gathered.
Calls ==
  { r \in UNION { [seqLen : {n}, numShards : 1 .. n, reverse : BOOLEAN,
                   stepsPerGather : 0 .. n + 1,
                   timeSteps : {<<>>} \cup { <<a>> : a \in 0 .. n }
                                      \cup { <<a, b>> : a, b \in 0 .. n }]
                  : n \in 1 .. MaxSteps } :
      /\ LastHasSteps(r)
      /\ r.stepsPerGather > 0 => r.reverse }

RnnInitWith(r) ==
  /\ rnn = r
  /\ phase = "begin"
  /\ shard = IF r.reverse THEN r.numShards - 1 ELSE 0
  /\ left = 0 /\ counter = 0 /\ offset = 0 /\ temp = <<>>
  /\ state = <<>>
  /\ out = [t \in 0 .. r.seqLen - 1 |->
              [b \in 1 .. Most(Len(r.timeSteps), 1) |-> JunkState]]
  /\ gathered = <<>>

RnnNext == BeginShard \/ Iterate \/ EndShard

RnnSpec == (\E r \in Calls : RnnInitWith(r)) /\ [][RnnNext]_rnnVars

-----------------------------------------------------------------------------
\* shiftRnnTensor for a tensor of one row a step: the rows of tBase by their
\* steps, tSingle being -1

\* A shard begins with the last row of the one before, of which it keeps all but
\* the last.
Shifted(steps, shards) ==
  LET length == DivUp(steps, shards)
      last(i) == IF i < shards - 1 THEN (i + 1) * length - 1 ELSE steps - 1
  IN [t \in 0 .. steps - 1 |->
        LET i == t \div length
        IN IF t # i * length THEN t - 1 ELSE IF i = 0 THEN -1 ELSE last(i - 1)]

-----------------------------------------------------------------------------
\* Properties

\* The steps in the order in which they are to be taken
Ordered(n) == [k \in 1 .. n |-> IF rnn.reverse THEN n - k ELSE k - 1]

\* The cell is run for each step up to the last of the batch and for no other,
\* in order, on the state that the step before it left, across shards.
StepsInOrder ==
  /\ state = SubSeq(Ordered(NumTimeSteps(rnn)), 1, Len(state))
  /\ phase = "done" => Len(state) = NumTimeSteps(rnn)

\* At the end every step of every member of the batch has its own state, or
\* zeros if it is after the last of that member.
StatesKept ==
  phase = "done" =>
    \A t \in DOMAIN out, b \in DOMAIN out[0] :
      LET n == NumTimeSteps(rnn)
          run == IF rnn.reverse THEN n - t ELSE t + 1
      IN out[t][b] = IF t < (IF Variable THEN rnn.timeSteps[b] ELSE rnn.seqLen)
                     THEN SubSeq(Ordered(n), 1, run) ELSE ZeroState

\* Each interim output that the cell made is gathered once, with the inputs of
\* its own step, and nothing is gathered that was never written.
GatheredOnce ==
  /\ \A i \in DOMAIN gathered : \A pair \in gathered[i] : pair[1] = pair[2]
  /\ \A i, j \in DOMAIN gathered : i # j => gathered[i] \cap gathered[j] = {}
  /\ phase = "done" /\ Gathers =>
       UNION { gathered[i] : i \in DOMAIN gathered }
         = { <<t, t>> : t \in 0 .. NumTimeSteps(rnn) - 1 }

\* A shifted tensor has the row before in place of each, in every shard.
ShiftedByOne ==
  phase = "begin" =>
    Shifted(rnn.seqLen, rnn.numShards) = [t \in 0 .. rnn.seqLen - 1 |-> t - 1]

\* Cutting the sequence into shards, with loops of their own, changes nothing of
\* what the cell is run on, what is kept of it and what a backward pass gathers.
RecurrenceRight == StepsInOrder /\ StatesKept /\ GatheredOnce /\ ShiftedByOne

-----------------------------------------------------------------------------
(* Why the shards make up the sequence *)

\* Numbers of iterations that unsigned holds
StepsFit == MaxSteps \in Nat /\ 2^UnsignedBits \in Nat /\ 2 * MaxSteps <= 2^UnsignedBits

\* Where the loop has come to: the steps from here on, or if not in reverse those
\* before it, have had their turn.
Frontier ==
  CASE phase = "done"  -> IF rnn.reverse THEN 0 ELSE rnn.seqLen
    [] phase = "begin" -> IF rnn.reverse THEN End(shard) ELSE Begin(shard)
    [] OTHER -> Begin(shard) + (IF rnn.reverse THEN Least(left, SequenceLength(shard))
                                ELSE SequenceLength(shard) - left)
Behind(t) == IF rnn.reverse THEN t >= Frontier ELSE t < Frontier

\* The cell has taken the state through the steps that are behind.
StateSoFar ==
  LET n == NumTimeSteps(rnn)
  IN state = SubSeq(Ordered(n), 1, IF rnn.reverse THEN Most(n - Frontier, 0)
                                   ELSE Least(n, Frontier))

\* What is to be kept of a step: its state, or zeros
Expected(t, b) ==
  LET n == NumTimeSteps(rnn)
  IN IF t < (IF Variable THEN rnn.timeSteps[b] ELSE rnn.seqLen)
     THEN SubSeq(Ordered(n), 1, IF rnn.reverse THEN n - t ELSE t + 1)
     ELSE ZeroState

\* Of the steps that are behind, it is kept.
OutSoFar ==
  /\ DOMAIN out = 0 .. rnn.seqLen - 1
  /\ \A t \in DOMAIN out :
       /\ DOMAIN out[t] = Batch
       /\ Behind(t) => \A b \in Batch : out[t][b] = Expected(t, b)

\* The first step that has been gathered: a shard of fewer steps than are to be
\* gathered at a time is gathered at its end.
GatheredFrom ==
  IF phase # "loop" THEN Frontier
  ELSE IF rnn.stepsPerGather < SequenceLength(shard)
       THEN Begin(shard) + Least(RoundUp(left, rnn.stepsPerGather), SequenceLength(shard))
       ELSE End(shard)

Pairs(from, to) == { <<t, t>> : t \in from .. to - 1 }

GatheredSoFar ==
  /\ gathered \in Seq(SUBSET Pairs(0, rnn.seqLen))
  /\ \A i, j \in DOMAIN gathered : i # j => gathered[i] \cap gathered[j] = {}
  /\ Gathers => UNION { gathered[i] : i \in DOMAIN gathered }
                  = Pairs(GatheredFrom, NumTimeSteps(rnn))

\* What the interim output of the shard at a counter is to be
Interim(c) ==
  IF c < SequenceLength(shard) /\ Begin(shard) + c < NumTimeSteps(rnn)
  THEN Begin(shard) + c ELSE Zero

\* The buffer holds the interim outputs that are to be gathered next.
BufferSoFar ==
  Gathers =>
    /\ DOMAIN temp = 0 .. GatherSize(shard) - 1
    /\ IF rnn.stepsPerGather < SequenceLength(shard)
       THEN \A c \in left .. RoundUp(left, rnn.stepsPerGather) - 1 :
              temp[c % rnn.stepsPerGather] = Interim(c)
       ELSE \A c \in left .. SequenceLength(shard) - 1 : temp[c] = Interim(c)

\* The counters of a loop tell how much of it is left.
CountersInStep ==
  /\ left \in 0 .. NumLoopIterations(shard)
  /\ left > 0 => counter = IF rnn.reverse THEN left - 1 ELSE SequenceLength(shard) - left
  /\ CountsOffset(shard) =>
       offset = (left + rnn.stepsPerGather - 1) % rnn.stepsPerGather

\* The inductive invariant of the loops over the time steps
RnnInv ==
  /\ rnn \in Calls
  /\ phase \in {"begin", "loop", "done"}
  /\ shard \in 0 .. rnn.numShards - 1
  /\ StateSoFar
  /\ OutSoFar
  /\ GatheredSoFar
  /\ phase = "loop" => CountersInStep /\ BufferSoFar
=============================================================================
