-------------------------- MODULE RnnShardsProofs --------------------------
(***************************************************************************)
(* That a recurrent network in shards takes each time step once, in order, *)
(* keeps what it is to keep and gathers each step once, for sequences of   *)
(* any length, any number of shards that leaves the last some steps, and   *)
(* any number of steps gathered at a time.                                 *)
(***************************************************************************)
EXTENDS RnnShards, SequenceTheorems, TLAPS

-----------------------------------------------------------------------------
(* Arithmetic *)

LEMMA DivMod ==
  ASSUME NEW n \in Nat, NEW m \in Nat \ {0}
  PROVE  /\ n \div m \in Nat /\ n = (n \div m) * m + (n % m)
         /\ n % m \in 0 .. m - 1
PROOF BY Z3

LEMMA ModOf ==
  ASSUME NEW q \in Nat, NEW m \in Nat \ {0}, NEW j \in 0 .. m - 1
  PROVE  (q * m + j) % m = j
PROOF
<1>1. q * m \in Nat
  BY Z3
<1>2. PICK n \in Nat : n = q * m + j
  BY <1>1
<1>3. n \div m \in Nat /\ n = (n \div m) * m + (n % m) /\ n % m \in 0 .. m - 1
  BY DivMod
<1>4. n \div m = q
  <2>1. PICK d \in Nat, r \in 0 .. m - 1 : d = n \div m /\ r = n % m
    BY <1>3
  <2>2. (d - q) * m = j - r
    BY <1>2, <1>3, <2>1, Z3
  <2>3. ASSUME d > q PROVE FALSE
    <3>1. (d - q) * m >= m
      BY <2>3, Z3
    <3> QED BY <2>2, <3>1
  <2>4. ASSUME d < q PROVE FALSE
    <3>1. (q - d) * m >= m
      BY <2>4, Z3
    <3>2. (q - d) * m = r - j
      BY <2>2, Z3
    <3> QED BY <3>1, <3>2
  <2> QED BY <2>1, <2>3, <2>4
<1> QED BY <1>1, <1>2, <1>3, <1>4

\* Rounding up goes to the next multiple, and no further.
LEMMA RoundedUp ==
  ASSUME NEW n \in Nat, NEW m \in Nat \ {0}
  PROVE  \E q \in Nat : /\ RoundUp(n, m) = q * m /\ q = DivUp(n, m)
                        /\ q * m \in Nat /\ n <= q * m /\ q * m < n + m
PROOF
<1>1. PICK k \in Nat : k = n + m - 1
  OBVIOUS
<1>2. PICK q \in Nat, r \in 0 .. m - 1 : q = k \div m /\ k = q * m + r
  BY DivMod
<1>3. q * m \in Nat
  BY Z3
<1>4. n <= q * m /\ q * m < n + m
  BY <1>1, <1>2, <1>3
<1> QED BY <1>1, <1>2, <1>3, <1>4 DEF RoundUp, DivUp

\* A multiple is what it is rounded up to.
LEMMA MultipleOnly ==
  ASSUME NEW n \in Nat, NEW m \in Nat \ {0}, NEW q \in Nat,
         n <= q * m, q * m < n + m
  PROVE  RoundUp(n, m) = q * m
PROOF
<1>1. PICK p \in Nat : RoundUp(n, m) = p * m /\ p * m \in Nat /\ n <= p * m /\ p * m < n + m
  BY RoundedUp
<1>2. q * m \in Nat
  BY Z3
<1>3. ASSUME p < q PROVE FALSE
  <2>1. (q - p) * m >= m /\ (q - p) * m = q * m - p * m
    BY <1>3, Z3
  <2> QED BY <1>1, <1>2, <2>1
<1>4. ASSUME q < p PROVE FALSE
  <2>1. (p - q) * m >= m /\ (p - q) * m = p * m - q * m
    BY <1>4, Z3
  <2> QED BY <1>1, <1>2, <2>1
<1>5. p = q
  BY <1>3, <1>4
<1> QED BY <1>1, <1>5

\* Counting down by one: the rounded number changes only at a multiple.
LEMMA RoundedCountdown ==
  ASSUME NEW c \in Nat, NEW m \in Nat \ {0}
  PROVE  /\ c % m \in 0 .. m - 1
         /\ RoundUp(c + 1, m) = c - (c % m) + m
         /\ RoundUp(c, m) = IF c % m = 0 THEN c ELSE RoundUp(c + 1, m)
         /\ \A j \in 0 .. m - 1 : (c - (c % m) + j) % m = j /\ c - (c % m) + j \in Nat
PROOF
<1>1. PICK q \in Nat, r \in 0 .. m - 1 : /\ q = c \div m /\ r = c % m
                                         /\ c = q * m + r
  BY DivMod
<1>2. q * m \in Nat /\ (q + 1) * m = q * m + m
  BY Z3
<1> DEFINE up == (q + 1) * m
           down == q * m
<1>a. /\ down \in Nat /\ up = down + m /\ c = down + r /\ q + 1 \in Nat
      /\ c + 1 \in Nat /\ m \in Nat /\ r \in Nat /\ r < m
  BY <1>1, <1>2
<1>3. RoundUp(c + 1, m) = up
  <2> HIDE DEF up, down
  <2>1. c + 1 <= up /\ up < (c + 1) + m
    BY <1>a
  <2> USE DEF up
  <2> QED BY <1>a, <2>1, MultipleOnly
<1>4. ASSUME r = 0 PROVE RoundUp(c, m) = down
  <2> HIDE DEF up, down
  <2>1. c <= down /\ down < c + m
    BY <1>a, <1>4
  <2> USE DEF down
  <2> QED BY <2>1, MultipleOnly
<1>5. ASSUME r # 0 PROVE RoundUp(c, m) = up
  <2> HIDE DEF up, down
  <2>1. c <= up /\ up < c + m
    BY <1>a, <1>5
  <2> USE DEF up
  <2> QED BY <1>a, <2>1, MultipleOnly
<1>6. \A j \in 0 .. m - 1 : (down + j) % m = j
  BY ModOf
<1> HIDE DEF up, down
<1>7. c - (c % m) = down /\ c % m = r
  BY <1>1, <1>a
<1>8. \A j \in 0 .. m - 1 : (c - (c % m) + j) % m = j /\ c - (c % m) + j \in Nat
  BY <1>6, <1>7, <1>a
<1>9. RoundUp(c, m) = IF c % m = 0 THEN c ELSE RoundUp(c + 1, m)
  BY <1>a, <1>3, <1>4, <1>5, <1>7
<1> QED BY <1>a, <1>3, <1>7, <1>8, <1>9

-----------------------------------------------------------------------------
(* The arguments *)

LEMMA CallFacts ==
  ASSUME StepsFit, NEW r \in Calls
  PROVE  /\ r.seqLen \in 1 .. MaxSteps /\ r.numShards \in 1 .. r.seqLen
         /\ r.reverse \in BOOLEAN /\ r.stepsPerGather \in Nat
         /\ r.stepsPerGather > 0 => r.reverse
         /\ LastHasSteps(r)
         /\ \/ r.timeSteps = <<>>
            \/ \E a \in 0 .. r.seqLen : r.timeSteps = <<a>>
            \/ \E a, b \in 0 .. r.seqLen : r.timeSteps = <<a, b>>
PROOF
<1>1. MaxSteps \in Nat
  BY DEF StepsFit
<1>2. PICK n \in 1 .. MaxSteps :
        r \in [seqLen : {n}, numShards : 1 .. n, reverse : BOOLEAN,
               stepsPerGather : 0 .. n + 1,
               timeSteps : {<<>>} \cup { <<a>> : a \in 0 .. n }
                                  \cup { <<a, b>> : a, b \in 0 .. n }]
  BY DEF Calls
<1>3. /\ LastHasSteps(r)
      /\ r.stepsPerGather > 0 => r.reverse
  BY DEF Calls
<1>4. /\ r.seqLen = n /\ r.numShards \in 1 .. n /\ r.reverse \in BOOLEAN
      /\ r.stepsPerGather \in 0 .. n + 1
      /\ r.timeSteps \in {<<>>} \cup { <<a>> : a \in 0 .. n }
                                \cup { <<a, b>> : a, b \in 0 .. n }
  BY <1>2
<1> QED BY <1>1, <1>3, <1>4

\* The steps are as many as the longest member of the batch has.
LEMMA StepCount ==
  ASSUME StepsFit, NEW r \in Calls
  PROVE  /\ NumTimeSteps(r) \in 0 .. r.seqLen
         /\ r.timeSteps = <<>> => NumTimeSteps(r) = r.seqLen
         /\ \A b \in DOMAIN r.timeSteps : r.timeSteps[b] \in 0 .. NumTimeSteps(r)
         /\ Len(r.timeSteps) = 1 => r.timeSteps[1] = NumTimeSteps(r)
         /\ r.timeSteps # <<>> => /\ Len(r.timeSteps) \in 1 .. 2
                                  /\ DOMAIN r.timeSteps = 1 .. Len(r.timeSteps)
         /\ Len(<<>>) = 0
PROOF
<1> DEFINE Longest(ts, n) == /\ \E b \in DOMAIN ts : ts[b] = n
                             /\ \A b \in DOMAIN ts : ts[b] <= n
<1>1. r.seqLen \in Nat
  BY CallFacts DEF StepsFit
<1>2. CASE r.timeSteps = <<>>
  BY <1>1, <1>2 DEF NumTimeSteps
<1>3. CASE r.timeSteps # <<>>
  <2>1. NumTimeSteps(r) = CHOOSE n \in 0 .. r.seqLen : Longest(r.timeSteps, n)
    BY <1>3 DEF NumTimeSteps
  <2>2. /\ \E n \in 0 .. r.seqLen : Longest(r.timeSteps, n)
        /\ Len(r.timeSteps) \in 1 .. 2
        /\ DOMAIN r.timeSteps = 1 .. Len(r.timeSteps)
        /\ \A b \in DOMAIN r.timeSteps : r.timeSteps[b] \in Nat
    <3>1. CASE \E a \in 0 .. r.seqLen : r.timeSteps = <<a>>
      BY <1>1, <3>1
    <3>2. CASE \E a, b \in 0 .. r.seqLen : r.timeSteps = <<a, b>>
      <4>1. PICK a \in 0 .. r.seqLen, b \in 0 .. r.seqLen : r.timeSteps = <<a, b>>
        BY <3>2
      <4>2. PICK n \in 0 .. r.seqLen : n = IF a < b THEN b ELSE a
        OBVIOUS
      <4>3. /\ Len(<<a, b>>) = 2 /\ DOMAIN <<a, b>> = 1 .. 2
            /\ <<a, b>>[1] = a /\ <<a, b>>[2] = b
        OBVIOUS
      <4>4. Longest(<<a, b>>, n)
        BY <1>1, <4>2, <4>3
      <4> QED BY <1>1, <4>1, <4>3, <4>4
    <3> QED BY <1>3, <3>1, <3>2, CallFacts
  <2>3. NumTimeSteps(r) \in 0 .. r.seqLen /\ Longest(r.timeSteps, NumTimeSteps(r))
    <3> HIDE DEF Longest
    <3> QED BY <2>1, <2>2
  <2> QED BY <1>1, <1>3, <2>2, <2>3
<1> QED BY <1>2, <1>3

\* Shards lie end to end, and each has some steps.
LEMMA ShardFacts ==
  ASSUME StepsFit, rnn \in Calls, NEW i \in 0 .. rnn.numShards - 1
  PROVE  /\ Begin(i) \in Nat /\ SequenceLength(i) \in Nat \ {0}
         /\ End(i) = Begin(i) + SequenceLength(i) /\ End(i) <= rnn.seqLen
         /\ SequenceLength(i) <= SeqLengthExclLast(rnn)
         /\ SeqLengthExclLast(rnn) \in Nat
         /\ i > 0 => End(i - 1) = Begin(i)
         /\ i < rnn.numShards - 1 => End(i) = Begin(i + 1)
         /\ i = rnn.numShards - 1 => End(i) = rnn.seqLen
         /\ Begin(0) = 0
PROOF
<1>1. PICK n \in Nat \ {0}, k \in Nat \ {0} : n = rnn.seqLen /\ k = rnn.numShards /\ k <= n
  BY CallFacts DEF StepsFit
<1>2. PICK q \in Nat : q = SeqLengthExclLast(rnn) /\ n <= q * k
  BY <1>1, RoundedUp DEF SeqLengthExclLast
<1>3. q # 0
  <2>1. CASE q = 0
    <3>1. q * k = 0
      BY <2>1
    <3> QED BY <1>2, <3>1
  <2> QED BY <2>1
<1>4. q * (k - 1) < n
  BY <1>1, <1>2, CallFacts DEF LastHasSteps
<1>5. /\ i * q \in Nat /\ (i + 1) * q = i * q + q /\ (i - 1) * q = i * q - q
      /\ 0 * q = 0
  BY <1>1, Z3
<1>6. i < k - 1 => (i + 1) * q < n
  <2>1. ASSUME i < k - 1 PROVE (k - 1 - (i + 1)) * q >= 0
    BY <1>1, <2>1, Z3
  <2>2. (k - 1 - (i + 1)) * q = q * (k - 1) - (i + 1) * q
    <3>1. k - 1 \in Int /\ i + 1 \in Int
      BY <1>1
    <3>2. \A x, y \in Int : (x - y) * q = q * x - y * q
      BY Z3
    <3> QED BY <3>1, <3>2
  <2>3. q * (k - 1) \in Int /\ (i + 1) * q \in Int
    BY <1>1
  <2> QED BY <1>4, <2>1, <2>2, <2>3
<1>7. ASSUME i = k - 1 PROVE i * q < n /\ n <= i * q + q
  <2>1. q * (k - 1) = i * q /\ q * k = (i + 1) * q
    BY <1>1, <1>7, Z3
  <2> QED BY <1>2, <1>4, <1>5, <2>1
<1>8. /\ Begin(i) = i * q /\ Begin(i + 1) = (i + 1) * q /\ Begin(i - 1) = (i - 1) * q
      /\ Begin(0) = 0
  BY <1>2, <1>5 DEF Begin
<1> DEFINE bq == i * q
<1>9. /\ bq \in Nat /\ Begin(i) = bq /\ Begin(i + 1) = bq + q /\ Begin(i - 1) = bq - q
      /\ i < k - 1 => bq + q < n
      /\ i = k - 1 => bq < n /\ n <= bq + q
  BY <1>5, <1>6, <1>7, <1>8
<1> HIDE DEF bq
<1>10. /\ End(i) = IF i < k - 1 THEN bq + q ELSE n
       /\ i > 0 => End(i - 1) = bq
  <2>1. i \in Nat /\ (i < rnn.numShards - 1 <=> i < k - 1) /\ i - 1 < rnn.numShards - 1
    BY <1>1
  <2>2. End(i) = IF i < k - 1 THEN bq + q ELSE n
    BY <1>1, <1>2, <1>9, <2>1 DEF End
  <2>3. End(i - 1) = Begin(i - 1) + q
    BY <1>2, <2>1 DEF End
  <2> QED BY <1>9, <2>2, <2>3
<1>11. SequenceLength(i) = End(i) - Begin(i)
  BY DEF SequenceLength
<1>12. PICK e \in Nat : e = End(i) /\ bq < e /\ e <= bq + q /\ e <= n
  BY <1>1, <1>3, <1>9, <1>10
<1>13. /\ i < rnn.numShards - 1 => e = bq + q
       /\ i = rnn.numShards - 1 => e = n
  BY <1>1, <1>10, <1>12
<1>14. SequenceLength(i) \in Nat \ {0} /\ e = bq + SequenceLength(i) /\ SequenceLength(i) <= q
  BY <1>9, <1>11, <1>12
<1> QED BY <1>1, <1>2, <1>8, <1>9, <1>10, <1>12, <1>13, <1>14
\* A loop has the steps of its shard, rounded up to a multiple of those gathered
\* at a time if there are several gathers.
LEMMA LoopFacts ==
  ASSUME StepsFit, rnn \in Calls, NEW i \in 0 .. rnn.numShards - 1
  PROVE  LET length == SequenceLength(i)
             steps == rnn.stepsPerGather
         IN /\ ~ Gathers \/ steps >= length =>
                 NumLoopIterations(i) = length /\ GatherSize(i) = length
            /\ Gathers /\ steps < length =>
                 /\ NumLoopIterations(i) = RoundUp(length, steps)
                 /\ GatherSize(i) = steps
            /\ NumLoopIterations(i) \in Nat
            /\ length <= NumLoopIterations(i) /\ NumLoopIterations(i) < 2^UnsignedBits
            /\ length < 2^UnsignedBits
            /\ 2^UnsignedBits \in Nat \ {0}
            /\ ~ rnn.reverse => ~ Gathers
            /\ steps \in Nat /\ (Gathers <=> steps # 0)
            /\ length \in Nat \ {0}
PROOF
<1> DEFINE length == SequenceLength(i)
           steps == rnn.stepsPerGather
<1>1. length \in Nat \ {0} /\ length <= MaxSteps /\ MaxSteps \in Nat
  <2>1. rnn.seqLen \in 1 .. MaxSteps
    BY CallFacts
  <2> QED BY <2>1, ShardFacts DEF StepsFit
<1>2. /\ steps \in Nat /\ (Gathers <=> steps # 0) /\ (~ rnn.reverse => ~ Gathers)
  BY CallFacts DEF Gathers
<1>3. /\ 2^UnsignedBits \in Nat \ {0} /\ length < 2^UnsignedBits
      /\ 2 * length <= 2^UnsignedBits
  BY <1>1 DEF StepsFit
<1> HIDE DEF length, steps
<1>4. ~ Gathers \/ steps >= length => GatherSize(i) = length
  BY <1>1, <1>2 DEF GatherSize, GatherCadence, Least, length, steps
<1>5. Gathers /\ steps < length => GatherSize(i) = steps
  BY <1>1, <1>2 DEF GatherSize, GatherCadence, Least, length, steps
<1>6. RoundUp(length, length) = length
  <2>1. 1 * length = length /\ length < length + length
    BY <1>1
  <2> QED BY <1>1, <2>1, MultipleOnly
<1>7. NumLoopIterations(i) = RoundUp(length, GatherSize(i))
  BY DEF NumLoopIterations, length
<1>8. /\ Gathers /\ steps < length =>
           RoundUp(length, steps) \in Nat /\ length <= RoundUp(length, steps)
           /\ RoundUp(length, steps) < 2 * length
  <2>1. SUFFICES ASSUME Gathers /\ steps < length
                 PROVE  /\ RoundUp(length, steps) \in Nat /\ length <= RoundUp(length, steps)
                        /\ RoundUp(length, steps) < 2 * length
    OBVIOUS
  <2>2. PICK r \in Nat : r = RoundUp(length, steps) /\ length <= r /\ r < length + steps
    BY <1>1, <1>2, <2>1, RoundedUp
  <2> QED BY <1>1, <1>2, <2>1, <2>2
<1>9. /\ NumLoopIterations(i) \in Nat
      /\ length <= NumLoopIterations(i) /\ NumLoopIterations(i) < 2^UnsignedBits
  <2>1. CASE Gathers /\ steps < length
    BY <1>1, <1>3, <1>5, <1>7, <1>8, <2>1
  <2>2. CASE ~ (Gathers /\ steps < length)
    BY <1>1, <1>2, <1>3, <1>4, <1>6, <1>7, <2>2
  <2> QED BY <2>1, <2>2
<1>10. /\ ~ Gathers \/ steps >= length => NumLoopIterations(i) = length
       /\ Gathers /\ steps < length => NumLoopIterations(i) = RoundUp(length, steps)
  BY <1>4, <1>5, <1>6, <1>7
<1> USE DEF length, steps
<1> QED BY <1>1, <1>2, <1>3, <1>4, <1>5, <1>9, <1>10

\* The iterations of a loop, one after another
LEMMA Counting ==
  ASSUME StepsFit, RnnInv, Iterate
  PROVE  /\ phase = "loop" /\ left \in Nat \ {0} /\ left <= NumLoopIterations(shard)
         /\ left' = left - 1
         /\ rnn' = rnn /\ phase' = phase /\ shard' = shard
         /\ rnn \in Calls /\ shard \in 0 .. rnn.numShards - 1
         /\ counter = IF rnn.reverse THEN left - 1 ELSE SequenceLength(shard) - left
         /\ counter \in Nat
         /\ ~ rnn.reverse => counter < SequenceLength(shard)
         /\ left - 1 > 0 => counter' = IF rnn.reverse THEN left - 2
                                       ELSE SequenceLength(shard) - (left - 1)
PROOF
<1>1. /\ phase = "loop" /\ left > 0 /\ left' = left - 1
      /\ rnn' = rnn /\ phase' = phase /\ shard' = shard
      /\ counter' = NextCounter
  BY DEF Iterate
<1>2. /\ rnn \in Calls /\ shard \in 0 .. rnn.numShards - 1
      /\ left \in 0 .. NumLoopIterations(shard)
      /\ counter = IF rnn.reverse THEN left - 1 ELSE SequenceLength(shard) - left
  BY <1>1 DEF RnnInv, CountersInStep
<1>3. PICK length \in Nat \ {0}, its \in Nat, word \in Nat \ {0} :
        /\ length = SequenceLength(shard) /\ its = NumLoopIterations(shard)
        /\ word = 2^UnsignedBits
        /\ its < word /\ length < word /\ (~ rnn.reverse => its = length)
  BY <1>2, LoopFacts
<1>4. counter \in Nat /\ (~ rnn.reverse => counter < length)
  BY <1>1, <1>2, <1>3
<1>5. \A k \in 0 .. word - 1 : k % word = k
  <2>1. \A k \in 0 .. word - 1 : (0 * word + k) % word = k
    BY ModOf
  <2> QED BY <2>1
<1>6. left - 1 > 0 => counter' = IF rnn.reverse THEN left - 2 ELSE length - (left - 1)
  <2>1. CASE rnn.reverse
    BY <1>1, <1>2, <1>3, <1>5, <2>1 DEF NextCounter
  <2>2. CASE ~ rnn.reverse
    BY <1>1, <1>2, <1>3, <1>5, <2>2 DEF NextCounter
  <2> QED BY <2>1, <2>2
<1> QED BY <1>1, <1>2, <1>3, <1>4, <1>6
-----------------------------------------------------------------------------
(* An iteration *)

\* The cell runs for the steps of the shard that some member of the batch has;
\* the others of the shard are written as zeros, and nothing past its end is.
Inside == counter < SequenceLength(shard)
Runs == Inside /\ Begin(shard) + counter < NumTimeSteps(rnn)

LEMMA Effects ==
  ASSUME StepsFit, RnnInv, Iterate
  PROVE  LET step == Begin(shard) + counter
         IN /\ Runs => /\ state' = Append(state, step)
                       /\ out' = [out EXCEPT ![step] =
                                    [b \in Batch |-> IF Mask(b) THEN state' ELSE ZeroState]]
            /\ ~ Runs => state' = state
            /\ Inside /\ ~ Runs => out' = [out EXCEPT ![step] = [b \in Batch |-> ZeroState]]
            /\ ~ Inside => out' = out
            /\ RunGather(Interim(counter), Runs)
            /\ Inside => StepAt(counter, 0) = step
PROOF
<1> DEFINE step == Begin(shard) + counter
           length == SequenceLength(shard)
<1>1. /\ rnn \in Calls /\ shard \in 0 .. rnn.numShards - 1
      /\ left \in Nat \ {0} /\ left <= NumLoopIterations(shard)
      /\ counter = IF rnn.reverse THEN left - 1 ELSE SequenceLength(shard) - left
      /\ counter \in Nat /\ (~ rnn.reverse => counter < SequenceLength(shard))
  BY Counting
<1>2. /\ length \in Nat \ {0} /\ Begin(shard) \in Nat /\ End(shard) = Begin(shard) + length
      /\ End(shard) <= rnn.seqLen /\ length <= SeqLengthExclLast(rnn)
      /\ SeqLengthExclLast(rnn) \in Nat /\ NumLoopIterations(shard) \in Nat
  BY <1>1, ShardFacts, LoopFacts
<1>3. /\ rnn.seqLen \in Nat /\ NumTimeSteps(rnn) \in Nat
      /\ ~ Variable => NumTimeSteps(rnn) = rnn.seqLen
  BY <1>1, CallFacts, StepCount DEF Variable
<1>4. /\ ZeroPaddingRequired(shard) \in BOOLEAN
      /\ Variable \in BOOLEAN
  BY DEF ZeroPaddingRequired, Variable
<1>5. ZeroPaddingRequired(shard) /\ counter >= length <=> ~ Inside
  BY <1>1, <1>2 DEF ZeroPaddingRequired, Inside
<1>6. Inside => (Variable /\ counter >= TimeSteps(shard) <=> ~ Runs)
  <2> SUFFICES ASSUME Inside PROVE Variable /\ counter >= TimeSteps(shard) <=> ~ Runs
    OBVIOUS
  <2>1. counter < length
    BY DEF Inside
  <2>2. CASE ~ Variable
    BY <1>1, <1>2, <1>3, <2>1, <2>2 DEF Runs, Inside
  <2>3. CASE Variable
    <3> HIDE DEF length
    <3>1. counter >= TimeSteps(shard) <=> Begin(shard) + counter >= NumTimeSteps(rnn)
      BY <1>1, <1>2, <1>3, <2>1 DEF TimeSteps, Most, Least
    <3> QED BY <1>1, <1>2, <1>3, <2>1, <2>3, <3>1 DEF Runs, Inside
  <2> QED BY <2>2, <2>3
<1>7. Inside => StepAt(counter, 0) = step
  <2> SUFFICES ASSUME Inside PROVE StepAt(counter, 0) = step
    OBVIOUS
  <2>1. counter < length
    BY DEF Inside
  <2>2. (0 * length + counter) % length = counter
    BY <1>1, <1>2, <2>1, ModOf
  <2>3. (counter + 0) % length = counter
    BY <1>1, <1>2, <2>2
  <2> QED BY <1>1, <1>2, <2>1, <2>3 DEF StepAt, SliceAt
<1>8. CASE ~ Inside
  <2>1. Outside
    BY <1>5, <1>8 DEF Iterate
  <2>2. Interim(counter) = Zero /\ ~ Runs
    BY <1>8 DEF Interim, Inside, Runs
  <2>3. Runs = FALSE
    BY <2>2 DEF Runs, Inside
  <2> QED BY <1>8, <2>1, <2>2, <2>3 DEF Outside
<1>9. CASE Inside /\ ~ Runs
  <2>1. Reset
    BY <1>5, <1>6, <1>9 DEF Iterate
  <2>2. Interim(counter) = Zero
    BY <1>9 DEF Interim, Inside, Runs
  <2>3. Runs = FALSE
    BY <1>9 DEF Runs, Inside
  <2> QED BY <1>7, <1>9, <2>1, <2>2, <2>3 DEF Reset
<1>10. CASE Runs
  <2>1. Inside
    BY <1>10 DEF Runs
  <2>2. Process
    BY <1>5, <1>6, <1>10, <2>1 DEF Iterate
  <2>3. Interim(counter) = step
    BY <1>10, <2>1 DEF Interim, Inside, Runs
  <2>4. Runs = TRUE
    BY <1>10 DEF Runs, Inside
  <2>5. StepAt(counter, 0) = step
    BY <1>7, <2>1
  <2>6. /\ state' = Append(state, step)
        /\ out' = [out EXCEPT ![step] = [b \in Batch |-> IF Mask(b) THEN state' ELSE ZeroState]]
        /\ RunGather(step, TRUE)
    BY <2>2, <2>5 DEF Process
  <2>7. RunGather(Interim(counter), Runs)
    BY <2>3, <2>4, <2>6
  <2> QED BY <1>10, <2>1, <2>5, <2>6, <2>7
<1> QED BY <1>7, <1>8, <1>9, <1>10
\* What is said of a shard is about the arguments and the shard only.
LEMMA SameShard ==
  ASSUME rnn' = rnn, shard' = shard
  PROVE  /\ Begin(shard)' = Begin(shard) /\ End(shard)' = End(shard)
         /\ SequenceLength(shard)' = SequenceLength(shard)
         /\ NumLoopIterations(shard)' = NumLoopIterations(shard)
         /\ GatherSize(shard)' = GatherSize(shard)
         /\ CountsOffset(shard)' = CountsOffset(shard)
         /\ Gathers' = Gathers /\ NumTimeSteps(rnn)' = NumTimeSteps(rnn)
         /\ Batch' = Batch
         /\ \A t, b : Expected(t, b)' = Expected(t, b)
         /\ \A c : Interim(c)' = Interim(c)
         /\ \A n : Ordered(n)' = Ordered(n)
PROOF
<1>1. /\ Begin(shard)' = Begin(shard) /\ End(shard)' = End(shard)
  BY DEF Begin, End
<1>2. SequenceLength(shard)' = SequenceLength(shard)
  BY <1>1 DEF SequenceLength
<1>3. Gathers' = Gathers
  BY DEF Gathers
<1>4. GatherSize(shard)' = GatherSize(shard)
  BY <1>2, <1>3 DEF GatherSize, GatherCadence
<1>5. NumLoopIterations(shard)' = NumLoopIterations(shard)
  BY <1>2, <1>4 DEF NumLoopIterations
<1>6. CountsOffset(shard)' = CountsOffset(shard)
  BY <1>2, <1>3 DEF CountsOffset
<1>7. NumTimeSteps(rnn)' = NumTimeSteps(rnn)
  OBVIOUS
<1>8. Batch' = Batch
  BY DEF Batch, Variable
<1>9. \A n : Ordered(n)' = Ordered(n)
  BY DEF Ordered
<1>10. \A c : Interim(c)' = Interim(c)
  BY <1>1, <1>2, <1>7 DEF Interim
<1>11. \A t, b : Expected(t, b)' = Expected(t, b)
  BY <1>7, <1>9 DEF Expected, Variable
<1> QED BY <1>1, <1>2, <1>3, <1>4, <1>5, <1>6, <1>7, <1>8, <1>9, <1>10, <1>11

\* One step more is one element more.
LEMMA OneMore ==
  ASSUME NEW n \in Nat, NEW k \in 0 .. n - 1
  PROVE  SubSeq(Ordered(n), 1, k + 1)
           = Append(SubSeq(Ordered(n), 1, k), IF rnn.reverse THEN n - (k + 1) ELSE k)
PROOF
<1>1. Ordered(n) \in Seq(Int) /\ Len(Ordered(n)) = n
  BY DEF Ordered
<1>2. PICK seq \in Seq(Int) : seq = Ordered(n) /\ Len(seq) = n
  BY <1>1
<1>3. SubSeq(seq, 1, k + 1) = SubSeq(seq, 1, k) \o << seq[k + 1] >>
  <2>1. SubSeq(seq, 1, k + 1) = SubSeq(seq, 1, (k + 1) - 1) \o << seq[k + 1] >>
    BY <1>2, SubSeqRecursiveSecond
  <2> QED BY <2>1
<1>4. SubSeq(seq, 1, k) \in Seq(Int) /\ seq[k + 1] \in Int
  BY <1>2, SubSeqProperties
<1>5. Append(SubSeq(seq, 1, k), seq[k + 1]) = SubSeq(seq, 1, k) \o << seq[k + 1] >>
  BY <1>4, AppendIsConcat
<1>6. seq[k + 1] = IF rnn.reverse THEN n - (k + 1) ELSE k
  BY <1>2 DEF Ordered
<1> QED BY <1>2, <1>3, <1>5, <1>6

\* An iteration inside the shard moves the frontier past its step.
LEMMA FrontierMoves ==
  ASSUME StepsFit, RnnInv, Iterate
  PROVE  /\ Frontier \in Nat /\ Frontier' \in Nat /\ Begin(shard) \in Nat
         /\ Inside => /\ Begin(shard) + counter < rnn.seqLen
                      /\ IF rnn.reverse THEN /\ Frontier' = Begin(shard) + counter
                                             /\ Frontier = Frontier' + 1
                         ELSE /\ Frontier = Begin(shard) + counter
                              /\ Frontier' = Frontier + 1
         /\ ~ Inside => Frontier' = Frontier
PROOF
<1> DEFINE length == SequenceLength(shard)
<1>1. /\ phase = "loop" /\ left \in Nat \ {0} /\ left <= NumLoopIterations(shard)
      /\ left' = left - 1
      /\ rnn' = rnn /\ phase' = phase /\ shard' = shard
      /\ rnn \in Calls /\ shard \in 0 .. rnn.numShards - 1
      /\ counter = IF rnn.reverse THEN left - 1 ELSE length - left
      /\ counter \in Nat /\ (~ rnn.reverse => counter < length)
  BY Counting
<1>2. /\ length \in Nat \ {0} /\ Begin(shard) \in Nat /\ End(shard) = Begin(shard) + length
      /\ End(shard) <= rnn.seqLen /\ rnn.seqLen \in Nat
  <2>1. rnn.seqLen \in Nat
    BY <1>1, CallFacts DEF StepsFit
  <2> QED BY <1>1, <2>1, ShardFacts
<1>3. /\ Begin(shard)' = Begin(shard) /\ SequenceLength(shard)' = length
  BY <1>1, SameShard
<1> HIDE DEF length
<1>4. /\ Frontier = Begin(shard) + (IF rnn.reverse THEN Least(left, length) ELSE length - left)
      /\ Frontier' = Begin(shard) + (IF rnn.reverse THEN Least(left - 1, length)
                                     ELSE length - (left - 1))
  BY <1>1, <1>3 DEF Frontier, length
<1>5. Inside <=> counter < length
  BY DEF Inside, length
<1> QED BY <1>1, <1>2, <1>4, <1>5 DEF Least

LEMMA StateAfter ==
  ASSUME StepsFit, RnnInv, Iterate
  PROVE  /\ StateSoFar'
         /\ Runs => state' = SubSeq(Ordered(NumTimeSteps(rnn)), 1,
                                    LET step == Begin(shard) + counter
                                    IN IF rnn.reverse THEN NumTimeSteps(rnn) - step
                                       ELSE step + 1)
PROOF
<1> DEFINE step == Begin(shard) + counter
<1>1. PICK n \in Nat : n = NumTimeSteps(rnn)
  BY StepCount, CallFacts DEF RnnInv, StepsFit
<1>2. /\ rnn' = rnn /\ shard' = shard /\ NumTimeSteps(rnn)' = n
      /\ Ordered(n)' = Ordered(n)
  BY <1>1, Counting, SameShard
<1>3. PICK f \in Nat, g \in Nat : f = Frontier /\ g = Frontier'
  BY FrontierMoves
<1>4. state = SubSeq(Ordered(n), 1, IF rnn.reverse THEN Most(n - f, 0) ELSE Least(n, f))
  BY <1>1, <1>3 DEF RnnInv, StateSoFar
<1>5. StateSoFar' <=>
        state' = SubSeq(Ordered(n), 1, IF rnn.reverse THEN Most(n - g, 0) ELSE Least(n, g))
  BY <1>2, <1>3 DEF StateSoFar
<1>6. step \in Nat /\ counter \in Nat
  BY Counting, FrontierMoves
<1>7. CASE Runs
  <2>1. /\ step < n /\ Inside
        /\ state' = Append(state, step)
    BY <1>1, <1>7, Effects DEF Runs
  <2>2. IF rnn.reverse THEN g = step /\ f = step + 1 ELSE f = step /\ g = step + 1
    BY <1>3, <2>1, FrontierMoves
  <2> HIDE DEF step
  <2>3. CASE rnn.reverse
    <3>1. /\ Most(n - f, 0) = n - step - 1 /\ Most(n - g, 0) = n - step
          /\ n - step - 1 \in 0 .. n - 1
      BY <1>3, <1>6, <2>1, <2>2, <2>3 DEF Most
    <3>2. PICK k \in 0 .. n - 1 : k = n - step - 1
      BY <3>1
    <3>3. SubSeq(Ordered(n), 1, k + 1) = Append(SubSeq(Ordered(n), 1, k), n - (k + 1))
      BY <2>3, OneMore
    <3>4. k + 1 = n - step /\ n - (k + 1) = step
      BY <1>6, <3>2
    <3>5. state' = SubSeq(Ordered(n), 1, n - step)
      BY <1>4, <2>1, <2>3, <3>1, <3>2, <3>3, <3>4
    <3> QED BY <1>1, <1>5, <2>3, <3>1, <3>5 DEF step
  <2>4. CASE ~ rnn.reverse
    <3>1. Least(n, f) = step /\ Least(n, g) = step + 1 /\ step \in 0 .. n - 1
      BY <1>3, <1>6, <2>1, <2>2, <2>4 DEF Least
    <3>2. SubSeq(Ordered(n), 1, step + 1) = Append(SubSeq(Ordered(n), 1, step), step)
      BY <2>4, <3>1, OneMore
    <3>3. state' = SubSeq(Ordered(n), 1, step + 1)
      BY <1>4, <2>1, <2>4, <3>1, <3>2
    <3> QED BY <1>1, <1>5, <2>4, <3>1, <3>3 DEF step
  <2> QED BY <2>3, <2>4
<1>8. CASE ~ Runs
  <2>1. state' = state
    BY <1>8, Effects
  <2>2. CASE Inside
    <3>1. step >= n
      BY <1>1, <1>6, <1>8, <2>2 DEF Runs
    <3>2. IF rnn.reverse THEN g = step /\ f = step + 1 ELSE f = step /\ g = step + 1
      BY <1>3, <2>2, FrontierMoves
    <3> HIDE DEF step
    <3>3. rnn.reverse => Most(n - f, 0) = Most(n - g, 0)
      BY <1>6, <3>1, <3>2 DEF Most
    <3>4. ~ rnn.reverse => Least(n, f) = Least(n, g)
      BY <1>6, <3>1, <3>2 DEF Least
    <3> QED BY <1>4, <1>5, <1>8, <2>1, <3>3, <3>4
  <2>3. CASE ~ Inside
    <3>1. f = g
      BY <1>3, <2>3, FrontierMoves
    <3> QED BY <1>4, <1>5, <1>8, <2>1, <3>1
  <2> QED BY <2>2, <2>3
<1> QED BY <1>7, <1>8
LEMMA OutAfter ==
  ASSUME StepsFit, RnnInv, Iterate
  PROVE  OutSoFar'
PROOF
<1>1. PICK n \in Nat, size \in Nat, step \in Nat :
        n = NumTimeSteps(rnn) /\ size = rnn.seqLen /\ step = Begin(shard) + counter
  <2>1. rnn.seqLen \in Nat /\ NumTimeSteps(rnn) \in Nat
    BY StepCount, CallFacts DEF RnnInv, StepsFit
  <2> QED BY <2>1, Counting, FrontierMoves
<1>2. /\ rnn' = rnn /\ Batch' = Batch /\ rnn \in Calls
      /\ \A t, b : Expected(t, b)' = Expected(t, b)
  BY Counting, SameShard
<1>3. /\ DOMAIN out = 0 .. size - 1
      /\ \A t \in DOMAIN out :
           /\ DOMAIN out[t] = Batch
           /\ Behind(t) => \A b \in Batch : out[t][b] = Expected(t, b)
  BY <1>1 DEF RnnInv, OutSoFar
<1>4. SUFFICES /\ DOMAIN out' = 0 .. size - 1
               /\ \A t \in 0 .. size - 1 :
                    /\ DOMAIN out'[t] = Batch
                    /\ Behind(t)' => \A b \in Batch : out'[t][b] = Expected(t, b)
  BY <1>1, <1>2 DEF OutSoFar
<1>5. PICK f \in Nat, g \in Nat : f = Frontier /\ g = Frontier'
  BY FrontierMoves
<1>6. \A t : /\ Behind(t) <=> IF rnn.reverse THEN t >= f ELSE t < f
             /\ Behind(t)' <=> IF rnn.reverse THEN t >= g ELSE t < g
  BY <1>2, <1>5 DEF Behind
<1>7. CASE ~ Inside
  <2>1. out' = out /\ f = g
    BY <1>5, <1>7, Effects, FrontierMoves DEF Runs
  <2> QED BY <1>3, <1>6, <2>1
<1>8. CASE Inside
  <2>1. /\ step < size
        /\ IF rnn.reverse THEN g = step /\ f = step + 1 ELSE f = step /\ g = step + 1
    BY <1>1, <1>5, <1>8, FrontierMoves
  <2>2. \A t \in 0 .. size - 1 : t # step => (Behind(t)' <=> Behind(t))
    BY <1>1, <1>5, <1>6, <2>1
  <2>3. \E row : /\ out' = [out EXCEPT ![step] = row] /\ DOMAIN row = Batch
                 /\ \A b \in Batch : row[b] = Expected(step, b)
    <3>1. CASE ~ Runs
      <4>1. out' = [out EXCEPT ![step] = [b \in Batch |-> ZeroState]]
        BY <1>1, <1>8, <3>1, Effects
      <4>2. step >= n
        BY <1>1, <1>8, <3>1 DEF Runs
      <4>3. ASSUME NEW b \in Batch PROVE Expected(step, b) = ZeroState
        <5>1. rnn.timeSteps # <<>> /\ Variable
          BY <1>1, <1>2, <2>1, <4>2, StepCount DEF Variable
        <5>2. rnn.timeSteps[b] \in 0 .. n
          BY <1>1, <1>2, <5>1, StepCount DEF Batch
        <5>3. ~ (step < rnn.timeSteps[b])
          BY <1>1, <4>2, <5>2
        <5> QED BY <5>1, <5>3 DEF Expected
      <4> DEFINE row == [b \in Batch |-> ZeroState]
      <4>4. DOMAIN row = Batch /\ \A b \in Batch : row[b] = Expected(step, b)
        BY <4>3
      <4>5. out' = [out EXCEPT ![step] = row]
        BY <4>1
      <4> HIDE DEF row
      <4> QED BY <4>4, <4>5
    <3>2. CASE Runs
      <4> DEFINE row == [b \in Batch |-> IF Mask(b) THEN state' ELSE ZeroState]
      <4>1. out' = [out EXCEPT ![step] = row]
        BY <1>1, <3>2, Effects
      <4>2. state' = SubSeq(Ordered(n), 1, IF rnn.reverse THEN n - step ELSE step + 1)
        BY <1>1, <3>2, StateAfter
      <4>3. step < n
        BY <1>1, <3>2 DEF Runs
      <4>4. ASSUME NEW b \in Batch PROVE row[b] = Expected(step, b)
        <5>1. Mask(b) <=> step < (IF Variable THEN rnn.timeSteps[b] ELSE rnn.seqLen)
          <6>1. CASE ~ Variable
            BY <1>1, <2>1, <6>1 DEF Mask
          <6>2. CASE Variable /\ Len(rnn.timeSteps) > 1
            <7>1. rnn.timeSteps[b] \in 0 .. n
              BY <1>1, <1>2, <6>2, StepCount DEF Batch
            <7> QED BY <1>1, <6>2, <7>1 DEF Mask
          <6>3. CASE Variable /\ ~ (Len(rnn.timeSteps) > 1)
            <7>1. rnn.timeSteps # <<>>
              BY <6>3 DEF Variable
            <7>2. Len(rnn.timeSteps) \in 1 .. 2 /\ DOMAIN rnn.timeSteps = 1 .. Len(rnn.timeSteps)
              BY <1>2, <7>1, StepCount
            <7>3. Len(rnn.timeSteps) = 1
              BY <6>3, <7>2
            <7>4. rnn.timeSteps[1] = n
              BY <1>1, <1>2, <7>3, StepCount
            <7>5. b = 1
              BY <6>3, <7>2, <7>3 DEF Batch
            <7> QED BY <4>3, <6>3, <7>4, <7>5 DEF Mask
          <6> QED BY <6>1, <6>2, <6>3
        <5> QED BY <1>1, <4>2, <5>1 DEF Expected
      <4> HIDE DEF row
      <4>5. DOMAIN row = Batch
        BY DEF row
      <4> QED BY <4>1, <4>4, <4>5
    <3> QED BY <3>1, <3>2
  <2>4. PICK row : /\ out' = [out EXCEPT ![step] = row] /\ DOMAIN row = Batch
                   /\ \A b \in Batch : row[b] = Expected(step, b)
    BY <2>3
  <2>5. DOMAIN out' = 0 .. size - 1
    BY <1>3, <2>4
  <2>6. ASSUME NEW t \in 0 .. size - 1
        PROVE  /\ DOMAIN out'[t] = Batch
               /\ Behind(t)' => \A b \in Batch : out'[t][b] = Expected(t, b)
    <3>1. out'[t] = IF t = step THEN row ELSE out[t]
      BY <1>3, <2>4
    <3>2. CASE t = step
      BY <2>4, <3>1, <3>2
    <3>3. CASE t # step
      BY <1>3, <2>2, <3>1, <3>3
    <3> QED BY <3>2, <3>3
  <2> QED BY <2>5, <2>6
<1> QED BY <1>7, <1>8
\* The counters go on together.
LEMMA CountersAfter ==
  ASSUME StepsFit, RnnInv, Iterate
  PROVE  CountersInStep'
PROOF
<1> DEFINE steps == rnn.stepsPerGather
<1>1. /\ phase = "loop" /\ left \in Nat \ {0} /\ left <= NumLoopIterations(shard)
      /\ left' = left - 1
      /\ rnn' = rnn /\ phase' = phase /\ shard' = shard
      /\ rnn \in Calls /\ shard \in 0 .. rnn.numShards - 1
      /\ left - 1 > 0 => counter' = IF rnn.reverse THEN left - 2
                                    ELSE SequenceLength(shard) - (left - 1)
  BY Counting
<1>2. /\ SequenceLength(shard)' = SequenceLength(shard)
      /\ NumLoopIterations(shard)' = NumLoopIterations(shard)
      /\ CountsOffset(shard)' = CountsOffset(shard)
  BY <1>1, SameShard
<1>3. NumLoopIterations(shard) \in Nat /\ steps \in Nat
  BY <1>1, LoopFacts
<1>4. left' \in 0 .. NumLoopIterations(shard)
  BY <1>1, <1>3
<1>5. left' > 0 => counter' = IF rnn.reverse THEN left' - 1 ELSE SequenceLength(shard) - left'
  <2>1. PICK l \in Nat \ {0} : l = left
    BY <1>1
  <2> QED BY <1>1, <2>1
<1>6. CountsOffset(shard) => offset' = (left' + steps - 1) % steps
  <2> SUFFICES ASSUME CountsOffset(shard) PROVE offset' = (left' + steps - 1) % steps
    OBVIOUS
  <2>1. steps > 1
    BY DEF CountsOffset
  <2>2. offset = (left + steps - 1) % steps
    BY <1>1 DEF RnnInv, CountersInStep
  <2>3. offset' = (IF offset = 0 THEN steps ELSE offset) - 1
    BY DEF Iterate, UpdateOffset, InitialOffset
  <2>a. PICK m \in Nat \ {0} : m = steps /\ m > 1
    BY <1>3, <2>1
  <2>4. PICK n \in Nat : n = left + m - 2 /\ n + 1 = left + m - 1
    BY <1>1, <2>a
  <2>5. PICK q \in Nat, r \in 0 .. m - 1 : n + 1 = q * m + r /\ r = (n + 1) % m
    <3>1. PICK k \in Nat : k = n + 1
      OBVIOUS
    <3>2. k \div m \in Nat /\ k = (k \div m) * m + (k % m) /\ k % m \in 0 .. m - 1
      BY DivMod
    <3> QED BY <3>1, <3>2
  <2>6. n % m = IF r = 0 THEN m - 1 ELSE r - 1
    <3>1. CASE r # 0
      <4>1. r - 1 \in 0 .. m - 1
        BY <1>3, <3>1
      <4>2. (q * m + (r - 1)) % m = r - 1
        BY <1>3, <2>a, <4>1, ModOf
      <4>3. q * m \in Nat
        BY <1>3
      <4>4. n = q * m + (r - 1)
        BY <2>5, <4>3
      <4> QED BY <3>1, <4>2, <4>4
    <3>2. CASE r = 0
      <4>1. q # 0
        <5> SUFFICES ASSUME q = 0 PROVE FALSE
          OBVIOUS
        <5>1. q * m = 0
          BY <1>3
        <5> QED BY <2>4, <2>5, <3>2, <5>1
      <4>2. q - 1 \in Nat /\ m - 1 \in 0 .. m - 1
        BY <1>3, <2>a, <4>1
      <4>3. ((q - 1) * m + (m - 1)) % m = m - 1
        BY <1>3, <2>a, <4>2, ModOf
      <4>4. (q - 1) * m = q * m - m /\ q * m \in Nat
        BY <1>3, Z3
      <4>5. n = (q - 1) * m + (m - 1)
        BY <2>5, <3>2, <4>4
      <4> QED BY <3>2, <4>3, <4>5
    <3> QED BY <3>1, <3>2
  <2>7. left' + steps - 1 = n
    BY <1>1, <2>a, <2>4
  <2>8. offset = r
    BY <2>2, <2>4, <2>5, <2>a
  <2>9. offset' = n % m
    BY <2>3, <2>5, <2>6, <2>8, <2>a
  <2> QED BY <2>7, <2>9, <2>a
<1> QED BY <1>1, <1>2, <1>4, <1>5, <1>6 DEF CountersInStep
-----------------------------------------------------------------------------
(* Gathers *)

\* Gathers that make up the pairs P, each of them once
MakeUp(g, P, U) ==
  /\ g \in Seq(SUBSET U)
  /\ UNION { g[i] : i \in DOMAIN g } = P
  /\ \A i, j \in DOMAIN g : i # j => g[i] \cap g[j] = {}

\* A gather of what was not gathered yet
LEMMA GatherMore ==
  ASSUME NEW U, NEW g, NEW S \in SUBSET U, NEW P, MakeUp(g, P, U), S \cap P = {}
  PROVE  MakeUp(Append(g, S), P \cup S, U)
PROOF
<1>0. /\ g \in Seq(SUBSET U) /\ UNION { g[i] : i \in DOMAIN g } = P
      /\ \A i, j \in DOMAIN g : i # j => g[i] \cap g[j] = {}
  BY DEF MakeUp
<1> DEFINE h == Append(g, S)
<1>1. /\ h \in Seq(SUBSET U) /\ Len(h) = Len(g) + 1 /\ Len(g) \in Nat
      /\ \A i \in 1 .. Len(g) : h[i] = g[i]
      /\ h[Len(g) + 1] = S
  BY <1>0, AppendProperties
<1>2. DOMAIN g = 1 .. Len(g) /\ DOMAIN h = 1 .. Len(g) + 1
  BY <1>0, <1>1, LenProperties
<1>3. PICK k \in Nat : k = Len(g)
  BY <1>1
<1> HIDE DEF h
<1>a. /\ DOMAIN g = 1 .. k /\ DOMAIN h = 1 .. k + 1 /\ h[k + 1] = S
      /\ \A i \in 1 .. k : h[i] = g[i]
  BY <1>1, <1>2, <1>3
<1>4. ASSUME NEW i \in DOMAIN h
      PROVE  (i = k + 1 /\ h[i] = S) \/ (i \in DOMAIN g /\ h[i] = g[i])
  <2>1. i = k + 1 \/ i \in 1 .. k
    BY <1>3, <1>a
  <2> QED BY <1>a, <2>1
<1>5. \A i \in DOMAIN g : i \in DOMAIN h /\ h[i] = g[i]
  BY <1>1, <1>2, <1>3
<1>6. k + 1 \in DOMAIN h /\ h[k + 1] = S
  BY <1>1, <1>2, <1>3
<1>7. UNION { h[i] : i \in DOMAIN h } = P \cup S
  BY <1>0, <1>4, <1>5, <1>6
<1>8. ASSUME NEW i \in DOMAIN h, NEW j \in DOMAIN h, i # j
      PROVE  h[i] \cap h[j] = {}
  <2>1. CASE i = k + 1
    <3>1. j \in DOMAIN g /\ h[j] = g[j] /\ h[i] = S
      BY <1>4, <1>6, <1>8, <2>1
    <3> QED BY <1>0, <3>1
  <2>2. CASE j = k + 1
    <3>1. i \in DOMAIN g /\ h[i] = g[i] /\ h[j] = S
      BY <1>4, <1>6, <1>8, <2>2
    <3> QED BY <1>0, <3>1
  <2>3. CASE i # k + 1 /\ j # k + 1
    <3>1. i \in DOMAIN g /\ h[i] = g[i] /\ j \in DOMAIN g /\ h[j] = g[j]
      BY <1>4, <2>3
    <3> QED BY <1>0, <1>8, <3>1
  <2> QED BY <2>1, <2>2, <2>3
<1> QED BY <1>1, <1>7, <1>8 DEF h, MakeUp

\* Where all of the shard is gathered at its end, the buffer fills up from its end.
LEMMA FillWhole ==
  ASSUME StepsFit, RnnInv, Iterate, Gathers,
         rnn.stepsPerGather >= SequenceLength(shard)
  PROVE  BufferSoFar' /\ gathered' = gathered
PROOF
<1>1. /\ phase = "loop" /\ left \in Nat \ {0} /\ left <= NumLoopIterations(shard)
      /\ left' = left - 1
      /\ rnn' = rnn /\ phase' = phase /\ shard' = shard
      /\ rnn \in Calls /\ shard \in 0 .. rnn.numShards - 1
      /\ counter = IF rnn.reverse THEN left - 1 ELSE SequenceLength(shard) - left
  BY Counting
<1>2. PICK length \in Nat \ {0}, steps \in Nat \ {0} :
        /\ length = SequenceLength(shard) /\ steps = rnn.stepsPerGather
        /\ length = GatherSize(shard) /\ length = NumLoopIterations(shard)
        /\ rnn.reverse
  BY <1>1, LoopFacts
<1>3. PICK c \in 0 .. length - 1 : c = counter /\ c = left' /\ left = c + 1
  BY <1>1, <1>2
<1>4. RunGather(Interim(c), Runs)
  BY <1>3, Effects
<1>5. temp' = TempWith(Interim(c)) /\ gathered' = gathered
  BY <1>2, <1>4 DEF RunGather
<1>6. ~ CountsOffset(shard)
  BY <1>2 DEF CountsOffset
<1>7. TempWith(Interim(c)) = [temp EXCEPT ![c] = Interim(c)]
  <2> DEFINE at == IF CountsOffset(shard) THEN offset
                   ELSE IF rnn.stepsPerGather > 1 THEN counter ELSE 0
  <2>1. TempWith(Interim(c)) = [temp EXCEPT ![SliceAt(at, length)] = Interim(c)]
    BY <1>2 DEF TempWith
  <2>2. at = c
    BY <1>2, <1>3, <1>6
  <2>3. SliceAt(at, length) = c
    BY <2>2 DEF SliceAt
  <2> HIDE DEF at
  <2> QED BY <2>1, <2>3
<1>8. /\ DOMAIN temp = 0 .. length - 1
      /\ \A d \in c + 1 .. length - 1 : temp[d] = Interim(d)
  BY <1>1, <1>2, <1>3 DEF RnnInv, BufferSoFar
<1>9. /\ DOMAIN temp' = 0 .. length - 1
      /\ \A d \in c .. length - 1 : temp'[d] = Interim(d)
  <2> DEFINE kept == Interim(c)
  <2>1. temp' = [temp EXCEPT ![c] = kept]
    BY <1>5, <1>7
  <2> HIDE DEF kept
  <2>2. DOMAIN temp' = 0 .. length - 1
    BY <1>8, <2>1
  <2>3. ASSUME NEW d \in c .. length - 1 PROVE temp'[d] = Interim(d)
    <3>1. temp'[d] = IF d = c THEN kept ELSE temp[d]
      BY <1>8, <2>1
    <3>2. CASE d = c
      BY <3>1, <3>2 DEF kept
    <3>3. CASE d # c
      BY <1>8, <3>1, <3>3
    <3> QED BY <3>2, <3>3
  <2> QED BY <2>2, <2>3
<1>10. /\ \A d : Interim(d)' = Interim(d)
       /\ GatherSize(shard)' = length /\ SequenceLength(shard)' = length
  BY <1>1, <1>2, SameShard
<1> QED BY <1>1, <1>2, <1>3, <1>5, <1>9, <1>10 DEF BufferSoFar
\* Where several gathers make up the shard, the buffer fills up from its end
\* until the counter is a multiple of the steps gathered at a time.
LEMMA FillPart ==
  ASSUME StepsFit, RnnInv, Iterate, Gathers,
         rnn.stepsPerGather < SequenceLength(shard)
  PROVE  LET steps == rnn.stepsPerGather
         IN /\ BufferSoFar'
            /\ \A j \in counter % steps .. steps - 1 :
                 temp'[j] = Interim(counter - (counter % steps) + j)
            /\ DOMAIN temp' = 0 .. steps - 1
            /\ gathered' = IF Runs /\ counter % steps = 0
                           THEN Gathering(temp') ELSE gathered
PROOF
<1>1. /\ phase = "loop" /\ left \in Nat \ {0} /\ left <= NumLoopIterations(shard)
      /\ left' = left - 1
      /\ rnn' = rnn /\ phase' = phase /\ shard' = shard
      /\ rnn \in Calls /\ shard \in 0 .. rnn.numShards - 1
      /\ counter = IF rnn.reverse THEN left - 1 ELSE SequenceLength(shard) - left
  BY Counting
<1>2. PICK length \in Nat \ {0}, steps \in Nat \ {0} :
        /\ length = SequenceLength(shard) /\ steps = rnn.stepsPerGather
        /\ steps = GatherSize(shard) /\ steps < length
        /\ rnn.reverse
  BY <1>1, LoopFacts
<1>3. PICK c \in Nat : c = counter /\ c = left' /\ left = c + 1
  BY <1>1, <1>2
<1>4. PICK r \in 0 .. steps - 1, base \in Nat :
        /\ r = c % steps /\ base = c - r
        /\ RoundUp(c + 1, steps) = base + steps
        /\ RoundUp(c, steps) = IF r = 0 THEN c ELSE base + steps
        /\ \A j \in 0 .. steps - 1 : (base + j) % steps = j
  <2>1. /\ c % steps \in 0 .. steps - 1
        /\ RoundUp(c + 1, steps) = c - (c % steps) + steps
        /\ RoundUp(c, steps) = IF c % steps = 0 THEN c ELSE RoundUp(c + 1, steps)
        /\ \A j \in 0 .. steps - 1 : /\ (c - (c % steps) + j) % steps = j
                                     /\ c - (c % steps) + j \in Nat
    BY RoundedCountdown
  <2>2. PICK r \in 0 .. steps - 1 : r = c % steps
    BY <2>1
  <2>3. c - r + 0 \in Nat
    BY <2>1, <2>2
  <2>4. PICK base \in Nat : base = c - r
    BY <2>3
  <2> QED BY <2>1, <2>2, <2>4
<1>5. RunGather(Interim(c), Runs)
  BY <1>3, Effects
<1>6. CountsOffset(shard) <=> steps > 1
  BY <1>2 DEF CountsOffset
<1>7. steps > 1 => offset = r
  <2> SUFFICES ASSUME steps > 1 PROVE offset = r
    OBVIOUS
  <2>1. offset = (left + steps - 1) % steps
    BY <1>1, <1>2, <1>6 DEF RnnInv, CountersInStep
  <2>2. PICK q \in Nat, d \in 0 .. steps - 1 : c = q * steps + d /\ d = c % steps
    BY DivMod
  <2>3. ((q + 1) * steps + r) % steps = r
    <3>1. q + 1 \in Nat
      OBVIOUS
    <3> QED BY <3>1, ModOf
  <2>4. (q + 1) * steps = q * steps + steps /\ q * steps \in Nat
    BY Z3
  <2>5. left + steps - 1 = (q + 1) * steps + r
    BY <1>3, <1>4, <2>2, <2>4
  <2> QED BY <2>1, <2>3, <2>5
<1>8. /\ temp' = TempWith(Interim(c))
      /\ gathered' = IF Runs /\ r = 0 THEN Gathering(temp') ELSE gathered
  <2>1. /\ temp' = TempWith(Interim(c))
        /\ gathered' =
             IF /\ Runs /\ rnn.stepsPerGather < SequenceLength(shard)
                /\ rnn.stepsPerGather > 1 => offset = 0
             THEN Gathering(temp') ELSE gathered
    BY <1>5 DEF RunGather
  <2>2. r = 0 \/ steps > 1
    OBVIOUS
  <2>3. (steps > 1 => offset = 0) <=> r = 0
    BY <1>7, <2>2
  <2> QED BY <1>2, <2>1, <2>3
<1>9. TempWith(Interim(c)) = [temp EXCEPT ![r] = Interim(c)]
  <2> DEFINE at == IF CountsOffset(shard) THEN offset
                   ELSE IF rnn.stepsPerGather > 1 THEN counter ELSE 0
  <2>1. TempWith(Interim(c)) = [temp EXCEPT ![SliceAt(at, steps)] = Interim(c)]
    BY <1>2 DEF TempWith
  <2>2. at = r
    <3>1. CASE steps > 1
      BY <1>6, <1>7, <3>1
    <3>2. CASE ~ (steps > 1)
      <4>1. r = 0
        BY <3>2
      <4> QED BY <1>2, <1>6, <3>2, <4>1
    <3> QED BY <3>1, <3>2
  <2>3. SliceAt(at, steps) = r
    BY <2>2 DEF SliceAt
  <2> HIDE DEF at
  <2> QED BY <2>1, <2>3
<1>10. /\ DOMAIN temp = 0 .. steps - 1
       /\ \A d \in c + 1 .. base + steps - 1 : temp[d % steps] = Interim(d)
  BY <1>1, <1>2, <1>3, <1>4 DEF RnnInv, BufferSoFar
<1>11. /\ DOMAIN temp' = 0 .. steps - 1
       /\ \A j \in r .. steps - 1 : temp'[j] = Interim(base + j)
  <2> DEFINE kept == Interim(c)
  <2>1. temp' = [temp EXCEPT ![r] = kept]
    BY <1>8, <1>9
  <2> HIDE DEF kept
  <2>2. DOMAIN temp' = 0 .. steps - 1
    BY <1>10, <2>1
  <2>3. ASSUME NEW j \in r .. steps - 1 PROVE temp'[j] = Interim(base + j)
    <3>1. temp'[j] = IF j = r THEN kept ELSE temp[j]
      BY <1>4, <1>10, <2>1
    <3>2. CASE j = r
      <4>1. base + j = c
        BY <1>4, <3>2
      <4> QED BY <3>1, <3>2, <4>1 DEF kept
    <3>3. CASE j # r
      <4>1. base + j \in c + 1 .. base + steps - 1 /\ (base + j) % steps = j
        BY <1>4, <3>3
      <4> QED BY <1>10, <3>1, <3>3, <4>1
    <3> QED BY <3>2, <3>3
  <2> QED BY <2>2, <2>3
<1>12. \A d \in c .. RoundUp(c, steps) - 1 : temp'[d % steps] = Interim(d)
  <2> TAKE d \in c .. RoundUp(c, steps) - 1
  <2>1. CASE r = 0
    BY <1>4, <2>1
  <2>2. CASE r # 0
    <3>1. d \in c .. base + steps - 1
      BY <1>4, <2>2
    <3>2. PICK j \in r .. steps - 1 : d = base + j
      <4>1. d - base \in r .. steps - 1 /\ d = base + (d - base)
        BY <1>4, <3>1
      <4> QED BY <4>1
    <3>3. d % steps = j
      BY <1>4, <3>2
    <3> QED BY <1>11, <3>2, <3>3
  <2> QED BY <2>1, <2>2
<1>13. /\ \A d : Interim(d)' = Interim(d)
       /\ GatherSize(shard)' = steps /\ SequenceLength(shard)' = length
       /\ (rnn.stepsPerGather)' = steps
  BY <1>1, <1>2, SameShard
<1>14. BufferSoFar'
  BY <1>2, <1>3, <1>11, <1>12, <1>13 DEF BufferSoFar
<1>15. counter - (counter % steps) = base /\ counter % steps = r
  BY <1>3, <1>4
<1> QED BY <1>2, <1>8, <1>11, <1>14, <1>15
\* What is gathered at a multiple of the steps gathered at a time are the steps
\* that were kept since the last one.
LEMMA GatheredPart ==
  ASSUME StepsFit, RnnInv, Iterate, Gathers,
         rnn.stepsPerGather < SequenceLength(shard)
  PROVE  GatheredSoFar'
PROOF
<1>1. /\ phase = "loop" /\ phase' = phase /\ left' = left - 1 /\ left \in Nat \ {0}
      /\ rnn' = rnn /\ shard' = shard
      /\ rnn \in Calls /\ shard \in 0 .. rnn.numShards - 1
      /\ counter = IF rnn.reverse THEN left - 1 ELSE SequenceLength(shard) - left
  BY Counting
<1>2. PICK length \in Nat \ {0}, steps \in Nat \ {0}, begin \in Nat, size \in Nat :
        /\ length = SequenceLength(shard) /\ steps = rnn.stepsPerGather
        /\ begin = Begin(shard) /\ size = rnn.seqLen
        /\ steps = GatherSize(shard) /\ steps < length /\ begin + length <= size
        /\ rnn.reverse
  <2>1. rnn.seqLen \in Nat
    BY <1>1, CallFacts DEF StepsFit
  <2>2. /\ Begin(shard) \in Nat /\ End(shard) <= rnn.seqLen
        /\ End(shard) = Begin(shard) + SequenceLength(shard)
    BY <1>1, ShardFacts
  <2>3. /\ SequenceLength(shard) \in Nat \ {0} /\ rnn.stepsPerGather \in Nat \ {0}
        /\ rnn.stepsPerGather = GatherSize(shard) /\ rnn.reverse
    BY <1>1, LoopFacts
  <2> QED BY <2>1, <2>2, <2>3
<1>3. PICK c \in Nat, n \in Nat :
        c = counter /\ c = left' /\ left = c + 1 /\ n = NumTimeSteps(rnn)
  <2>1. NumTimeSteps(rnn) \in Nat
    BY <1>1, StepCount, CallFacts DEF StepsFit
  <2>2. counter \in Nat /\ counter = left'
    BY <1>1, <1>2, Counting
  <2>3. left = counter + 1
    BY <1>1, <2>2
  <2> QED BY <2>1, <2>2, <2>3
<1>4. PICK r \in 0 .. steps - 1 :
        /\ r = c % steps
        /\ RoundUp(c + 1, steps) = c - r + steps
        /\ RoundUp(c, steps) = IF r = 0 THEN c ELSE c - r + steps
  <2>1. /\ c % steps \in 0 .. steps - 1
        /\ RoundUp(c + 1, steps) = c - (c % steps) + steps
        /\ RoundUp(c, steps) = IF c % steps = 0 THEN c ELSE RoundUp(c + 1, steps)
    BY RoundedCountdown
  <2>2. PICK r \in 0 .. steps - 1 : r = c % steps
    BY <2>1
  <2> QED BY <2>1, <2>2
<1>5. /\ \A j \in r .. steps - 1 : temp'[j] = Interim(c - r + j)
      /\ DOMAIN temp' = 0 .. steps - 1
      /\ gathered' = IF Runs /\ r = 0 THEN Gathering(temp') ELSE gathered
  BY <1>2, <1>3, <1>4, FillPart
<1>6. /\ Begin(shard)' = begin /\ SequenceLength(shard)' = length
      /\ Gathers' = Gathers /\ NumTimeSteps(rnn)' = n
  BY <1>1, <1>2, <1>3, SameShard
<1>7. PICK from \in Nat, next \in Nat :
        /\ from = GatheredFrom /\ from = begin + Least(c - r + steps, length)
        /\ next = GatheredFrom'
        /\ next = begin + Least(IF r = 0 THEN c ELSE c - r + steps, length)
  <2>1. GatheredFrom = begin + Least(c - r + steps, length)
    BY <1>1, <1>2, <1>3, <1>4 DEF GatheredFrom
  <2>2. GatheredFrom' = begin + Least(IF r = 0 THEN c ELSE c - r + steps, length)
    BY <1>1, <1>2, <1>3, <1>4, <1>6 DEF GatheredFrom
  <2>3. c - r + steps \in Nat
    BY <1>4
  <2> QED BY <2>1, <2>2, <2>3 DEF Least
<1>8. /\ gathered \in Seq(SUBSET Pairs(0, size))
      /\ UNION { gathered[i] : i \in DOMAIN gathered } = Pairs(from, n)
      /\ \A i, j \in DOMAIN gathered : i # j => gathered[i] \cap gathered[j] = {}
  BY <1>2, <1>3, <1>7 DEF RnnInv, GatheredSoFar
<1>9. SUFFICES /\ gathered' \in Seq(SUBSET Pairs(0, size))
               /\ UNION { gathered'[i] : i \in DOMAIN gathered' } = Pairs(next, n)
               /\ \A i, j \in DOMAIN gathered' : i # j => gathered'[i] \cap gathered'[j] = {}
  <2>1. rnn.seqLen' = size /\ Pairs(0, rnn.seqLen)' = Pairs(0, size)
    BY <1>1, <1>2 DEF Pairs
  <2>2. Pairs(GatheredFrom, NumTimeSteps(rnn))' = Pairs(next, n)
    BY <1>6, <1>7 DEF Pairs
  <2> QED BY <2>1, <2>2 DEF GatheredSoFar
<1>10. CASE ~ (Runs /\ r = 0)
  <2>1. Pairs(next, n) = Pairs(from, n)
    <3>1. CASE r # 0
      BY <1>7, <3>1
    <3>2. CASE r = 0 /\ c >= length
      <4>1. from = next
        BY <1>7, <3>2 DEF Least
      <4> QED BY <4>1
    <3>3. CASE r = 0 /\ c < length
      <4>1. begin + c >= n
        BY <1>2, <1>3, <1>10, <3>3 DEF Runs, Inside
      <4>2. from >= n /\ next >= n
        BY <1>7, <3>3, <4>1 DEF Least
      <4>3. from .. n - 1 = {} /\ next .. n - 1 = {}
        BY <4>2
      <4> QED BY <4>3 DEF Pairs
    <3> QED BY <3>1, <3>2, <3>3
  <2> QED BY <1>5, <1>8, <1>10, <2>1
<1>11. CASE Runs /\ r = 0
  <2> DEFINE S == { <<StepAt(c, j), temp'[j]>> :
                    j \in { i \in 0 .. steps - 1 : temp'[i] # Zero } }
             New == { <<t, t>> : t \in { u \in next .. from - 1 : u < n } }
  <2>1. c < length /\ begin + c < n
    BY <1>2, <1>3, <1>11 DEF Runs, Inside
  <2>2. gathered' = Append(gathered, S)
    BY <1>2, <1>3, <1>5, <1>11 DEF Gathering
  <2>3. next = begin + c /\ from = begin + Least(c + steps, length)
    BY <1>7, <1>11, <2>1 DEF Least
  <2>4. \A j \in 0 .. steps - 1 :
          temp'[j] = IF c + j < length /\ begin + (c + j) < n THEN begin + (c + j) ELSE Zero
    <3> TAKE j \in 0 .. steps - 1
    <3>1. temp'[j] = Interim(c + j)
      <4>1. j \in r .. steps - 1 /\ c - r + j = c + j
        BY <1>11
      <4> QED BY <1>5, <4>1
    <3> QED BY <1>2, <1>3, <3>1 DEF Interim
  <2>5. \A j \in 0 .. steps - 1 : c + j < length => StepAt(c, j) = begin + (c + j)
    <3> TAKE j \in 0 .. steps - 1
    <3> HAVE c + j < length
    <3>1. c + j \in 0 .. length - 1
      OBVIOUS
    <3>2. (0 * length + (c + j)) % length = c + j
      BY <3>1, ModOf
    <3>3. (c + j) % length = c + j
      BY <3>2
    <3> QED BY <1>2, <2>1, <3>3 DEF StepAt, SliceAt
  <2>6. S = New
    <3>1. ASSUME NEW j \in 0 .. steps - 1, temp'[j] # Zero
          PROVE  <<StepAt(c, j), temp'[j]>> \in New
      <4>1. /\ c + j < length /\ begin + (c + j) < n
            /\ temp'[j] = begin + (c + j) /\ StepAt(c, j) = begin + (c + j)
        BY <2>4, <2>5, <3>1
      <4>2. begin + (c + j) \in next .. from - 1
        BY <2>1, <2>3, <4>1 DEF Least
      <4> QED BY <4>1, <4>2
    <3>2. ASSUME NEW u \in next .. from - 1, u < n
          PROVE  <<u, u>> \in S
      <4>1. PICK j \in 0 .. steps - 1 : u = begin + (c + j) /\ c + j < length
        <5>1. /\ u - begin - c \in 0 .. steps - 1
              /\ u = begin + (c + (u - begin - c)) /\ c + (u - begin - c) < length
          BY <2>1, <2>3 DEF Least
        <5> QED BY <5>1
      <4>2. temp'[j] = u /\ StepAt(c, j) = u
        BY <2>4, <2>5, <3>2, <4>1
      <4>3. u # Zero
        BY DEF Zero
      <4> QED BY <4>2, <4>3
    <3> QED BY <3>1, <3>2
  <2>7. next <= from /\ from <= size
    BY <1>2, <2>1, <2>3 DEF Least
  <2>8. New \in SUBSET Pairs(0, size)
    BY <2>7 DEF Pairs
  <2>9. New \cap Pairs(from, n) = {}
    BY DEF Pairs
  <2>10. Pairs(from, n) \cup New = Pairs(next, n)
    <3> DEFINE Old == { u \in next .. from - 1 : u < n }
    <3>1. next .. n - 1 = (from .. n - 1) \cup Old
      BY <2>7
    <3> HIDE DEF Old
    <3>2. { <<t, t>> : t \in (from .. n - 1) \cup Old }
            = { <<t, t>> : t \in from .. n - 1 } \cup { <<t, t>> : t \in Old }
      OBVIOUS
    <3> USE DEF Old
    <3> QED BY <3>1, <3>2 DEF Pairs
  <2> HIDE DEF S, New
  <2>11. MakeUp(Append(gathered, New), Pairs(from, n) \cup New, Pairs(0, size))
    BY <1>8, <2>8, <2>9, GatherMore DEF MakeUp
  <2> QED BY <2>2, <2>6, <2>10, <2>11 DEF MakeUp
<1> QED BY <1>10, <1>11

LEMMA GatheredAfter ==
  ASSUME StepsFit, RnnInv, Iterate
  PROVE  GatheredSoFar' /\ BufferSoFar'
PROOF
<1>1. /\ phase = "loop" /\ phase' = phase
      /\ rnn' = rnn /\ shard' = shard
      /\ rnn \in Calls /\ shard \in 0 .. rnn.numShards - 1
  BY Counting
<1>2. /\ Gathers' = Gathers /\ End(shard)' = End(shard)
      /\ SequenceLength(shard)' = SequenceLength(shard)
      /\ NumTimeSteps(rnn)' = NumTimeSteps(rnn)
  BY <1>1, SameShard
<1>3. GatheredSoFar
  BY DEF RnnInv
<1>4. CASE ~ Gathers
  <2>1. gathered' = gathered
    BY <1>4, Effects DEF RunGather
  <2>2. GatheredSoFar'
    BY <1>1, <1>2, <1>3, <1>4, <2>1 DEF GatheredSoFar, Pairs
  <2> QED BY <1>2, <1>4, <2>2 DEF BufferSoFar
<1>5. CASE Gathers /\ rnn.stepsPerGather >= SequenceLength(shard)
  <2>1. BufferSoFar' /\ gathered' = gathered
    BY <1>5, FillWhole
  <2>2. ~ (rnn.stepsPerGather < SequenceLength(shard))
    <3>1. rnn.stepsPerGather \in Nat /\ SequenceLength(shard) \in Nat
      BY <1>1, LoopFacts
    <3> QED BY <1>5, <3>1
  <2>3. GatheredFrom' = GatheredFrom
    BY <1>1, <1>2, <2>2 DEF GatheredFrom
  <2>4. GatheredSoFar'
    BY <1>1, <1>2, <1>3, <2>1, <2>3 DEF GatheredSoFar, Pairs
  <2> QED BY <2>1, <2>4
<1>6. CASE Gathers /\ rnn.stepsPerGather < SequenceLength(shard)
  BY <1>6, FillPart, GatheredPart
<1>7. rnn.stepsPerGather \in Nat /\ SequenceLength(shard) \in Nat
  BY <1>1, LoopFacts
<1> QED BY <1>4, <1>5, <1>6, <1>7

-----------------------------------------------------------------------------
(* The invariant *)

LEMMA IterateKeeps ==
  ASSUME StepsFit, RnnInv, Iterate
  PROVE  RnnInv'
PROOF
<1>1. rnn' = rnn /\ phase' = phase /\ phase = "loop" /\ shard' = shard
  BY Counting
<1>2. StateSoFar' /\ OutSoFar' /\ CountersInStep' /\ GatheredSoFar' /\ BufferSoFar'
  BY StateAfter, OutAfter, CountersAfter, GatheredAfter
<1>3. rnn \in Calls /\ phase \in {"begin", "loop", "done"} /\ shard \in 0 .. rnn.numShards - 1
  BY DEF RnnInv
<1> QED BY <1>1, <1>2, <1>3 DEF RnnInv

\* Where the frontier stays, what is kept of the state and the output does.
LEMMA SameFrontier ==
  ASSUME rnn' = rnn, shard \in Int, shard' \in Int, state' = state, out' = out,
         Frontier' = Frontier, StateSoFar, OutSoFar
  PROVE  StateSoFar' /\ OutSoFar'
PROOF
<1>1. NumTimeSteps(rnn)' = NumTimeSteps(rnn)
  OBVIOUS
<1>2. \A n : Ordered(n)' = Ordered(n)
  BY DEF Ordered
<1>3. Batch' = Batch /\ \A t, b : Expected(t, b)' = Expected(t, b)
  BY <1>1, <1>2 DEF Batch, Variable, Expected
<1>4. StateSoFar'
  BY <1>1, <1>2 DEF StateSoFar
<1>5. \A t : Behind(t)' <=> Behind(t)
  BY DEF Behind
<1>6. OutSoFar'
  BY <1>3, <1>5 DEF OutSoFar
<1> QED BY <1>4, <1>6

LEMMA BeginKeeps ==
  ASSUME StepsFit, RnnInv, BeginShard
  PROVE  RnnInv'
PROOF
<1>1. /\ rnn' = rnn /\ shard' = shard /\ state' = state /\ out' = out
      /\ gathered' = gathered /\ phase = "begin" /\ phase' = "loop"
      /\ rnn \in Calls /\ shard \in 0 .. rnn.numShards - 1
      /\ left' = NumLoopIterations(shard) /\ counter' = FirstCounter(shard)
      /\ offset' = IF CountsOffset(shard) THEN InitialOffset(TRUE) ELSE 0
      /\ temp' = [j \in 0 .. GatherSize(shard) - 1 |-> Junk]
  BY DEF BeginShard, RnnInv
<1>2. PICK length \in Nat \ {0}, steps \in Nat, its \in Nat, begin \in Nat :
        /\ length = SequenceLength(shard) /\ steps = rnn.stepsPerGather
        /\ its = NumLoopIterations(shard) /\ begin = Begin(shard)
        /\ End(shard) = begin + length /\ length <= its
        /\ (Gathers <=> steps # 0) /\ (Gathers => rnn.reverse)
        /\ ~ Gathers \/ steps >= length => its = length
        /\ Gathers /\ steps < length => its = RoundUp(length, steps)
  BY <1>1, ShardFacts, LoopFacts
<1>3. /\ Begin(shard)' = begin /\ SequenceLength(shard)' = length
      /\ End(shard)' = begin + length /\ NumLoopIterations(shard)' = its
      /\ GatherSize(shard)' = GatherSize(shard)
      /\ CountsOffset(shard)' = CountsOffset(shard)
      /\ Gathers' = Gathers /\ NumTimeSteps(rnn)' = NumTimeSteps(rnn)
  BY <1>1, <1>2, SameShard
<1>4. Gathers /\ steps < length =>
        \E q \in Nat : its = q * steps /\ RoundUp(its, steps) = its
  <2> SUFFICES ASSUME Gathers, steps < length
               PROVE  \E q \in Nat : its = q * steps /\ RoundUp(its, steps) = its
    OBVIOUS
  <2>1. steps \in Nat \ {0}
    BY <1>2
  <2>a. PICK q \in Nat : RoundUp(length, steps) = q * steps
    BY <2>1, RoundedUp
  <2>2. its = q * steps
    BY <1>2, <2>a
  <2>3. RoundUp(its, steps) = q * steps
    BY <2>1, <2>2, MultipleOnly
  <2> QED BY <2>2, <2>3
<1>5. Frontier' = Frontier
  <2>1. Frontier = IF rnn.reverse THEN begin + length ELSE begin
    BY <1>1, <1>2 DEF Frontier
  <2>2. Frontier' = begin + (IF rnn.reverse THEN Least(its, length) ELSE length - its)
    BY <1>1, <1>2, <1>3 DEF Frontier
  <2>3. Least(its, length) = length /\ (~ rnn.reverse => its = length)
    BY <1>2 DEF Least
  <2> QED BY <1>2, <2>1, <2>2, <2>3
<1>6. StateSoFar' /\ OutSoFar'
  BY <1>1, <1>5, CallFacts, SameFrontier DEF RnnInv
<1>7. Gathers => GatheredFrom' = GatheredFrom
  <2> SUFFICES ASSUME Gathers PROVE GatheredFrom' = GatheredFrom
    OBVIOUS
  <2>1. GatheredFrom = begin + length
    BY <1>1, <1>2 DEF GatheredFrom, Frontier
  <2>2. GatheredFrom' = IF steps < length THEN begin + Least(RoundUp(its, steps), length)
                        ELSE begin + length
    BY <1>1, <1>2, <1>3 DEF GatheredFrom
  <2>3. steps < length => Least(RoundUp(its, steps), length) = length
    BY <1>2, <1>4 DEF Least
  <2> QED BY <2>1, <2>2, <2>3
<1>8. GatheredSoFar'
  BY <1>1, <1>3, <1>7 DEF RnnInv, GatheredSoFar, Pairs
<1>9. BufferSoFar'
  <2>1. DOMAIN temp' = 0 .. GatherSize(shard) - 1
    BY <1>1
  <2>2. Gathers /\ steps < length => left' .. RoundUp(left', steps) - 1 = {}
    BY <1>1, <1>2, <1>4
  <2>3. Gathers /\ ~ (steps < length) => left' .. length - 1 = {}
    BY <1>1, <1>2
  <2> QED BY <1>1, <1>2, <1>3, <2>1, <2>2, <2>3 DEF BufferSoFar
<1>10. CountersInStep'
  <2>1. left' \in 0 .. its
    BY <1>1, <1>2
  <2>2. counter' = IF rnn.reverse THEN left' - 1 ELSE length - left'
    <3>1. counter' = IF rnn.reverse THEN its - 1 ELSE 0
      BY <1>1, <1>2 DEF FirstCounter
    <3>2. ~ rnn.reverse => length - its = 0
      BY <1>2
    <3> QED BY <1>1, <1>2, <3>1, <3>2
  <2>3. CountsOffset(shard) => offset' = (left' + steps - 1) % steps
    <3> SUFFICES ASSUME CountsOffset(shard) PROVE offset' = (left' + steps - 1) % steps
      OBVIOUS
    <3>1. Gathers /\ steps > 1 /\ steps < length
      BY <1>2 DEF CountsOffset
    <3>2. PICK q \in Nat : its = q * steps
      BY <1>4, <3>1
    <3>3. (q * steps + (steps - 1)) % steps = steps - 1
      <4>1. steps \in Nat \ {0} /\ steps - 1 \in 0 .. steps - 1
        BY <3>1
      <4> QED BY <4>1, ModOf
    <3>4. left' + steps - 1 = q * steps + (steps - 1)
      BY <1>1, <1>2, <3>2
    <3>5. offset' = steps - 1
      BY <1>1, <1>2 DEF InitialOffset
    <3> QED BY <3>3, <3>4, <3>5
  <2> QED BY <1>1, <1>2, <1>3, <2>1, <2>2, <2>3 DEF CountersInStep
<1> QED BY <1>1, <1>6, <1>8, <1>9, <1>10 DEF RnnInv

\* At its end a shard of fewer steps than are gathered at a time is gathered.
LEMMA GatheredWhole ==
  ASSUME StepsFit, RnnInv, EndShard, Gathers,
         rnn.stepsPerGather >= SequenceLength(shard)
  PROVE  MakeUp(gathered', Pairs(Begin(shard), NumTimeSteps(rnn)), Pairs(0, rnn.seqLen))
PROOF
<1>1. /\ phase = "loop" /\ left = 0 /\ gathered' = Gathering(temp)
      /\ rnn \in Calls /\ shard \in 0 .. rnn.numShards - 1
  BY DEF EndShard, RnnInv
<1>2. PICK length \in Nat \ {0}, begin \in Nat, size \in Nat, n \in Nat :
        /\ length = SequenceLength(shard) /\ begin = Begin(shard)
        /\ size = rnn.seqLen /\ begin + length <= size /\ n = NumTimeSteps(rnn)
        /\ End(shard) = begin + length
        /\ GatherSize(shard) = length
        /\ ~ (rnn.stepsPerGather < length) /\ rnn.stepsPerGather \in Nat
  <2>1. rnn.seqLen \in Nat /\ NumTimeSteps(rnn) \in Nat
    BY <1>1, CallFacts, StepCount DEF StepsFit
  <2>2. /\ Begin(shard) \in Nat /\ SequenceLength(shard) \in Nat \ {0}
        /\ End(shard) = Begin(shard) + SequenceLength(shard) /\ End(shard) <= rnn.seqLen
    BY <1>1, ShardFacts
  <2>3. GatherSize(shard) = SequenceLength(shard) /\ rnn.stepsPerGather \in Nat
    BY <1>1, LoopFacts
  <2> QED BY <2>1, <2>2, <2>3
<1>3. \A j \in 0 .. length - 1 :
        temp[j] = IF begin + j < n THEN begin + j ELSE Zero
  <2>1. \A j \in 0 .. length - 1 : temp[j] = Interim(j)
    BY <1>1, <1>2 DEF RnnInv, BufferSoFar
  <2>2. \A j \in 0 .. length - 1 : Interim(j) = IF begin + j < n THEN begin + j ELSE Zero
    BY <1>2 DEF Interim
  <2> QED BY <2>1, <2>2
<1>4. \A j \in 0 .. length - 1 : StepAt(0, j) = begin + j
  <2> TAKE j \in 0 .. length - 1
  <2>1. (0 * length + j) % length = j
    BY ModOf
  <2>2. (0 + j) % length = j
    BY <2>1
  <2> QED BY <1>2, <2>2 DEF StepAt, SliceAt
<1> DEFINE S == { <<StepAt(0, j), temp[j]>> :
                  j \in { i \in 0 .. length - 1 : temp[i] # Zero } }
           New == { <<t, t>> : t \in { u \in begin .. begin + length - 1 : u < n } }
<1>5. gathered' = Append(gathered, S)
  BY <1>1, <1>2 DEF Gathering
<1>6. S = New
  <2>1. ASSUME NEW j \in 0 .. length - 1, temp[j] # Zero
        PROVE  <<StepAt(0, j), temp[j]>> \in New
    <3>1. begin + j < n /\ temp[j] = begin + j /\ StepAt(0, j) = begin + j
      BY <1>3, <1>4, <2>1
    <3>2. begin + j \in begin .. begin + length - 1
      OBVIOUS
    <3> QED BY <3>1, <3>2
  <2>2. ASSUME NEW u \in begin .. begin + length - 1, u < n
        PROVE  <<u, u>> \in S
    <3>1. PICK j \in 0 .. length - 1 : u = begin + j
      <4>1. u - begin \in 0 .. length - 1 /\ u = begin + (u - begin)
        OBVIOUS
      <4> QED BY <4>1
    <3>2. temp[j] = u /\ StepAt(0, j) = u
      BY <1>3, <1>4, <2>2, <3>1
    <3>3. u # Zero
      BY DEF Zero
    <3> QED BY <3>2, <3>3
  <2> QED BY <2>1, <2>2
<1>7. New \in SUBSET Pairs(0, size)
  BY <1>2 DEF Pairs
<1>8. New \cap Pairs(begin + length, n) = {}
  BY DEF Pairs
<1>9. Pairs(begin + length, n) \cup New = Pairs(begin, n)
  <2> DEFINE Old == { u \in begin .. begin + length - 1 : u < n }
  <2>1. begin .. n - 1 = (begin + length .. n - 1) \cup Old
    OBVIOUS
  <2> HIDE DEF Old
  <2>2. { <<t, t>> : t \in (begin + length .. n - 1) \cup Old }
          = { <<t, t>> : t \in begin + length .. n - 1 } \cup { <<t, t>> : t \in Old }
    OBVIOUS
  <2> USE DEF Old
  <2> QED BY <2>1, <2>2 DEF Pairs
<1> HIDE DEF S, New
<1>10. MakeUp(gathered, Pairs(begin + length, n), Pairs(0, size))
  <2>1. GatheredFrom = begin + length
    BY <1>1, <1>2 DEF GatheredFrom
  <2> QED BY <1>2, <2>1 DEF RnnInv, GatheredSoFar, MakeUp
<1>11. MakeUp(Append(gathered, New), Pairs(begin + length, n) \cup New, Pairs(0, size))
  BY <1>7, <1>8, <1>10, GatherMore
<1> QED BY <1>2, <1>5, <1>6, <1>9, <1>11

LEMMA EndKeeps ==
  ASSUME StepsFit, RnnInv, EndShard
  PROVE  RnnInv'
PROOF
<1>1. /\ rnn' = rnn /\ state' = state /\ out' = out /\ phase = "loop" /\ left = 0
      /\ gathered' = IF Gathers /\ rnn.stepsPerGather >= SequenceLength(shard)
                     THEN Gathering(temp) ELSE gathered
      /\ IF shard = (IF rnn.reverse THEN 0 ELSE rnn.numShards - 1)
         THEN phase' = "done" /\ shard' = shard
         ELSE phase' = "begin" /\ shard' = shard + (IF rnn.reverse THEN -1 ELSE 1)
      /\ rnn \in Calls /\ shard \in 0 .. rnn.numShards - 1
  BY DEF EndShard, RnnInv
<1>2. PICK size \in Nat \ {0}, shards \in Nat \ {0} :
        size = rnn.seqLen /\ shards = rnn.numShards
  BY <1>1, CallFacts DEF StepsFit
<1>3. PICK length \in Nat \ {0}, steps \in Nat, begin \in Nat :
        /\ length = SequenceLength(shard) /\ steps = rnn.stepsPerGather
        /\ begin = Begin(shard) /\ End(shard) = begin + length
        /\ (Gathers <=> steps # 0) /\ (Gathers => rnn.reverse)
        /\ shard > 0 => End(shard - 1) = begin
        /\ shard < shards - 1 => begin + length = Begin(shard + 1)
        /\ shard = shards - 1 => begin + length = size
        /\ Begin(0) = 0
  BY <1>1, <1>2, ShardFacts, LoopFacts
<1>4. shard' \in 0 .. shards - 1 /\ phase' \in {"begin", "loop", "done"}
  BY <1>1, <1>2
<1>5. Frontier = (IF rnn.reverse THEN begin ELSE begin + length)
  BY <1>1, <1>3 DEF Frontier, Least
<1>6. Frontier' = Frontier
  <2>1. CASE phase' = "done"
    <3>1. Frontier' = IF rnn.reverse THEN 0 ELSE size
      BY <1>1, <1>2, <2>1 DEF Frontier
    <3>2. shard = IF rnn.reverse THEN 0 ELSE shards - 1
      BY <1>1, <1>2, <2>1
    <3> QED BY <1>3, <1>5, <3>1, <3>2
  <2>2. CASE phase' # "done"
    <3>1. /\ phase' = "begin" /\ shard # (IF rnn.reverse THEN 0 ELSE shards - 1)
          /\ shard' = shard + (IF rnn.reverse THEN -1 ELSE 1)
      BY <1>1, <1>2, <2>2
    <3>2. Frontier' = IF rnn.reverse THEN End(shard)' ELSE Begin(shard)'
      BY <1>1, <3>1 DEF Frontier
    <3>3. CASE rnn.reverse
      <4>1. shard' = shard - 1 /\ shard > 0
        BY <1>1, <3>1, <3>3
      <4>2. End(shard)' = End(shard - 1)
        BY <1>1, <4>1 DEF End, Begin
      <4> QED BY <1>3, <1>5, <3>2, <3>3, <4>1, <4>2
    <3>4. CASE ~ rnn.reverse
      <4>1. shard' = shard + 1 /\ shard < shards - 1
        BY <1>1, <1>2, <3>1, <3>4
      <4>2. Begin(shard)' = Begin(shard + 1)
        BY <1>1, <4>1 DEF Begin
      <4> QED BY <1>3, <1>5, <3>2, <3>4, <4>1, <4>2
    <3> QED BY <3>3, <3>4
  <2> QED BY <2>1, <2>2
<1>7. StateSoFar' /\ OutSoFar'
  BY <1>1, <1>2, <1>4, <1>6, SameFrontier DEF RnnInv
<1>8. Gathers' = Gathers /\ NumTimeSteps(rnn)' = NumTimeSteps(rnn)
  BY <1>1 DEF Gathers
<1>9. Gathers => GatheredFrom' = begin
  BY <1>1, <1>3, <1>5, <1>6 DEF GatheredFrom
<1>10. GatheredSoFar'
  <2>1. CASE Gathers /\ steps >= length
    <3>1. MakeUp(gathered', Pairs(begin, NumTimeSteps(rnn)), Pairs(0, size))
      BY <1>2, <1>3, <2>1, GatheredWhole
    <3> QED BY <1>1, <1>2, <1>8, <1>9, <2>1, <3>1 DEF GatheredSoFar, MakeUp, Pairs
  <2>2. CASE Gathers /\ steps < length
    <3>1. gathered' = gathered
      BY <1>1, <1>3, <2>2
    <3>2. GatheredFrom = begin
      <4>1. steps \in Nat \ {0}
        BY <1>3, <2>2
      <4>2. 0 * steps = 0
        OBVIOUS
      <4>3. RoundUp(0, steps) = 0
        <5>1. 0 <= 0 * steps /\ 0 * steps < 0 + steps
          BY <4>1, <4>2
        <5> QED BY <4>1, <4>2, <5>1, MultipleOnly
      <4> QED BY <1>1, <1>3, <2>2, <4>3 DEF GatheredFrom, Least
    <3> QED BY <1>1, <1>8, <1>9, <3>1, <3>2 DEF RnnInv, GatheredSoFar, Pairs
  <2>3. CASE ~ Gathers
    <3>1. gathered' = gathered
      BY <1>1, <2>3
    <3> QED BY <1>1, <1>8, <2>3, <3>1 DEF RnnInv, GatheredSoFar, Pairs
  <2> QED BY <1>3, <2>1, <2>2, <2>3
<1>11. phase' # "loop"
  BY <1>1
<1> QED BY <1>1, <1>2, <1>4, <1>7, <1>10, <1>11 DEF RnnInv

LEMMA InitHolds ==
  ASSUME StepsFit, NEW r \in Calls, RnnInitWith(r)
  PROVE  RnnInv
PROOF
<1>1. /\ rnn = r /\ phase = "begin"
      /\ shard = IF r.reverse THEN r.numShards - 1 ELSE 0
      /\ state = <<>> /\ gathered = <<>>
      /\ out = [t \in 0 .. r.seqLen - 1 |-> [b \in 1 .. Most(Len(r.timeSteps), 1) |-> JunkState]]
  BY DEF RnnInitWith
<1>2. PICK size \in Nat \ {0}, n \in Nat, shards \in Nat \ {0} :
        /\ size = rnn.seqLen /\ n = NumTimeSteps(rnn) /\ n <= size
        /\ shards = rnn.numShards
        /\ Gathers => rnn.reverse
  BY <1>1, CallFacts, StepCount DEF StepsFit, Gathers
<1>3. shard \in 0 .. shards - 1
  BY <1>1, <1>2
<1>4. Frontier = IF rnn.reverse THEN size ELSE 0
  <2>1. Frontier = IF rnn.reverse THEN End(shard) ELSE Begin(shard)
    BY <1>1 DEF Frontier
  <2>2. rnn.reverse => End(shard) = size
    BY <1>1, <1>2, <1>3, ShardFacts
  <2>3. ~ rnn.reverse => Begin(shard) = 0
    BY <1>1, <1>2, <1>3, ShardFacts
  <2> QED BY <2>1, <2>2, <2>3
<1>5. StateSoFar
  <2>1. (IF rnn.reverse THEN Most(n - Frontier, 0) ELSE Least(n, Frontier)) = 0
    BY <1>2, <1>4 DEF Most, Least
  <2>2. SubSeq(Ordered(n), 1, 0) = <<>>
    <3>1. Ordered(n) \in Seq(Int)
      BY DEF Ordered
    <3> QED BY <3>1, SubSeqEmpty
  <2> QED BY <1>1, <1>2, <2>1, <2>2 DEF StateSoFar
<1>6. OutSoFar
  <2>1. Batch = 1 .. Most(Len(r.timeSteps), 1)
    <3>1. CASE r.timeSteps = <<>>
      BY <1>1, <3>1, StepCount DEF Batch, Variable, Most
    <3>2. CASE r.timeSteps # <<>>
      BY <1>1, <3>2, StepCount DEF Batch, Variable, Most
    <3> QED BY <3>1, <3>2
  <2>2. DOMAIN out = 0 .. size - 1
    BY <1>1, <1>2
  <2>3. \A t \in 0 .. size - 1 : DOMAIN out[t] = Batch /\ ~ Behind(t)
    BY <1>1, <1>2, <1>4, <2>1 DEF Behind
  <2> QED BY <1>2, <2>2, <2>3 DEF OutSoFar
<1>7. GatheredSoFar
  <2>1. gathered \in Seq(SUBSET Pairs(0, rnn.seqLen)) /\ DOMAIN gathered = {}
    BY <1>1
  <2>2. UNION { gathered[i] : i \in DOMAIN gathered } = {}
    BY <2>1
  <2>3. Gathers => Pairs(GatheredFrom, n) = {}
    <3> SUFFICES ASSUME Gathers PROVE Pairs(GatheredFrom, n) = {}
      OBVIOUS
    <3>1. GatheredFrom = size
      BY <1>1, <1>2, <1>4 DEF GatheredFrom
    <3>2. size .. n - 1 = {}
      BY <1>2
    <3> QED BY <3>1, <3>2 DEF Pairs
  <2> QED BY <1>2, <2>1, <2>2, <2>3 DEF GatheredSoFar
<1> QED BY <1>1, <1>2, <1>3, <1>5, <1>6, <1>7 DEF RnnInv

\* Nothing of the invariant is about anything but the variables.
LEMMA StutterKeeps ==
  ASSUME RnnInv, UNCHANGED rnnVars
  PROVE  RnnInv'
PROOF
<1>1. /\ rnn' = rnn /\ phase' = phase /\ shard' = shard /\ left' = left
      /\ counter' = counter /\ offset' = offset /\ temp' = temp /\ state' = state
      /\ out' = out /\ gathered' = gathered
  BY DEF rnnVars
<1>2. /\ Begin(shard)' = Begin(shard) /\ End(shard)' = End(shard)
      /\ SequenceLength(shard)' = SequenceLength(shard)
      /\ NumLoopIterations(shard)' = NumLoopIterations(shard)
      /\ GatherSize(shard)' = GatherSize(shard)
      /\ CountsOffset(shard)' = CountsOffset(shard)
      /\ Gathers' = Gathers /\ NumTimeSteps(rnn)' = NumTimeSteps(rnn)
      /\ Batch' = Batch
      /\ \A t, b : Expected(t, b)' = Expected(t, b)
      /\ \A c : Interim(c)' = Interim(c)
      /\ \A n : Ordered(n)' = Ordered(n)
  BY <1>1, SameShard
<1>3. Frontier' = Frontier
  BY <1>1, <1>2 DEF Frontier
<1>4. StateSoFar' <=> StateSoFar
  BY <1>1, <1>2, <1>3 DEF StateSoFar
<1>5. OutSoFar' <=> OutSoFar
  <2>1. \A t : Behind(t)' <=> Behind(t)
    BY <1>1, <1>3 DEF Behind
  <2> QED BY <1>1, <1>2, <2>1 DEF OutSoFar
<1>6. GatheredSoFar' <=> GatheredSoFar
  <2>1. GatheredFrom' = GatheredFrom
    BY <1>1, <1>2, <1>3 DEF GatheredFrom
  <2> QED BY <1>1, <1>2, <2>1 DEF GatheredSoFar, Pairs
<1>7. CountersInStep' <=> CountersInStep
  BY <1>1, <1>2 DEF CountersInStep
<1>8. BufferSoFar' <=> BufferSoFar
  BY <1>1, <1>2 DEF BufferSoFar
<1> QED BY <1>1, <1>4, <1>5, <1>6, <1>7, <1>8 DEF RnnInv

\* The invariant of the loops of the shards (Rnn(), Rnn.cpp): what is behind the
\* frontier has been run, kept and gathered, or waits in the buffer.
THEOREM RnnInvariant == StepsFit /\ RnnSpec => []RnnInv
PROOF
<1> SUFFICES ASSUME StepsFit PROVE RnnSpec => []RnnInv
  OBVIOUS
<1>1. (\E r \in Calls : RnnInitWith(r)) => RnnInv
  BY InitHolds
<1>2. RnnInv /\ [RnnNext]_rnnVars => RnnInv'
  <2> SUFFICES ASSUME RnnInv, [RnnNext]_rnnVars PROVE RnnInv'
    OBVIOUS
  <2>1. CASE BeginShard
    BY <2>1, BeginKeeps
  <2>2. CASE Iterate
    BY <2>2, IterateKeeps
  <2>3. CASE EndShard
    BY <2>3, EndKeeps
  <2>4. CASE UNCHANGED rnnVars
    BY <2>4, StutterKeeps
  <2> QED BY <2>1, <2>2, <2>3, <2>4 DEF RnnNext
<1> QED BY <1>1, <1>2, PTL DEF RnnSpec

-----------------------------------------------------------------------------
(* What it comes to *)

\* A shard's first row is the last of the shard before it.
LEMMA ShiftIsByOne ==
  ASSUME StepsFit, rnn \in Calls
  PROVE  Shifted(rnn.seqLen, rnn.numShards) = [t \in 0 .. rnn.seqLen - 1 |-> t - 1]
PROOF
<1>1. PICK size \in Nat \ {0}, shards \in Nat \ {0} :
        size = rnn.seqLen /\ shards = rnn.numShards
  BY CallFacts DEF StepsFit
<1>2. PICK length \in Nat : length = DivUp(size, shards) /\ size <= length * shards
  BY <1>1, RoundedUp
<1>3. length # 0
  <2> SUFFICES ASSUME length = 0 PROVE FALSE
    OBVIOUS
  <2>1. length * shards = 0
    OBVIOUS
  <2> QED BY <1>2, <2>1
<1> DEFINE last(i) == IF i < shards - 1 THEN (i + 1) * length - 1 ELSE size - 1
           row(t) == LET i == t \div length
                     IN IF t # i * length THEN t - 1 ELSE IF i = 0 THEN -1 ELSE last(i - 1)
<1>4. Shifted(size, shards) = [t \in 0 .. size - 1 |-> row(t)]
  BY <1>2 DEF Shifted
<1>5. ASSUME NEW t \in 0 .. size - 1 PROVE row(t) = t - 1
  <2>1. PICK i \in Nat : i = t \div length
    <3>1. t \in Nat /\ length \in Nat \ {0}
      BY <1>3
    <3>2. t \div length \in Nat
      BY <3>1, DivMod
    <3> QED BY <3>2
  <2>2. CASE t # i * length
    BY <2>1, <2>2
  <2>3. CASE t = i * length /\ i = 0
    <3>1. t = 0
      BY <2>3
    <3> QED BY <2>1, <2>3, <3>1
  <2>4. CASE t = i * length /\ i # 0
    <3>1. i < shards
      <4> SUFFICES ASSUME i >= shards PROVE FALSE
        OBVIOUS
      <4>1. (i - shards) * length >= 0
        BY Z3
      <4>2. (i - shards) * length = i * length - length * shards
        BY Z3
      <4>3. i * length \in Nat /\ length * shards \in Nat
        BY Z3
      <4> QED BY <1>2, <2>4, <4>1, <4>2, <4>3
    <3>2. i - 1 < shards - 1 /\ (i - 1) + 1 = i
      BY <3>1
    <3>3. last(i - 1) = i * length - 1
      BY <3>2
    <3> QED BY <2>1, <2>4, <3>3
  <2> QED BY <2>2, <2>3, <2>4
<1> HIDE DEF row
<1>6. [t \in 0 .. size - 1 |-> row(t)] = [t \in 0 .. size - 1 |-> t - 1]
  BY <1>5
<1> QED BY <1>1, <1>4, <1>6

LEMMA InvariantSuffices ==
  ASSUME StepsFit, RnnInv
  PROVE  RecurrenceRight
PROOF
<1>1. rnn \in Calls /\ StateSoFar /\ OutSoFar /\ GatheredSoFar
  BY DEF RnnInv
<1>2. PICK size \in Nat \ {0}, n \in Nat :
        size = rnn.seqLen /\ n = NumTimeSteps(rnn) /\ n <= size
  BY <1>1, CallFacts, StepCount DEF StepsFit
<1>3. PICK f \in Nat : /\ f = Frontier
                       /\ phase = "done" => f = IF rnn.reverse THEN 0 ELSE size
  <2>1. CASE phase = "done"
    BY <1>2, <2>1 DEF Frontier
  <2>2. CASE phase # "done"
    <3>1. PICK length \in Nat, begin \in Nat :
            /\ length = SequenceLength(shard) /\ begin = Begin(shard)
            /\ End(shard) = begin + length
            /\ ~ rnn.reverse => NumLoopIterations(shard) = length
      BY <1>1, ShardFacts, LoopFacts DEF RnnInv
    <3>2. phase = "loop" => left \in 0 .. NumLoopIterations(shard)
      BY DEF RnnInv, CountersInStep
    <3>3. NumLoopIterations(shard) \in Nat
      BY <1>1, LoopFacts DEF RnnInv
    <3>4. phase = "begin" => Frontier \in Nat
      BY <3>1 DEF Frontier
    <3>5. phase = "loop" => Frontier \in Nat
      <4> SUFFICES ASSUME phase = "loop" PROVE Frontier \in Nat
        OBVIOUS
      <4>1. Frontier = begin + (IF rnn.reverse THEN Least(left, length) ELSE length - left)
        BY <3>1 DEF Frontier
      <4> QED BY <3>1, <3>2, <3>3, <4>1 DEF Least
    <3> QED BY <2>2, <3>4, <3>5 DEF RnnInv
  <2> QED BY <2>1, <2>2
<1>4. StepsInOrder
  <2>1. PICK k \in 0 .. n : k = IF rnn.reverse THEN Most(n - f, 0) ELSE Least(n, f)
    BY <1>2, <1>3 DEF Most, Least
  <2>2. state = SubSeq(Ordered(n), 1, k)
    BY <1>1, <1>2, <1>3, <2>1 DEF StateSoFar
  <2>3. Ordered(n) \in Seq(Int) /\ Len(Ordered(n)) = n
    BY DEF Ordered
  <2>4. Len(state) = k
    <3>1. PICK seq \in Seq(Int) : seq = Ordered(n) /\ Len(seq) = n
      BY <2>3
    <3>2. Len(SubSeq(seq, 1, k)) = k
      <4>1. CASE k = 0
        BY <3>1, <4>1
      <4>2. CASE k # 0
        BY <3>1, <4>2
      <4> QED BY <4>1, <4>2
    <3> QED BY <2>2, <3>1, <3>2
  <2>5. phase = "done" => k = n
    BY <1>2, <1>3, <2>1 DEF Most, Least
  <2> QED BY <1>2, <2>2, <2>4, <2>5 DEF StepsInOrder
<1>5. StatesKept
  <2> SUFFICES ASSUME phase = "done", NEW t \in DOMAIN out, NEW b \in DOMAIN out[0]
               PROVE  LET run == IF rnn.reverse THEN n - t ELSE t + 1
                      IN out[t][b] = IF t < (IF Variable THEN rnn.timeSteps[b] ELSE rnn.seqLen)
                                     THEN SubSeq(Ordered(n), 1, run) ELSE ZeroState
    BY <1>2 DEF StatesKept
  <2>1. t \in 0 .. size - 1 /\ 0 \in DOMAIN out /\ DOMAIN out[0] = Batch
    BY <1>1, <1>2 DEF OutSoFar
  <2>2. Behind(t)
    BY <1>2, <1>3, <2>1 DEF Behind
  <2>3. out[t][b] = Expected(t, b)
    BY <1>1, <2>1, <2>2 DEF OutSoFar
  <2> QED BY <1>2, <2>3 DEF Expected
<1>6. GatheredOnce
  <2>1. \A i \in DOMAIN gathered : \A pair \in gathered[i] : pair[1] = pair[2]
    <3> TAKE i \in DOMAIN gathered
    <3> TAKE pair \in gathered[i]
    <3>1. gathered[i] \in SUBSET Pairs(0, rnn.seqLen)
      BY <1>1 DEF GatheredSoFar
    <3> QED BY <3>1 DEF Pairs
  <2>2. phase = "done" /\ Gathers =>
          UNION { gathered[i] : i \in DOMAIN gathered } = { <<t, t>> : t \in 0 .. n - 1 }
    <3> SUFFICES ASSUME phase = "done", Gathers
                 PROVE  UNION { gathered[i] : i \in DOMAIN gathered }
                          = { <<t, t>> : t \in 0 .. n - 1 }
      OBVIOUS
    <3>1. GatheredFrom = 0
      <4>1. rnn.reverse
        BY <1>1, CallFacts DEF Gathers
      <4> QED BY <1>3, <4>1 DEF GatheredFrom
    <3> QED BY <1>1, <1>2, <3>1 DEF GatheredSoFar, Pairs
  <2> QED BY <1>1, <1>2, <2>1, <2>2 DEF GatheredOnce, GatheredSoFar
<1>7. ShiftedByOne
  BY <1>1, ShiftIsByOne DEF ShiftedByOne
<1> QED BY <1>4, <1>5, <1>6, <1>7 DEF RecurrenceRight

\* A recurrent network in shards, with loops longer than a shard and gathers of
\* several steps (Rnn.cpp), runs its cell on each step once and in order, keeps
\* each member's states, and gathers each step's interim output once.
THEOREM RecurrenceIsRight == StepsFit /\ RnnSpec => []RecurrenceRight
PROOF
<1> SUFFICES ASSUME StepsFit PROVE RnnSpec => []RecurrenceRight
  OBVIOUS
<1>1. RnnInv => RecurrenceRight
  BY InvariantSuffices
<1>2. RnnSpec => []RnnInv
  BY RnnInvariant
<1> QED BY <1>1, <1>2, PTL
=============================================================================
