--------------------------- MODULE CTCBeamSearch ---------------------------
(***************************************************************************)
(* The beam search decoder of connectionist temporal classification, for   *)
(* one entry of a batch (popnn/CTCInference.cpp and its codelets).  Each   *)
(* pass of the loop is a sequence of compute sets, each an action here:    *)
(* candidates are generated, those that give the same sequence of symbols  *)
(* are merged, merged ones are told from the others, the candidates are    *)
(* sorted, and the beams become the first of them.  A beam is an entry of  *)
(* a history, of which each points to the symbol before.                   *)
(*                                                                         *)
(* Probabilities are linear and whole.  Zero is the code's probabilityZero,*)
(* a finite logarithm: its product with a probability is below it.         *)
(***************************************************************************)
EXTENDS CandidateSort, Sequences

CONSTANTS
  Rows,                       \* what the data may be at a step
  Plans                       \* calls: [width, blank, dataLength, steps, plan]

VARIABLES
  call,                       \* the call that is decoded
  step,                       \* the compute set that is next
  stage,                      \* of the sort
  currentTimestep, complete,
  parent, addend, length,     \* the beams' history, by index, and their lengths
  last, pb, pnb, pTotal,      \* the beams, by number
  copies, extends, merged, marked,                     \* candidates
  ranked, sorted,             \* the rows of the sort, and what its stages leave
  labels                      \* the output, a sequence for each beam

vars == <<call, step, stage, currentTimestep, complete, parent, addend, length, last, pb, pnb,
          pTotal, copies, extends, merged, marked, ranked, sorted, labels>>
history == <<parent, addend, length>>
beams == <<last, pb, pnb, pTotal>>
sorts == <<ranked, sorted>>

invalidSymbol == NumClasses
voidSymbol == NumClasses + 1

Width == call.width
Beams == 0 .. Width - 1
Extensions == 0 .. NumClasses - 2
\* The symbol of a row of extend candidates, and the row of a symbol
AddendClass(e) == IF e >= call.blank THEN e + 1 ELSE e
RowOf(symbol) == IF symbol > call.blank THEN symbol - 1 ELSE symbol

ProbabilityZero == 0
Mul(a, p) == IF a > 0 THEN a * p ELSE a - 1
Add(a, b) == IF a > 0 /\ b > 0 THEN a + b ELSE Larger(a, b)

Candidate(from, symbol, nonBlank, onBlank, total) ==
  [parent |-> from, addend |-> symbol, pnb |-> nonBlank, pb |-> onBlank, total |-> total]

\* What is in a variable that nothing has been written to, and in a row that a
\* partition has zeroed
Unwritten == Candidate(Width, voidSymbol, 7, 7, 7)
Nothing == Candidate(0, 0, 0, 0, 0)

-----------------------------------------------------------------------------
\* Generating candidates

CopyOf(b, row) ==
  LET onBlank == Mul(pTotal[b], row[call.blank])
      again == Mul(pnb[b], row[last[b]])
  IN IF last[b] < invalidSymbol
     THEN Candidate(b, voidSymbol, again, onBlank, Add(onBlank, again))
     ELSE Candidate(b, voidSymbol, ProbabilityZero, onBlank, onBlank)

ExtendOf(b, symbol, row) ==
  LET p == Mul(IF last[b] = symbol THEN pb[b] ELSE pTotal[b], row[symbol])
  IN Candidate(b, symbol, p, ProbabilityZero, p)

\* Copy candidates go to all that merge them, and what of the extend candidates
\* may be marked is copied, whether or not the entry is complete.
Broadcast(copied, extended) ==
  /\ merged' = [c \in Beams |-> [b \in Beams |-> copied[c]]]
  /\ marked' = [e \in Extensions |-> [b \in Beams |->
                  [addend |-> extended[e][b].addend, total |-> extended[e][b].total]]]

Generate ==
  /\ step = "generate"
  /\ IF complete THEN UNCHANGED <<copies, extends>>
     ELSE \E row \in Rows :
            /\ copies' = [b \in Beams |-> CopyOf(b, row)]
            /\ extends' = [e \in Extensions |-> [b \in Beams |-> ExtendOf(b, AddendClass(e), row)]]
  /\ Broadcast(copies', extends')
  /\ step' = "merge"
  /\ UNCHANGED <<call, stage, currentTimestep, complete, history, beams, sorts, labels>>

-----------------------------------------------------------------------------
\* Merging

\* Whether the beam of a copy candidate says what an extend candidate does: they
\* are followed back, symbol by symbol, until they meet or differ.
EquivalentOutputSequence(lhs, addendRhs, rhs) ==
  LET Same[n \in 0 .. MaxT + 1, l \in DOMAIN parent, symbol \in 0 .. voidSymbol, r \in DOMAIN parent] ==
        /\ addend[l] = symbol
        /\ n > 0
        /\ parent[l] = r \/ Same[n - 1, parent[l], addend[r], parent[r]]
  IN Same[MaxT + 1, lhs, addendRhs, rhs]

\* Where the entries of the step before are, and the lengths of its beams and of
\* the next
Previous(b) == b + (currentTimestep - 1) * Width
OldHalf(b) == b + Width * ((currentTimestep - 1) % 2)
NewHalf(b) == b + Width * (currentTimestep % 2)

Mergeable(copy, extend) ==
  /\ length[OldHalf(copy.parent)] = length[OldHalf(extend.parent)] + 1
  /\ EquivalentOutputSequence(Previous(copy.parent), extend.addend, Previous(extend.parent))

\* A copy candidate, compared with the one extension of beam b that has its symbol
MergeOf(copy, extend) ==
  IF Mergeable(copy, extend)
  THEN Candidate(extend.parent, extend.addend, Add(copy.pnb, extend.pnb), copy.pb,
                 Add(copy.pb, Add(copy.pnb, extend.pnb)))
  ELSE copy

MergeCandidates ==
  /\ step = "merge"
  /\ merged' =
       IF complete THEN merged
       ELSE [c \in Beams |->
               IF last[c] >= invalidSymbol THEN merged[c]
               ELSE [b \in Beams |-> MergeOf(merged[c][b], extends[RowOf(last[c])][b])]]
  /\ step' = "select"
  /\ UNCHANGED <<call, stage, currentTimestep, complete, history, beams, copies, extends, marked,
                 sorts, labels>>

\* The merged one of a copy candidate's, or else the last
SelectedCopy(c) ==
  LET Is(b) == b = Width - 1 \/ merged[c][b].addend # voidSymbol
  IN merged[c][CHOOSE b \in Beams : Is(b) /\ \A before \in 0 .. b - 1 : ~Is(before)]

WasMerged(e, b) == \E c \in Beams : merged[c][b].addend = AddendClass(e)

SelectCandidates ==
  /\ step = "select"
  /\ IF complete THEN UNCHANGED <<copies, marked>>
     ELSE /\ copies' = [c \in Beams |-> SelectedCopy(c)]
          /\ marked' = [e \in Extensions |-> [b \in Beams |->
               IF WasMerged(e, b) THEN [addend |-> invalidSymbol, total |-> ProbabilityZero]
               ELSE marked[e][b]]]
  /\ step' = IF call.plan.method = "RANK" THEN "rank" ELSE "sort"
  /\ stage' = 1
  /\ UNCHANGED <<call, currentTimestep, complete, history, beams, extends, merged, sorts, labels>>

-----------------------------------------------------------------------------
\* Sorting

Groups == call.plan.groups[stage]
RankRows == call.plan.rank[stage]
NumCandidates == CandidatesAt(stage, call.plan.groups, NumClasses, Width)
NextStep(s) == IF stage = Len(call.plan.groups) THEN "update" ELSE s

\* All candidates, copies first.  Ranking takes the addends that are marked, and a
\* selection sort those that are not.
Gathered(addendOf(_, _)) ==
  [i \in 0 .. Width * NumClasses - 1 |->
     IF i < Width THEN copies[i]
     ELSE LET e == (i - Width) \div Width
              b == (i - Width) % Width
          IN [extends[e][b] EXCEPT !.addend = addendOf(e, b), !.total = marked[e][b].total]]

RankInput ==
  IF stage > 1 THEN sorted[stage - 1]
  ELSE LET Marked(e, b) == marked[e][b].addend IN Gathered(Marked)

\* The row of a partition: what it ranked, where its rank is
RowRanked(input, total, from, to, partition) ==
  LET mine == ToRank(from, to, RankRows, partition, NumCandidates)
      rankOf == [i \in mine |-> RankOf(i, from, to, total)]
  IN [k \in Beams |-> IF \E i \in mine : rankOf[i] = k
                      THEN input[CHOOSE i \in mine : rankOf[i] = k] ELSE Nothing]

RowsRanked(input, total, old) ==
  [g \in 0 .. Groups - 1 |-> [p \in 0 .. RankRows - 1 |->
     LET from == GroupFrom(NumCandidates, Groups, g)
         to == GroupTo(NumCandidates, Groups, g)
     IN IF HasVertex(from, to, RankRows, p, NumCandidates)
        THEN RowRanked(input, total, from, to, p) ELSE old[g][p]]]

RankCandidates ==
  /\ step = "rank"
  /\ ranked' =
       IF complete THEN ranked
       ELSE [ranked EXCEPT ![stage] =
               RowsRanked(RankInput, [i \in DOMAIN RankInput |-> RankInput[i].total], @)]
  /\ step' = "reduce"
  /\ UNCHANGED <<call, stage, currentTimestep, complete, history, beams, copies, extends, merged,
                 marked, sorted, labels>>

Sum(x, y) ==
  Candidate(x.parent + y.parent, x.addend + y.addend, x.pnb + y.pnb, x.pb + y.pb, x.total + y.total)
ColumnSum(rows, k) ==
  LET Of[p \in 0 .. RankRows - 1] == IF p = 0 THEN rows[0][k] ELSE Sum(Of[p - 1], rows[p][k])
  IN Of[RankRows - 1]
Reduced == [i \in 0 .. Groups * Width - 1 |-> ColumnSum(ranked[stage][i \div Width], i % Width)]

\* Without regard to `complete'
ReduceCandidates ==
  /\ step = "reduce"
  /\ IF stage = Len(call.plan.groups)
     THEN copies' = Reduced /\ stage' = stage /\ UNCHANGED sorted
     ELSE sorted' = [sorted EXCEPT ![stage] = Reduced] /\ stage' = stage + 1 /\ UNCHANGED copies
  /\ step' = NextStep("rank")
  /\ UNCHANGED <<call, currentTimestep, complete, history, beams, extends, merged, marked, ranked,
                 labels>>

\* In place, of all candidates at every stage
SimpleSort ==
  LET Plain(e, b) == extends[e][b].addend
      result == SimplySorted(Gathered(Plain), NumCandidates, Width)
      At(e, b) == result[Width + e * Width + b]
  IN /\ step = "sort"
     /\ IF complete THEN UNCHANGED <<copies, extends, marked>>
        ELSE /\ copies' = [b \in Beams |-> result[b]]
             /\ extends' = [e \in Extensions |-> [b \in Beams |->
                              [At(e, b) EXCEPT !.total = extends[e][b].total]]]
             /\ marked' = [e \in Extensions |-> [b \in Beams |->
                             [marked[e][b] EXCEPT !.total = At(e, b).total]]]
     /\ step' = NextStep("sort")
     /\ stage' = IF stage = Len(call.plan.groups) THEN stage ELSE stage + 1
     /\ UNCHANGED <<call, currentTimestep, complete, history, beams, merged, sorts, labels>>

-----------------------------------------------------------------------------
\* Beams, and the output

IsCopy(b) == copies[b].addend = voidSymbol
NewLast(b) == IF IsCopy(b) THEN addend[Previous(copies[b].parent)] ELSE copies[b].addend
\* Mutant: a beam that is not extended has an entry of its own to go back by.
ParentOfAny(b) == Previous(copies[b].parent)
NewParent(b) ==
  IF IsCopy(b) THEN parent[Previous(copies[b].parent)] ELSE Previous(copies[b].parent)
NewLength(b) == length[OldHalf(copies[b].parent)] + (IF IsCopy(b) THEN 0 ELSE 1)
UnlessInvalid(b, p) == IF NewLast(b) = invalidSymbol THEN ProbabilityZero ELSE p

\* The history has MaxT + 1 rows, the first for where beams begin.  At the last step this
\* writes the last of them, one past those that the code connects its vertex with (README).
UpdateBeams ==
  /\ complete' = (currentTimestep = call.dataLength)
  /\ parent' = [i \in DOMAIN parent |->
       IF i \div Width = currentTimestep THEN NewParent(i % Width) ELSE parent[i]]
  /\ addend' = [i \in DOMAIN addend |->
       IF i \div Width = currentTimestep THEN NewLast(i % Width) ELSE addend[i]]
  /\ length' = [i \in DOMAIN length |->
       IF i = NewHalf(i % Width) THEN NewLength(i % Width) ELSE length[i]]
  /\ last' = [b \in Beams |-> NewLast(b)]
  /\ pb' = [b \in Beams |-> UnlessInvalid(b, copies[b].pb)]
  /\ pnb' = [b \in Beams |-> UnlessInvalid(b, copies[b].pnb)]
  /\ pTotal' = [b \in Beams |-> UnlessInvalid(b, copies[b].total)]

Update ==
  /\ step = "update"
  /\ IF complete THEN UNCHANGED <<complete, history, beams>> ELSE UpdateBeams
  /\ IF currentTimestep = call.steps
     THEN step' = "output" /\ UNCHANGED currentTimestep
     ELSE step' = "generate" /\ currentTimestep' = currentTimestep + 1
  /\ UNCHANGED <<call, stage, copies, extends, merged, marked, sorts, labels>>

\* The symbols of a beam, found from an entry of the history back to where it
\* begins, and what is found there
TraceBack(from) ==
  LET Back[n \in 0 .. MaxT + 1, i \in DOMAIN parent] ==
        IF n = 0 \/ addend[i] >= invalidSymbol THEN [symbols |-> <<>>, end |-> addend[i]]
        ELSE LET rest == Back[n - 1, parent[i]]
             IN [rest EXCEPT !.symbols = Append(@, addend[i])]
  IN Back[MaxT + 1, from]

\* Symbols are stored from the place that the beam's length says down to zero.
LabelOf(trace, n) ==
  [symbols |-> [i \in 1 .. n |->
                  IF i + Len(trace.symbols) > n THEN trace.symbols[i + Len(trace.symbols) - n]
                  ELSE voidSymbol],
   length |-> IF trace.end = voidSymbol THEN n ELSE 0]

\* Mutant: the side that the last step of the loop has written
LengthOfLoop(b) == length[b + (call.steps % 2) * Width]
FinalLength(b) == length[b + (call.dataLength % 2) * Width]

GenerateOutput ==
  /\ step = "output"
  /\ labels' = [b \in Beams |->
       LabelOf(TraceBack(b + call.dataLength * Width), FinalLength(b))]
  /\ step' = "done"
  /\ UNCHANGED <<call, stage, currentTimestep, complete, history, beams, copies, extends, merged,
                 marked, sorts>>

-----------------------------------------------------------------------------
\* The first beam is the empty sequence; the others are of no symbol at all.
InitOf(c) ==
  LET numbers == 0 .. c.width - 1
      indices == 0 .. (MaxT + 1) * c.width - 1
  IN /\ call = c /\ step = "generate" /\ stage = 1
     /\ currentTimestep = 1 /\ complete = FALSE
     /\ parent = [i \in indices |-> IF i \in 1 .. c.width - 1 THEN 1 ELSE 0]
     /\ addend = [i \in indices |->
          IF i = 0 THEN voidSymbol ELSE IF i < c.width THEN invalidSymbol ELSE 0]
     /\ length = [i \in 0 .. 2 * c.width - 1 |-> 0]
     /\ last = [b \in numbers |-> IF b = 0 THEN voidSymbol ELSE invalidSymbol]
     /\ pb = [b \in numbers |-> 7]
     /\ pnb = [b \in numbers |-> IF b = 0 THEN 1 ELSE ProbabilityZero]
     /\ pTotal = pnb
     /\ copies = [b \in numbers |-> Unwritten]
     /\ extends = [e \in Extensions |-> [b \in numbers |-> Unwritten]]
     /\ merged = <<>> /\ marked = <<>>
     /\ ranked = [s \in DOMAIN c.plan.groups |-> [g \in 0 .. c.plan.groups[s] - 1 |->
                    [p \in 0 .. c.plan.rank[s] - 1 |-> [k \in numbers |-> Unwritten]]]]
     /\ sorted = [s \in DOMAIN c.plan.groups |-> <<>>]
     /\ labels = <<>>

Init == \E c \in Plans : InitOf(c)

Next ==
  \/ Generate \/ MergeCandidates \/ SelectCandidates
  \/ RankCandidates \/ ReduceCandidates \/ SimpleSort
  \/ Update \/ GenerateOutput

Spec == Init /\ [][Next]_vars
-----------------------------------------------------------------------------
\* What the beams say

Now == IF complete THEN call.dataLength ELSE currentTimestep - 1
SequenceOf(b) == TraceBack(b + Now * Width).symbols
Live == {b \in Beams : pTotal[b] > 0}

\* The sequences with a probability, however their beams came about
Paths ==
  LET sequence == [b \in Live |-> SequenceOf(b)]
      beamOf == [s \in {sequence[b] : b \in Live} |-> CHOOSE b \in Live : sequence[b] = s]
  IN [s \in DOMAIN beamOf |->
        [total |-> pTotal[beamOf[s]],
         nonBlank |-> IF s = <<>> THEN 0 ELSE Larger(0, pnb[beamOf[s]])]]

Search == INSTANCE PrefixSearch WITH width <- call.width, blank <- call.blank, paths <- Paths

\* The beams are a prefix search: merging brings together all that leads to a
\* sequence, once, whichever beams it comes from, and sorting in groups and
\* partitions keeps the most probable.
ImplementsPrefixSearch == Search!SearchSpec

\* The labels are the sequences of the search, each once, the most probable
\* first, at their lengths, though lengths change sides at every step and an
\* entry may be complete before others of the batch.
LabelsAreTheBest ==
  step = "done" =>
    LET best == 0 .. Cardinality(Live) - 1
    IN /\ {labels[b].symbols : b \in best} = DOMAIN Paths
       /\ Cardinality(DOMAIN Paths) = Cardinality(Live)
       /\ \A b \in best : /\ labels[b].length = Len(labels[b].symbols)
                          /\ pTotal[b] = Paths[labels[b].symbols].total
                          /\ \A after \in best : b < after => pTotal[after] <= pTotal[b]

\* CTCInferencePlan.cpp has groups of `beamwidth' candidates or more, for reducing
\* not to be given rows that ranking has not written.
ReducesWhatIsRanked ==
  step = "reduce" /\ ~complete =>
    \A g \in 0 .. Groups - 1 : \A p \in 0 .. RankRows - 1 :
      ranked[stage][g][p] # [k \in Beams |-> Unwritten]

\* CTCUpdate nulls a candidate that has been merged with another: what becomes of
\* it has no probability of any kind.
MergedAreNulled ==
  step = "generate" /\ currentTimestep > 1 =>
    \A b \in Beams \ Live : pnb[b] <= ProbabilityZero /\ pb[b] <= ProbabilityZero
=============================================================================
