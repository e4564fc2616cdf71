--------------------------- MODULE CandidateSort ---------------------------
(***************************************************************************)
(* How the candidates of a step of the beam search are sorted              *)
(* (popnn/CTCInferencePlan.cpp, sortCandidates of CTCInference.cpp): in    *)
(* stages, each of which divides its candidates into groups and leaves     *)
(* `width' of each group.  Within a group, partitions find the rank of     *)
(* some candidates among all of the group and put those of rank below      *)
(* `width' into a row of their own, which is zero elsewhere; the rows of a *)
(* group are then added up.  The other method is a selection sort by one   *)
(* vertex.                                                                 *)
(***************************************************************************)
EXTENDS Integers, FiniteSets

CONSTANTS
  NumClasses,                 \* numClassesIncBlank
  MaxT,                       \* the steps of time there is room for
  Workers,                    \* worker contexts of a tile
  SingleStageClassLimit       \* from so many classes on there are two stages

SortAssumption ==
  NumClasses > 1 /\ MaxT > 0 /\ Workers \in Nat \ {0} /\ SingleStageClassLimit \in Nat

CeilDiv(a, b) == (a + b - 1) \div b
Smaller(a, b) == IF a < b THEN a ELSE b
Larger(a, b) == IF a < b THEN b ELSE a
RootOf(n) == CHOOSE r \in 0 .. n : r * r <= n /\ n < (r + 1) * (r + 1)

-----------------------------------------------------------------------------
\* The plan

\* The most groups, not above the root of the number of classes, of which the
\* last has `width' candidates.
GroupsFor(classes, width) ==
  LET n == width * classes
      LastGroup(g) == n - (g - 1) * CeilDiv(n, g)
      Enough(g) == LastGroup(g) >= width
  IN CHOOSE g \in 1 .. RootOf(classes) :
       Enough(g) /\ \A h \in g + 1 .. RootOf(classes) : ~Enough(h)

StageGroups(classes, width, option) ==
  IF option # <<>> THEN option
  ELSE IF classes >= SingleStageClassLimit THEN <<GroupsFor(classes, width), 1>> ELSE <<1>>

RankPartitions(candidates, groups, tiles) ==
  LET perGroup == CeilDiv(candidates, groups)
      perPartition == Larger(Workers, CeilDiv(perGroup, Larger(1, tiles \div groups)))
  IN CeilDiv(perGroup, perPartition)

\* How many candidates a stage is given
CandidatesAt(stage, groups, classes, width) ==
  width * (IF stage = 1 THEN classes ELSE groups[stage - 1])

Plan(classes, width, tiles, option, method) ==
  LET groups == StageGroups(classes, width, option)
  IN [groups |-> groups, method |-> method,
      rank |-> [s \in DOMAIN groups |->
                  RankPartitions(CandidatesAt(s, groups, classes, width), groups[s], tiles)]]

-----------------------------------------------------------------------------
\* Ranking.  Indices, groups and partitions count from zero.

\* Where the candidates of a group begin, and where they have ended
GroupFrom(candidates, groups, g) == CeilDiv(candidates, groups) * g
GroupTo(candidates, groups, g) == Smaller(GroupFrom(candidates, groups, g + 1), candidates)

\* The candidates that a partition of a group ranks.  One that begins after all
\* candidates has no vertex, nor have those after it.
ToRank(from, to, rank, partition, candidates) ==
  LET per == CeilDiv(to - from, rank)
      first == from + per * partition
  IN IF first >= candidates THEN {} ELSE first .. Smaller(first + per, to) - 1
HasVertex(from, to, rank, partition, candidates) ==
  from + CeilDiv(to - from, rank) * partition < candidates

\* The rank of a candidate: those before it count when they are as probable.
RankOf(i, from, to, total) ==
  LET above == {j \in from .. i - 1 : total[i] <= total[j]}
                 \cup {j \in i + 1 .. to - 1 : total[i] < total[j]}
  IN Cardinality(above)

\* The selection sort, as far as the first `width' of the candidates
Swapped(items, i, j) == [items EXCEPT ![i] = items[j], ![j] = items[i]]
MostProbable(items, b, n) ==
  CHOOSE i \in b .. n - 1 :
    /\ \A j \in b .. n - 1 : items[j].total <= items[i].total
    /\ \A j \in b .. i - 1 : items[j].total < items[i].total
SimplySorted(items, n, width) ==
  LET After[b \in 0 .. width] ==
        IF b = 0 THEN items
        ELSE LET before == After[b - 1] IN Swapped(before, b - 1, MostProbable(before, b - 1, n))
  IN After[width]
=============================================================================
