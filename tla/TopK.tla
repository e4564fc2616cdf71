-------------------------------- MODULE TopK --------------------------------
(***************************************************************************)
(* The k largest or smallest of n elements, in order, by a bitonic network *)
(* (lib/popops/BitonicTopK.cpp).  Any n and k are made do with sweeps that *)
(* compare and swap at one power of two as the distance: some elements at  *)
(* the end are left out of some sweeps, and what cannot be among the k is  *)
(* discarded on the way.  By the 0-1 principle, a network that does so for *)
(* every input of zeros and ones does so for every input.                  *)
(***************************************************************************)
EXTENDS Integers, Sequences

VARIABLES
  topk,        \* n, k, whether the largest are asked for, and in which order
  given,       \* the elements, zeros and ones
  t,           \* what is left of them
  mergeStep,
  sortStep,    \* the sort step to do next, or -1 if it is the merge
  nThisStep    \* the elements that take part in the sort steps of a merge step

topkVars == <<topk, given, t, mergeStep, sortStep, nThisStep>>

Lower(a, b) == IF a < b THEN a ELSE b
CeilLog2(n) == CHOOSE e \in 0 .. n : 2^e >= n /\ (e = 0 \/ 2^(e - 1) < n)
RoundDown(a, b) == (a \div b) * b

LogK == CeilLog2(topk.k)
LogN == CeilLog2(topk.n)

\* The next power of two for k, in sequences of which elements are sorted
KDash == 2^LogK

-----------------------------------------------------------------------------
\* A sweep

NumComparisonsAtDistance(n, distance) ==
  LET r == n % (2 * distance)
  IN (n \div (2 * distance)) * distance + r - Lower(r, distance)

ComparisonToElemOffset(c, distance) == RoundDown(c, distance) * 2 + (c % distance)

\* The order, whether ascending, of a comparison: it changes with every so many.
OrderOf(c, distance, distanceToChangeOrder, initialOrder) ==
  initialOrder # ((c \div distanceToChangeOrder) % 2 = 1)

\* compareAndSwapAtDistance: the elements from nActive on are not compared.
\* Elements may be equal, and then swapping them changes nothing.
CompareAndSwapAtDistance(s, distance, distanceToChangeOrder, initialOrder, nActive) ==
  LET lhs == [c \in 0 .. NumComparisonsAtDistance(nActive, distance) - 1 |->
                ComparisonToElemOffset(c, distance) + 1]
      pair(i) == CHOOSE c \in DOMAIN lhs : lhs[c] = i
      compared(i) == \E c \in DOMAIN lhs : lhs[c] = i
      ascending(i) == OrderOf(pair(i), distance, distanceToChangeOrder, initialOrder)
      low(a, b, order) == IF (a <= b) = order THEN a ELSE b
  IN [i \in DOMAIN s |->
        IF compared(i) THEN low(s[i], s[i + distance], ascending(i))
        ELSE IF i > distance /\ compared(i - distance)
        THEN low(s[i], s[i - distance], ~ascending(i - distance))
        ELSE s[i]]

-----------------------------------------------------------------------------
\* topKImpl

MergeDistance == 2^Lower(mergeStep, LogK)
MergeKSequencesOrder == ~topk.largest

MergeOrder ==
  IF mergeStep >= LogK THEN MergeKSequencesOrder
  ELSE IF mergeStep = LogN - 1 THEN topk.ascending
  ELSE IF mergeStep + 1 = LogK THEN ~MergeKSequencesOrder
  ELSE IF LogK # LogN THEN MergeKSequencesOrder # ((topk.n \div KDash) % 2 = 1)
  ELSE ~topk.ascending

\* Mutant: every element takes part in every sweep.
AllTakePart(n) == n

\* What of smaller powers of two is at the end is left out of sweeps that would
\* leave it in the wrong order for the next merge.
Active(n) ==
  LET nMod2d == n % (MergeDistance * 2)
      nMod4d == n % (MergeDistance * 4)
  IN IF mergeStep + 1 < LogK /\ (nMod2d = 0 \/ nMod2d = nMod4d) THEN n - nMod4d ELSE n

\* The lower half of each pair of sequences of k' elements
Discarded(s) ==
  LET pairs == Len(s) \div (2 * KDash)
      rest == Len(s) - pairs * 2 * KDash
  IN [i \in 1 .. pairs * KDash + Lower(rest, KDash) |->
        s[RoundDown(i - 1, KDash) * 2 + ((i - 1) % KDash) + 1]]

AfterSweeps == IF sortStep + 1 < Lower(mergeStep, LogK)
               THEN sortStep' = sortStep + 1 /\ UNCHANGED mergeStep
               ELSE mergeStep' = mergeStep + 1 /\ sortStep' = -1

\* The order of sort steps
SortOrder ==
  IF mergeStep < LogK THEN MergeOrder
  ELSE IF mergeStep = LogN - 1 THEN topk.ascending
  ELSE ~MergeKSequencesOrder

\* The sweep to do next.  One that merges changes the order as often as its
\* distance until there are sequences of k', and then never; those that sort what
\* has been merged have half the distance of the one before.
Sweep ==
  IF sortStep = -1
  THEN [distance |-> MergeDistance,
        change |-> IF mergeStep < LogK THEN MergeDistance ELSE 2^(LogN - 1),
        order |-> MergeOrder, active |-> Active(Len(t))]
  ELSE [distance |-> 2^(Lower(mergeStep, LogK) - sortStep - 1),
        change |-> Lower(MergeDistance, 2^(LogK - 1)),
        order |-> SortOrder, active |-> nThisStep]

Swept == CompareAndSwapAtDistance(t, Sweep.distance, Sweep.change, Sweep.order, Sweep.active)

Merge ==
  /\ mergeStep < LogN /\ sortStep = -1
  /\ LET discards == mergeStep >= LogK /\ Len(t) > KDash
     IN /\ t' = IF discards THEN Discarded(Swept) ELSE Swept
        /\ nThisStep' = IF discards THEN Len(t') ELSE Active(Len(t))
  /\ AfterSweeps
  /\ UNCHANGED <<topk, given>>

\* Of the last up to k' elements a power of two at a time is discarded, down to
\* k, at the end where the order has put those not wanted.
Cut(s, distance) ==
  LET n == Len(s)
      lastKDashElements == ((n - 1) % KDash) + 1
      before == n - lastKDashElements
      fromStart == (SortOrder # ~topk.largest) # ((before \div KDash) % 2 = 1)
      count == IF fromStart THEN distance ELSE ((lastKDashElements - 1) % distance) + 1
  IN IF lastKDashElements - count < topk.k THEN s
     ELSE IF fromStart THEN SubSeq(s, 1, before) \o SubSeq(s, before + count + 1, n)
     ELSE SubSeq(s, 1, n - count)

Sort ==
  /\ mergeStep < LogN /\ sortStep >= 0
  /\ t' = IF Lower(mergeStep, LogK) + 1 >= LogK THEN Cut(Swept, Sweep.distance) ELSE Swept
  /\ nThisStep' = IF Len(t') < Len(t) THEN Len(t') ELSE nThisStep
  /\ AfterSweeps
  /\ UNCHANGED <<topk, given>>

\* Between one of n elements and n are asked for.
TopKInitWith(s, k, largest, ascending) ==
  /\ topk = [n |-> Len(s), k |-> k, largest |-> largest, ascending |-> ascending]
  /\ given = s /\ t = s
  /\ mergeStep = 0 /\ sortStep = -1 /\ nThisStep = 0

TopKNext == Merge \/ Sort

-----------------------------------------------------------------------------
\* A sweep on tiles and workers

\* The comparisons of a tile, from begin up to end of the sweep's, in groups of a
\* distance: those of an unfinished group at either end are laid out with their
\* number as the distance.  at is where a group's elements begin on the tile.
Groups(begin, end, distance) ==
  LET pre == Lower(distance - (begin % distance), end - begin)
      body == RoundDown(end - begin - pre, distance)
      post == end - begin - pre - body
  IN SelectSeq(<<[first |-> begin, count |-> pre, distance |-> pre, at |-> 0],
                 [first |-> begin + pre, count |-> body, distance |-> distance,
                  at |-> 2 * pre],
                 [first |-> begin + pre + body, count |-> post, distance |-> post,
                  at |-> 2 * (pre + body)]>>, LAMBDA group : group.count > 0)

\* toCanonicalOrder: the element at each place of the tile's part
ElementAt(groups, distance) ==
  LET elements(group) ==
        [p \in group.at .. group.at + 2 * group.count - 1 |->
           LET j == p - group.at
               side == (j \div group.distance) % 2
               c == RoundDown(j, 2 * group.distance) \div 2 + (j % group.distance)
           IN ComparisonToElemOffset(group.first + c, distance) + side * distance]
      groupAt(p) == CHOOSE g \in DOMAIN groups :
        groups[g].at <= p /\ p < groups[g].at + 2 * groups[g].count
      size == groups[Len(groups)].at + 2 * groups[Len(groups)].count
  IN [p \in 0 .. size - 1 |-> elements(groups[groupAt(p)])[p]]

\* addWork: where a worker starts that begins with comparison c and does count of
\* them.  Its first inner loop may go on with a chunk of the worker before.
WorkerStart(groups, c, count, change, initialOrder) ==
  LET g == CHOOSE i \in DOMAIN groups :
             groups[i].first <= c /\ c < groups[i].first + groups[i].count
      group == groups[g]
      into == c - group.first
  IN [at |-> group.at + ComparisonToElemOffset(into, group.distance), group |-> g,
      elems |-> Lower(group.count - into, count),
      inner |-> Lower(group.distance - (into % group.distance),
                      Lower(group.count - into, count)),
      counter |-> change - (c % change),
      order |-> OrderOf(c, 1, change, initialOrder)]

\* Mutant: the counter is not started anew.
CountedDown(counter, change) == counter - 1

\* The comparisons left in an order, after one of them
Counted(counter, change) == IF counter = 1 THEN change ELSE counter - 1

\* workerCompute: after one comparison, with left to do.  At the end of an inner
\* loop the elements compared with are skipped, and the order may change.
WorkerNext(w, groups, left, change) ==
  LET inner == w.inner - 1
      distance == groups[w.group].distance
  IN IF inner > 0 THEN [w EXCEPT !.at = w.at + 1, !.inner = inner,
                                 !.elems = w.elems - 1, !.counter = w.counter - 1]
     ELSE LET over == w.elems = 1
              g == IF over THEN w.group + 1 ELSE w.group
              elems == IF over /\ left > 0 THEN Lower(groups[g].count, left) ELSE w.elems - 1
          IN [at |-> w.at + 1 + distance, group |-> g, elems |-> elems,
              inner |-> IF left > 0 THEN Lower(groups[g].distance, elems) ELSE 0,
              counter |-> Counted(w.counter, change),
              order |-> (w.counter = 1) # w.order]

\* The comparisons of a tile's workers, as two elements and an order
TileCompares(begin, end, workers, distance, change, initialOrder) ==
  LET groups == Groups(begin, end, distance)
      element == ElementAt(groups, distance)
      each == (end - begin + workers - 1) \div workers
      worker(w) ==
        LET from == begin + w * each
            count == Lower(each, end - from)
            walk[i \in 0 .. count - 1] ==
              IF i = 0 THEN WorkerStart(groups, from, count, change, initialOrder)
              ELSE WorkerNext(walk[i - 1], groups, count - i, change)
        IN { <<element[walk[i].at], element[walk[i].at + groups[walk[i].group].distance],
               walk[i].order>> : i \in 0 .. count - 1 }
  IN UNION { worker(w) : w \in 0 .. (end - begin - 1) \div each }

\* allocate: the elements of n that are mapped to some tile, when the active
\* pairs are spread and each tile is filled up to its share of all pairs
Allocated(n, comparisons, tiles) ==
  LET ceil(a, b) == IF a = 0 THEN 0 ELSE (a + b - 1) \div b
      perTile == ceil(comparisons, tiles)
      pairs == n \div 2
      mostPairs == ceil(pairs, tiles)
      used == ceil(pairs, mostPairs)
      active(tile) == IF tile * perTile >= comparisons THEN 0
                      ELSE Lower(perTile, comparisons - tile * perTile)
      filled[tile \in 0 .. used] ==
        IF tile = 0 THEN 2 * comparisons
        ELSE filled[tile - 1]
             + Lower(2 * (mostPairs - active(tile - 1)), n - filled[tile - 1])
  IN filled[used]

-----------------------------------------------------------------------------
\* Properties

Total(s) == LET sum[i \in 0 .. Len(s)] == IF i = 0 THEN 0 ELSE sum[i - 1] + s[i] IN sum[Len(s)]

\* What is left in the end are the k largest or smallest, in the order asked for:
\* of zeros and ones, as many ones as there are or as there have to be.
KBestInOrder ==
  mergeStep = LogN =>
    LET ones == IF topk.largest THEN Lower(Total(given), topk.k)
                ELSE IF topk.n - Total(given) >= topk.k THEN 0
                ELSE topk.k - (topk.n - Total(given))
    IN t = [i \in 1 .. topk.k |->
              IF topk.ascending THEN (IF i > topk.k - ones THEN 1 ELSE 0)
              ELSE IF i <= ones THEN 1 ELSE 0]

\* However a sweep is spread over tiles and workers, for a batch of one or three,
\* they do its comparisons in its orders, and every element has a tile.  A sweep
\* does not depend on the elements.
WorkersDoTheSweep ==
  mergeStep < LogN /\ Total(given) = 0 =>
    \A b \in {1, 3}, tiles, workers \in 1 .. 3 :
      LET distance == Sweep.distance * b
          change == Sweep.change * b
          comparisons == NumComparisonsAtDistance(Sweep.active * b, distance)
          perTile == (comparisons + tiles - 1) \div tiles
          parts == 0 .. (comparisons - 1) \div perTile
      IN /\ UNION { TileCompares(i * perTile, Lower((i + 1) * perTile, comparisons), workers,
                                 distance, change, Sweep.order) : i \in parts }
            = { LET lhs == ComparisonToElemOffset(c, distance)
                IN <<lhs, lhs + distance, OrderOf(c, distance, change, Sweep.order)>>
                : c \in 0 .. comparisons - 1 }
         /\ Len(t) * b - Allocated(Len(t) * b, comparisons, tiles) \in {0, 1}
=============================================================================
