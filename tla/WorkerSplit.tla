---------------------------- MODULE WorkerSplit ----------------------------
(***************************************************************************)
(* How popsparse shares what a tile has to work out among its workers      *)
(* (splitTileBetweenWorkers in FullyConnectedUtils.cpp).  A share is a     *)
(* rectangle of rows and columns, with right open intervals.               *)
(***************************************************************************)
LOCAL INSTANCE Integers
LOCAL INSTANCE SequencesExt

CeilDiv(a, b) == (a + b - 1) \div b
Least(a, b) == IF a < b THEN a ELSE b

Share(r0, r1, c0, c1) == [r0 |-> r0, r1 |-> r1, c0 |-> c0, c1 |-> c1]
Rows(s) == s.r1 - s.r0
Columns(s) == s.c1 - s.c0
Area(s) == Rows(s) * Columns(s)

PartialSum(weights, n) ==
  LET sum[i \in 0 .. n] == IF i = 0 THEN 0 ELSE sum[i - 1] + weights[i] IN sum[n]

\* How many of the first rows weigh at most so much
RowsUpTo(weights, limit) ==
  CHOOSE n \in 0 .. Len(weights) :
    /\ PartialSum(weights, n) <= limit
    /\ n = Len(weights) \/ PartialSum(weights, n + 1) > limit

\* Many rows: consecutive ones of about the same weight to each worker, and none to a
\* worker whose share the one before it already has.
SharesOf(weights, columns, workers, average) ==
  SelectSeq([w \in 1 .. workers |->
               Share(RowsUpTo(weights, (w - 1) * average), RowsUpTo(weights, w * average),
                     0, columns)],
            LAMBDA s : s.r0 < s.r1)
ByWeight(weights, columns, workers) ==
  SharesOf(weights, columns, workers, CeilDiv(PartialSum(weights, Len(weights)), workers))

\* A share is split in halves, by its longer side; the first is the larger.
ByRow(s) == Rows(s) > Columns(s)
FirstHalf(s) ==
  IF ByRow(s) THEN [s EXCEPT !.r1 = s.r0 + CeilDiv(Rows(s), 2)]
  ELSE [s EXCEPT !.c1 = s.c0 + CeilDiv(Columns(s), 2)]
SecondHalf(s) ==
  IF ByRow(s) THEN [s EXCEPT !.r0 = @ + CeilDiv(Rows(s), 2)]
  ELSE [s EXCEPT !.c0 = @ + CeilDiv(Columns(s), 2)]

\* While there are workers left, the largest share is split.  (Shares of the same size
\* are in any order; here they stay in theirs.)
RECURSIVE Halved(_, _)
LargestHalved(s, others, remaining) ==
  IF Area(SecondHalf(s)) = 0 THEN <<s>> \o others
  ELSE Halved(<<SecondHalf(s)>> \o others \o <<FirstHalf(s)>>, remaining - 1)
Sorted(shares) == SortSeq(shares, LAMBDA a, b : Area(a) > Area(b))
HeadHalved(shares, remaining) == LargestHalved(Head(shares), Tail(shares), remaining)
Halved(shares, remaining) ==
  IF remaining = 0 THEN shares ELSE HeadHalved(Sorted(shares), remaining)

\* A grid of shares of the same size, but for the last row and column of it
EndOf(n, count, each, size) == IF n = count - 1 THEN size ELSE (n + 1) * each
GridShare(rows, columns, rowsEach, columnsEach, r, c) ==
  Share(r * rowsEach, EndOf(r, rows \div rowsEach, rowsEach, rows),
        c * columnsEach, EndOf(c, columns \div columnsEach, columnsEach, columns))
GridOf(rows, columns, rowsEach, columnsEach, across) ==
  [n \in 1 .. (rows \div rowsEach) * across |->
     GridShare(rows, columns, rowsEach, columnsEach, (n - 1) \div across, (n - 1) % across)]
GridBy(rows, columns, rowsEach, columnsEach) ==
  GridOf(rows, columns, rowsEach, columnsEach, columns \div columnsEach)
ByGrains(rows, columns, grains, rowsEach) ==
  GridBy(rows, columns, rowsEach, Least(CeilDiv(grains, rowsEach), columns))
ByRowsEach(rows, columns, grains) ==
  ByGrains(rows, columns, grains, Least(CeilDiv(grains, columns), rows))
Grid(rows, columns, workers) == ByRowsEach(rows, columns, CeilDiv(rows * columns, workers))

HalvedFor(grid, workers) == Halved(grid, workers - Len(grid))

SplitTileBetweenWorkers(rows, columns, workers, weights) ==
  IF Len(weights) = rows /\ rows > 2 * workers THEN ByWeight(weights, columns, workers)
  ELSE HalvedFor(Grid(rows, columns, workers), workers)
=============================================================================
