---------------------------- MODULE IntervalSort ----------------------------
(***************************************************************************)
(* Sorting keys, with values, in place where they lie                      *)
(* (lib/popops/Sort.cpp).  Each contiguous interval of a tile is heap      *)
(* sorted by a vertex; while the keys at some edge between two intervals   *)
(* are out of order, the elements at the edges are exchanged, first of     *)
(* the even pairs of intervals and then of the odd ones, and the           *)
(* intervals are sorted again.                                             *)
(***************************************************************************)
EXTENDS Integers, FiniteSets, Sequences, SequencesExt

VARIABLES
  bounds,    \* where intervals end, after 0
  elems,     \* records of a key and a value
  given,     \* elems before
  at         \* "sort", "check", "even", "odd" or "done"

sortVars == <<bounds, elems, given, at>>

-----------------------------------------------------------------------------
\* The vertex.  Indices into a heap count from 0, so that of a sequence is one
\* more.

Swap(s, a, b) == [s EXCEPT ![a] = s[b], ![b] = s[a]]

\* rotate by one, and reverse all but the last three
Prepared(s) ==
  LET rotated == Append(Tail(s), s[1])
      n == Len(s) - 3
  IN IF Len(s) > 2 THEN Reverse(SubSeq(rotated, 1, n)) \o SubSeq(rotated, n + 1, Len(s))
     ELSE s

\* A key and its value
Element == [key : Int, value : Int]

\* push: s[1 .. i] with the last of them taken up to where its parent is no less
PushedUp[i \in Nat, s \in Seq(Element)] ==
  LET parent == (i - 2) \div 2 + 1
  IN IF i = 1 THEN s
     ELSE IF s[i].key <= s[parent].key THEN s
     ELSE PushedUp[parent, Swap(s, parent, i)]

\* max_child of index i in a heap of n elements, or 0 where there is none
MaxChild(s, i, n) ==
  IF 2 * i > n THEN 0
  ELSE IF 2 * i + 1 <= n /\ s[2 * i].key < s[2 * i + 1].key THEN 2 * i + 1 ELSE 2 * i

\* pop: s[i] taken down to where no child among the first n is greater
PulledDown[i \in Nat, n \in Nat, s \in Seq(Element)] ==
  LET child == MaxChild(s, i, n)
  IN IF child = 0 THEN s
     ELSE IF s[i].key >= s[child].key THEN s
     ELSE PulledDown[child, n, Swap(s, i, child)]

\* compute, as far as all elements are pushed
Pushed(s) == FoldLeftDomain(LAMBDA heap, i : PushedUp[i, heap], Prepared(s), s)

\* compute
HeapSort(s) ==
  FoldRightDomain(LAMBDA i, heap : PulledDown[1, i - 1, Swap(heap, 1, i)], s, Pushed(s))

-----------------------------------------------------------------------------
\* The program

\* sortSlice
SortIntervals ==
  /\ at = "sort"
  /\ elems' = FlattenSeq([k \in 1 .. Len(bounds) - 1 |->
                HeapSort(SubSeq(elems, bounds[k] + 1, bounds[k + 1]))])
  /\ at' = "check"
  /\ UNCHANGED <<bounds, given>>

\* isNotSortedPredicate: edges are all that is looked at.
Check ==
  /\ at = "check"
  /\ at' = IF \E k \in 2 .. Len(bounds) - 1 : elems[bounds[k] + 1].key < elems[bounds[k]].key
         THEN "even" ELSE "done"
  /\ UNCHANGED <<bounds, elems, given>>

\* createExchange: the edges of every other pair of intervals, the first pair
\* being startIndex
Exchanged(startIndex) ==
  LET edges == { bounds[k] : k \in { j \in 2 .. Len(bounds) - 1 : j % 2 = startIndex } }
      swapped == { i \in edges : elems[i + 1].key < elems[i].key }
  IN [i \in DOMAIN elems |-> IF i \in swapped THEN elems[i + 1]
                             ELSE IF i - 1 \in swapped THEN elems[i - 1]
                             ELSE elems[i]]

EvenExchange ==
  /\ at = "even"
  /\ elems' = Exchanged(0)
  /\ at' = "odd"
  /\ UNCHANGED <<bounds, given>>

\* Mutant: the even edges once more.
EvenAgain ==
  /\ at = "odd"
  /\ elems' = Exchanged(0)
  /\ at' = "sort"
  /\ UNCHANGED <<bounds, given>>

OddExchange ==
  /\ at = "odd"
  /\ elems' = Exchanged(1)
  /\ at' = "sort"
  /\ UNCHANGED <<bounds, given>>

\* Keys of any order, each with a value of its own, cut into any intervals
SortInitWith(keys, cuts) ==
  /\ elems = [i \in DOMAIN keys |-> [key |-> keys[i], value |-> i]]
  /\ given = elems
  /\ LET ends == cuts \cup {0, Len(keys)}
     IN bounds = [k \in 1 .. Cardinality(ends) |->
                    CHOOSE e \in ends : Cardinality({ f \in ends : f < e }) = k - 1]
  /\ at = "sort"

SortNext == SortIntervals \/ Check \/ EvenExchange \/ OddExchange

-----------------------------------------------------------------------------
\* Properties

\* The whole is in order, each key still with its value.
InOrder ==
  /\ \A i \in 1 .. Len(elems) - 1 : elems[i].key <= elems[i + 1].key
  /\ \A e \in ToSet(given) : e \in ToSet(elems)

\* However many times it takes, exchanges at the edges of intervals and sorts
\* inside of them come to an end, and then all intervals together are in order.
ComesToBeSorted == <>(at = "done" /\ InOrder)
=============================================================================
