----------------------------- MODULE RingProofs -----------------------------
(***************************************************************************)
(* That reducing round a ring and gathering again, by any of the methods,  *)
(* leaves each rank with every contribution to every element once, in      *)
(* order, for any number of ranks and elements.                            *)
(***************************************************************************)
EXTENDS RingCollectives, WellFoundedInduction, SequenceTheorems, TLAPS

-----------------------------------------------------------------------------
(* Arithmetic *)

LEMMA DivMod ==
  ASSUME NEW n \in Nat, NEW m \in Nat \ {0}
  PROVE  /\ n \div m \in Nat /\ n = (n \div m) * m + (n % m)
         /\ n % m \in 0 .. m - 1
PROOF BY Z3

\* A number in a multiple and the next one, divided
LEMMA DivIs ==
  ASSUME NEW q \in Nat, NEW m \in Nat \ {0}, NEW j \in 0 .. m - 1
  PROVE  (q * m + j) \div m = q /\ (q * m + j) % m = j
PROOF
<1>1. q * m \in Nat
  BY Z3
<1>2. PICK n \in Nat : n = q * m + j
  BY <1>1
<1>3. PICK d \in Nat, r \in 0 .. m - 1 : d = n \div m /\ r = n % m /\ n = d * m + r
  BY DivMod
<1>4. (d - q) * m = j - r
  BY <1>2, <1>3, Z3
<1>5. ASSUME d > q PROVE FALSE
  <2>1. (d - q) * m >= m
    BY <1>5, Z3
  <2> QED BY <1>4, <2>1
<1>6. ASSUME d < q PROVE FALSE
  <2>1. (q - d) * m >= m
    BY <1>6, Z3
  <2>2. (q - d) * m = r - j
    BY <1>4, Z3
  <2> QED BY <2>1, <2>2
<1>7. d = q
  BY <1>3, <1>5, <1>6
<1> QED BY <1>2, <1>3, <1>4, <1>7

LEMMA ModSmall ==
  ASSUME NEW m \in Nat \ {0}, NEW n \in Nat, n < 2 * m
  PROVE  n % m = IF n < m THEN n ELSE n - m
PROOF
<1>1. CASE n < m
  <2>1. (0 * m + n) % m = n
    BY <1>1, DivIs
  <2> QED BY <1>1, <2>1
<1>2. CASE n >= m
  <2>1. (1 * m + (n - m)) % m = n - m
    BY <1>2, DivIs
  <2> QED BY <1>2, <2>1
<1> QED BY <1>1, <1>2

\* Numbers below 0 that wrap to a range of which m is a divisor
LEMMA ModWrapped ==
  ASSUME NEW m \in Nat \ {0}, NEW range \in Nat, range % m = 0, 2 * m <= range,
         NEW n \in Int, n < m, - n < m
  PROVE  (n % range) % m = IF n < 0 THEN n + m ELSE n
PROOF
<1>1. CASE n >= 0
  <2>1. n % range = n
    BY <1>1, ModSmall
  <2>2. n % m = n
    BY <1>1, ModSmall
  <2> QED BY <1>1, <2>1, <2>2
<1>2. CASE n < 0
  <2>1. n % range = n + range
    BY <1>2, Z3
  <2>2. PICK q \in Nat : range = q * m
    <3>1. range = (range \div m) * m + (range % m) /\ range \div m \in Nat
      BY DivMod
    <3>2. (range \div m) * m \in Nat
      BY <3>1, Z3
    <3>3. range = (range \div m) * m
      BY <3>1, <3>2
    <3> QED BY <3>1, <3>3
  <2>3. q >= 1
    BY <2>2
  <2>4. PICK p \in Nat : p = q - 1
    BY <2>3
  <2>5. n + range = p * m + (n + m)
    BY <2>2, <2>4, Z3
  <2>6. n + m \in 0 .. m - 1
    BY <1>2
  <2>7. (p * m + (n + m)) % m = n + m
    BY <2>6, DivIs
  <2> QED BY <1>2, <2>1, <2>5, <2>7
<1> QED BY <1>1, <1>2

LEMMA DivGrows ==
  ASSUME NEW a \in Nat, NEW b \in Nat, a <= b, NEW m \in Nat \ {0}
  PROVE  a \div m \in Nat /\ b \div m \in Nat /\ a \div m <= b \div m
PROOF
<1>1. PICK p \in Nat, r \in 0 .. m - 1 : p = a \div m /\ a = p * m + r
  BY DivMod
<1>2. PICK q \in Nat, s \in 0 .. m - 1 : q = b \div m /\ b = q * m + s
  BY DivMod
<1>3. ASSUME p > q PROVE FALSE
  <2>1. (p - q) * m >= m /\ (p - q) * m = p * m - q * m
    BY <1>3, Z3
  <2>2. p * m \in Nat /\ q * m \in Nat
    BY Z3
  <2> QED BY <1>1, <1>2, <2>1, <2>2
<1> QED BY <1>1, <1>2, <1>3

LEMMA Smallest ==
  ASSUME NEW T, T \subseteq Nat, T # {}
  PROVE  \E x \in T : \A y \in T : x <= y
PROOF
<1> DEFINE R == OpToRel(<, Nat)
<1>1. IsWellFoundedOn(R, Nat)
  BY NatLessThanWellFounded
<1>2. \A x, y \in Nat : x < y => <<x, y>> \in R
  BY DEF OpToRel
<1> HIDE DEF R
<1>3. PICK x \in T : \A y \in T : ~ (<<y, x>> \in R)
  BY <1>1, WFMin
<1>4. ASSUME NEW y \in T PROVE x <= y
  <2>1. x \in Nat /\ y \in Nat /\ ~ (y < x)
    BY <1>2, <1>3
  <2> QED BY <2>1
<1> QED BY <1>4

-----------------------------------------------------------------------------
(* The ring *)

\* The place that n is, up to once round
Turn(n) == IF n >= N THEN n - N ELSE IF n < 0 THEN n + N ELSE n

\* The index that data has come from in n steps
Behind(dir, i, n) == Turn(IF dir = "clockwise" THEN i - n ELSE i + n)

RingCallOK == ringCall \in RingCalls

LEMMA CallProps ==
  ASSUME RingsFit, RingCallOK
  PROVE  /\ N \in Nat \ {0} /\ ringCall.elements \in Nat
         /\ ringCall.reduce \in Method /\ ringCall.gather \in Method /\ CallFits(ringCall)
PROOF BY DEF RingsFit, RingCallOK, RingAssumption, Call, N

LEMMA RecvBehind ==
  ASSUME RingsFit, RingCallOK, NEW dir \in Direction, NEW i \in Index
  PROVE  RecvIndex(dir, i) = Behind(dir, i, 1) /\ RecvIndex(dir, i) \in Index
PROOF
<1>1. N \in Nat \ {0}
  BY CallProps
<1>2. PICK n \in Nat : n = N
  BY <1>1
<1>3. i \in Nat /\ i < n /\ n # 0
  BY <1>1, <1>2 DEF Index
<1>4. (i + n - 1) % n = IF i + n - 1 < n THEN i + n - 1 ELSE i + n - 1 - n
  <2>1. PICK k \in Nat : k = i + n - 1 /\ k < 2 * n
    BY <1>3
  <2>2. k % n = IF k < n THEN k ELSE k - n
    BY <1>3, <2>1, ModSmall
  <2> QED BY <1>3, <2>1, <2>2
<1>5. (i + 1) % n = IF i + 1 < n THEN i + 1 ELSE i + 1 - n
  <2>1. CASE i + 1 < n
    <3>1. PICK k \in Nat : k = i + 1
      BY <1>3
    <3>2. k < n /\ k < 2 * n /\ n \in Nat \ {0}
      BY <1>3, <2>1, <3>1
    <3>3. k % n = IF k < n THEN k ELSE k - n
      BY <3>2, ModSmall
    <3> QED BY <2>1, <3>1, <3>2, <3>3
  <2>2. CASE i + 1 = n
    <3>1. (1 * n + 0) % n = 0
      BY <1>3, DivIs
    <3>2. 1 * n + 0 = i + 1
      BY <1>3, <2>2
    <3> QED BY <1>3, <2>2, <3>1, <3>2
  <2> QED BY <1>3, <2>1, <2>2
<1> QED BY <1>2, <1>3, <1>4, <1>5 DEF RecvIndex, Behind, Turn, Index, Direction

LEMMA BehindOnRing ==
  ASSUME RingsFit, RingCallOK, NEW dir \in Direction, NEW i \in Index, NEW n \in 0 .. N
  PROVE  /\ Behind(dir, i, n) \in Index
         /\ Behind(dir, i, 0) = i
         /\ n < N => Behind(dir, Behind(dir, i, 1), n) = Behind(dir, i, n + 1)
         /\ n \in 1 .. N - 1 => Behind(dir, i, n) # i
PROOF
<1>1. N \in Nat \ {0}
  BY CallProps
<1>2. PICK m \in Nat : m = N
  BY <1>1
<1> QED BY <1>1, <1>2 DEF Behind, Turn, Index, Direction

\* Every index is behind every other.
LEMMA AllBehind ==
  ASSUME RingsFit, RingCallOK, NEW dir \in Direction, NEW i \in Index, NEW j \in Index
  PROVE  \E n \in 0 .. N - 1 : Behind(dir, i, n) = j
PROOF
<1>1. N \in Nat \ {0}
  BY CallProps
<1>2. PICK m \in Nat : m = N
  BY <1>1
<1> DEFINE n == IF dir = "clockwise" THEN (IF j <= i THEN i - j ELSE i - j + m)
                ELSE (IF i <= j THEN j - i ELSE j - i + m)
<1>3. n \in 0 .. m - 1
  BY <1>1, <1>2 DEF Index
<1>4. Behind(dir, i, n) = j
  BY <1>1, <1>2 DEF Behind, Turn, Index, Direction
<1> QED BY <1>2, <1>3, <1>4

\* Ranks take each place in the ring once.
At(rank) == CHOOSE j \in Index : Ring[j] = rank

LEMMA RingBijects ==
  ASSUME RingsFit, RingCallOK
  PROVE  /\ Ring \in [Index -> Rank]
         /\ \A i, j \in Index : Ring[i] = Ring[j] => i = j
         /\ \A rank \in Rank : At(rank) \in Index /\ Ring[At(rank)] = rank
         /\ \A i \in Index : At(Ring[i]) = i
PROOF
<1>1. N \in Nat \ {0}
  BY CallProps
<1>2. PICK n \in Nat : n = N /\ n > 0
  BY <1>1
<1> DEFINE evens == (n + 1) \div 2
           odd == IF n % 2 = 0 THEN n - 1 ELSE n - 2
           At0(rank) == IF rank % 2 = 0 THEN rank \div 2 ELSE evens + (odd - rank) \div 2
<1>3. /\ \A i \in Index : Ring[i] = IF i < evens THEN 2 * i ELSE odd - 2 * (i - evens)
      /\ Ring = [i \in Index |-> Ring[i]]
  BY <1>2 DEF Ring
<1>4. \A i \in Index : Ring[i] \in Rank
  BY <1>2, <1>3 DEF Index, Rank
<1>5. \A i, j \in Index : Ring[i] = Ring[j] => i = j
  <2>1. n = 2 * evens \/ n + 1 = 2 * evens
    BY <1>2
  <2>2. odd \in Int /\ \E k \in Int : odd = 2 * k + 1
    <3>1. PICK h \in Nat : h = n \div 2 /\ (n = 2 * h \/ n = 2 * h + 1)
      BY <1>2
    <3>2. odd = 2 * (h - 1) + 1
      BY <1>2, <3>1
    <3>3. h - 1 \in Int /\ odd \in Int
      BY <3>1, <3>2
    <3> HIDE DEF odd
    <3> QED BY <3>2, <3>3
  <2> SUFFICES ASSUME NEW i \in Index, NEW j \in Index, Ring[i] = Ring[j] PROVE i = j
    OBVIOUS
  <2>3. i \in Nat /\ j \in Nat
    BY <1>2 DEF Index
  <2>4. (IF i < evens THEN 2 * i ELSE odd - 2 * (i - evens))
          = (IF j < evens THEN 2 * j ELSE odd - 2 * (j - evens))
    BY <1>3
  <2>5. evens \in Nat
    BY <1>2
  <2> HIDE DEF evens, odd
  <2> QED BY <2>2, <2>3, <2>4, <2>5
<1>6. \A rank \in Rank : \E i \in Index : Ring[i] = rank
  <2> SUFFICES ASSUME NEW rank \in Rank PROVE \E i \in Index : Ring[i] = rank
    OBVIOUS
  <2>1. At0(rank) \in Index
    BY <1>2 DEF Index, Rank
  <2>2. (IF At0(rank) < evens THEN 2 * At0(rank) ELSE odd - 2 * (At0(rank) - evens)) = rank
    BY <1>2 DEF Rank
  <2> HIDE DEF At0, evens, odd
  <2>3. Ring[At0(rank)] = rank
    BY <1>3, <2>1, <2>2
  <2> QED BY <2>1, <2>3
<1> HIDE DEF evens, odd
<1>7. \A rank \in Rank : At(rank) \in Index /\ Ring[At(rank)] = rank
  BY <1>6 DEF At
<1>8. \A i \in Index : At(Ring[i]) = i
  BY <1>4, <1>5, <1>7
<1> QED BY <1>3, <1>4, <1>5, <1>7, <1>8

-----------------------------------------------------------------------------
(* Pieces *)

\* Where the f'th of a number of pieces of n elements begins
Mark(n, f, pieces) == (n * f) \div pieces

\* Elements after the first b up to the e'th, reduced over the ranks in S
Cut(S, b, e) == [k \in 1 .. e - b |-> S \X {b + k}]

LEMMA Marks ==
  ASSUME NEW n \in Nat, NEW pieces \in Nat \ {0}, NEW f \in 0 .. pieces - 1
  PROVE  /\ Mark(n, f, pieces) \in 0 .. n /\ Mark(n, f + 1, pieces) \in 0 .. n
         /\ Mark(n, f, pieces) <= Mark(n, f + 1, pieces)
         /\ n * f \in Nat /\ n * (f + 1) \in Nat
         /\ n * f <= n * pieces /\ n * (f + 1) <= n * pieces
PROOF
<1>1. /\ n * f \in Nat /\ n * (f + 1) \in Nat /\ n * pieces \in Nat
      /\ n * f <= n * (f + 1) /\ n * (f + 1) <= n * pieces
  <2>1. PICK d \in Nat : pieces = f + 1 + d
    <3>1. pieces - f - 1 \in Nat /\ pieces = f + 1 + (pieces - f - 1)
      OBVIOUS
    <3> QED BY <3>1
  <2>2. n * f \in Nat /\ n * d \in Nat
    BY Z3
  <2>3. n * (f + 1) = n * f + n /\ n * pieces = n * f + n + n * d
    BY <2>1, Z3
  <2> QED BY <2>2, <2>3
<1>2. (n * pieces) \div pieces = n
  <2>1. (n * pieces + 0) \div pieces = n
    BY DivIs
  <2> QED BY <1>1, <2>1
<1>3. /\ (n * f) \div pieces \in Nat /\ (n * (f + 1)) \div pieces \in Nat
      /\ (n * f) \div pieces <= (n * (f + 1)) \div pieces
  BY <1>1, DivGrows
<1>4. (n * (f + 1)) \div pieces <= n
  BY <1>1, <1>2, DivGrows
<1> QED BY <1>1, <1>3, <1>4 DEF Mark

LEMMA MarkEnds ==
  ASSUME NEW n \in Nat, NEW pieces \in Nat \ {0}
  PROVE  Mark(n, 0, pieces) = 0 /\ Mark(n, pieces, pieces) = n
PROOF
<1>1. (0 * pieces + 0) \div pieces = 0
  BY DivIs
<1>2. (n * pieces + 0) \div pieces = n
  BY DivIs
<1>3. n * 0 = 0 /\ 0 * pieces + 0 = 0 /\ n * pieces + 0 = n * pieces
  BY Z3
<1> QED BY <1>1, <1>2, <1>3 DEF Mark

\* Two pieces of twice as many are a piece.
LEMMA MarkTwice ==
  ASSUME NEW n \in Nat, NEW pieces \in Nat \ {0}, NEW f \in Nat
  PROVE  Mark(n, 2 * f, 2 * pieces) = Mark(n, f, pieces)
PROOF
<1>1. n * f \in Nat
  BY Z3
<1>2. PICK q \in Nat, r \in 0 .. pieces - 1 :
        q = (n * f) \div pieces /\ n * f = q * pieces + r
  BY <1>1, DivMod
<1>3. n * (2 * f) = q * (2 * pieces) + 2 * r
  BY <1>2, Z3
<1>4. PICK m \in Nat \ {0}, j \in Nat : m = 2 * pieces /\ j = 2 * r /\ j < m
  <2>1. 2 * pieces \in Nat \ {0} /\ 2 * r \in Nat /\ 2 * r < 2 * pieces
    OBVIOUS
  <2> QED BY <2>1
<1>5. j \in 0 .. m - 1
  BY <1>4
<1>6. (q * m + j) \div m = q
  BY <1>5, DivIs
<1> QED BY <1>2, <1>3, <1>4, <1>6 DEF Mark

LEMMA CutIsSeq ==
  ASSUME NEW S, NEW b \in Nat, NEW e \in Nat, b <= e
  PROVE  /\ Cut(S, b, e) \in Seq(SUBSET (S \X (1 .. e)))
         /\ Len(Cut(S, b, e)) = e - b
         /\ \A k \in 1 .. e - b : Cut(S, b, e)[k] = S \X {b + k}
PROOF
<1>1. PICK n \in Nat : n = e - b
  OBVIOUS
<1>2. Cut(S, b, e) \in [1 .. n -> SUBSET (S \X (1 .. e))]
  BY <1>1 DEF Cut
<1> QED BY <1>1, <1>2 DEF Cut

LEMMA PieceOfCut ==
  ASSUME RingsFit, NEW S, NEW b \in Nat, NEW e \in Nat, b <= e,
         NEW pieces \in Nat \ {0}, NEW f \in 0 .. pieces - 1, (e - b) * pieces < 2^WordBits
  PROVE  /\ Piece(Cut(S, b, e), f, pieces)
              = Cut(S, b + Mark(e - b, f, pieces), b + Mark(e - b, f + 1, pieces))
         /\ Mark(e - b, f, pieces) \in 0 .. e - b /\ Mark(e - b, f + 1, pieces) \in 0 .. e - b
         /\ Mark(e - b, f, pieces) <= Mark(e - b, f + 1, pieces)
PROOF
<1>1. PICK n \in Nat : n = e - b
  OBVIOUS
<1>2. PICK w \in Nat : w = 2^WordBits
  BY DEF RingsFit
<1>3. /\ n * f \in Nat /\ n * (f + 1) \in Nat /\ n * f < w /\ n * (f + 1) < w
      /\ Mark(n, f, pieces) \in 0 .. n /\ Mark(n, f + 1, pieces) \in 0 .. n
      /\ Mark(n, f, pieces) <= Mark(n, f + 1, pieces)
  <2>1. n * pieces \in Nat /\ n * pieces < w
    BY <1>1, <1>2, Z3
  <2>2. /\ n * f \in Nat /\ n * (f + 1) \in Nat
        /\ n * f <= n * pieces /\ n * (f + 1) <= n * pieces
    BY Marks
  <2>3. /\ Mark(n, f, pieces) \in 0 .. n /\ Mark(n, f + 1, pieces) \in 0 .. n
        /\ Mark(n, f, pieces) <= Mark(n, f + 1, pieces)
    BY Marks
  <2> QED BY <2>1, <2>2, <2>3
<1>4. \A k \in Nat : k < w => k % w = k
  <2> SUFFICES ASSUME NEW k \in Nat, k < w PROVE k % w = k
    OBVIOUS
  <2>1. w \in Nat \ {0} /\ k < 2 * w
    OBVIOUS
  <2>2. k % w = IF k < w THEN k ELSE k - w
    BY <2>1, ModSmall
  <2> QED BY <2>2
<1>5. PICK m, l \in Nat : m = Mark(n, f, pieces) /\ l = Mark(n, f + 1, pieces) /\ m <= l /\ l <= n
  BY <1>3
<1> DEFINE t == Cut(S, b, e)
<1>6. /\ t \in Seq(SUBSET (S \X (1 .. e))) /\ Len(t) = n
      /\ \A k \in 1 .. n : t[k] = S \X {b + k}
  <2>1. /\ t \in Seq(SUBSET (S \X (1 .. e))) /\ Len(t) = e - b
        /\ \A k \in 1 .. e - b : t[k] = S \X {b + k}
    BY CutIsSeq, ZenonT(40)
  <2> HIDE DEF t
  <2> QED BY <1>1, <2>1
<1>7. Piece(t, f, pieces) = SubSeq(t, m + 1, l)
  BY <1>2, <1>3, <1>4, <1>5, <1>6 DEF Piece, AsUnsigned, Mark
<1> HIDE DEF t
<1>8. SubSeq(t, m + 1, l) = [k \in 1 .. l - m |-> t[m + k]]
  <2>1. SubSeq(t, m + 1, l) = [k \in 1 .. (1 + l - (m + 1)) |-> t[k + (m + 1) - 1]]
    OBVIOUS
  <2> QED BY <2>1
<1>9. [k \in 1 .. l - m |-> t[m + k]] = Cut(S, b + m, b + l)
  <2>1. (b + l) - (b + m) = l - m
    OBVIOUS
  <2>2. \A k \in 1 .. l - m : t[m + k] = S \X {b + m + k}
    <3> SUFFICES ASSUME NEW k \in 1 .. l - m PROVE t[m + k] = S \X {b + m + k}
      OBVIOUS
    <3>1. m + k \in 1 .. n /\ b + m + k = b + (m + k)
      BY <1>5
    <3> QED BY <1>6, <3>1
  <2> QED BY <2>1, <2>2 DEF Cut
<1> QED BY <1>1, <1>3, <1>5, <1>7, <1>8, <1>9 DEF t

LEMMA Inputs ==
  ASSUME RingsFit, RingCallOK
  PROVE  /\ \A rank \in Rank : Input(rank) = Cut({rank}, 0, ringCall.elements)
         /\ Total = Cut(Rank, 0, ringCall.elements)
PROOF
<1>1. PICK n \in Nat : n = ringCall.elements
  BY CallProps
<1>2. ASSUME NEW rank \in Rank PROVE Input(rank) = Cut({rank}, 0, n)
  <2>1. \A e \in 1 .. n : {<<rank, e>>} = {rank} \X {e}
    OBVIOUS
  <2>2. n - 0 = n /\ \A e \in 1 .. n : 0 + e = e
    OBVIOUS
  <2> QED BY <1>1, <2>1, <2>2 DEF Input, Cut
<1>3. Total = Cut(Rank, 0, n)
  <2>1. n - 0 = n /\ \A e \in 1 .. n : 0 + e = e
    OBVIOUS
  <2> QED BY <1>1, <2>1 DEF Total, Cut
<1> QED BY <1>1, <1>2, <1>3

-----------------------------------------------------------------------------
(* Fragments and the methods *)

\* Where the f'th fragment that travels in a direction begins and ends
PairedMark(dir, f) ==
  IF dir = "clockwise" THEN Mark(ringCall.elements, 2 * f, 2 * N)
  ELSE Mark(ringCall.elements, 2 * f + 1, 2 * N)
PairedEnd(dir, f) ==
  IF dir = "clockwise" THEN Mark(ringCall.elements, 2 * f + 1, 2 * N)
  ELSE Mark(ringCall.elements, 2 * f + 1 + 1, 2 * N)
FragBegin(dir, f) ==
  IF ReduceMethod = "BIDIRECTIONAL_RING_PAIR" THEN PairedMark(dir, f)
  ELSE Mark(ringCall.elements, f, N)
FragEnd(dir, f) ==
  IF ReduceMethod = "BIDIRECTIONAL_RING_PAIR" THEN PairedEnd(dir, f)
  ELSE Mark(ringCall.elements, f + 1, N)

\* The fragment, reduced over the ranks in S
Frag(dir, S, f) == Cut(S, FragBegin(dir, f), FragEnd(dir, f))

LEMMA FragmentIs ==
  ASSUME RingsFit, RingCallOK, NEW dir \in Direction, NEW f \in Index
  PROVE  /\ \A rank \in Rank : Fragment(dir, rank, f) = Frag(dir, {rank}, f)
         /\ FragBegin(dir, f) \in Nat /\ FragEnd(dir, f) \in Nat
         /\ FragBegin(dir, f) <= FragEnd(dir, f) /\ FragEnd(dir, f) <= ringCall.elements
PROOF
<1>1. /\ N \in Nat \ {0} /\ ringCall.elements \in Nat /\ CallFits(ringCall)
  BY CallProps
<1>2. PICK m \in Nat \ {0}, e \in Nat, w \in Nat :
        m = N /\ e = ringCall.elements /\ w = 2^WordBits
  BY <1>1 DEF RingsFit
<1>3. e * (2 * m) < w /\ e * m < w
  <2>1. 2 * m * e < w
    BY <1>1, <1>2 DEF CallFits, N
  <2>2. e * m \in Nat /\ 2 * m * e = 2 * (e * m) /\ e * (2 * m) = 2 * (e * m)
    BY Z3
  <2> QED BY <2>1, <2>2
<1>4. f \in 0 .. m - 1
  BY <1>2 DEF Index
<1>5. ASSUME NEW pieces \in Nat \ {0}, NEW g \in 0 .. pieces - 1, e * pieces < w
      PROVE  /\ \A rank \in Rank : Piece(Input(rank), g, pieces)
                                     = Cut({rank}, Mark(e, g, pieces), Mark(e, g + 1, pieces))
             /\ Mark(e, g, pieces) \in Nat /\ Mark(e, g + 1, pieces) \in Nat
             /\ Mark(e, g, pieces) <= Mark(e, g + 1, pieces) /\ Mark(e, g + 1, pieces) <= e
  <2>1. /\ Mark(e, g, pieces) \in 0 .. e /\ Mark(e, g + 1, pieces) \in 0 .. e
        /\ Mark(e, g, pieces) <= Mark(e, g + 1, pieces)
    BY <1>5, Marks
  <2>2. ASSUME NEW rank \in Rank
        PROVE  Piece(Input(rank), g, pieces)
                 = Cut({rank}, Mark(e, g, pieces), Mark(e, g + 1, pieces))
    <3>1. e - 0 = e /\ 0 <= e /\ (e - 0) * pieces < 2^WordBits
      BY <1>2, <1>5
    <3>2. Piece(Cut({rank}, 0, e), g, pieces)
            = Cut({rank}, 0 + Mark(e - 0, g, pieces), 0 + Mark(e - 0, g + 1, pieces))
      BY <1>5, <3>1, PieceOfCut
    <3>3. Input(rank) = Cut({rank}, 0, e)
      BY <1>2, Inputs
    <3>4. 0 + Mark(e, g, pieces) = Mark(e, g, pieces) /\ 0 + Mark(e, g + 1, pieces) = Mark(e, g + 1, pieces)
      BY <2>1
    <3> QED BY <3>1, <3>2, <3>3, <3>4
  <2> QED BY <2>1, <2>2
<1>6. CASE ReduceMethod = "BIDIRECTIONAL_RING_PAIR"
  <2>1. PICK g \in Nat, p \in Nat \ {0} :
          g = (IF dir = "clockwise" THEN 2 * f ELSE 2 * f + 1) /\ p = 2 * m /\ g \in 0 .. p - 1
    <3>1. 2 * m \in Nat \ {0} /\ 2 * f \in 0 .. 2 * m - 1 /\ 2 * f + 1 \in 0 .. 2 * m - 1
      BY <1>4
    <3> QED BY <3>1
  <2>2. /\ \A rank \in Rank : Piece(Input(rank), g, p) = Cut({rank}, Mark(e, g, p), Mark(e, g + 1, p))
        /\ Mark(e, g, p) \in Nat /\ Mark(e, g + 1, p) \in Nat
        /\ Mark(e, g, p) <= Mark(e, g + 1, p) /\ Mark(e, g + 1, p) <= e
    BY <1>3, <1>5, <2>1
  <2>3. FragBegin(dir, f) = Mark(e, g, p) /\ FragEnd(dir, f) = Mark(e, g + 1, p)
    BY <1>2, <1>6, <2>1 DEF FragBegin, FragEnd, PairedMark, PairedEnd
  <2>4. \A rank \in Rank : Fragment(dir, rank, f) = Piece(Input(rank), g, p)
    BY <1>2, <1>6, <2>1 DEF Fragment
  <2> QED BY <1>2, <2>2, <2>3, <2>4 DEF Frag
<1>7. CASE ReduceMethod # "BIDIRECTIONAL_RING_PAIR"
  <2>1. /\ \A rank \in Rank : Piece(Input(rank), f, m) = Cut({rank}, Mark(e, f, m), Mark(e, f + 1, m))
        /\ Mark(e, f, m) \in Nat /\ Mark(e, f + 1, m) \in Nat
        /\ Mark(e, f, m) <= Mark(e, f + 1, m) /\ Mark(e, f + 1, m) <= e
    BY <1>3, <1>4, <1>5
  <2>2. FragBegin(dir, f) = Mark(e, f, m) /\ FragEnd(dir, f) = Mark(e, f + 1, m)
    BY <1>2, <1>7 DEF FragBegin, FragEnd
  <2>3. \A rank \in Rank : Fragment(dir, rank, f) = Piece(Input(rank), f, m)
    BY <1>2, <1>7 DEF Fragment
  <2> QED BY <1>2, <2>1, <2>2, <2>3 DEF Frag
<1> QED BY <1>6, <1>7

\* The steps in which a method sends in a direction are the first so many.
SendSteps(method, dir) ==
  IF method = "MEET_IN_MIDDLE_RING" /\ dir = "clockwise" THEN NumSteps(method) - 1
  ELSE NumSteps(method)

LEMMA MethodProps ==
  ASSUME RingsFit, RingCallOK, NEW method \in {ReduceMethod, ringCall.gather}
  PROVE  /\ NumSteps(method) \in 0 .. N - 1
         /\ N > 1 => NumSteps(method) > 0
         /\ method = "MEET_IN_MIDDLE_RING" /\ N > 1 => N = 2 * NumSteps(method)
         /\ method # "MEET_IN_MIDDLE_RING" => NumSteps(method) = N - 1
         /\ Directions(method) \subseteq Direction
         /\ \A s \in 0 .. NumSteps(method) - 1, dir \in Direction :
              dir \in Sends(method, s) <=> dir \in Directions(method) /\ s < SendSteps(method, dir)
PROOF
<1>1. N \in Nat \ {0} /\ CallFits(ringCall)
  BY CallProps
<1>2. PICK m \in Nat \ {0} : m = N
  BY <1>1
<1>3. method = "MEET_IN_MIDDLE_RING" /\ m > 1 => m % 2 = 0
  BY <1>1, <1>2 DEF ReduceMethod, CallFits, N
<1>4. /\ NumSteps(method) \in 0 .. m - 1 /\ (m > 1 => NumSteps(method) > 0)
      /\ (method = "MEET_IN_MIDDLE_RING" /\ m > 1 => m = 2 * NumSteps(method))
      /\ (method # "MEET_IN_MIDDLE_RING" => NumSteps(method) = m - 1)
  BY <1>2, <1>3 DEF NumSteps
<1>5. Directions(method) \subseteq Direction
  BY DEF Directions, Direction
<1>6. ASSUME NEW s \in 0 .. NumSteps(method) - 1, NEW dir \in Direction
      PROVE  dir \in Sends(method, s)
               <=> dir \in Directions(method) /\ s < SendSteps(method, dir)
  <2>1. PICK n \in Nat : n = NumSteps(method)
    BY <1>4
  <2> QED BY <2>1 DEF Sends, SendSteps
<1> QED BY <1>2, <1>4, <1>5, <1>6

LEMMA ReduceProps ==
  ASSUME RingsFit, RingCallOK
  PROVE  /\ ReduceMethod \in Method
         /\ "anticlockwise" \in Directions(ReduceMethod) => 2^SizeBits % N = 0
         /\ ReduceMethod = "MEET_IN_MIDDLE_RING" /\ N > 1 => NumSteps(ReduceMethod) > 1
         /\ 2 * N <= 2^SizeBits
PROOF
<1>1. N \in Nat \ {0} /\ CallFits(ringCall) /\ ringCall.reduce \in Method
  BY CallProps
<1>2. ReduceMethod \in Method
  BY <1>1 DEF ReduceMethod, Method
<1>3. "anticlockwise" \in Directions(ReduceMethod) => ringCall.reduce # "CLOCKWISE_RING"
  BY DEF Directions, ReduceMethod
<1>4. ReduceMethod = "MEET_IN_MIDDLE_RING" => N # 2
  BY DEF ReduceMethod
<1>5. ReduceMethod = "MEET_IN_MIDDLE_RING" /\ N > 1 => N = 2 * NumSteps(ReduceMethod)
  BY MethodProps
<1>6. NumSteps(ReduceMethod) \in 0 .. N - 1
  BY MethodProps
<1>7. 2^SizeBits % N = 0 \/ ringCall.reduce = "CLOCKWISE_RING"
  BY <1>1 DEF CallFits, N
<1>8. 2 * N <= 2^SizeBits
  BY <1>1 DEF CallFits, N
<1> QED BY <1>1, <1>2, <1>3, <1>4, <1>5, <1>6, <1>7, <1>8

\* The fragment that index i reduces in the last step in which a direction is sent
\* in is its own, and what it reduces in a step its neighbour did in the step before.
LEMMA FragmentNums ==
  ASSUME RingsFit, RingCallOK, N > 1, NEW dir \in Directions(ReduceMethod),
         NEW i \in Index, NEW s \in Nat, s < SendSteps(ReduceMethod, dir)
  PROVE  /\ FragmentNum(dir, i, s) \in Index
         /\ s + 1 = SendSteps(ReduceMethod, dir) => FragmentNum(dir, i, s) = i
         /\ s > 0 => FragmentNum(dir, Behind(dir, i, 1), s - 1) = FragmentNum(dir, i, s)
PROOF
<1>1. N \in Nat \ {0} /\ 2 * N <= 2^SizeBits /\ 2^SizeBits \in Nat
  BY CallProps, ReduceProps DEF RingsFit
<1>2. PICK m \in Nat \ {0}, range \in Nat, n \in Nat, k \in Nat :
        /\ m = N /\ range = 2^SizeBits /\ n = NumSteps(ReduceMethod) /\ n < m /\ n > 0
        /\ k = SendSteps(ReduceMethod, dir) /\ k <= n
        /\ dir = "clockwise"
             => k = IF ReduceMethod = "MEET_IN_MIDDLE_RING" THEN n - 1 ELSE n
        /\ dir # "clockwise" => k = n
  BY <1>1, MethodProps DEF SendSteps
<1>3. dir \in Direction
  BY MethodProps
<1>4. \A x \in Nat : x < 2 * m => AsSize(x) % m = IF x < m THEN x ELSE x - m
  <2> SUFFICES ASSUME NEW x \in Nat, x < 2 * m
               PROVE  AsSize(x) % m = IF x < m THEN x ELSE x - m
    OBVIOUS
  <2>1. range \in Nat \ {0} /\ x < range /\ x < 2 * range
    BY <1>1, <1>2
  <2>2. x % range = x
    BY <2>1, ModSmall
  <2>3. x % m = IF x < m THEN x ELSE x - m
    BY ModSmall
  <2> QED BY <1>2, <2>2, <2>3 DEF AsSize
<1>5. CASE dir = "clockwise"
  <2>1. \A j \in Index, r \in 0 .. k - 1 :
          FragmentNum(dir, j, r) = LET x == j + (k - 1 - r) IN IF x < m THEN x ELSE x - m
    <3> SUFFICES ASSUME NEW j \in Index, NEW r \in 0 .. k - 1
                 PROVE  FragmentNum(dir, j, r) = LET x == j + (k - 1 - r) IN IF x < m THEN x ELSE x - m
      OBVIOUS
    <3>1. FragmentNum(dir, j, r) = AsSize(j + (k - 1) - r) % m
      BY <1>2, <1>5 DEF FragmentNum
    <3>2. PICK x \in Nat : x = j + (k - 1 - r) /\ x = j + (k - 1) - r /\ x < 2 * m
      BY <1>2 DEF Index
    <3> QED BY <1>4, <3>1, <3>2
  <2>2. i \in 0 .. m - 1 /\ s \in 0 .. k - 1
    BY <1>2 DEF Index
  <2>3. Behind(dir, i, 1) = IF i = 0 THEN m - 1 ELSE i - 1
    BY <1>2, <1>5, <2>2 DEF Behind, Turn
  <2>4. Behind(dir, i, 1) \in Index
    BY <1>2, <2>2, <2>3 DEF Index
  <2>5. FragmentNum(dir, i, s) = IF i + (k - 1 - s) < m THEN i + (k - 1 - s) ELSE i + (k - 1 - s) - m
    BY <2>1, <2>2
  <2>6. ASSUME s > 0
        PROVE  FragmentNum(dir, Behind(dir, i, 1), s - 1) = FragmentNum(dir, i, s)
    <3>1. s - 1 \in 0 .. k - 1
      BY <2>2, <2>6
    <3>2. PICK b \in 0 .. m - 1 : b = Behind(dir, i, 1)
      BY <1>2, <2>4 DEF Index
    <3>3. FragmentNum(dir, b, s - 1)
            = IF b + (k - 1 - (s - 1)) < m THEN b + (k - 1 - (s - 1)) ELSE b + (k - 1 - (s - 1)) - m
      BY <2>1, <2>4, <3>1, <3>2
    <3> QED BY <1>2, <2>2, <2>3, <2>5, <2>6, <3>2, <3>3
  <2> QED BY <1>2, <2>2, <2>5, <2>6 DEF Index
<1>6. CASE dir = "anticlockwise"
  <2>1. \A j \in Index, r \in 0 .. k - 1 :
          FragmentNum(dir, j, r) = LET x == j - (k - 1 - r) IN IF x < 0 THEN x + m ELSE x
    <3> SUFFICES ASSUME NEW j \in Index, NEW r \in 0 .. k - 1
                 PROVE  FragmentNum(dir, j, r) = LET x == j - (k - 1 - r) IN IF x < 0 THEN x + m ELSE x
      OBVIOUS
    <3>1. FragmentNum(dir, j, r) = AsSize(j - (k - 1 - r)) % m
      BY <1>2, <1>6 DEF FragmentNum
    <3>2. PICK x \in Int : x = j - (k - 1 - r) /\ x < m /\ - x < m
      BY <1>2 DEF Index
    <3>3. range % m = 0 /\ 2 * m <= range
      BY <1>1, <1>2, <1>6, ReduceProps
    <3>4. (x % range) % m = IF x < 0 THEN x + m ELSE x
      BY <3>2, <3>3, ModWrapped
    <3> QED BY <1>2, <3>1, <3>2, <3>4 DEF AsSize
  <2>2. i \in 0 .. m - 1 /\ s \in 0 .. k - 1
    BY <1>2 DEF Index
  <2>3. Behind(dir, i, 1) = IF i = m - 1 THEN 0 ELSE i + 1
    BY <1>2, <1>6, <2>2 DEF Behind, Turn
  <2>4. Behind(dir, i, 1) \in Index
    BY <1>2, <2>2, <2>3 DEF Index
  <2>5. FragmentNum(dir, i, s) = IF i - (k - 1 - s) < 0 THEN i - (k - 1 - s) + m ELSE i - (k - 1 - s)
    BY <2>1, <2>2
  <2>6. ASSUME s > 0
        PROVE  FragmentNum(dir, Behind(dir, i, 1), s - 1) = FragmentNum(dir, i, s)
    <3>1. s - 1 \in 0 .. k - 1
      BY <2>2, <2>6
    <3>2. PICK b \in 0 .. m - 1 : b = Behind(dir, i, 1)
      BY <1>2, <2>4 DEF Index
    <3>3. FragmentNum(dir, b, s - 1)
            = IF b - (k - 1 - (s - 1)) < 0 THEN b - (k - 1 - (s - 1)) + m ELSE b - (k - 1 - (s - 1))
      BY <2>1, <2>4, <3>1, <3>2
    <3> QED BY <1>2, <2>2, <2>3, <2>5, <2>6, <3>2, <3>3
  <2> QED BY <1>2, <2>2, <2>5, <2>6 DEF Index
<1> QED BY <1>3, <1>5, <1>6 DEF Direction

-----------------------------------------------------------------------------
(* Contributions *)

\* The ranks whose contributions index i has after n steps in a direction
Sources(dir, i, n) == {Ring[Behind(dir, i, d)] : d \in 0 .. n}

LEMMA SourcesGrow ==
  ASSUME RingsFit, RingCallOK, NEW dir \in Direction, NEW i \in Index, NEW n \in Nat, n + 1 < N
  PROVE  /\ Sources(dir, Behind(dir, i, 1), n) \cup {Ring[i]} = Sources(dir, i, n + 1)
         /\ Ring[i] \notin Sources(dir, Behind(dir, i, 1), n)
PROOF
<1>1. PICK m \in Nat \ {0} : m = N
  BY CallProps
<1>2. Behind(dir, i, 1) \in Index /\ Behind(dir, i, 0) = i
  <2>1. 0 \in 0 .. N /\ 1 \in 0 .. N
    BY <1>1
  <2> QED BY <2>1, BehindOnRing
<1>3. \A d \in 0 .. n : /\ Behind(dir, Behind(dir, i, 1), d) = Behind(dir, i, d + 1)
                        /\ Behind(dir, i, d + 1) \in Index /\ Behind(dir, i, d + 1) # i
  <2> SUFFICES ASSUME NEW d \in 0 .. n
               PROVE  /\ Behind(dir, Behind(dir, i, 1), d) = Behind(dir, i, d + 1)
                      /\ Behind(dir, i, d + 1) \in Index /\ Behind(dir, i, d + 1) # i
    OBVIOUS
  <2>1. d \in 0 .. N /\ d < N /\ d + 1 \in 0 .. N /\ d + 1 \in 1 .. N - 1
    BY <1>1
  <2> QED BY <2>1, BehindOnRing
<1>4. Sources(dir, Behind(dir, i, 1), n) \subseteq Sources(dir, i, n + 1)
  <2> SUFFICES ASSUME NEW d \in 0 .. n
               PROVE  Ring[Behind(dir, Behind(dir, i, 1), d)] \in Sources(dir, i, n + 1)
    BY DEF Sources
  <2>1. d + 1 \in 0 .. n + 1
    OBVIOUS
  <2> QED BY <1>3, <2>1 DEF Sources
<1>5. Ring[i] \in Sources(dir, i, n + 1)
  <2>1. 0 \in 0 .. n + 1
    OBVIOUS
  <2> QED BY <1>2, <2>1 DEF Sources
<1>6. Sources(dir, i, n + 1) \subseteq Sources(dir, Behind(dir, i, 1), n) \cup {Ring[i]}
  <2> SUFFICES ASSUME NEW d \in 0 .. n + 1
               PROVE  Ring[Behind(dir, i, d)] \in Sources(dir, Behind(dir, i, 1), n) \cup {Ring[i]}
    BY DEF Sources
  <2>1. CASE d = 0
    BY <1>2, <2>1
  <2>2. CASE d > 0
    <3>1. PICK c \in 0 .. n : d = c + 1
      <4>1. d - 1 \in 0 .. n /\ d = (d - 1) + 1
        BY <2>2
      <4> QED BY <4>1
    <3> QED BY <1>3, <3>1 DEF Sources
  <2> QED BY <2>1, <2>2
<1>7. Ring[i] \notin Sources(dir, Behind(dir, i, 1), n)
  <2> SUFFICES ASSUME NEW d \in 0 .. n, Ring[i] = Ring[Behind(dir, Behind(dir, i, 1), d)]
               PROVE  FALSE
    BY DEF Sources
  <2> QED BY <1>3, RingBijects
<1> QED BY <1>4, <1>5, <1>6, <1>7

LEMMA SourcesAreRanks ==
  ASSUME RingsFit, RingCallOK, NEW dir \in Direction, NEW i \in Index
  PROVE  /\ \A n \in 0 .. N - 1 : Sources(dir, i, n) \subseteq Rank
         /\ Sources(dir, i, 0) = {Ring[i]}
         /\ Sources(dir, i, N - 1) = Rank
PROOF
<1>1. PICK m \in Nat \ {0} : m = N
  BY CallProps
<1>2. \A d \in 0 .. N - 1 : Behind(dir, i, d) \in Index
  <2> SUFFICES ASSUME NEW d \in 0 .. N - 1 PROVE Behind(dir, i, d) \in Index
    OBVIOUS
  <2>1. d \in 0 .. N
    BY <1>1
  <2> QED BY <2>1, BehindOnRing
<1>3. ASSUME NEW n \in 0 .. N - 1 PROVE Sources(dir, i, n) \subseteq Rank
  <2> SUFFICES ASSUME NEW d \in 0 .. n PROVE Ring[Behind(dir, i, d)] \in Rank
    BY DEF Sources
  <2>1. d \in 0 .. N - 1
    BY <1>1
  <2>2. Behind(dir, i, d) \in Index
    BY <1>2, <2>1
  <2> QED BY <2>2, RingBijects
<1>4. Sources(dir, i, 0) = {Ring[i]}
  <2>1. 0 .. 0 = {0} /\ 0 \in 0 .. N
    BY <1>1
  <2>2. Behind(dir, i, 0) = i
    BY <2>1, BehindOnRing
  <2> QED BY <2>1, <2>2 DEF Sources
<1>5. Rank \subseteq Sources(dir, i, N - 1)
  <2> SUFFICES ASSUME NEW rank \in Rank PROVE rank \in Sources(dir, i, N - 1)
    OBVIOUS
  <2>1. At(rank) \in Index /\ Ring[At(rank)] = rank
    BY RingBijects
  <2>2. PICK d \in 0 .. N - 1 : Behind(dir, i, d) = At(rank)
    BY <2>1, AllBehind
  <2> QED BY <2>1, <2>2 DEF Sources
<1>6. N - 1 \in 0 .. N - 1
  BY <1>1
<1> QED BY <1>3, <1>4, <1>5, <1>6

\* What comes from either side of index i in half the steps is from all ranks, from
\* each once.
LEMMA SourcesMeet ==
  ASSUME RingsFit, RingCallOK, NEW i \in Index, NEW h \in Nat \ {0}, N = 2 * h
  PROVE  /\ Sources("clockwise", i, h - 1)
              \cup Sources("anticlockwise", Behind("anticlockwise", i, 1), h - 1) = Rank
         /\ Sources("clockwise", i, h - 1)
              \cap Sources("anticlockwise", Behind("anticlockwise", i, 1), h - 1) = {}
PROOF
<1> DEFINE cw == "clockwise"
           acw == "anticlockwise"
           j == Behind(acw, i, 1)
<1>1. i \in 0 .. 2 * h - 1
  BY DEF Index
<1>2. j = IF i = 2 * h - 1 THEN 0 ELSE i + 1
  BY <1>1 DEF Behind, Turn
<1>3. j \in 0 .. 2 * h - 1
  BY <1>1, <1>2
<1>4. \A d \in 0 .. h - 1 : Behind(cw, i, d) = IF i >= d THEN i - d ELSE i - d + 2 * h
  BY <1>1 DEF Behind, Turn
<1>5. \A d \in 0 .. h - 1 : Behind(acw, j, d) = IF j + d >= 2 * h THEN j + d - 2 * h ELSE j + d
  BY <1>3 DEF Behind, Turn
<1> HIDE DEF j
<1>6. \A d, e \in 0 .. h - 1 : Behind(cw, i, d) # Behind(acw, j, e)
  BY <1>1, <1>2, <1>4, <1>5
<1>7. \A d \in 0 .. h - 1 : Behind(cw, i, d) \in Index /\ Behind(acw, j, d) \in Index
  BY <1>1, <1>3, <1>4, <1>5 DEF Index
<1>8. ASSUME NEW k \in Index
      PROVE  \E d \in 0 .. h - 1 : k = Behind(cw, i, d) \/ k = Behind(acw, j, d)
  <2>1. k \in 0 .. 2 * h - 1
    BY DEF Index
  <2>2. PICK c \in 0 .. 2 * h - 1 : c = IF k <= i THEN i - k ELSE i - k + 2 * h
    <3>1. (IF k <= i THEN i - k ELSE i - k + 2 * h) \in 0 .. 2 * h - 1
      BY <1>1, <2>1
    <3> QED BY <3>1
  <2>3. CASE c < h
    <3>1. c \in 0 .. h - 1 /\ k = Behind(cw, i, c)
      BY <1>1, <1>4, <2>1, <2>2, <2>3
    <3> QED BY <3>1
  <2>4. CASE c >= h
    <3>1. PICK d \in 0 .. h - 1 : d = 2 * h - 1 - c
      <4>1. 2 * h - 1 - c \in 0 .. h - 1
        BY <2>4
      <4> QED BY <4>1
    <3>2. k = Behind(acw, j, d)
      BY <1>1, <1>2, <1>5, <2>1, <2>2, <3>1
    <3> QED BY <3>2
  <2> QED BY <2>3, <2>4
<1>9. Rank \subseteq Sources(cw, i, h - 1) \cup Sources(acw, j, h - 1)
  <2> SUFFICES ASSUME NEW rank \in Rank
               PROVE  rank \in Sources(cw, i, h - 1) \cup Sources(acw, j, h - 1)
    OBVIOUS
  <2>1. At(rank) \in Index /\ Ring[At(rank)] = rank
    BY RingBijects
  <2>2. PICK d \in 0 .. h - 1 : At(rank) = Behind(cw, i, d) \/ At(rank) = Behind(acw, j, d)
    BY <1>8, <2>1
  <2> QED BY <2>1, <2>2 DEF Sources
<1>10. Sources(cw, i, h - 1) \subseteq Rank /\ Sources(acw, j, h - 1) \subseteq Rank
  BY <1>7, RingBijects DEF Sources
<1>11. Sources(cw, i, h - 1) \cap Sources(acw, j, h - 1) = {}
  <2> SUFFICES ASSUME NEW d \in 0 .. h - 1, NEW e \in 0 .. h - 1,
                      Ring[Behind(cw, i, d)] = Ring[Behind(acw, j, e)]
               PROVE  FALSE
    BY DEF Sources
  <2> QED BY <1>6, <1>7, RingBijects
<1> QED BY <1>9, <1>10, <1>11 DEF j

-----------------------------------------------------------------------------
(* What is reduced *)

\* Elements of the same place join into one of the same place.
LEMMA CutsJoin ==
  ASSUME NEW S, NEW T, NEW b \in Nat, NEW e \in Nat, b <= e
  PROVE  /\ OpInPlace(Cut(S, b, e), Cut(T, b, e)) = Cut(S \cup T, b, e)
         /\ S \cap T = {} => Match(Cut(S, b, e), Cut(T, b, e))
PROOF
<1>1. DOMAIN Cut(T, b, e) = 1 .. e - b
  BY DEF Cut
<1>2. \A k \in 1 .. e - b : /\ Cut(S, b, e)[k] = S \X {b + k} /\ Cut(T, b, e)[k] = T \X {b + k}
                            /\ (S \X {b + k}) \cup (T \X {b + k}) = (S \cup T) \X {b + k}
  BY DEF Cut
<1>3. OpInPlace(Cut(S, b, e), Cut(T, b, e)) = Cut(S \cup T, b, e)
  BY <1>1, <1>2 DEF Cut, OpInPlace
<1>4. Len(Cut(S, b, e)) = Len(Cut(T, b, e))
  BY CutIsSeq
<1>5. ASSUME S \cap T = {}, NEW k \in 1 .. e - b
      PROVE  /\ (S \X {b + k}) \cap (T \X {b + k}) = {}
             /\ \A x \in S \X {b + k}, y \in T \X {b + k} : x[2] = y[2]
  BY <1>5
<1>6. S \cap T = {} => Match(Cut(S, b, e), Cut(T, b, e))
  BY <1>1, <1>2, <1>4, <1>5 DEF Match
<1> QED BY <1>3, <1>6

\* What is at each index when n steps in a direction are done, and when what is
\* received in the next one has come but is not reduced
Reducing(dir, n) == [i \in Index |-> Frag(dir, Sources(dir, i, n), FragmentNum(dir, i, n - 1))]
Arrived(dir, n) ==
  [i \in Index |-> Frag(dir, Sources(dir, Behind(dir, i, 1), n), FragmentNum(dir, i, n))]

LEMMA Arrives ==
  ASSUME RingsFit, RingCallOK, N > 1, NEW dir \in Directions(ReduceMethod), NEW n \in Nat,
         n < SendSteps(ReduceMethod, dir), NEW i \in Index
  PROVE  /\ n = 0 => Arrived(dir, n)[i]
                       = Fragment(dir, Ring[RecvIndex(dir, i)], FragmentNum(dir, i, 0))
         /\ n > 0 => Arrived(dir, n)[i] = Reducing(dir, n)[RecvIndex(dir, i)]
PROOF
<1>1. dir \in Direction
  BY MethodProps
<1>2. PICK j \in Index : j = RecvIndex(dir, i) /\ j = Behind(dir, i, 1)
  BY <1>1, RecvBehind
<1>3. ASSUME n = 0 PROVE Arrived(dir, n)[i] = Fragment(dir, Ring[j], FragmentNum(dir, i, 0))
  <2>1. Sources(dir, j, 0) = {Ring[j]}
    BY <1>1, SourcesAreRanks
  <2>2. FragmentNum(dir, i, 0) \in Index
    BY <1>3, FragmentNums
  <2>3. Ring[j] \in Rank
    BY RingBijects
  <2>4. Fragment(dir, Ring[j], FragmentNum(dir, i, 0)) = Frag(dir, {Ring[j]}, FragmentNum(dir, i, 0))
    BY <1>1, <2>2, <2>3, FragmentIs
  <2> QED BY <1>2, <1>3, <2>1, <2>4 DEF Arrived
<1>4. ASSUME n > 0 PROVE Arrived(dir, n)[i] = Reducing(dir, n)[j]
  <2>1. FragmentNum(dir, j, n - 1) = FragmentNum(dir, i, n)
    BY <1>2, <1>4, FragmentNums
  <2> QED BY <1>2, <2>1 DEF Arrived, Reducing
<1> QED BY <1>2, <1>3, <1>4

LEMMA FragsJoin ==
  ASSUME RingsFit, RingCallOK, NEW dir \in Direction, NEW f \in Index, NEW S, NEW T
  PROVE  /\ OpInPlace(Frag(dir, S, f), Frag(dir, T, f)) = Frag(dir, S \cup T, f)
         /\ S \cap T = {} => Match(Frag(dir, S, f), Frag(dir, T, f))
PROOF
<1>1. PICK b \in Nat, e \in Nat : b = FragBegin(dir, f) /\ e = FragEnd(dir, f) /\ b <= e
  BY FragmentIs
<1>2. /\ OpInPlace(Cut(S, b, e), Cut(T, b, e)) = Cut(S \cup T, b, e)
      /\ S \cap T = {} => Match(Cut(S, b, e), Cut(T, b, e))
  BY <1>1, CutsJoin
<1> QED BY <1>1, <1>2 DEF Frag

LEMMA FragTyped ==
  ASSUME RingsFit, RingCallOK, NEW dir \in Direction, NEW f \in Index, NEW S, S \subseteq Rank
  PROVE  Frag(dir, S, f) \in Seq(Element)
PROOF
<1>1. PICK b \in Nat, e \in Nat :
        b = FragBegin(dir, f) /\ e = FragEnd(dir, f) /\ b <= e /\ e <= ringCall.elements
  BY FragmentIs
<1>2. Cut(S, b, e) \in Seq(SUBSET (S \X (1 .. e)))
  BY <1>1, CutIsSeq
<1>3. 1 .. e \subseteq 1 .. ringCall.elements
  BY <1>1, CallProps
<1>4. SUBSET (S \X (1 .. e)) \subseteq Element
  BY <1>3 DEF Element
<1> QED BY <1>1, <1>2, <1>4, SeqMonotonic DEF Frag

\* A step with a local fragment
LEMMA Reduces ==
  ASSUME RingsFit, RingCallOK, N > 1, NEW dir \in Directions(ReduceMethod), NEW n \in Nat,
         n < SendSteps(ReduceMethod, dir), n + 1 < N, NEW i \in Index,
         NEW a, NEW b, a = Arrived(dir, n)[i], b = Fragment(dir, Ring[i], FragmentNum(dir, i, n))
  PROVE  /\ Match(a, b)
         /\ OpInPlace(a, b) = Reducing(dir, n + 1)[i]
PROOF
<1>1. dir \in Direction
  BY MethodProps
<1>2. PICK f \in Index : f = FragmentNum(dir, i, n)
  BY FragmentNums
<1>3. b = Frag(dir, {Ring[i]}, f)
  <2>1. Ring[i] \in Rank
    BY RingBijects
  <2> QED BY <1>1, <1>2, <2>1, FragmentIs
<1>4. a = Frag(dir, Sources(dir, Behind(dir, i, 1), n), f)
  BY <1>2 DEF Arrived
<1>5. /\ Sources(dir, Behind(dir, i, 1), n) \cup {Ring[i]} = Sources(dir, i, n + 1)
      /\ Sources(dir, Behind(dir, i, 1), n) \cap {Ring[i]} = {}
  BY <1>1, SourcesGrow
<1>6. Reducing(dir, n + 1)[i] = Frag(dir, Sources(dir, i, n + 1), f)
  <2>1. (n + 1) - 1 = n
    OBVIOUS
  <2> QED BY <1>2, <2>1 DEF Reducing
<1> QED BY <1>1, <1>3, <1>4, <1>5, <1>6, FragsJoin

\* The last step of a meeting in the middle
LEMMA Meets ==
  ASSUME RingsFit, RingCallOK, N > 1, ReduceMethod = "MEET_IN_MIDDLE_RING",
         NEW n \in Nat, n + 1 = NumSteps(ReduceMethod), NEW i \in Index,
         NEW a, NEW b, a = Arrived("anticlockwise", n)[i], b = Reducing("clockwise", n)[i]
  PROVE  /\ Match(a, b)
         /\ OpInPlace(a, b) = Frag("anticlockwise", Rank, i)
PROOF
<1> DEFINE cw == "clockwise"
           acw == "anticlockwise"
<1>1. cw \in Directions(ReduceMethod) /\ acw \in Directions(ReduceMethod)
  BY DEF Directions, Direction
<1>2. PICK h \in Nat \ {0} : h = NumSteps(ReduceMethod) /\ N = 2 * h /\ h > 1
  BY MethodProps, ReduceProps
<1>3. n = h - 1 /\ n > 0 /\ n - 1 \in Nat
  BY <1>2
<1>4. SendSteps(ReduceMethod, cw) = (n - 1) + 1 /\ SendSteps(ReduceMethod, acw) = n + 1
  BY <1>2, <1>3 DEF SendSteps
<1>5. FragmentNum(acw, i, n) = i
  BY <1>1, <1>3, <1>4, FragmentNums
<1>6. FragmentNum(cw, i, n - 1) = i
  BY <1>1, <1>3, <1>4, FragmentNums
<1>7. a = Frag(acw, Sources(acw, Behind(acw, i, 1), n), i)
  BY <1>5 DEF Arrived
<1>8. b = Frag(cw, Sources(cw, i, n), i)
  BY <1>6 DEF Reducing
<1>9. \A S : Frag(cw, S, i) = Frag(acw, S, i)
  BY DEF Frag, FragBegin, FragEnd
<1>10. /\ Sources(cw, i, n) \cup Sources(acw, Behind(acw, i, 1), n) = Rank
       /\ Sources(cw, i, n) \cap Sources(acw, Behind(acw, i, 1), n) = {}
  BY <1>2, <1>3, SourcesMeet
<1>11. acw \in Direction
  BY DEF Direction
<1>12. /\ Sources(acw, Behind(acw, i, 1), n) \cup Sources(cw, i, n) = Rank
       /\ Sources(acw, Behind(acw, i, 1), n) \cap Sources(cw, i, n) = {}
  BY <1>10
<1>13. b = Frag(acw, Sources(cw, i, n), i)
  BY <1>8, <1>9
<1>14. PICK S, T : S = Sources(acw, Behind(acw, i, 1), n) /\ T = Sources(cw, i, n)
  OBVIOUS
<1>15. /\ OpInPlace(Frag(acw, S, i), Frag(acw, T, i)) = Frag(acw, S \cup T, i)
       /\ S \cap T = {} => Match(Frag(acw, S, i), Frag(acw, T, i))
  BY <1>11, FragsJoin
<1> QED BY <1>7, <1>12, <1>13, <1>14, <1>15

\* After all steps of a direction on a full turn of the ring
LEMMA FullTurn ==
  ASSUME RingsFit, RingCallOK, N > 1, ReduceMethod # "MEET_IN_MIDDLE_RING",
         NEW dir \in Directions(ReduceMethod), NEW i \in Index
  PROVE  Reducing(dir, N - 1)[i] = Frag(dir, Rank, i)
PROOF
<1>1. dir \in Direction /\ NumSteps(ReduceMethod) = N - 1
  BY MethodProps
<1>2. PICK s \in Nat : s = (N - 1) - 1 /\ s + 1 = N - 1
  BY CallProps
<1>3. SendSteps(ReduceMethod, dir) = s + 1
  BY <1>1, <1>2 DEF SendSteps
<1>4. FragmentNum(dir, i, s) = i
  BY <1>2, <1>3, FragmentNums
<1>5. Sources(dir, i, N - 1) = Rank
  BY <1>1, SourcesAreRanks
<1> QED BY <1>2, <1>4, <1>5 DEF Reducing

-----------------------------------------------------------------------------
(* The invariant *)

\* Between steps each direction is as far as its steps, or meets the other.
CopyInv ==
  ringPhase = "copy" =>
    /\ N > 1 /\ ringStep < NumSteps(ReduceMethod)
    /\ ringStep > 0 => \A dir \in Directions(ReduceMethod) : data[dir] = Reducing(dir, ringStep)

ReduceInv ==
  ringPhase = "reduce" =>
    /\ N > 1 /\ ringStep < NumSteps(ReduceMethod)
    /\ \A dir \in Directions(ReduceMethod) :
         data[dir] = IF ringStep < SendSteps(ReduceMethod, dir) THEN Arrived(dir, ringStep)
                     ELSE Reducing(dir, ringStep)

\* In the end each index has its own fragment, reduced over all ranks.
ScatterInv ==
  ringPhase = "chunks" /\ N > 1 =>
    \A dir \in Directions(ReduceMethod) :
      \/ ReduceMethod = "MEET_IN_MIDDLE_RING" /\ dir = "clockwise"
      \/ data[dir] = [i \in Index |-> Frag(dir, Rank, i)]

ChunksInv ==
  chunks = IF ringPhase \in {"gather", "done"}
             THEN [rank \in Rank |-> [tensor |-> Piece(Total, At(rank), N), index |-> At(rank)]]
             ELSE <<>>

\* A part of the j'th chunk, and what has come in a direction after n steps
ChunkPart(p, j) == Piece(Piece(Total, j, N), p, Parts)
Passed(dir, n) ==
  [i \in Index |-> [tensor |-> ChunkPart(PartOf(dir), Behind(dir, i, n)), index |-> Behind(dir, i, n)]]

PassingInv ==
  ringPhase = "gather" =>
    /\ ringStep <= NumSteps(ringCall.gather)
    /\ ringStep > 0 =>
         \A dir \in Directions(ringCall.gather) :
           ringStep <= SendSteps(ringCall.gather, dir) => passing[dir] = Passed(dir, ringStep)

\* The numbers of what has come to an index in a direction, and of all that a rank
\* has, after n steps
Came(dir, i, n) ==
  {<<PartOf(dir), Behind(dir, i, d)>> : d \in {c \in 1 .. n : c <= SendSteps(ringCall.gather, dir)}}
Held(rank, n) ==
  ((0 .. Parts - 1) \X {At(rank)})
    \cup UNION {Came(dir, At(rank), n) : dir \in Directions(ringCall.gather)}

\* A rank has gathered what has come to it, each the part that belongs there.
ResultsInv ==
  ringPhase = "gather" =>
    \A rank \in Rank :
      /\ DOMAIN results[rank] = Held(rank, ringStep)
      /\ \A p \in DOMAIN results[rank] : results[rank][p] = ChunkPart(p[1], p[2])

OutputInv == ringOutput = IF ringPhase = "done" THEN [rank \in Rank |-> Total] ELSE <<>>

RingInv ==
  /\ RingTypeOK /\ CopyInv /\ ReduceInv /\ ScatterInv /\ ChunksInv /\ PassingInv /\ ResultsInv
  /\ OutputInv

\* What depends on the call alone stays.
LEMMA Kept ==
  ASSUME ringCall' = ringCall
  PROVE  /\ N' = N /\ Index' = Index /\ Rank' = Rank /\ Ring' = Ring /\ Total' = Total
         /\ Element' = Element /\ ReduceMethod' = ReduceMethod /\ Parts' = Parts
         /\ \A dir, n : Reducing(dir, n)' = Reducing(dir, n) /\ Arrived(dir, n)' = Arrived(dir, n)
         /\ \A dir, S, f : Frag(dir, S, f)' = Frag(dir, S, f)
         /\ \A rank : At(rank)' = At(rank)
         /\ \A p, j : ChunkPart(p, j)' = ChunkPart(p, j)
         /\ \A dir, n : Passed(dir, n)' = Passed(dir, n)
         /\ \A rank, n : Held(rank, n)' = Held(rank, n)
         /\ \A method, dir : SendSteps(method, dir)' = SendSteps(method, dir)
         /\ \A method : NumSteps(method)' = NumSteps(method)
PROOF
<1>1. N' = N /\ ringCall.elements' = ringCall.elements
  BY DEF N
<1>2. Index' = Index /\ Rank' = Rank
  BY <1>1 DEF Index, Rank
<1>3. ReduceMethod' = ReduceMethod /\ Parts' = Parts
  BY <1>1 DEF ReduceMethod, Parts
<1>4. \A dir, f : FragBegin(dir, f)' = FragBegin(dir, f)
  BY <1>1, <1>3 DEF FragBegin, PairedMark, Mark
<1>5. \A dir, f : FragEnd(dir, f)' = FragEnd(dir, f)
  BY <1>1, <1>3 DEF FragEnd, PairedEnd, Mark
<1>6. \A dir, S, f : Frag(dir, S, f)' = Frag(dir, S, f)
  BY <1>4, <1>5 DEF Frag, Cut
<1>7. Ring' = Ring
  BY <1>1, <1>2 DEF Ring
<1>8. \A dir, i, n : Behind(dir, i, n)' = Behind(dir, i, n)
  BY <1>1, <1>2 DEF Behind, Turn
<1>9. \A dir, i, n : Sources(dir, i, n)' = Sources(dir, i, n)
  BY <1>7, <1>8 DEF Sources
<1>10. \A method : NumSteps(method)' = NumSteps(method)
  BY <1>1 DEF NumSteps
<1>11. \A dir, i, s : FragmentNum(dir, i, s)' = FragmentNum(dir, i, s)
  BY <1>1, <1>3, <1>10 DEF FragmentNum, AsSize
<1>12. \A method, dir : SendSteps(method, dir)' = SendSteps(method, dir)
  BY <1>10 DEF SendSteps
<1>13. \A dir, n : Reducing(dir, n)' = Reducing(dir, n)
  BY <1>2, <1>6, <1>9, <1>11 DEF Reducing
<1>14. \A dir, n : Arrived(dir, n)' = Arrived(dir, n)
  BY <1>2, <1>6, <1>8, <1>9, <1>11 DEF Arrived
<1>15. Total' = Total /\ Element' = Element
  BY <1>1, <1>2 DEF Total, Element
<1>16. \A rank : At(rank)' = At(rank)
  BY <1>2, <1>7 DEF At
<1>17. \A p, j : ChunkPart(p, j)' = ChunkPart(p, j)
  BY <1>1, <1>3, <1>15 DEF ChunkPart, Piece, AsUnsigned
<1>18. \A dir : PartOf(dir)' = PartOf(dir)
  BY <1>3 DEF PartOf
<1>19. \A dir, n : Passed(dir, n)' = Passed(dir, n)
  BY <1>2, <1>8, <1>17, <1>18 DEF Passed
<1>20. Directions(ringCall.gather)' = Directions(ringCall.gather)
  BY DEF Directions, Direction
<1>21. \A dir, i, n : Came(dir, i, n)' = Came(dir, i, n)
  BY <1>8, <1>12, <1>18 DEF Came
<1>22. \A rank, n : Held(rank, n)' = Held(rank, n)
  BY <1>3, <1>16, <1>20, <1>21 DEF Held
<1> QED BY <1>1, <1>2, <1>3, <1>6, <1>7, <1>10, <1>12, <1>13, <1>14, <1>15, <1>16, <1>17, <1>19,
           <1>22

LEMMA ReducingTyped ==
  ASSUME RingsFit, RingCallOK, N > 1, NEW dir \in Directions(ReduceMethod), NEW n \in Nat
  PROVE  /\ n < SendSteps(ReduceMethod, dir) => Arrived(dir, n) \in [Index -> Seq(Element)]
         /\ n > 0 /\ n <= SendSteps(ReduceMethod, dir) =>
              Reducing(dir, n) \in [Index -> Seq(Element)]
         /\ [i \in Index |-> Frag(dir, Rank, i)] \in [Index -> Seq(Element)]
PROOF
<1>1. dir \in Direction
  BY MethodProps
<1>2. PICK m \in Nat \ {0} : m = N
  BY CallProps
<1>3. SendSteps(ReduceMethod, dir) <= N - 1 /\ SendSteps(ReduceMethod, dir) \in Nat
  BY <1>2, MethodProps, ReduceProps DEF SendSteps
<1>4. ASSUME n < SendSteps(ReduceMethod, dir), NEW i \in Index
      PROVE  Frag(dir, Sources(dir, Behind(dir, i, 1), n), FragmentNum(dir, i, n)) \in Seq(Element)
  <2>1. FragmentNum(dir, i, n) \in Index
    BY <1>4, FragmentNums
  <2>2. PICK j \in Index : j = Behind(dir, i, 1)
    BY <1>1, RecvBehind
  <2>3. n \in 0 .. N - 1
    BY <1>2, <1>3, <1>4
  <2>4. Sources(dir, j, n) \subseteq Rank
    BY <1>1, <2>3, SourcesAreRanks
  <2> QED BY <1>1, <2>1, <2>2, <2>4, FragTyped
<1>5. ASSUME n > 0, n <= SendSteps(ReduceMethod, dir), NEW i \in Index
      PROVE  Frag(dir, Sources(dir, i, n), FragmentNum(dir, i, n - 1)) \in Seq(Element)
  <2>1. PICK s \in Nat : s = n - 1 /\ s < SendSteps(ReduceMethod, dir)
    BY <1>3, <1>5
  <2>2. FragmentNum(dir, i, s) \in Index
    BY <2>1, FragmentNums
  <2>3. n \in 0 .. N - 1
    BY <1>2, <1>3, <1>5
  <2>4. Sources(dir, i, n) \subseteq Rank
    BY <1>1, <2>3, SourcesAreRanks
  <2> QED BY <1>1, <2>1, <2>2, <2>4, FragTyped
<1>6. \A i \in Index : Frag(dir, Rank, i) \in Seq(Element)
  BY <1>1, FragTyped
<1> QED BY <1>4, <1>5, <1>6 DEF Arrived, Reducing

LEMMA TypeKept ==
  ASSUME RingTypeOK, ringCall' = ringCall, chunks' = chunks, passing' = passing,
         ringOutput' = ringOutput, ringPhase' \in {"copy", "reduce", "chunks"},
         ringStep' \in 0 .. N - 1,
         \A dir \in Direction : data'[dir] = data[dir] \/ data'[dir] \in [Index -> Seq(Element)]
  PROVE  RingTypeOK'
PROOF
<1>1. N' = N /\ Index' = Index /\ Rank' = Rank /\ Element' = Element
  BY Kept
<1>2. ringCall' \in RingCalls /\ ringPhase' \in {"copy", "reduce", "chunks", "gather", "done"}
      /\ ringStep' \in 0 .. N' - 1
  BY <1>1 DEF RingTypeOK
<1>3. ASSUME NEW dir \in Direction
      PROVE  /\ data'[dir] = <<>> \/ data'[dir] \in [Index' -> Seq(Element')]
             /\ passing'[dir] = <<>>
                \/ passing'[dir] \in [Index' -> [tensor : Seq(Element'), index : Index']]
  BY <1>1, Zenon DEF RingTypeOK
<1>4. /\ chunks' = <<>> \/ chunks' \in [Rank' -> [tensor : Seq(Element'), index : Index']]
      /\ ringOutput' = <<>> \/ ringOutput' \in [Rank' -> Seq(Element')]
  BY <1>1, Zenon DEF RingTypeOK
<1> QED BY <1>2, <1>3, <1>4 DEF RingTypeOK

\* Copying brings what the neighbour is to send.
LEMMA CopyKeeps ==
  ASSUME RingsFit, RingInv, Copy
  PROVE  RingInv'
PROOF
<1>1. RingCallOK /\ N > 1 /\ ringStep \in Nat /\ ringStep < NumSteps(ReduceMethod)
  BY CallProps DEF RingInv, RingTypeOK, CopyInv, Copy, RingCallOK
<1>2. /\ ringPhase = "copy" /\ ringPhase' = "reduce" /\ ringCall' = ringCall
      /\ ringStep' = ringStep /\ chunks' = chunks /\ passing' = passing /\ results' = results
      /\ ringOutput' = ringOutput
  BY DEF Copy
<1>3. ASSUME NEW dir \in Directions(ReduceMethod)
      PROVE  data'[dir] = IF ringStep < SendSteps(ReduceMethod, dir) THEN Arrived(dir, ringStep)
                          ELSE Reducing(dir, ringStep)
  <2>1. dir \in Direction
    BY <1>1, MethodProps
  <2>2. CASE ringStep < SendSteps(ReduceMethod, dir)
    <3>1. dir \in Sends(ReduceMethod, ringStep)
      <4>1. ringStep \in 0 .. NumSteps(ReduceMethod) - 1
        BY <1>1, MethodProps
      <4> QED BY <1>1, <2>1, <2>2, <4>1, MethodProps
    <3>2. data'[dir] = [i \in Index |->
                          IF ringStep = 0 THEN Fragment(dir, Ring[RecvIndex(dir, i)], FragmentNum(dir, i, 0))
                          ELSE data[dir][RecvIndex(dir, i)]]
      BY <2>1, <3>1 DEF Copy
    <3>3. \A i \in Index :
            /\ ringStep = 0 => Arrived(dir, ringStep)[i]
                                 = Fragment(dir, Ring[RecvIndex(dir, i)], FragmentNum(dir, i, 0))
            /\ ringStep > 0 => Arrived(dir, ringStep)[i] = Reducing(dir, ringStep)[RecvIndex(dir, i)]
      BY <1>1, <2>2, Arrives
    <3>4. ringStep > 0 => data[dir] = Reducing(dir, ringStep)
      BY <1>2 DEF RingInv, CopyInv
    <3>5. Arrived(dir, ringStep) = [i \in Index |-> Arrived(dir, ringStep)[i]]
      BY DEF Arrived
    <3>6. CASE ringStep = 0
      BY <2>2, <3>2, <3>3, <3>5, <3>6
    <3>7. CASE ringStep > 0
      BY <2>2, <3>2, <3>3, <3>4, <3>5, <3>7
    <3> QED BY <1>1, <3>6, <3>7
  <2>3. CASE ~ (ringStep < SendSteps(ReduceMethod, dir))
    <3>1. dir \notin Sends(ReduceMethod, ringStep)
      <4>1. ringStep \in 0 .. NumSteps(ReduceMethod) - 1
        BY <1>1, MethodProps
      <4> QED BY <1>1, <2>1, <2>3, <4>1, MethodProps
    <3>2. data'[dir] = data[dir]
      BY <2>1, <3>1 DEF Copy
    <3>3. ringStep > 0
      BY <1>1, <2>3, ReduceProps, MethodProps DEF SendSteps
    <3> QED BY <1>2, <2>3, <3>2, <3>3 DEF RingInv, CopyInv
  <2> QED BY <2>2, <2>3
<1>4. ReduceInv'
  <2>1. \A dir \in Directions(ReduceMethod) :
          data'[dir] = IF ringStep < SendSteps(ReduceMethod, dir) THEN Arrived(dir, ringStep)
                       ELSE Reducing(dir, ringStep)
    BY <1>3
  <2>2. Directions(ReduceMethod)' = Directions(ReduceMethod)
    BY <1>2, Kept DEF Directions, Direction
  <2> QED BY <1>1, <1>2, <2>1, <2>2, Kept DEF ReduceInv
<1>5. RingTypeOK'
  <2>1. ASSUME NEW dir \in Direction
        PROVE  data'[dir] = data[dir] \/ data'[dir] \in [Index -> Seq(Element)]
    <3>1. CASE dir \in Directions(ReduceMethod)
      <4>1. \/ ringStep < SendSteps(ReduceMethod, dir)
            \/ ringStep > 0 /\ ringStep <= SendSteps(ReduceMethod, dir)
        BY <1>1, <2>1, MethodProps, ReduceProps DEF SendSteps
      <4>2. CASE ringStep < SendSteps(ReduceMethod, dir)
        BY <1>1, <1>3, <3>1, <4>2, ReducingTyped
      <4>3. CASE ~ (ringStep < SendSteps(ReduceMethod, dir))
        BY <1>1, <1>3, <3>1, <4>1, <4>3, ReducingTyped
      <4> QED BY <4>2, <4>3
    <3>2. CASE dir \notin Directions(ReduceMethod)
      <4>1. dir \notin Sends(ReduceMethod, ringStep)
        BY <3>2 DEF Sends
      <4> QED BY <2>1, <4>1 DEF Copy
    <3> QED BY <3>1, <3>2
  <2>2. ringStep' \in 0 .. N - 1
    BY <1>2 DEF RingInv, RingTypeOK
  <2> QED BY <1>2, <2>1, <2>2, TypeKept DEF RingInv
<1>6. CopyInv' /\ ScatterInv' /\ PassingInv' /\ ResultsInv'
  BY <1>2 DEF CopyInv, ScatterInv, PassingInv, ResultsInv
<1>7. ChunksInv' /\ OutputInv'
  BY <1>2 DEF RingInv, ChunksInv, OutputInv
<1> QED BY <1>4, <1>5, <1>6, <1>7 DEF RingInv

\* The operands of a step match, and give what is to be there after it.
LEMMA Operands ==
  ASSUME RingsFit, RingInv, ringPhase = "reduce",
         NEW dir \in Sends(ReduceMethod, ringStep), NEW i \in Index
  PROVE  /\ dir \in Directions(ReduceMethod) /\ ringStep < SendSteps(ReduceMethod, dir)
         /\ Match(data[dir][i], Local(dir, i))
         /\ OpInPlace(data[dir][i], Local(dir, i))
              = IF ReduceMethod = "MEET_IN_MIDDLE_RING" /\ ringStep + 1 = NumSteps(ReduceMethod)
                  THEN Frag(dir, Rank, i) ELSE Reducing(dir, ringStep + 1)[i]
PROOF
<1>1. RingCallOK /\ N > 1 /\ ringStep \in Nat /\ ringStep < NumSteps(ReduceMethod)
  BY CallProps DEF RingInv, RingTypeOK, ReduceInv, RingCallOK
<1>2. NumSteps(ReduceMethod) \in 0 .. N - 1 /\ N \in Nat
  BY <1>1, CallProps, MethodProps
<1>3. dir \in Directions(ReduceMethod) /\ ringStep < SendSteps(ReduceMethod, dir)
  <2>1. ringStep \in 0 .. NumSteps(ReduceMethod) - 1
    BY <1>1, <1>2
  <2>2. dir \in Directions(ReduceMethod) /\ dir \in Direction
    BY <1>1, MethodProps DEF Sends
  <2> QED BY <1>1, <2>1, <2>2, MethodProps
<1>4. data[dir][i] = Arrived(dir, ringStep)[i]
  BY <1>3 DEF RingInv, ReduceInv
<1>5. CASE ReduceMethod = "MEET_IN_MIDDLE_RING" /\ ringStep + 1 = NumSteps(ReduceMethod)
  <2>1. dir = "anticlockwise"
    BY <1>1, <1>2, <1>3, <1>5, MethodProps DEF SendSteps, Direction
  <2>2. "clockwise" \in Directions(ReduceMethod)
    BY <1>5 DEF Directions, Direction
  <2>3. ~ (ringStep < SendSteps(ReduceMethod, "clockwise"))
    BY <1>1, <1>2, <1>5 DEF SendSteps
  <2>4. data["clockwise"][i] = Reducing("clockwise", ringStep)[i]
    BY <2>2, <2>3 DEF RingInv, ReduceInv
  <2>5. Local(dir, i) = data["clockwise"][i]
    <3>1. ringStep = NumSteps(ReduceMethod) - 1
      BY <1>1, <1>2, <1>5
    <3> QED BY <1>5, <3>1 DEF Local
  <2> QED BY <1>1, <1>3, <1>4, <1>5, <2>1, <2>4, <2>5, Meets
<1>6. CASE ~ (ReduceMethod = "MEET_IN_MIDDLE_RING" /\ ringStep + 1 = NumSteps(ReduceMethod))
  <2>1. Local(dir, i) = Fragment(dir, Ring[i], FragmentNum(dir, i, ringStep))
    <3>1. ~ (ReduceMethod = "MEET_IN_MIDDLE_RING" /\ ringStep = NumSteps(ReduceMethod) - 1)
      BY <1>1, <1>2, <1>6
    <3> QED BY <3>1 DEF Local
  <2>2. ringStep + 1 < N
    BY <1>1, <1>2
  <2>3. PICK a, b : a = data[dir][i] /\ b = Local(dir, i)
    OBVIOUS
  <2>4. a = Arrived(dir, ringStep)[i] /\ b = Fragment(dir, Ring[i], FragmentNum(dir, i, ringStep))
    BY <1>4, <2>1, <2>3
  <2>5. Match(a, b) /\ OpInPlace(a, b) = Reducing(dir, ringStep + 1)[i]
    BY <1>1, <1>3, <2>2, <2>4, Reduces
  <2> QED BY <1>3, <1>6, <2>3, <2>5
<1> QED BY <1>5, <1>6

\* Reducing a step goes on to the next, or leaves each index its fragment.
LEMMA ReduceKeeps ==
  ASSUME RingsFit, RingInv, Reduce
  PROVE  RingInv'
PROOF
<1>1. RingCallOK /\ N > 1 /\ ringStep \in Nat /\ ringStep < NumSteps(ReduceMethod)
  BY CallProps DEF RingInv, RingTypeOK, ReduceInv, Reduce, RingCallOK
<1>2. NumSteps(ReduceMethod) \in 0 .. N - 1 /\ N \in Nat
  BY <1>1, CallProps, MethodProps
<1>3. /\ ringPhase = "reduce" /\ ringCall' = ringCall /\ ringStep' = ringStep + 1
      /\ ringPhase' = IF ringStep + 1 = NumSteps(ReduceMethod) THEN "chunks" ELSE "copy"
      /\ chunks' = chunks /\ passing' = passing /\ results' = results /\ ringOutput' = ringOutput
  BY DEF Reduce
<1> DEFINE Meeting == ReduceMethod = "MEET_IN_MIDDLE_RING" /\ ringStep + 1 = NumSteps(ReduceMethod)
<1>4. ASSUME NEW dir \in Directions(ReduceMethod), ringStep < SendSteps(ReduceMethod, dir)
      PROVE  data'[dir] = IF Meeting THEN [i \in Index |-> Frag(dir, Rank, i)]
                          ELSE Reducing(dir, ringStep + 1)
  <2>1. dir \in Direction /\ dir \in Sends(ReduceMethod, ringStep)
    <3>1. ringStep \in 0 .. NumSteps(ReduceMethod) - 1 /\ dir \in Direction
      BY <1>1, <1>2, MethodProps
    <3> QED BY <1>1, <1>4, <3>1, MethodProps
  <2>2. data'[dir] = [i \in Index |-> OpInPlace(data[dir][i], Local(dir, i))]
    BY <2>1 DEF Reduce
  <2>3. \A i \in Index : OpInPlace(data[dir][i], Local(dir, i))
                           = IF Meeting THEN Frag(dir, Rank, i) ELSE Reducing(dir, ringStep + 1)[i]
    BY <1>3, <2>1, Operands
  <2>4. Reducing(dir, ringStep + 1) = [i \in Index |-> Reducing(dir, ringStep + 1)[i]]
    BY DEF Reducing
  <2> HIDE DEF Meeting
  <2>5. CASE Meeting
    BY <2>2, <2>3, <2>5
  <2>6. CASE ~ Meeting
    BY <2>2, <2>3, <2>4, <2>6
  <2> QED BY <2>5, <2>6
<1>5. ASSUME NEW dir \in Direction, ~ (ringStep < SendSteps(ReduceMethod, dir))
      PROVE  ReduceMethod = "MEET_IN_MIDDLE_RING" /\ dir = "clockwise"
             /\ ringStep + 1 = NumSteps(ReduceMethod) /\ data'[dir] = data[dir]
  <2>1. ReduceMethod = "MEET_IN_MIDDLE_RING" /\ dir = "clockwise" /\ ringStep = NumSteps(ReduceMethod) - 1
    BY <1>1, <1>2, <1>5 DEF SendSteps
  <2>2. dir \notin Sends(ReduceMethod, ringStep)
    BY <2>1 DEF Sends
  <2> QED BY <1>1, <1>2, <2>1, <2>2 DEF Reduce
<1>6. ASSUME NEW dir \in Direction
      PROVE  data'[dir] = data[dir] \/ data'[dir] \in [Index -> Seq(Element)]
  <2>1. CASE dir \in Directions(ReduceMethod) /\ ringStep < SendSteps(ReduceMethod, dir)
    <3>1. ringStep + 1 \in Nat /\ ringStep + 1 > 0 /\ ringStep + 1 <= SendSteps(ReduceMethod, dir)
      BY <1>1, <1>2, <2>1 DEF SendSteps
    <3>2. /\ Reducing(dir, ringStep + 1) \in [Index -> Seq(Element)]
          /\ [i \in Index |-> Frag(dir, Rank, i)] \in [Index -> Seq(Element)]
      BY <1>1, <2>1, <3>1, ReducingTyped
    <3> HIDE DEF Meeting
    <3> QED BY <1>4, <2>1, <3>2
  <2>2. CASE dir \notin Directions(ReduceMethod)
    <3>1. dir \notin Sends(ReduceMethod, ringStep)
      BY <2>2 DEF Sends
    <3> QED BY <3>1 DEF Reduce
  <2>3. CASE ~ (ringStep < SendSteps(ReduceMethod, dir))
    BY <1>5, <2>3
  <2> QED BY <2>1, <2>2, <2>3
<1>7. RingTypeOK'
  <2>1. ringStep' \in 0 .. N - 1
    BY <1>1, <1>2, <1>3
  <2> QED BY <1>3, <1>6, <2>1, TypeKept DEF RingInv
<1>8. Directions(ReduceMethod)' = Directions(ReduceMethod)
  BY <1>3, Kept DEF Directions, Direction
<1>9. CopyInv'
  <2> SUFFICES ASSUME ringStep + 1 # NumSteps(ReduceMethod)
               PROVE  /\ N > 1 /\ ringStep + 1 < NumSteps(ReduceMethod)
                      /\ \A dir \in Directions(ReduceMethod) : data'[dir] = Reducing(dir, ringStep + 1)
    BY <1>3, <1>8, Kept DEF CopyInv
  <2>1. \A dir \in Directions(ReduceMethod) : ringStep < SendSteps(ReduceMethod, dir)
    BY <1>1, <1>2 DEF SendSteps
  <2> QED BY <1>1, <1>2, <1>4, <2>1
<1>10. ScatterInv'
  <2> SUFFICES ASSUME ringStep + 1 = NumSteps(ReduceMethod), NEW dir \in Directions(ReduceMethod),
                      ~ (ReduceMethod = "MEET_IN_MIDDLE_RING" /\ dir = "clockwise")
               PROVE  data'[dir] = [i \in Index |-> Frag(dir, Rank, i)]
    BY <1>3, <1>8, Kept DEF ScatterInv
  <2>1. ringStep < SendSteps(ReduceMethod, dir)
    BY <1>1, <1>2 DEF SendSteps
  <2>2. CASE ReduceMethod = "MEET_IN_MIDDLE_RING"
    BY <1>4, <2>1, <2>2
  <2>3. CASE ReduceMethod # "MEET_IN_MIDDLE_RING"
    <3>1. ringStep + 1 = N - 1
      BY <1>1, <2>3, MethodProps
    <3>2. \A i \in Index : Reducing(dir, N - 1)[i] = Frag(dir, Rank, i)
      BY <1>1, <2>3, FullTurn
    <3>3. Reducing(dir, N - 1) = [i \in Index |-> Reducing(dir, N - 1)[i]]
      BY DEF Reducing
    <3>4. data'[dir] = Reducing(dir, N - 1)
      BY <1>4, <2>1, <2>3, <3>1
    <3> QED BY <3>2, <3>3, <3>4
  <2> QED BY <2>2, <2>3
<1>11. ReduceInv' /\ PassingInv' /\ ResultsInv'
  BY <1>3 DEF ReduceInv, PassingInv, ResultsInv
<1>12. ChunksInv' /\ OutputInv'
  BY <1>3 DEF RingInv, ChunksInv, OutputInv
<1> QED BY <1>7, <1>9, <1>10, <1>11, <1>12 DEF RingInv

-----------------------------------------------------------------------------
(* Chunks *)

LEMMA CutsFollow ==
  ASSUME NEW S, NEW b \in Nat, NEW m \in Nat, NEW e \in Nat, b <= m, m <= e
  PROVE  Cut(S, b, m) \o Cut(S, m, e) = Cut(S, b, e)
PROOF
<1>1. PICK l \in Nat, n \in Nat : l = m - b /\ n = e - m
  OBVIOUS
<1>2. PICK s, t : s = Cut(S, b, m) /\ t = Cut(S, m, e)
  OBVIOUS
<1>3. PICK E : E = SUBSET (S \X (1 .. e))
  OBVIOUS
<1>4. s \in Seq(E) /\ Len(s) = l /\ \A j \in 1 .. l : s[j] = S \X {b + j}
  <2>1. /\ Cut(S, b, m) \in Seq(SUBSET (S \X (1 .. m))) /\ Len(Cut(S, b, m)) = m - b
        /\ \A k \in 1 .. m - b : Cut(S, b, m)[k] = S \X {b + k}
    <3>1. b \in Nat /\ m \in Nat /\ b <= m
      OBVIOUS
    <3>2. Cut(S, b, m) \in Seq(SUBSET (S \X (1 .. m)))
      BY <3>1, CutIsSeq, Zenon
    <3>3. Len(Cut(S, b, m)) = m - b
      BY <3>1, CutIsSeq, Zenon
    <3>4. \A k \in 1 .. m - b : Cut(S, b, m)[k] = S \X {b + k}
      BY DEF Cut
    <3> QED BY <3>2, <3>3, <3>4
  <2>2. 1 .. m \subseteq 1 .. e
    OBVIOUS
  <2>3. SUBSET (S \X (1 .. m)) \subseteq E
    BY <1>3, <2>2
  <2>4. s \in Seq(SUBSET (S \X (1 .. m)))
    BY <1>2, <2>1
  <2>5. s \in Seq(E)
    BY <2>3, <2>4, SeqMonotonic
  <2> QED BY <1>1, <1>2, <2>1, <2>5
<1>5. t \in Seq(E) /\ Len(t) = n /\ \A j \in 1 .. n : t[j] = S \X {m + j}
  <2>1. /\ Cut(S, m, e) \in Seq(SUBSET (S \X (1 .. e))) /\ Len(Cut(S, m, e)) = e - m
        /\ \A k \in 1 .. e - m : Cut(S, m, e)[k] = S \X {m + k}
    <3>1. m \in Nat /\ e \in Nat /\ m <= e
      OBVIOUS
    <3>2. Cut(S, m, e) \in Seq(SUBSET (S \X (1 .. e)))
      BY <3>1, CutIsSeq, Zenon
    <3>3. Len(Cut(S, m, e)) = e - m
      BY <3>1, CutIsSeq, Zenon
    <3>4. \A k \in 1 .. e - m : Cut(S, m, e)[k] = S \X {m + k}
      BY DEF Cut
    <3> QED BY <3>2, <3>3, <3>4
  <2> QED BY <1>1, <1>2, <1>3, <2>1
<1>6. s \o t = [j \in 1 .. l + n |-> IF j <= l THEN s[j] ELSE t[j - l]]
  <2>1. /\ s \o t \in Seq(E) /\ Len(s \o t) = l + n
        /\ \A j \in 1 .. l + n : (s \o t)[j] = IF j <= l THEN s[j] ELSE t[j - l]
    <3>1. s \in Seq(E) /\ t \in Seq(E) /\ l = Len(s) /\ n = Len(t)
      BY <1>4, <1>5
    <3>2. s \o t \in Seq(E)
      BY <3>1, ConcatProperties, Zenon
    <3>3. Len(s \o t) = l + n
      BY <3>1, ConcatProperties, Zenon
    <3>4. ASSUME NEW j \in 1 .. l + n
          PROVE  (s \o t)[j] = IF j <= l THEN s[j] ELSE t[j - l]
      BY <3>1, ConcatProperties, Zenon
    <3> QED BY <3>2, <3>3, <3>4
  <2>2. s \o t = [j \in 1 .. l + n |-> (s \o t)[j]]
    BY <2>1, LenProperties
  <2> QED BY <2>1, <2>2
<1>7. \A j \in 1 .. l + n : (IF j <= l THEN s[j] ELSE t[j - l]) = S \X {b + j}
  <2> SUFFICES ASSUME NEW j \in 1 .. l + n
               PROVE  (IF j <= l THEN s[j] ELSE t[j - l]) = S \X {b + j}
    OBVIOUS
  <2>1. CASE j <= l
    BY <1>4, <2>1
  <2>2. CASE j > l
    <3>1. j - l \in 1 .. n /\ m + (j - l) = b + j
      BY <1>1, <2>2
    <3>2. t[j - l] = S \X {m + (j - l)}
      BY <1>5, <3>1
    <3> QED BY <2>2, <3>1, <3>2
  <2> QED BY <2>1, <2>2
<1>8. e - b = l + n
  BY <1>1
<1> QED BY <1>2, <1>7, <1>8, <1>6 DEF Cut

LEMMA ChunkIs ==
  ASSUME RingsFit, RingCallOK, NEW i \in Index
  PROVE  /\ Piece(Total, i, N) = Cut(Rank, Mark(ringCall.elements, i, N), Mark(ringCall.elements, i + 1, N))
         /\ Mark(ringCall.elements, i, N) \in 0 .. ringCall.elements
         /\ Mark(ringCall.elements, i + 1, N) \in 0 .. ringCall.elements
         /\ Mark(ringCall.elements, i, N) <= Mark(ringCall.elements, i + 1, N)
         /\ Piece(Total, i, N) \in Seq(Element)
PROOF
<1>1. PICK m \in Nat \ {0}, e \in Nat, w \in Nat :
        m = N /\ e = ringCall.elements /\ w = 2^WordBits /\ 2 * m * e < w
  BY CallProps DEF RingsFit, CallFits, N
<1>2. e - 0 = e /\ 0 <= e /\ (e - 0) * m < 2^WordBits /\ i \in 0 .. m - 1
  <2>1. e * m \in Nat /\ 2 * m * e = 2 * (e * m)
    BY Z3
  <2> QED BY <1>1, <2>1 DEF Index
<1>3. /\ Piece(Cut(Rank, 0, e), i, m) = Cut(Rank, 0 + Mark(e - 0, i, m), 0 + Mark(e - 0, i + 1, m))
      /\ Mark(e - 0, i, m) \in 0 .. e - 0 /\ Mark(e - 0, i + 1, m) \in 0 .. e - 0
      /\ Mark(e - 0, i, m) <= Mark(e - 0, i + 1, m)
  BY <1>2, PieceOfCut
<1>4. PICK b \in 0 .. e, f \in 0 .. e : b = Mark(e, i, m) /\ f = Mark(e, i + 1, m) /\ b <= f
  BY <1>2, <1>3
<1>5. Piece(Total, i, m) = Cut(Rank, b, f)
  <2>1. 0 + b = b /\ 0 + f = f
    OBVIOUS
  <2>2. Total = Cut(Rank, 0, e)
    BY <1>1, Inputs
  <2> QED BY <1>2, <1>3, <1>4, <2>1, <2>2
<1>6. Cut(Rank, b, f) \in Seq(Element)
  <2>1. PICK S : S = Rank
    OBVIOUS
  <2>3. Cut(S, b, f) \in Seq(SUBSET (S \X (1 .. f)))
    <3>1. b \in Nat /\ f \in Nat /\ b <= f
      BY <1>4
    <3> QED BY <3>1, CutIsSeq, Zenon
  <2>2. SUBSET (S \X (1 .. f)) \subseteq Element
    <3>1. 1 .. f \subseteq 1 .. e
      OBVIOUS
    <3> QED BY <1>1, <2>1, <3>1 DEF Element
  <2> QED BY <2>1, <2>2, <2>3, SeqMonotonic
<1> QED BY <1>1, <1>4, <1>5, <1>6

\* Each index has reduced its own chunk.
LEMMA ReducedIs ==
  ASSUME RingsFit, RingInv, ringPhase = "chunks", NEW i \in Index
  PROVE  Reduced(i) = Piece(Total, i, N)
PROOF
<1>1. RingCallOK
  BY DEF RingInv, RingTypeOK, RingCallOK
<1>2. PICK m \in Nat \ {0}, e \in Nat : m = N /\ e = ringCall.elements
  BY <1>1, CallProps
<1>3. PICK b \in Nat, f \in Nat :
        b = Mark(e, i, m) /\ f = Mark(e, i + 1, m) /\ b <= f /\ Piece(Total, i, m) = Cut(Rank, b, f)
  BY <1>1, <1>2, ChunkIs
<1>4. CASE m = 1
  <2>1. i = 0 /\ i + 1 = m /\ Rank = {0}
    BY <1>2, <1>4 DEF Index, Rank
  <2>2. b = 0 /\ f = e
    BY <1>3, <2>1, MarkEnds
  <2>3. Input(0) = Cut({0}, 0, e)
    BY <1>1, <1>2, <2>1, Inputs
  <2>4. Reduced(i) = Input(0)
    BY <1>2, <1>4 DEF Reduced
  <2> QED BY <1>2, <1>3, <2>1, <2>2, <2>3, <2>4
<1>5. ASSUME m > 1, NEW dir \in Directions(ReduceMethod),
             ~ (ReduceMethod = "MEET_IN_MIDDLE_RING" /\ dir = "clockwise")
      PROVE  data[dir][i] = Cut(Rank, FragBegin(dir, i), FragEnd(dir, i))
  BY <1>2, <1>5 DEF RingInv, ScatterInv, Frag
<1>6. CASE m > 1 /\ ReduceMethod = "CLOCKWISE_RING"
  <2>1. Reduced(i) = data["clockwise"][i]
    BY <1>2, <1>6 DEF Reduced
  <2>2. FragBegin("clockwise", i) = b /\ FragEnd("clockwise", i) = f
    BY <1>2, <1>3, <1>6 DEF FragBegin, FragEnd
  <2>3. "clockwise" \in Directions(ReduceMethod)
    BY <1>6 DEF Directions
  <2> QED BY <1>2, <1>3, <1>5, <1>6, <2>1, <2>2, <2>3
<1>7. CASE m > 1 /\ ReduceMethod \notin {"CLOCKWISE_RING", "BIDIRECTIONAL_RING_PAIR"}
  <2>1. Reduced(i) = data["anticlockwise"][i]
    BY <1>2, <1>7 DEF Reduced
  <2>2. FragBegin("anticlockwise", i) = b /\ FragEnd("anticlockwise", i) = f
    BY <1>2, <1>3, <1>7 DEF FragBegin, FragEnd
  <2>3. "anticlockwise" \in Directions(ReduceMethod)
    BY <1>1, <1>7, ReduceProps DEF Directions, Direction, Method
  <2> QED BY <1>2, <1>3, <1>5, <1>7, <2>1, <2>2, <2>3
<1>8. CASE m > 1 /\ ReduceMethod = "BIDIRECTIONAL_RING_PAIR"
  <2>1. Reduced(i) = data["clockwise"][i] \o data["anticlockwise"][i]
    <3>1. N # 1 /\ N > 1 /\ ReduceMethod # "CLOCKWISE_RING"
      BY <1>2, <1>8
    <3> QED BY <1>8, <3>1, Zenon DEF Reduced
  <2>2. "clockwise" \in Directions(ReduceMethod) /\ "anticlockwise" \in Directions(ReduceMethod)
    BY <1>8 DEF Directions, Direction
  <2>3. PICK c \in Nat : /\ c = FragEnd("clockwise", i) /\ c = FragBegin("anticlockwise", i)
                         /\ FragBegin("clockwise", i) <= c /\ c <= FragEnd("anticlockwise", i)
    <3>1. FragEnd("clockwise", i) = FragBegin("anticlockwise", i)
      BY <1>8 DEF FragEnd, FragBegin, PairedEnd, PairedMark
    <3>2. "clockwise" \in Direction /\ "anticlockwise" \in Direction
      BY DEF Direction
    <3> QED BY <1>1, <3>1, <3>2, FragmentIs
  <2>4. FragBegin("clockwise", i) = b
    <3>1. i \in Nat
      BY <1>2 DEF Index
    <3>2. Mark(e, 2 * i, 2 * m) = Mark(e, i, m)
      BY <3>1, MarkTwice
    <3> QED BY <1>2, <1>3, <1>8, <3>2 DEF FragBegin, PairedMark
  <2>5. FragEnd("anticlockwise", i) = f
    <3>1. i + 1 \in Nat /\ 2 * (i + 1) = 2 * i + 1 + 1
      BY <1>2 DEF Index
    <3>2. Mark(e, 2 * (i + 1), 2 * m) = Mark(e, i + 1, m)
      BY <3>1, MarkTwice
    <3> QED BY <1>2, <1>3, <1>8, <3>1, <3>2 DEF FragEnd, PairedEnd
  <2>6. data["clockwise"][i] = Cut(Rank, b, c) /\ data["anticlockwise"][i] = Cut(Rank, c, f)
    BY <1>5, <1>8, <2>2, <2>3, <2>4, <2>5
  <2>7. Cut(Rank, b, c) \o Cut(Rank, c, f) = Cut(Rank, b, f)
    <3>1. b <= c /\ c <= f
      BY <2>3, <2>4, <2>5
    <3>2. PICK S : S = Rank
      OBVIOUS
    <3>3. Cut(S, b, c) \o Cut(S, c, f) = Cut(S, b, f)
      BY <3>1, CutsFollow, ZenonT(40)
    <3> QED BY <3>2, <3>3
  <2> QED BY <1>2, <1>3, <2>1, <2>6, <2>7
<1> QED BY <1>4, <1>6, <1>7, <1>8

\* Each rank has its chunk, and begins to gather with it.
LEMMA ChunksKeep ==
  ASSUME RingsFit, RingInv, CreateChunks
  PROVE  RingInv'
PROOF
<1>1. RingCallOK
  BY DEF RingInv, RingTypeOK, RingCallOK
<1>2. /\ ringPhase = "chunks" /\ ringPhase' = "gather" /\ ringStep' = 0 /\ ringCall' = ringCall
      /\ data' = data /\ passing' = passing /\ ringOutput' = ringOutput
      /\ chunks' = [rank \in Rank |-> [tensor |-> Reduced(At(rank)), index |-> At(rank)]]
      /\ results' = [rank \in Rank |->
                       [p \in (0 .. Parts - 1) \X {chunks'[rank].index} |->
                          Piece(chunks'[rank].tensor, p[1], Parts)]]
  BY DEF CreateChunks, At
<1>3. \A rank \in Rank : At(rank) \in Index
  BY <1>1, RingBijects
<1>4. \A rank \in Rank : Reduced(At(rank)) = Piece(Total, At(rank), N)
  BY <1>2, <1>3, ReducedIs
<1>5. chunks' = [rank \in Rank |-> [tensor |-> Piece(Total, At(rank), N), index |-> At(rank)]]
  BY <1>2, <1>4
<1>6. ChunksInv'
  BY <1>2, <1>5, Kept, ZenonT(40) DEF ChunksInv, Piece, AsUnsigned
<1>7. ResultsInv'
  <2> SUFFICES ASSUME NEW rank \in Rank
               PROVE  /\ DOMAIN results'[rank] = Held(rank, 0)
                      /\ \A p \in DOMAIN results'[rank] : results'[rank][p] = ChunkPart(p[1], p[2])
    BY <1>2, Kept DEF ResultsInv
  <2>1. chunks'[rank].index = At(rank) /\ chunks'[rank].tensor = Piece(Total, At(rank), N)
    BY <1>5
  <2>2. results'[rank] = [q \in (0 .. Parts - 1) \X {At(rank)} |->
                            Piece(Piece(Total, At(rank), N), q[1], Parts)]
    BY <1>2, <2>1
  <2>3. \A p \in (0 .. Parts - 1) \X {At(rank)} : p[2] = At(rank)
    OBVIOUS
  <2>4. \A dir : Came(dir, At(rank), 0) = {}
    BY DEF Came
  <2>5. Held(rank, 0) = (0 .. Parts - 1) \X {At(rank)}
    BY <2>4 DEF Held
  <2> QED BY <2>2, <2>3, <2>5 DEF ChunkPart
<1>8. PassingInv'
  <2>1. 0 <= NumSteps(ringCall.gather)
    BY <1>1, MethodProps
  <2> QED BY <1>2, <2>1, Kept DEF PassingInv
<1>9. RingTypeOK'
  <2>1. N' = N /\ Index' = Index /\ Rank' = Rank /\ Element' = Element
    BY <1>2, Kept
  <2>2. chunks' \in [Rank -> [tensor : Seq(Element), index : Index]]
    <3>1. \A rank \in Rank : Piece(Total, At(rank), N) \in Seq(Element)
      BY <1>1, <1>3, ChunkIs
    <3> QED BY <1>3, <1>5, <3>1
  <2>3. ringStep' \in 0 .. N - 1
    BY <1>1, <1>2, CallProps
  <2>4. ASSUME NEW dir \in Direction
        PROVE  /\ data'[dir] = <<>> \/ data'[dir] \in [Index' -> Seq(Element')]
               /\ passing'[dir] = <<>>
                  \/ passing'[dir] \in [Index' -> [tensor : Seq(Element'), index : Index']]
    BY <1>2, <2>1, Zenon DEF RingInv, RingTypeOK
  <2>5. ringOutput' = <<>> \/ ringOutput' \in [Rank' -> Seq(Element')]
    BY <1>2, <2>1, Zenon DEF RingInv, RingTypeOK
  <2>6. ringCall' \in RingCalls
    BY <1>2 DEF RingInv, RingTypeOK
  <2> QED BY <1>2, <2>1, <2>2, <2>3, <2>4, <2>5, <2>6 DEF RingTypeOK
<1>10. CopyInv' /\ ReduceInv' /\ ScatterInv'
  BY <1>2 DEF CopyInv, ReduceInv, ScatterInv
<1>11. OutputInv'
  BY <1>2 DEF RingInv, OutputInv
<1> QED BY <1>6, <1>7, <1>8, <1>9, <1>10, <1>11 DEF RingInv

-----------------------------------------------------------------------------
(* Gathering *)

\* Where the p'th part of the j'th chunk begins, and the p'th's end where p + 1 does
Start(j, p) ==
  Mark(ringCall.elements, j, N)
    + Mark(Mark(ringCall.elements, j + 1, N) - Mark(ringCall.elements, j, N), p, Parts)

LEMMA PartsAre ==
  /\ Parts \in {1, 2} /\ \A dir : PartOf(dir) \in 0 .. Parts - 1
PROOF BY DEF Parts, PartOf

LEMMA ChunkPartIs ==
  ASSUME RingsFit, RingCallOK, NEW j \in Index, NEW p \in 0 .. Parts - 1
  PROVE  /\ ChunkPart(p, j) = Cut(Rank, Start(j, p), Start(j, p + 1))
         /\ Start(j, p) \in 0 .. ringCall.elements /\ Start(j, p + 1) \in 0 .. ringCall.elements
         /\ Start(j, p) <= Start(j, p + 1)
         /\ ChunkPart(p, j) \in Seq(Element)
PROOF
<1>1. PICK m \in Nat \ {0}, e \in Nat, w \in Nat :
        m = N /\ e = ringCall.elements /\ w = 2^WordBits /\ 2 * m * e < w
  BY CallProps DEF RingsFit, CallFits, N
<1>2. PICK b \in Nat, f \in Nat :
        /\ b = Mark(e, j, m) /\ f = Mark(e, j + 1, m) /\ b <= f /\ f <= e
        /\ Piece(Total, j, m) = Cut(Rank, b, f)
  BY <1>1, ChunkIs
<1>3. PICK P \in Nat \ {0} : P = Parts /\ P <= 2
  BY PartsAre
<1>4. (f - b) * P < 2^WordBits /\ p \in 0 .. P - 1
  <2>1. (f - b) * P <= 2 * e
    <3>1. (P = 1 \/ P = 2) /\ f - b <= e
      BY <1>2, <1>3
    <3> QED BY <1>2, <3>1
  <2>2. 2 * e <= 2 * m * e
    BY Z3
  <2>3. (f - b) * P \in Int /\ 2 * m * e \in Int
    BY Z3
  <2> QED BY <1>1, <1>3, <2>1, <2>2, <2>3
<1>5. PICK S : S = Rank
  OBVIOUS
<1>6. /\ Piece(Cut(S, b, f), p, P) = Cut(S, b + Mark(f - b, p, P), b + Mark(f - b, p + 1, P))
      /\ Mark(f - b, p, P) \in 0 .. f - b /\ Mark(f - b, p + 1, P) \in 0 .. f - b
      /\ Mark(f - b, p, P) <= Mark(f - b, p + 1, P)
  BY <1>2, <1>4, PieceOfCut
<1>7. PICK x \in Nat, y \in Nat :
        x = b + Mark(f - b, p, P) /\ y = b + Mark(f - b, p + 1, P) /\ x <= y /\ y <= f
  BY <1>2, <1>6
<1>8. Start(j, p) = x /\ Start(j, p + 1) = y
  BY <1>1, <1>2, <1>3, <1>7 DEF Start
<1>9. ChunkPart(p, j) = Cut(S, x, y)
  BY <1>1, <1>2, <1>3, <1>5, <1>6, <1>7 DEF ChunkPart
<1>10. Cut(S, x, y) \in Seq(Element)
  <2>1. Cut(S, x, y) \in Seq(SUBSET (S \X (1 .. y)))
    <3>1. x \in Nat /\ y \in Nat /\ x <= y
      BY <1>7
    <3> QED BY <3>1, CutIsSeq, Zenon
  <2>2. SUBSET (S \X (1 .. y)) \subseteq Element
    <3>1. 1 .. y \subseteq 1 .. e
      BY <1>2, <1>7
    <3> QED BY <1>1, <1>5, <3>1 DEF Element
  <2> QED BY <2>1, <2>2, SeqMonotonic
<1>11. x \in 0 .. e /\ y \in 0 .. e
  BY <1>2, <1>7
<1>12. ChunkPart(p, j) \in Seq(Element)
  BY <1>9, <1>10
<1> QED BY <1>1, <1>5, <1>7, <1>8, <1>9, <1>11, <1>12

\* What comes to an index is the part of the chunk that many places behind it.
LEMMA ReceivedIs ==
  ASSUME RingsFit, RingInv, ringPhase = "gather", ringStep < NumSteps(ringCall.gather),
         NEW dir \in Sends(ringCall.gather, ringStep), NEW i \in Index
  PROVE  /\ dir \in Direction /\ dir \in Directions(ringCall.gather)
         /\ ringStep < SendSteps(ringCall.gather, dir)
         /\ Behind(dir, i, ringStep + 1) \in Index
         /\ Received(dir, i) = [tensor |-> ChunkPart(PartOf(dir), Behind(dir, i, ringStep + 1)),
                                index |-> Behind(dir, i, ringStep + 1)]
PROOF
<1>1. RingCallOK /\ ringStep \in Nat
  BY CallProps DEF RingInv, RingTypeOK, RingCallOK
<1>2. NumSteps(ringCall.gather) \in 0 .. N - 1 /\ N \in Nat \ {0}
  BY <1>1, CallProps, MethodProps
<1>3. PICK n \in Nat : n = ringStep /\ n \in 0 .. N /\ n + 1 \in 0 .. N /\ n < N /\ n + 1 < N + 1
                       /\ 1 \in 0 .. N
  BY <1>1, <1>2
<1>4. dir \in Directions(ringCall.gather) /\ dir \in Direction
  BY <1>1, MethodProps DEF Sends
<1>5. ringStep < SendSteps(ringCall.gather, dir)
  <2>1. ringStep \in 0 .. NumSteps(ringCall.gather) - 1
    BY <1>1, <1>2
  <2> QED BY <1>1, <1>4, <2>1, MethodProps
<1>6. PICK from \in Index : from = RecvIndex(dir, i) /\ from = Behind(dir, i, 1)
  BY <1>1, <1>4, RecvBehind
<1>7. Behind(dir, i, n + 1) \in Index /\ Behind(dir, from, n) = Behind(dir, i, n + 1)
  BY <1>1, <1>3, <1>4, <1>6, BehindOnRing
<1>8. CASE n = 0
  <2>1. chunks[Ring[from]] = [tensor |-> Piece(Total, from, N), index |-> from]
    <3>1. Ring[from] \in Rank /\ At(Ring[from]) = from
      BY <1>1, RingBijects
    <3> QED BY <3>1 DEF RingInv, ChunksInv
  <2>2. Received(dir, i) = [tensor |-> Piece(Piece(Total, from, N), PartOf(dir), Parts), index |-> from]
    BY <1>3, <1>6, <1>8, <2>1 DEF Received
  <2>3. Behind(dir, from, 0) = from
    BY <1>1, <1>3, <1>4, <1>8, BehindOnRing
  <2> QED BY <1>3, <1>4, <1>5, <1>7, <1>8, <2>2, <2>3 DEF ChunkPart
<1>9. CASE n > 0
  <2>1. ringStep <= SendSteps(ringCall.gather, dir) /\ ringStep > 0
    BY <1>1, <1>2, <1>3, <1>5, <1>9 DEF SendSteps
  <2>2. passing[dir] = Passed(dir, n)
    BY <1>3, <1>4, <2>1 DEF RingInv, PassingInv
  <2>3. Received(dir, i) = Passed(dir, n)[from]
    BY <1>3, <1>6, <1>9, <2>2 DEF Received
  <2>4. Passed(dir, n)[from] = [tensor |-> ChunkPart(PartOf(dir), Behind(dir, from, n)),
                                index |-> Behind(dir, from, n)]
    BY DEF Passed
  <2> QED BY <1>3, <1>4, <1>5, <1>7, <2>3, <2>4
<1> QED BY <1>8, <1>9

LEMMA HeldGrows ==
  ASSUME RingsFit, RingCallOK, NEW rank \in Rank, NEW n \in Nat, n < NumSteps(ringCall.gather)
  PROVE  Held(rank, n + 1)
           = Held(rank, n) \cup {<<PartOf(dir), Behind(dir, At(rank), n + 1)>> :
                                   dir \in Sends(ringCall.gather, n)}
PROOF
<1>1. n \in 0 .. NumSteps(ringCall.gather) - 1 /\ NumSteps(ringCall.gather) \in Nat
  BY MethodProps
<1>2. \A dir \in Direction : dir \in Sends(ringCall.gather, n)
                               <=> dir \in Directions(ringCall.gather) /\ n < SendSteps(ringCall.gather, dir)
  BY <1>1, MethodProps
<1>3. /\ Directions(ringCall.gather) \subseteq Direction
      /\ Sends(ringCall.gather, n) \subseteq Direction
  BY MethodProps DEF Sends
<1>4. ASSUME NEW dir \in Direction
      PROVE  {c \in 1 .. n + 1 : c <= SendSteps(ringCall.gather, dir)}
               = {c \in 1 .. n : c <= SendSteps(ringCall.gather, dir)}
                   \cup (IF n < SendSteps(ringCall.gather, dir) THEN {n + 1} ELSE {})
  <2>1. PICK k \in Int : k = SendSteps(ringCall.gather, dir)
    BY <1>1 DEF SendSteps
  <2> QED BY <2>1
<1>5. \A dir \in Direction :
        Came(dir, At(rank), n + 1)
          = Came(dir, At(rank), n) \cup
              (IF n < SendSteps(ringCall.gather, dir)
                 THEN {<<PartOf(dir), Behind(dir, At(rank), n + 1)>>} ELSE {})
  BY <1>4 DEF Came
<1> QED BY <1>2, <1>3, <1>5 DEF Held

\* A step round the ring brings each rank the next chunks.
LEMMA GatherKeeps ==
  ASSUME RingsFit, RingInv, GatherCopy
  PROVE  RingInv'
PROOF
<1>1. RingCallOK /\ ringStep \in Nat
  BY CallProps DEF RingInv, RingTypeOK, RingCallOK
<1>2. NumSteps(ringCall.gather) \in 0 .. N - 1 /\ N \in Nat \ {0}
  BY <1>1, CallProps, MethodProps
<1>3. /\ ringPhase = "gather" /\ ringStep < NumSteps(ringCall.gather)
      /\ ringPhase' = ringPhase /\ ringStep' = ringStep + 1 /\ ringCall' = ringCall
      /\ data' = data /\ chunks' = chunks /\ ringOutput' = ringOutput
  BY DEF GatherCopy
<1>4. PICK n \in Nat : n = ringStep /\ n < NumSteps(ringCall.gather)
  BY <1>1, <1>3
<1> DEFINE Senders == Sends(ringCall.gather, ringStep)
<1>5. Senders \subseteq Direction /\ Senders \subseteq Directions(ringCall.gather)
  BY <1>1, MethodProps DEF Sends
<1>6. \A dir \in Senders, i \in Index :
        /\ Behind(dir, i, n + 1) \in Index
        /\ Received(dir, i) = [tensor |-> ChunkPart(PartOf(dir), Behind(dir, i, n + 1)),
                               index |-> Behind(dir, i, n + 1)]
  BY <1>3, <1>4, ReceivedIs
<1>7. \A dir \in Direction :
        passing'[dir] = IF dir \in Senders THEN Passed(dir, n + 1) ELSE passing[dir]
  BY <1>6 DEF GatherCopy, Passed
<1>8. PassingInv'
  <2>1. ASSUME NEW dir \in Directions(ringCall.gather), n + 1 <= SendSteps(ringCall.gather, dir)
        PROVE  passing'[dir] = Passed(dir, n + 1)
    <3>1. dir \in Direction /\ n \in 0 .. NumSteps(ringCall.gather) - 1
      BY <1>1, <1>2, <1>4, MethodProps
    <3>2. n < SendSteps(ringCall.gather, dir)
      BY <1>2, <2>1 DEF SendSteps
    <3>3. dir \in Senders
      BY <1>1, <1>4, <3>1, <3>2, MethodProps
    <3> QED BY <1>7, <3>1, <3>3
  <2>2. n + 1 <= NumSteps(ringCall.gather)
    BY <1>2, <1>4
  <2>3. Directions(ringCall.gather)' = Directions(ringCall.gather)
    BY <1>3 DEF Directions, Direction
  <2>4. NumSteps(ringCall.gather)' = NumSteps(ringCall.gather)
    BY <1>3, Kept
  <2>5. \A dir : SendSteps(ringCall.gather, dir)' = SendSteps(ringCall.gather, dir)
    BY <1>3, Kept
  <2> QED BY <1>3, <1>4, <2>1, <2>2, <2>3, <2>4, <2>5, Kept DEF PassingInv
<1>9. ResultsInv'
  <2> SUFFICES ASSUME NEW rank \in Rank
               PROVE  /\ DOMAIN results'[rank] = Held(rank, n + 1)
                      /\ \A p \in DOMAIN results'[rank] : results'[rank][p] = ChunkPart(p[1], p[2])
    BY <1>3, <1>4, Kept DEF ResultsInv
  <2>1. PICK i \in Index : i = At(rank)
    BY <1>1, RingBijects
  <2> DEFINE New(dir) == <<PartOf(dir), Received(dir, i).index>>
             new == {dir \in Direction : dir \in Senders}
  <2>2. results'[rank] = [p \in DOMAIN results[rank] \cup {New(dir) : dir \in new} |->
                            IF \E dir \in new : New(dir) = p
                              THEN Received(CHOOSE dir \in new : New(dir) = p, i).tensor
                              ELSE results[rank][p]]
    BY <2>1 DEF GatherCopy, At
  <2>3. new = Senders
    BY <1>5
  <2>4. \A dir \in Senders : New(dir) = <<PartOf(dir), Behind(dir, i, n + 1)>>
    BY <1>6
  <2>5. /\ DOMAIN results[rank] = Held(rank, n)
        /\ \A p \in DOMAIN results[rank] : results[rank][p] = ChunkPart(p[1], p[2])
    BY <1>3, <1>4 DEF RingInv, ResultsInv
  <2>6. DOMAIN results'[rank] = Held(rank, n + 1)
    <3>1. Held(rank, n + 1)
            = Held(rank, n) \cup {<<PartOf(dir), Behind(dir, i, n + 1)>> : dir \in Senders}
      BY <1>1, <1>4, <2>1, HeldGrows
    <3>2. {New(dir) : dir \in new} = {<<PartOf(dir), Behind(dir, i, n + 1)>> : dir \in Senders}
      BY <2>3, <2>4
    <3> HIDE DEF New, new
    <3> QED BY <2>2, <2>5, <3>1, <3>2
  <2>7. ASSUME NEW p \in DOMAIN results'[rank] PROVE results'[rank][p] = ChunkPart(p[1], p[2])
    <3>1. CASE \E dir \in new : New(dir) = p
      <4>1. PICK d \in new : d = (CHOOSE dir \in new : New(dir) = p) /\ New(d) = p
        <5> HIDE DEF New, new
        <5> QED BY <3>1
      <4>2. results'[rank][p] = Received(d, i).tensor
        <5> HIDE DEF New, new
        <5> QED BY <2>2, <2>7, <3>1, <4>1
      <4>3. Received(d, i).tensor = ChunkPart(PartOf(d), Behind(d, i, n + 1))
        BY <1>6, <2>3
      <4>4. p = <<PartOf(d), Behind(d, i, n + 1)>>
        BY <2>3, <2>4, <4>1
      <4>5. p[1] = PartOf(d) /\ p[2] = Behind(d, i, n + 1)
        BY <4>4
      <4> QED BY <4>2, <4>3, <4>5
    <3>2. CASE ~ \E dir \in new : New(dir) = p
      <4> HIDE DEF New, new
      <4>1. p \in DOMAIN results[rank]
        BY <2>2, <2>7, <3>2
      <4> QED BY <2>2, <2>5, <2>7, <3>2, <4>1
    <3> QED BY <3>1, <3>2
  <2> QED BY <2>6, <2>7
<1>10. RingTypeOK'
  <2>1. N' = N /\ Index' = Index /\ Rank' = Rank /\ Element' = Element
    BY <1>3, Kept
  <2>2. ringStep' \in 0 .. N - 1
    BY <1>2, <1>3, <1>4
  <2>3. ASSUME NEW dir \in Senders
        PROVE  Passed(dir, n + 1) \in [Index -> [tensor : Seq(Element), index : Index]]
    <3>1. \A i \in Index : Behind(dir, i, n + 1) \in Index
      BY <1>6
    <3>2. PartOf(dir) \in 0 .. Parts - 1
      BY PartsAre
    <3>3. \A i \in Index : ChunkPart(PartOf(dir), Behind(dir, i, n + 1)) \in Seq(Element)
      BY <1>1, <3>1, <3>2, ChunkPartIs
    <3> QED BY <3>1, <3>3 DEF Passed
  <2>4. ASSUME NEW dir \in Direction
        PROVE  /\ data'[dir] = <<>> \/ data'[dir] \in [Index' -> Seq(Element')]
               /\ passing'[dir] = <<>>
                  \/ passing'[dir] \in [Index' -> [tensor : Seq(Element'), index : Index']]
    <3>1. data'[dir] = <<>> \/ data'[dir] \in [Index' -> Seq(Element')]
      BY <1>3, <2>1, Zenon DEF RingInv, RingTypeOK
    <3>2. CASE dir \in Senders
      BY <1>7, <2>1, <2>3, <3>1, <3>2
    <3>3. CASE dir \notin Senders
      <4>1. passing'[dir] = passing[dir]
        BY <1>7, <3>3
      <4> QED BY <2>1, <3>1, <4>1, Zenon DEF RingInv, RingTypeOK
    <3> QED BY <3>2, <3>3
  <2>5. /\ ringOutput' = <<>> \/ ringOutput' \in [Rank' -> Seq(Element')]
        /\ chunks' = <<>> \/ chunks' \in [Rank' -> [tensor : Seq(Element'), index : Index']]
    BY <1>3, <2>1, Zenon DEF RingInv, RingTypeOK
  <2>6. ringCall' \in RingCalls
    BY <1>3 DEF RingInv, RingTypeOK
  <2> QED BY <1>3, <2>1, <2>2, <2>4, <2>5, <2>6 DEF RingTypeOK
<1>11. CopyInv' /\ ReduceInv' /\ ScatterInv'
  BY <1>3 DEF CopyInv, ReduceInv, ScatterInv
<1>12. ChunksInv' /\ OutputInv'
  <2>1. OutputInv'
    BY <1>3 DEF RingInv, OutputInv
  <2>2. ChunksInv'
    BY <1>3, Kept DEF RingInv, ChunksInv, Piece, AsUnsigned
  <2> QED BY <2>1, <2>2
<1> QED BY <1>8, <1>9, <1>10, <1>11, <1>12 DEF RingInv

\* After the last step all chunks have come, from one side or the other.
LEMMA AllHeld ==
  ASSUME RingsFit, RingCallOK, NEW rank \in Rank
  PROVE  Held(rank, NumSteps(ringCall.gather)) = (0 .. Parts - 1) \X Index
PROOF
<1>1. PICK m \in Nat \ {0}, k \in Nat : m = N /\ k = NumSteps(ringCall.gather) /\ k < m
  BY CallProps, MethodProps
<1>2. PICK i \in Index : i = At(rank)
  BY RingBijects
<1>3. Directions(ringCall.gather) \subseteq Direction /\ ringCall.gather \in Method
  BY CallProps, MethodProps
<1>4. \A dir \in Direction, d \in 1 .. k : Behind(dir, i, d) \in Index
  <2> SUFFICES ASSUME NEW dir \in Direction, NEW d \in 1 .. k PROVE Behind(dir, i, d) \in Index
    OBVIOUS
  <2>1. d \in 0 .. N
    BY <1>1
  <2> QED BY <2>1, BehindOnRing
<1>5. Held(rank, k) \subseteq (0 .. Parts - 1) \X Index
  <2>1. \A dir \in Direction : Came(dir, i, k) \subseteq (0 .. Parts - 1) \X Index
    BY <1>4, PartsAre DEF Came
  <2> QED BY <1>2, <1>3, <2>1 DEF Held
<1>6. ASSUME NEW p \in 0 .. Parts - 1, NEW j \in Index PROVE <<p, j>> \in Held(rank, k)
  <2>1. CASE j = i
    BY <1>2, <2>1 DEF Held
  <2>2. ASSUME NEW dir \in Directions(ringCall.gather), NEW d \in 1 .. k, PartOf(dir) = p,
               d <= SendSteps(ringCall.gather, dir), Behind(dir, i, d) = j
        PROVE  <<p, j>> \in Held(rank, k)
    <3>1. <<p, j>> \in Came(dir, i, k)
      BY <2>2 DEF Came
    <3> QED BY <1>2, <3>1 DEF Held
  <2>3. ASSUME j # i, NEW dir \in Direction
        PROVE  \E d \in 1 .. m - 1 : Behind(dir, i, d) = j
    <3>1. PICK d \in 0 .. N - 1 : Behind(dir, i, d) = j
      BY AllBehind
    <3>2. 0 \in 0 .. N
      BY <1>1
    <3>3. Behind(dir, i, 0) = i
      BY <3>2, BehindOnRing
    <3>4. d # 0
      BY <2>3, <3>1, <3>3
    <3> QED BY <1>1, <3>1, <3>4
  <2>4. CASE j # i /\ ringCall.gather # "MEET_IN_MIDDLE_RING"
    <3>1. PICK dir \in Directions(ringCall.gather) : PartOf(dir) = p
      BY <1>3, <2>4 DEF Directions, Direction, PartOf, Parts, Method
    <3>2. PICK d \in 1 .. m - 1 : Behind(dir, i, d) = j
      BY <1>3, <2>3, <2>4
    <3>3. k = m - 1 /\ SendSteps(ringCall.gather, dir) = k
      BY <1>1, <2>4, MethodProps DEF SendSteps
    <3> QED BY <1>1, <2>2, <3>1, <3>2, <3>3
  <2>5. CASE j # i /\ ringCall.gather = "MEET_IN_MIDDLE_RING"
    <3>1. PICK d \in 1 .. m - 1 : Behind("clockwise", i, d) = j
      BY <2>3, <2>5 DEF Direction
    <3>2. m = 2 * k
      BY <1>1, <2>5, <3>1, MethodProps
    <3>3. /\ "clockwise" \in Directions(ringCall.gather) /\ "anticlockwise" \in Directions(ringCall.gather)
          /\ PartOf("clockwise") = p /\ PartOf("anticlockwise") = p
      BY <2>5 DEF Directions, Direction, PartOf, Parts
    <3>4. /\ SendSteps(ringCall.gather, "clockwise") = k - 1
          /\ SendSteps(ringCall.gather, "anticlockwise") = k
      BY <1>1, <2>5 DEF SendSteps
    <3>5. CASE d <= k - 1
      BY <2>2, <3>1, <3>3, <3>4, <3>5
    <3>6. CASE d > k - 1
      <4>1. PICK c \in 1 .. k : c = m - d
        <5>1. m - d \in 1 .. k
          BY <3>2, <3>6
        <5> QED BY <5>1
      <4>2. Behind("anticlockwise", i, c) = Behind("clockwise", i, d)
        BY <1>1, <4>1 DEF Behind, Turn, Index
      <4> QED BY <2>2, <3>1, <3>3, <3>4, <4>2
    <3> QED BY <3>5, <3>6
  <2> QED BY <2>1, <2>4, <2>5
<1>7. (0 .. Parts - 1) \X Index \subseteq Held(rank, k)
  BY <1>6
<1> QED BY <1>1, <1>5, <1>7

-----------------------------------------------------------------------------
(* Concatenating *)

\* Cuts that follow one another from the beginning make one.
LEMMA Flattened ==
  ASSUME NEW S, NEW l \in Nat \ {0}, NEW edge \in [0 .. l -> Nat], edge[0] = 0,
         \A n \in 1 .. l : edge[n - 1] <= edge[n],
         NEW seqs, seqs = [n \in 1 .. l |-> Cut(S, edge[n - 1], edge[n])]
  PROVE  FlattenSeq(seqs) = Cut(S, 0, edge[l])
PROOF
<1> DEFINE step(g) == [n \in 1 .. l |-> IF n = 1 THEN seqs[n] ELSE g[n - 1] \o seqs[n]]
           whole == [n \in 1 .. l |-> Cut(S, 0, edge[n])]
<1>1. Len(seqs) = l
  <2>1. PICK E : \A n \in 1 .. l : Cut(S, edge[n - 1], edge[n]) \in E
    <3>1. \A n \in 1 .. l : Cut(S, edge[n - 1], edge[n]) \in {Cut(S, edge[k - 1], edge[k]) : k \in 1 .. l}
      OBVIOUS
    <3> QED BY <3>1
  <2>2. seqs \in [1 .. l -> E]
    BY <2>1
  <2> QED BY <2>2
<1>2. FlattenSeq(seqs) = (CHOOSE g : g = step(g))[l]
  BY <1>1 DEF FlattenSeq
<1>3. ASSUME NEW n \in 1 .. l
      PROVE  whole[n] = IF n = 1 THEN seqs[n] ELSE whole[n - 1] \o seqs[n]
  <2>1. CASE n = 1
    BY <2>1
  <2>2. CASE n # 1
    <3>1. n - 1 \in 1 .. l /\ n - 1 \in 0 .. l /\ n \in 0 .. l
      BY <2>2
    <3>2. /\ edge[n - 1] \in Nat /\ edge[n] \in Nat /\ 0 \in Nat
          /\ 0 <= edge[n - 1] /\ edge[n - 1] <= edge[n]
      BY <1>3, <3>1
    <3>3. Cut(S, 0, edge[n - 1]) \o Cut(S, edge[n - 1], edge[n]) = Cut(S, 0, edge[n])
      BY <3>2, CutsFollow, ZenonT(40)
    <3>4. /\ whole[n] = Cut(S, 0, edge[n]) /\ whole[n - 1] = Cut(S, 0, edge[n - 1])
          /\ seqs[n] = Cut(S, edge[n - 1], edge[n])
      BY <1>3, <3>1
    <3> HIDE DEF whole
    <3> QED BY <2>2, <3>3, <3>4
  <2> QED BY <2>1, <2>2
<1>4. whole = step(whole)
  BY <1>3
<1>5. PICK g : g = (CHOOSE h : h = step(h)) /\ g = step(g)
  <2>1. \E h : h = step(h)
    BY <1>4
  <2> HIDE DEF step
  <2> QED BY <2>1
<1>6. ASSUME {n \in 1 .. l : g[n] # whole[n]} # {} PROVE FALSE
  <2>1. PICK n \in {m \in 1 .. l : g[m] # whole[m]} :
               \A k \in {m \in 1 .. l : g[m] # whole[m]} : n <= k
    <3>1. {m \in 1 .. l : g[m] # whole[m]} \subseteq Nat
      OBVIOUS
    <3> HIDE DEF whole
    <3> QED BY <1>6, <3>1, Smallest
  <2>2. g[n] = IF n = 1 THEN seqs[n] ELSE g[n - 1] \o seqs[n]
    BY <1>5, <2>1
  <2>3. whole[n] = IF n = 1 THEN seqs[n] ELSE whole[n - 1] \o seqs[n]
    BY <1>3, <2>1
  <2> HIDE DEF whole
  <2>4. n # 1
    BY <2>1, <2>2, <2>3
  <2>5. n - 1 \in 1 .. l /\ ~ (n <= n - 1)
    BY <2>1, <2>4
  <2>6. g[n - 1] = whole[n - 1]
    BY <2>1, <2>5
  <2> QED BY <2>1, <2>2, <2>3, <2>6
<1>7. g[l] = whole[l]
  <2> HIDE DEF whole
  <2> QED BY <1>6
<1>8. whole[l] = Cut(S, 0, edge[l])
  BY DEF Cut
<1> QED BY <1>2, <1>5, <1>7, <1>8

\* Where the n'th of all parts, in order, ends
Edge(n) ==
  IF n = N * Parts THEN ringCall.elements ELSE Start(n \div Parts, n % Parts)

LEMMA Edges ==
  ASSUME RingsFit, RingCallOK
  PROVE  /\ N * Parts \in Nat \ {0}
         /\ Edge(0) = 0 /\ Edge(N * Parts) = ringCall.elements
         /\ \A n \in 0 .. N * Parts : Edge(n) \in Nat
         /\ \A n \in 1 .. N * Parts :
              /\ (n - 1) \div Parts \in Index /\ (n - 1) % Parts \in 0 .. Parts - 1
              /\ ChunkPart((n - 1) % Parts, (n - 1) \div Parts) = Cut(Rank, Edge(n - 1), Edge(n))
              /\ Edge(n - 1) <= Edge(n)
PROOF
<1>1. PICK m \in Nat \ {0}, e \in Nat : m = N /\ e = ringCall.elements
  BY CallProps
<1>2. PICK P \in Nat \ {0} : P = Parts /\ (P = 1 \/ P = 2)
  BY PartsAre
<1>3. PICK l \in Nat \ {0} : l = m * P /\ l = N * Parts
  <2>1. m * P \in Nat \ {0}
    BY <1>2
  <2> QED BY <1>1, <1>2, <2>1
<1>4. ASSUME NEW j \in Index
      PROVE  /\ Start(j, 0) = Mark(e, j, m) /\ Start(j, P) = Mark(e, j + 1, m)
             /\ Start(j, 0) \in Nat /\ Start(j, P) \in Nat
  <2>1. PICK a \in Nat, b \in Nat : a = Mark(e, j, m) /\ b = Mark(e, j + 1, m) /\ a <= b
    BY <1>1, ChunkIs
  <2>2. PICK c \in Nat : c = b - a
    BY <2>1
  <2>3. Mark(c, 0, P) = 0 /\ Mark(c, P, P) = c
    BY MarkEnds
  <2>4. Start(j, 0) = a + Mark(c, 0, P) /\ Start(j, P) = a + Mark(c, P, P)
    BY <1>1, <1>2, <2>1, <2>2 DEF Start
  <2> QED BY <2>1, <2>2, <2>3, <2>4
<1>5. Edge(l) = e
  BY <1>1, <1>3 DEF Edge
<1>6. Edge(0) = 0
  <2>1. 0 \in Index /\ 0 \div P = 0 /\ 0 % P = 0
    BY <1>1, <1>2 DEF Index
  <2>2. Mark(e, 0, m) = 0
    BY MarkEnds
  <2>3. Edge(0) = Start(0, 0)
    BY <1>2, <1>3, <2>1 DEF Edge
  <2> QED BY <1>4, <2>1, <2>2, <2>3
<1>7. ASSUME NEW n \in 1 .. l
      PROVE  /\ (n - 1) \div P \in Index /\ (n - 1) % P \in 0 .. P - 1
             /\ ChunkPart((n - 1) % P, (n - 1) \div P) = Cut(Rank, Edge(n - 1), Edge(n))
             /\ Edge(n - 1) <= Edge(n) /\ Edge(n - 1) \in Nat /\ Edge(n) \in Nat
  <2>1. PICK j \in Nat, p \in Nat : /\ j = (n - 1) \div P /\ p = (n - 1) % P
                                    /\ n - 1 = j * P + p /\ p \in 0 .. P - 1 /\ j < m
    BY <1>2, <1>3
  <2>2. j \in Index /\ p \in 0 .. Parts - 1
    BY <1>1, <1>2, <2>1 DEF Index
  <2>3. /\ ChunkPart(p, j) = Cut(Rank, Start(j, p), Start(j, p + 1))
        /\ Start(j, p) \in 0 .. e /\ Start(j, p + 1) \in 0 .. e /\ Start(j, p) <= Start(j, p + 1)
    BY <1>1, <2>2, ChunkPartIs
  <2>4. Edge(n - 1) = Start(j, p)
    BY <1>2, <1>3, <2>1 DEF Edge
  <2>5. Edge(n) = Start(j, p + 1)
    <3>1. CASE p + 1 < P
      <4>1. n # l /\ n \div P = j /\ n % P = p + 1
        BY <1>2, <1>3, <2>1, <3>1
      <4> QED BY <1>2, <1>3, <4>1 DEF Edge
    <3>2. CASE p + 1 = P /\ j + 1 < m
      <4>1. n # l /\ n \div P = j + 1 /\ n % P = 0
        BY <1>2, <1>3, <2>1, <3>2
      <4>2. j + 1 \in Index
        BY <1>1, <3>2 DEF Index
      <4>3. Edge(n) = Start(j + 1, 0)
        BY <1>2, <1>3, <4>1 DEF Edge
      <4> QED BY <1>4, <2>2, <3>2, <4>2, <4>3
    <3>3. CASE p + 1 = P /\ j + 1 = m
      <4>1. n = l
        BY <1>2, <1>3, <2>1, <3>3
      <4>2. Mark(e, m, m) = e
        BY MarkEnds
      <4> QED BY <1>4, <1>5, <2>2, <3>3, <4>1, <4>2
    <3> QED BY <2>1, <3>1, <3>2, <3>3
  <2> QED BY <1>2, <2>1, <2>2, <2>3, <2>4, <2>5
<1>8. \A n \in 0 .. l : Edge(n) \in Nat
  <2> SUFFICES ASSUME NEW n \in 0 .. l PROVE Edge(n) \in Nat
    OBVIOUS
  <2>1. CASE n = 0
    BY <1>6, <2>1
  <2>2. CASE n # 0
    BY <1>7, <2>2
  <2> QED BY <2>1, <2>2
<1> QED BY <1>1, <1>2, <1>3, <1>5, <1>6, <1>7, <1>8

\* What a rank concatenates is the whole.
LEMMA FinishKeeps ==
  ASSUME RingsFit, RingInv, Finish
  PROVE  RingInv'
PROOF
<1>1. RingCallOK
  BY DEF RingInv, RingTypeOK, RingCallOK
<1>2. /\ ringPhase = "gather" /\ ringPhase' = "done" /\ ringStep' = ringStep /\ ringCall' = ringCall
      /\ data' = data /\ chunks' = chunks /\ passing' = passing /\ results' = results
      /\ \A rank \in Rank : DOMAIN results[rank] = (0 .. Parts - 1) \X Index
      /\ ringOutput' = [rank \in Rank |->
                          FlattenSeq([n \in 1 .. N * Parts |->
                            results[rank][<<(n - 1) % Parts, (n - 1) \div Parts>>]])]
  BY DEF Finish
<1>3. PICK S : S = Rank
  OBVIOUS
<1>4. PICK l \in Nat \ {0} : l = N * Parts
  BY <1>1, Edges
<1>5. PICK e \in Nat : e = ringCall.elements
  BY <1>1, CallProps
<1>6. S = Rank /\ l = N * Parts /\ e = ringCall.elements
  BY <1>3, <1>4, <1>5
<1>7. Total = Cut(S, 0, e)
  BY <1>1, <1>6, Inputs
<1>8. PICK edge : edge = [n \in 0 .. l |-> Edge(n)]
  OBVIOUS
<1>9. /\ edge \in [0 .. l -> Nat] /\ edge[0] = 0 /\ edge[l] = e
      /\ \A n \in 1 .. l : /\ edge[n - 1] <= edge[n]
                           /\ edge[n - 1] = Edge(n - 1) /\ edge[n] = Edge(n)
  <2>1. 0 \in 0 .. l /\ l \in 0 .. l /\ \A n \in 1 .. l : n - 1 \in 0 .. l /\ n \in 0 .. l
    OBVIOUS
  <2> QED BY <1>1, <1>6, <1>8, <2>1, Edges
<1>10. ASSUME NEW rank \in Rank PROVE ringOutput'[rank] = Total
  <2>1. PICK seqs : seqs = [n \in 1 .. l |-> results[rank][<<(n - 1) % Parts, (n - 1) \div Parts>>]]
    OBVIOUS
  <2>2. ASSUME NEW n \in 1 .. l
        PROVE  results[rank][<<(n - 1) % Parts, (n - 1) \div Parts>>] = Cut(S, edge[n - 1], edge[n])
    <3>1. PICK p \in 0 .. Parts - 1, j \in Index :
            /\ p = (n - 1) % Parts /\ j = (n - 1) \div Parts
            /\ ChunkPart(p, j) = Cut(Rank, Edge(n - 1), Edge(n))
      BY <1>1, <1>6, Edges
    <3>2. <<p, j>> \in DOMAIN results[rank]
      BY <1>2
    <3>3. results[rank][<<p, j>>] = ChunkPart(p, j)
      BY <1>2, <3>2 DEF RingInv, ResultsInv
    <3> QED BY <1>6, <1>9, <3>1, <3>3
  <2>3. seqs = [n \in 1 .. l |-> Cut(S, edge[n - 1], edge[n])]
    BY <2>1, <2>2
  <2>4. FlattenSeq(seqs) = Cut(S, 0, edge[l])
    BY <1>9, <2>3, Flattened
  <2> QED BY <1>2, <1>6, <1>7, <1>9, <2>1, <2>4
<1>11. OutputInv'
  <2>1. ringOutput' = [rank \in Rank |-> Total]
    BY <1>2, <1>10
  <2> QED BY <1>2, <2>1, Kept DEF OutputInv
<1>12. RingTypeOK'
  <2>1. N' = N /\ Index' = Index /\ Rank' = Rank /\ Element' = Element
    BY <1>2, Kept
  <2>2. Total \in Seq(Element)
    <3>1. Cut(S, 0, e) \in Seq(SUBSET (S \X (1 .. e)))
      <4>1. 0 \in Nat /\ e \in Nat /\ 0 <= e
        OBVIOUS
      <4> QED BY <4>1, CutIsSeq, Zenon
    <3> QED BY <1>6, <1>7, <3>1 DEF Element
  <2>3. ringOutput' \in [Rank -> Seq(Element)]
    BY <1>2, <1>10, <2>2
  <2>4. ASSUME NEW dir \in Direction
        PROVE  /\ data'[dir] = <<>> \/ data'[dir] \in [Index' -> Seq(Element')]
               /\ passing'[dir] = <<>>
                  \/ passing'[dir] \in [Index' -> [tensor : Seq(Element'), index : Index']]
    BY <1>2, <2>1, Zenon DEF RingInv, RingTypeOK
  <2>5. chunks' = <<>> \/ chunks' \in [Rank' -> [tensor : Seq(Element'), index : Index']]
    BY <1>2, <2>1, Zenon DEF RingInv, RingTypeOK
  <2>6. ringCall' \in RingCalls /\ ringStep' \in 0 .. N' - 1
    BY <1>2, <2>1 DEF RingInv, RingTypeOK
  <2> QED BY <1>2, <2>1, <2>3, <2>4, <2>5, <2>6 DEF RingTypeOK
<1>13. CopyInv' /\ ReduceInv' /\ ScatterInv' /\ PassingInv' /\ ResultsInv'
  BY <1>2 DEF CopyInv, ReduceInv, ScatterInv, PassingInv, ResultsInv
<1>14. ChunksInv'
  BY <1>2, Kept DEF RingInv, ChunksInv, Piece, AsUnsigned
<1> QED BY <1>11, <1>12, <1>13, <1>14 DEF RingInv

-----------------------------------------------------------------------------
(* The program *)

LEMMA InitHolds ==
  ASSUME RingsFit, RingInit
  PROVE  RingInv
PROOF
<1>1. PICK c \in RingCalls : RingInitOf(c)
  BY DEF RingInit
<1>2. /\ ringCall = c /\ ringPhase = (IF N = 1 THEN "chunks" ELSE "copy") /\ ringStep = 0
      /\ chunks = <<>> /\ ringOutput = <<>>
      /\ \A dir \in Direction : data[dir] = <<>> /\ passing[dir] = <<>>
  BY <1>1 DEF RingInitOf, N, Nothing
<1>3. RingCallOK
  BY <1>2 DEF RingCallOK
<1>4. N \in Nat \ {0} /\ (N > 1 => NumSteps(ReduceMethod) > 0)
  BY <1>3, CallProps, MethodProps
<1>5. RingTypeOK
  BY <1>2, <1>3, <1>4 DEF RingTypeOK, RingCallOK
<1>6. CopyInv /\ ScatterInv
  BY <1>2, <1>4 DEF CopyInv, ScatterInv
<1>7. ReduceInv /\ ChunksInv /\ PassingInv /\ ResultsInv /\ OutputInv
  BY <1>2 DEF ReduceInv, ChunksInv, PassingInv, ResultsInv, OutputInv
<1> QED BY <1>5, <1>6, <1>7 DEF RingInv

LEMMA Stutters ==
  ASSUME RingInv, UNCHANGED ringVars
  PROVE  RingInv'
PROOF
<1>1. /\ ringCall' = ringCall /\ ringPhase' = ringPhase /\ ringStep' = ringStep /\ data' = data
      /\ chunks' = chunks /\ passing' = passing /\ results' = results /\ ringOutput' = ringOutput
  BY DEF ringVars
<1>2. /\ Directions(ReduceMethod)' = Directions(ReduceMethod)
      /\ Directions(ringCall.gather)' = Directions(ringCall.gather)
  BY <1>1, Kept DEF Directions, Direction
<1>3. RingTypeOK'
  BY <1>1, Kept, Zenon DEF RingInv, RingTypeOK
<1>4. CopyInv' /\ ReduceInv'
  BY <1>1, <1>2, Kept DEF RingInv, CopyInv, ReduceInv
<1>5. ScatterInv'
  BY <1>1, <1>2, Kept DEF RingInv, ScatterInv
<1>6. ChunksInv'
  BY <1>1, Kept DEF RingInv, ChunksInv, Piece, AsUnsigned
<1>7. PassingInv'
  BY <1>1, <1>2, Kept DEF RingInv, PassingInv
<1>8. ResultsInv'
  BY <1>1, Kept DEF RingInv, ResultsInv
<1>9. OutputInv'
  BY <1>1, Kept DEF RingInv, OutputInv
<1> QED BY <1>3, <1>4, <1>5, <1>6, <1>7, <1>8, <1>9 DEF RingInv

\* What every step of the program keeps: what each index holds of which fragment,
\* from which ranks, after so many steps in each direction.
THEOREM RingInvariant == RingsFit /\ RingSpec => []RingInv
PROOF
<1> SUFFICES ASSUME RingsFit PROVE RingSpec => []RingInv
  OBVIOUS
<1>1. RingInit => RingInv
  BY InitHolds
<1>2. RingInv /\ [RingNext]_ringVars => RingInv'
  <2> SUFFICES ASSUME RingInv, [RingNext]_ringVars PROVE RingInv'
    OBVIOUS
  <2>1. CASE Copy
    BY <2>1, CopyKeeps
  <2>2. CASE Reduce
    BY <2>2, ReduceKeeps
  <2>3. CASE CreateChunks
    BY <2>3, ChunksKeep
  <2>4. CASE GatherCopy
    BY <2>4, GatherKeeps
  <2>5. CASE Finish
    BY <2>5, FinishKeeps
  <2>6. CASE Done \/ UNCHANGED ringVars
    BY <2>6, Stutters DEF Done
  <2> QED BY <2>1, <2>2, <2>3, <2>4, <2>5, <2>6 DEF RingNext
<1> QED BY <1>1, <1>2, PTL DEF RingSpec

LEMMA InvariantSuffices ==
  ASSUME RingsFit, RingInv
  PROVE  RingInOrder
PROOF
<1>1. RingCallOK
  BY DEF RingInv, RingTypeOK, RingCallOK
<1>2. OperandsMatch
  BY Operands DEF OperandsMatch
<1>3. ScatteredInOrder
  <2> SUFFICES ASSUME chunks # <<>>, NEW i \in Index
               PROVE  chunks[Ring[i]] = [tensor |-> Piece(Total, i, N), index |-> i]
    BY DEF ScatteredInOrder
  <2>1. Ring[i] \in Rank /\ At(Ring[i]) = i
    BY <1>1, RingBijects
  <2> QED BY <2>1 DEF RingInv, ChunksInv
<1>4. NothingMissing
  BY <1>1, AllHeld DEF RingInv, ResultsInv, NothingMissing
<1>5. GatheredInOrder
  BY DEF RingInv, OutputInv, GatheredInOrder
<1> QED BY <1>2, <1>3, <1>4, <1>5 DEF RingInv, RingInOrder

\* Reducing by any of the methods, and gathering by any of them, joins at each step
\* fragments of the same place that have no rank in common, leaves each rank its
\* fragment and then the whole in order, and comes to its end with no chunk missing
\* (TensorCollectives.cpp), for any number of ranks and elements.
THEOREM AllReduceIsRight == RingsFit /\ RingSpec => []RingInOrder
PROOF
<1> SUFFICES ASSUME RingsFit PROVE RingSpec => []RingInOrder
  OBVIOUS
<1>1. RingInv => RingInOrder
  BY InvariantSuffices
<1>2. RingSpec => []RingInv
  BY RingInvariant
<1> QED BY <1>1, <1>2, PTL
=============================================================================
