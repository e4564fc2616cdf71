-------------------------- MODULE ConstraintProofs --------------------------
(***************************************************************************)
(* That the constraints of popsolver narrow soundly and decide             *)
(* assignments, for any domains, any number of operands and any width of   *)
(* numbers.                                                                *)
(*                                                                         *)
(* Each constraint has a lemma that its propagate() is Sound.  For Max,    *)
(* Min, Sum and Call the loop over the operands is a fold, which goes      *)
(* through one state for each operand; for Product the loop is shown to    *)
(* end, and to keep what one pass keeps.  The theorems are at the end.     *)
(***************************************************************************)
EXTENDS ConstraintCalls, WellFoundedInduction, SequenceTheorems, TLAPS

-----------------------------------------------------------------------------
(* Numbers *)

LEMMA Smallest ==
  ASSUME NEW T, T \subseteq Nat, T # {}
  PROVE  \E x \in T : \A y \in T : x <= y
PROOF
<1> DEFINE R == OpToRel(<, Nat)
<1>1. IsWellFoundedOn(R, Nat)
  BY NatLessThanWellFounded
<1>2. \A x, y \in Nat : x < y => <<x, y>> \in R
  BY DEF OpToRel
<1> HIDE DEF R
<1>3. PICK x \in T : \A y \in T : ~ (<<y, x>> \in R)
  BY <1>1, WFMin
<1>4. ASSUME NEW y \in T PROVE x <= y
  <2>1. x \in Nat /\ y \in Nat /\ ~ (y < x)
    BY <1>2, <1>3
  <2> QED BY <2>1
<1> QED BY <1>4

\* Induction up to n: what holds first, and next wherever it holds, holds of all
LEMMA UpTo ==
  ASSUME NEW n \in Nat, NEW T, 0 \in T, \A i \in 1 .. n : i - 1 \in T => i \in T
  PROVE  0 .. n \subseteq T
PROOF
<1> SUFFICES ASSUME 0 .. n \ T # {} PROVE FALSE
  OBVIOUS
<1>1. PICK x \in 0 .. n \ T : \A y \in 0 .. n \ T : x <= y
  <2>1. 0 .. n \ T \subseteq Nat
    OBVIOUS
  <2> QED BY <2>1, Smallest
<1>2. x \in 1 .. n /\ x - 1 \in 0 .. n /\ ~ (x <= x - 1)
  BY <1>1
<1> QED BY <1>1, <1>2

LEMMA Times ==
  ASSUME NEW a \in Nat, NEW b \in Nat, NEW m \in Nat
  PROVE  /\ a * m \in Nat /\ a * m = m * a
         /\ a <= b => a * m <= b * m
         /\ a * m < b * m => a < b
         /\ m # 0 /\ a * m <= b * m => a <= b
PROOF
<1>1. a * m \in Nat /\ b * m \in Nat /\ a * m = m * a
  BY Z3
<1>2. ASSUME NEW c \in Nat, NEW d \in Nat, c <= d PROVE c * m <= d * m
  <2>1. PICK e \in Nat : d = c + e
    <3>1. d - c \in Nat /\ d = c + (d - c)
      BY <1>2
    <3> QED BY <3>1
  <2>2. d * m = c * m + e * m /\ e * m \in Nat /\ c * m \in Nat
    BY <2>1, Z3
  <2> QED BY <2>2
<1>3. a <= b => a * m <= b * m
  BY <1>2
<1>4. a * m < b * m => a < b
  <2>1. b <= a => b * m <= a * m
    BY <1>2
  <2> QED BY <1>1, <2>1
<1>5. ASSUME m # 0, a * m <= b * m PROVE a <= b
  <2>1. ASSUME b + 1 <= a PROVE FALSE
    <3>1. (b + 1) * m <= a * m
      BY <1>2, <2>1
    <3>2. (b + 1) * m = b * m + m
      BY Z3
    <3> QED BY <1>1, <1>5, <3>1, <3>2
  <2> QED BY <2>1
<1> QED BY <1>1, <1>3, <1>4, <1>5

LEMMA SquareBelow ==
  ASSUME NEW m \in Nat, NEW w \in Nat, w = m + 1
  PROVE  m * m \in Nat /\ w * w \in Nat /\ m * m < w * w
PROOF
<1>1. PICK k \in Nat : k = m * m
  BY Times
<1>2. (m + 1) * (m + 1) = k + m + m + 1
  BY <1>1, Z3
<1> QED BY <1>1, <1>2

LEMMA MinOf ==
  ASSUME NEW S, S \subseteq Nat, S # {}
  PROVE  Min(S) \in S /\ \A x \in S : Min(S) <= x
PROOF
<1>1. \E x \in S : \A y \in S : x <= y
  BY Smallest
<1> QED BY <1>1, Zenon DEF Min

LEMMA MaxOf ==
  ASSUME NEW n \in Nat, NEW S, S \subseteq 0 .. n, S # {}
  PROVE  Max(S) \in S /\ \A x \in S : x <= Max(S)
PROOF
<1> DEFINE T == {n - x : x \in S}
<1>1. PICK y \in T : \A z \in T : y <= z
  <2>1. \A x \in S : n - x \in Nat
    OBVIOUS
  <2>2. T \subseteq Nat
    BY <2>1
  <2>3. T # {}
    OBVIOUS
  <2> HIDE DEF T
  <2> QED BY <2>2, <2>3, Smallest
<1>2. PICK m \in S : y = n - m
  BY <1>1
<1>3. \A x \in S : m >= x
  <2> SUFFICES ASSUME NEW x \in S PROVE m >= x
    OBVIOUS
  <2>1. y <= n - x /\ x \in 0 .. n /\ m \in 0 .. n
    BY <1>1
  <2> QED BY <1>2, <2>1
<1>4. Max(S) \in S /\ \A x \in S : Max(S) >= x
  <2>1. \E z \in S : \A x \in S : z >= x
    BY <1>3
  <2> QED BY <2>1 DEF Max
<1>5. PICK M : M = Max(S)
  OBVIOUS
<1>6. M \in S /\ \A x \in S : M >= x
  BY <1>4, <1>5
<1>7. \A x \in S : x <= M
  <2>1. \A x \in 0 .. n : x \in Int
    OBVIOUS
  <2>2. \A x \in S : x \in Int
    BY <2>1, Zenon
  <2> QED BY <1>6, <2>2
<1> QED BY <1>4, <1>5, <1>7

-----------------------------------------------------------------------------
(* Folds over lists.  The library's folds are recursive functions of sets  *)
(* of positions, which take the last position first.                       *)

\* The recursion, with g for the operation; it may say nothing of what is not in S.
Folds(it, n, S, base, g) ==
  /\ it[{}] = base
  /\ \A s \in SUBSET (1 .. n) :
       s # {} /\ it[s \ {Max(s)}] \in S => it[s] = g[<<it[s \ {Max(s)}], Max(s)>>]

\* The values it goes through
Leads(h, n, base, g, last) ==
  h[0] = base /\ h[n] = last /\ \A i \in 1 .. n : h[i] = g[<<h[i - 1], i>>]

\* The recursion is well-defined.
LEMMA FoldExists ==
  ASSUME NEW n \in Nat, NEW S, NEW base \in S, NEW g \in [S \X (1 .. n) -> S]
  PROVE  \E it \in [SUBSET (1 .. n) -> S] : Folds(it, n, S, base, g)
PROOF
<1> DEFINE Eq(k, it) ==
             \A s \in SUBSET (1 .. k) :
               it[s] = IF s = {} THEN base ELSE g[<<it[s \ {Max(s)}], Max(s)>>]
           T == {k \in 0 .. n : \E it \in [SUBSET (1 .. k) -> S] : Eq(k, it)}
<1>1. 0 \in T
  <2>1. SUBSET (1 .. 0) = {{}}
    OBVIOUS
  <2>2. [s \in SUBSET (1 .. 0) |-> base] \in [SUBSET (1 .. 0) -> S]
    OBVIOUS
  <2>3. Eq(0, [s \in SUBSET (1 .. 0) |-> base])
    BY <2>1
  <2> HIDE DEF Eq
  <2> QED BY <2>2, <2>3
<1>2. ASSUME NEW k \in 1 .. n, k - 1 \in T PROVE k \in T
  <2>1. PICK it \in [SUBSET (1 .. k - 1) -> S] : Eq(k - 1, it)
    BY <1>2
  <2> DEFINE on == [s \in SUBSET (1 .. k) |->
                     IF k \in s THEN g[<<it[s \ {k}], k>>] ELSE it[s]]
  <2>2. \A s \in SUBSET (1 .. k) :
          /\ k \in s => s \ {k} \in SUBSET (1 .. k - 1) /\ Max(s) = k
          /\ k \notin s => s \in SUBSET (1 .. k - 1)
    <3> SUFFICES ASSUME NEW s \in SUBSET (1 .. k)
                 PROVE  /\ k \in s => s \ {k} \in SUBSET (1 .. k - 1) /\ Max(s) = k
                        /\ k \notin s => s \in SUBSET (1 .. k - 1)
      OBVIOUS
    <3>1. CASE k \in s
      <4>1. s \subseteq 0 .. k /\ s # {} /\ k \in Nat
        BY <3>1
      <4>2. Max(s) \in s /\ k <= Max(s)
        BY <3>1, <4>1, MaxOf
      <4>3. Max(s) = k
        <5>1. PICK m : m = Max(s)
          OBVIOUS
        <5>2. m \in 1 .. k /\ k <= m
          BY <4>2, <5>1
        <5>3. m = k
          BY <5>2
        <5> QED BY <5>1, <5>3
      <4> QED BY <3>1, <4>3
    <3>2. CASE k \notin s
      BY <3>2
    <3> QED BY <3>1, <3>2
  <2>3. on \in [SUBSET (1 .. k) -> S]
    <3> SUFFICES ASSUME NEW s \in SUBSET (1 .. k) PROVE on[s] \in S
      OBVIOUS
    <3>1. CASE k \in s
      <4>1. it[s \ {k}] \in S
        BY <2>2, <3>1
      <4> QED BY <3>1, <4>1
    <3>2. CASE k \notin s
      BY <2>2, <3>2
    <3> QED BY <3>1, <3>2
  <2>4. Eq(k, on)
    <3> SUFFICES ASSUME NEW s \in SUBSET (1 .. k)
                 PROVE  on[s] = IF s = {} THEN base ELSE g[<<on[s \ {Max(s)}], Max(s)>>]
      OBVIOUS
    <3>1. CASE k \in s
      <4>1. s \ {k} \in SUBSET (1 .. k) /\ on[s \ {k}] = it[s \ {k}]
        OBVIOUS
      <4>2. on[s] = g[<<it[s \ {k}], k>>] /\ Max(s) = k /\ s # {}
        BY <2>2, <3>1
      <4> HIDE DEF on
      <4> QED BY <4>1, <4>2
    <3>2. CASE k \notin s
      <4>1. on[s] = it[s] /\ s \in SUBSET (1 .. k - 1)
        BY <2>2, <3>2
      <4>2. it[s] = IF s = {} THEN base ELSE g[<<it[s \ {Max(s)}], Max(s)>>]
        BY <2>1, <4>1
      <4>3. s \ {Max(s)} \in SUBSET (1 .. k) /\ on[s \ {Max(s)}] = it[s \ {Max(s)}]
        BY <3>2
      <4> HIDE DEF on
      <4> QED BY <4>1, <4>2, <4>3
    <3> QED BY <3>1, <3>2
  <2> HIDE DEF on, Eq
  <2> QED BY <2>3, <2>4
<1>3. n \in T
  <2> HIDE DEF T
  <2> QED BY <1>1, <1>2, UpTo
<1>4. PICK it \in [SUBSET (1 .. n) -> S] : Eq(n, it)
  BY <1>3
<1>5. Folds(it, n, S, base, g)
  <2>1. it[{}] = base
    BY <1>4
  <2> QED BY <1>4, <2>1 DEF Folds
<1> QED BY <1>5

LEMMA FoldSteps ==
  ASSUME NEW n \in Nat, NEW S, NEW base \in S, NEW g \in [S \X (1 .. n) -> S],
         NEW it, Folds(it, n, S, base, g)
  PROVE  \E h \in [0 .. n -> S] : Leads(h, n, base, g, it[1 .. n])
PROOF
<1>0. /\ it[{}] = base
      /\ \A s \in SUBSET (1 .. n) :
           s # {} /\ it[s \ {Max(s)}] \in S => it[s] = g[<<it[s \ {Max(s)}], Max(s)>>]
  BY DEF Folds
<1> DEFINE h == [i \in 0 .. n |-> it[1 .. i]]
<1>1. h[0] = base
  <2>1. 1 .. 0 = {} /\ 0 \in 0 .. n
    OBVIOUS
  <2> QED BY <1>0, <2>1
<1>2. ASSUME NEW i \in 1 .. n, h[i - 1] \in S PROVE h[i] = g[<<h[i - 1], i>>]
  <2>1. 1 .. i \in SUBSET (1 .. n) /\ 1 .. i # {} /\ 1 .. i \subseteq 0 .. i /\ i \in 1 .. i /\ i \in Nat
    OBVIOUS
  <2>2. Max(1 .. i) \in 1 .. i /\ i <= Max(1 .. i)
    BY <2>1, MaxOf
  <2>3. Max(1 .. i) = i /\ (1 .. i) \ {i} = 1 .. i - 1
    <3>1. PICK m : m = Max(1 .. i)
      OBVIOUS
    <3>2. m \in 1 .. i /\ i <= m
      BY <2>2, <3>1
    <3>3. m = i
      BY <3>2
    <3> QED BY <3>1, <3>3
  <2>4. i \in 0 .. n /\ i - 1 \in 0 .. n
    OBVIOUS
  <2>5. h[i] = it[1 .. i] /\ h[i - 1] = it[1 .. i - 1]
    BY <2>4
  <2> HIDE DEF h
  <2>6. it[(1 .. i) \ {Max(1 .. i)}] \in S
    BY <1>2, <2>3, <2>5
  <2>7. it[1 .. i] = g[<<it[(1 .. i) \ {Max(1 .. i)}], Max(1 .. i)>>]
    BY <1>0, <2>1, <2>6
  <2> QED BY <2>3, <2>5, <2>7
<1>3. \A i \in 0 .. n : h[i] \in S
  <2> DEFINE T == {i \in 0 .. n : h[i] \in S}
  <2>1. 0 \in T
    BY <1>1
  <2>2. ASSUME NEW i \in 1 .. n, i - 1 \in T PROVE i \in T
    <3> HIDE DEF h
    <3>1. h[i - 1] \in S /\ i \in 0 .. n
      BY <2>2
    <3>2. h[i] = g[<<h[i - 1], i>>]
      BY <1>2, <3>1
    <3> QED BY <3>1, <3>2
  <2>3. 0 .. n \subseteq T
    <3> HIDE DEF T
    <3> QED BY <2>1, <2>2, UpTo
  <2> QED BY <2>3
<1>5. h \in [0 .. n -> S] /\ \A i \in 1 .. n : h[i - 1] \in S
  <2>1. h = [i \in 0 .. n |-> h[i]] /\ \A i \in 1 .. n : i - 1 \in 0 .. n
    OBVIOUS
  <2> HIDE DEF h
  <2> QED BY <1>3, <2>1
<1>4. h[n] = it[1 .. n]
  OBVIOUS
<1> HIDE DEF h
<1> QED BY <1>1, <1>2, <1>4, <1>5 DEF Leads

-----------------------------------------------------------------------------
(* What single changes do *)

LEMMA Words ==
  /\ 2^Bits \in Nat /\ 2^Bits >= 2
  /\ Word = 0 .. 2^Bits - 1
  /\ \A n \in Word : AsWord(n) = n
  /\ \A n \in Nat : n < 2^Bits * 2^Bits => AsBig(n) = n
PROOF
<1>1. 2^Bits \in Nat /\ 2^Bits >= 2 /\ 2^(2 * Bits) = 2^Bits * 2^Bits
  BY BitsAssumption
<1>2. PICK w \in Nat : w = 2^Bits
  BY <1>1
<1>3. \A n \in 0 .. w - 1 : n % w = n
  BY <1>1, <1>2, Z3
<1>4. PICK b \in Nat : b = w * w /\ b >= 1
  BY <1>1, <1>2, Z3
<1>5. \A n \in Nat : n < b => n % b = n
  BY <1>4, Z3
<1> QED BY <1>1, <1>2, <1>3, <1>4, <1>5 DEF Word, AsWord, AsBig

\* A state on the way through a call in which nothing has gone wrong
Fine(t) ==
  /\ t \in PropState
  /\ ~ t.fault
  /\ \A v \in Variable : t.dom[v].min <= t.dom[v].max

\* Domains of u are within those of t.
Narrower(t, u) ==
  \A v \in Variable :
    t.dom[v].min <= u.dom[v].min /\ u.dom[v].max <= t.dom[v].max

LEMMA DomainTyped ==
  ASSUME NEW t \in PropState, NEW v \in Variable
  PROVE  /\ t.dom[v] \in Domain
         /\ t.dom[v].min \in Word /\ t.dom[v].max \in Word
         /\ t.dom[v].min \in Nat /\ t.dom[v].max \in Nat
         /\ t.dom[v] = [min |-> t.dom[v].min, max |-> t.dom[v].max]
PROOF
<1>1. t.dom[v] \in Domain
  BY DEF PropState, Domains
<1>2. \A n \in Word : n \in Nat
  BY Words
<1> QED BY <1>1, <1>2 DEF Domain

\* A change of one domain
LEMMA SetTyped ==
  ASSUME NEW t \in PropState, NEW v \in Variable, NEW d \in Domain, NEW n
  PROVE  /\ SetDomain(t, v, d, n) \in PropState
         /\ SetDomain(t, v, d, n).ok = t.ok
         /\ SetDomain(t, v, d, n).dom[v] = d
         /\ \A w \in Variable : w # v => SetDomain(t, v, d, n).dom[w] = t.dom[w]
         /\ SetDomain(t, v, d, n).touched = Append(t.touched, v)
         /\ n \in Interval(t.dom[v]) /\ ~ t.fault => ~ SetDomain(t, v, d, n).fault
PROOF
<1>1. /\ t.ok \in BOOLEAN /\ t.dom \in [Variable -> Domain] /\ t.touched \in Seq(Variable)
      /\ t.fault \in BOOLEAN
      /\ t = [ok |-> t.ok, dom |-> t.dom, touched |-> t.touched, fault |-> t.fault]
  BY DEF PropState, Domains
<1>2. SetDomain(t, v, d, n) =
        [ok |-> t.ok, dom |-> [t.dom EXCEPT ![v] = d], touched |-> Append(t.touched, v),
         fault |-> t.fault \/ ~ (n \in Interval(t.dom[v]))]
  <2>1. PICK bad : bad = (t.fault \/ ~ (n \in Interval(t.dom[v])))
    OBVIOUS
  <2>2. PICK c : c = Checked(t, n \in Interval(t.dom[v]))
    OBVIOUS
  <2>3. c = [t EXCEPT !.fault = bad]
    BY <2>1, <2>2, Zenon DEF Checked
  <2>4. c = [ok |-> t.ok, dom |-> t.dom, touched |-> t.touched, fault |-> bad]
    BY <1>1, <2>3
  <2>5. SetDomain(t, v, d, n) = [c EXCEPT !.dom[v] = d, !.touched = Append(@, v)]
    BY <2>2 DEF SetDomain
  <2>6. PICK o, f : o = t.ok /\ f = bad
    OBVIOUS
  <2>7. PICK old, new, T : old = t.touched /\ new = [t.dom EXCEPT ![v] = d] /\ T = Append(t.touched, v)
    OBVIOUS
  <2>8. c = [ok |-> o, dom |-> t.dom, touched |-> old, fault |-> f]
    BY <2>4, <2>6, <2>7
  <2>9. [c EXCEPT !.dom[v] = d, !.touched = Append(@, v)] =
          [[c EXCEPT !.dom = new] EXCEPT !.touched = T]
    BY <2>7, <2>8
  <2>10. PICK r : r = [c EXCEPT !.dom = new]
    OBVIOUS
  <2>11. r = [ok |-> o, dom |-> new, touched |-> old, fault |-> f]
    BY <2>8, <2>10
  <2>12. [r EXCEPT !.touched = T] = [ok |-> o, dom |-> new, touched |-> T, fault |-> f]
    BY <2>11
  <2> QED BY <2>1, <2>5, <2>6, <2>7, <2>9, <2>10, <2>12
<1>3. [t.dom EXCEPT ![v] = d] \in [Variable -> Domain] /\ Append(t.touched, v) \in Seq(Variable)
  BY <1>1
<1>4. (t.fault \/ ~ (n \in Interval(t.dom[v]))) \in BOOLEAN
  OBVIOUS
<1>5. SetDomain(t, v, d, n) \in PropState
  BY <1>1, <1>2, <1>3, <1>4 DEF PropState, Domains
<1> QED BY <1>1, <1>2, <1>5

LEMMA LowerMaxIs ==
  ASSUME NEW t, Fine(t), NEW v \in Variable, NEW n \in Int, n >= t.dom[v].min
  PROVE  LET u == LowerMax(t, v, n)
         IN  /\ Fine(u) /\ u.ok = t.ok /\ Narrower(t, u)
             /\ u.dom[v].min = t.dom[v].min
             /\ u.dom[v].max = IF n < t.dom[v].max THEN n ELSE t.dom[v].max
             /\ \A w \in Variable : w # v => u.dom[w] = t.dom[w]
PROOF
<1>1. t \in PropState /\ ~ t.fault /\ \A w \in Variable : t.dom[w].min <= t.dom[w].max
  BY DEF Fine
<1>2. \A w \in Variable : t.dom[w].min \in Nat /\ t.dom[w].max \in Nat
  BY <1>1, DomainTyped
<1>3. CASE n < t.dom[v].max
  <2>0. PICK d : d = [min |-> t.dom[v].min, max |-> n]
    OBVIOUS
  <2>u. PICK u : u = SetDomain(t, v, d, n)
    OBVIOUS
  <2>1. n \in Word /\ n \in Interval(t.dom[v])
    <3>1. /\ t.dom[v].min \in Nat /\ t.dom[v].max \in Nat
          /\ t.dom[v].min \in Word /\ t.dom[v].max \in Word
      BY <1>1, DomainTyped
    <3>2. PICK w \in Nat : Word = 0 .. w - 1
      BY Words
    <3> QED BY <1>1, <1>3, <3>1, <3>2 DEF Interval
  <2>2. d \in Domain
    BY <1>1, <2>0, <2>1, DomainTyped DEF Domain
  <2>3. LowerMax(t, v, n) = u
    BY <1>3, <2>0, <2>u DEF LowerMax, SetMax
  <2>4. d.min = t.dom[v].min /\ d.max = n
    BY <2>0
  <2>5. /\ u \in PropState /\ u.ok = t.ok /\ u.dom[v] = d /\ ~ u.fault
        /\ \A w \in Variable : w # v => u.dom[w] = t.dom[w]
    <3>1. t \in PropState /\ v \in Variable /\ d \in Domain
      BY <1>1, <2>2
    <3>2. /\ u \in PropState /\ u.ok = t.ok /\ u.dom[v] = d
          /\ \A w \in Variable : w # v => u.dom[w] = t.dom[w]
          /\ n \in Interval(t.dom[v]) /\ ~ t.fault => ~ u.fault
      BY <2>u, <3>1, SetTyped
    <3> QED BY <1>1, <2>1, <3>2
  <2>6. \A w \in Variable : u.dom[w].min <= u.dom[w].max
    BY <1>1, <2>1, <2>4, <2>5 DEF Interval
  <2>7. Narrower(t, u)
    BY <1>2, <1>3, <2>4, <2>5 DEF Narrower
  <2> QED BY <1>3, <2>3, <2>4, <2>5, <2>6, <2>7 DEF Fine
<1>4. CASE ~ (n < t.dom[v].max)
  <2>1. LowerMax(t, v, n) = t
    BY <1>4 DEF LowerMax
  <2> QED BY <1>2, <1>4, <2>1 DEF Narrower
<1> QED BY <1>3, <1>4

LEMMA RaiseMinIs ==
  ASSUME NEW t, Fine(t), NEW v \in Variable, NEW n \in Int, n <= t.dom[v].max
  PROVE  LET u == RaiseMin(t, v, n)
         IN  /\ Fine(u) /\ u.ok = t.ok /\ Narrower(t, u)
             /\ u.dom[v].max = t.dom[v].max
             /\ u.dom[v].min = IF n > t.dom[v].min THEN n ELSE t.dom[v].min
             /\ \A w \in Variable : w # v => u.dom[w] = t.dom[w]
PROOF
<1>1. t \in PropState /\ ~ t.fault /\ \A w \in Variable : t.dom[w].min <= t.dom[w].max
  BY DEF Fine
<1>2. \A w \in Variable : t.dom[w].min \in Nat /\ t.dom[w].max \in Nat
  BY <1>1, DomainTyped
<1>3. CASE n > t.dom[v].min
  <2>0. PICK d : d = [min |-> n, max |-> t.dom[v].max]
    OBVIOUS
  <2>u. PICK u : u = SetDomain(t, v, d, n)
    OBVIOUS
  <2>1. n \in Word /\ n \in Interval(t.dom[v])
    <3>1. /\ t.dom[v].min \in Nat /\ t.dom[v].max \in Nat
          /\ t.dom[v].min \in Word /\ t.dom[v].max \in Word
      BY <1>1, DomainTyped
    <3>2. PICK w \in Nat : Word = 0 .. w - 1
      BY Words
    <3> QED BY <1>1, <1>3, <3>1, <3>2 DEF Interval
  <2>2. d \in Domain
    BY <1>1, <2>0, <2>1, DomainTyped DEF Domain
  <2>3. RaiseMin(t, v, n) = u
    BY <1>3, <2>0, <2>u DEF RaiseMin, SetMin
  <2>4. d.max = t.dom[v].max /\ d.min = n
    BY <2>0
  <2>5. /\ u \in PropState /\ u.ok = t.ok /\ u.dom[v] = d /\ ~ u.fault
        /\ \A w \in Variable : w # v => u.dom[w] = t.dom[w]
    <3>1. t \in PropState /\ v \in Variable /\ d \in Domain
      BY <1>1, <2>2
    <3>2. /\ u \in PropState /\ u.ok = t.ok /\ u.dom[v] = d
          /\ \A w \in Variable : w # v => u.dom[w] = t.dom[w]
          /\ n \in Interval(t.dom[v]) /\ ~ t.fault => ~ u.fault
      BY <2>u, <3>1, SetTyped
    <3> QED BY <1>1, <2>1, <3>2
  <2>6. \A w \in Variable : u.dom[w].min <= u.dom[w].max
    BY <1>1, <2>1, <2>4, <2>5 DEF Interval
  <2>7. Narrower(t, u)
    BY <1>2, <1>3, <2>4, <2>5 DEF Narrower
  <2> QED BY <1>3, <2>3, <2>4, <2>5, <2>6, <2>7 DEF Fine
<1>4. CASE ~ (n > t.dom[v].min)
  <2>1. RaiseMin(t, v, n) = t
    BY <1>4 DEF RaiseMin
  <2> QED BY <1>2, <1>4, <2>1 DEF Narrower
<1> QED BY <1>3, <1>4

LEMMA FailIs ==
  ASSUME NEW t, Fine(t)
  PROVE  /\ Fine(Fail(t)) /\ Fail(t).ok = FALSE /\ Fail(t).dom = t.dom
         /\ Narrower(t, Fail(t)) /\ Narrower(t, t)
PROOF
<1>1. t \in PropState /\ Fail(t) \in PropState /\ Fail(t).ok = FALSE /\ Fail(t).dom = t.dom
      /\ Fail(t).fault = t.fault
  BY DEF Fine, Fail, PropState
<1>2. \A w \in Variable : t.dom[w].min \in Nat /\ t.dom[w].max \in Nat
  BY <1>1, DomainTyped
<1> QED BY <1>1, <1>2 DEF Fine, Narrower

LEMMA CheckedIs ==
  ASSUME NEW t, Fine(t), NEW p \in BOOLEAN, p
  PROVE  Checked(t, p) = t
PROOF BY DEF Checked, Fine, PropState

LEMMA NarrowerTrans ==
  ASSUME NEW t, NEW u, NEW s, Fine(t), Fine(u), Fine(s), Narrower(t, u), Narrower(u, s)
  PROVE  Narrower(t, s)
PROOF
<1>1. \A w \in Variable : /\ t.dom[w].min \in Nat /\ t.dom[w].max \in Nat
                          /\ u.dom[w].min \in Nat /\ u.dom[w].max \in Nat
                          /\ s.dom[w].min \in Nat /\ s.dom[w].max \in Nat
  BY DomainTyped DEF Fine
<1> QED BY <1>1 DEF Narrower

-----------------------------------------------------------------------------
(* What a call is to do.  A call is from domains dom with no interval      *)
(* empty, and returns the state t.                                         *)

Holds(a, c, t) == \A v \in GetVariables(c) : a[v] \in Interval(t.dom[v])

\* No solution is lost, and none is left that is not one when all is assigned.
Decides(c, dom, t) ==
  /\ \A a \in [GetVariables(c) -> Word] :
       Meaning(c, a) /\ Holds(a, c, Call(dom)) => t.ok /\ Holds(a, c, t)
  /\ t.ok /\ (\A v \in GetVariables(c) : dom[v].min = dom[v].max) =>
       Meaning(c, [v \in GetVariables(c) |-> dom[v].min])

Sound(c, dom, t) == Fine(t) /\ Narrower(Call(dom), t) /\ Decides(c, dom, t)

\* The domains that are left hold all that are in every bound found.
LEMMA HoldsIf ==
  ASSUME NEW c, c.vars \in Seq(Variable), NEW a \in [GetVariables(c) -> Word],
         NEW t, Fine(t),
         \A v \in GetVariables(c) : t.dom[v].min <= a[v] /\ a[v] <= t.dom[v].max
  PROVE  Holds(a, c, t)
PROOF
<1>1. \A v \in GetVariables(c) : v \in Variable
  BY DEF GetVariables, ToSet
<1>2. \A v \in GetVariables(c) : t.dom[v].min \in Nat /\ t.dom[v].max \in Nat
  BY <1>1, DomainTyped DEF Fine
<1>3. \A v \in GetVariables(c) : a[v] \in Nat
  BY Words
<1> QED BY <1>2, <1>3 DEF Holds, Interval

LEMMA HoldsThen ==
  ASSUME NEW c, c.vars \in Seq(Variable), NEW a \in [GetVariables(c) -> Word],
         NEW t, Fine(t), Holds(a, c, t), NEW i \in DOMAIN c.vars
  PROVE  /\ c.vars[i] \in Variable /\ c.vars[i] \in GetVariables(c)
         /\ a[c.vars[i]] \in Nat /\ a[c.vars[i]] \in Word
         /\ t.dom[c.vars[i]].min \in Nat /\ t.dom[c.vars[i]].max \in Nat
         /\ t.dom[c.vars[i]].min <= a[c.vars[i]] /\ a[c.vars[i]] <= t.dom[c.vars[i]].max
PROOF
<1>1. c.vars[i] \in Variable /\ c.vars[i] \in GetVariables(c)
  BY DEF GetVariables, ToSet
<1>2. PICK v \in Variable : v = c.vars[i]
  BY <1>1
<1>3. t.dom[v].min \in Nat /\ t.dom[v].max \in Nat
  BY DomainTyped DEF Fine
<1>4. a[v] \in Nat /\ a[v] \in Word
  BY <1>1, <1>2, Words
<1>5. a[v] \in Interval(t.dom[v])
  BY <1>1, <1>2 DEF Holds
<1> QED BY <1>1, <1>2, <1>3, <1>4, <1>5 DEF Interval

-----------------------------------------------------------------------------
(* Less and LessOrEqual *)

LEMMA TwoVariables ==
  ASSUME NEW c, c.kind \in {"Less", "LessOrEqual"}, c.vars \in Seq(Variable),
         Len(c.vars) = 2, IsInjective(c.vars)
  PROVE  /\ c.vars[1] \in Variable /\ c.vars[2] \in Variable /\ c.vars[1] # c.vars[2]
         /\ 1 \in DOMAIN c.vars /\ 2 \in DOMAIN c.vars
         /\ GetVariables(c) = {c.vars[1], c.vars[2]}
         /\ \A a : Meaning(c, a) <=>
              IF c.kind = "Less" THEN a[c.vars[1]] < a[c.vars[2]]
                                 ELSE a[c.vars[1]] <= a[c.vars[2]]
PROOF
<1>1. DOMAIN c.vars = {1, 2}
  OBVIOUS
<1>2. c.vars[1] # c.vars[2]
  BY <1>1 DEF IsInjective
<1>3. GetVariables(c) = {c.vars[1], c.vars[2]}
  BY <1>1 DEF GetVariables, ToSet
<1>4. ASSUME NEW a
      PROVE  Meaning(c, a) <=> IF c.kind = "Less" THEN a[c.vars[1]] < a[c.vars[2]]
                                                  ELSE a[c.vars[1]] <= a[c.vars[2]]
  <2> DEFINE value == [i \in DOMAIN c.vars |-> a[c.vars[i]]]
  <2>1. value[1] = a[c.vars[1]] /\ value[2] = a[c.vars[2]]
    BY <1>1
  <2>2. CASE c.kind = "Less"
    <3>1. Meaning(c, a) <=> value[1] < value[2]
      BY <2>2 DEF Meaning
    <3> QED BY <2>1, <2>2, <3>1
  <2>3. CASE c.kind = "LessOrEqual"
    <3>1. Meaning(c, a) <=> value[1] <= value[2]
      BY <2>3 DEF Meaning
    <3> QED BY <2>1, <2>3, <3>1
  <2> QED BY <2>2, <2>3
<1> QED BY <1>1, <1>2, <1>3, <1>4

LEMMA LessOrEqualSound ==
  ASSUME NEW c, c.kind = "LessOrEqual", c.vars \in Seq(Variable), Len(c.vars) = 2,
         IsInjective(c.vars), NEW dom, Fine(Call(dom))
  PROVE  Sound(c, dom, PropagateLessOrEqual(c, dom))
PROOF
<1>0. PICK s0 : s0 = Call(dom)
  OBVIOUS
<1>1. s0.ok /\ s0.dom = dom /\ Fine(s0)
  BY <1>0 DEF Call
<1>2. PICK l, r : l = c.vars[1] /\ r = c.vars[2]
  OBVIOUS
<1>3. /\ l \in Variable /\ r \in Variable /\ l # r /\ GetVariables(c) = {l, r}
      /\ \A a : Meaning(c, a) <=> a[l] <= a[r]
  BY <1>2, TwoVariables
<1>4. /\ s0.dom[l].min \in Nat /\ s0.dom[l].max \in Nat /\ s0.dom[l].min <= s0.dom[l].max
      /\ s0.dom[r].min \in Nat /\ s0.dom[r].max \in Nat /\ s0.dom[r].min <= s0.dom[r].max
  BY <1>1, <1>3, DomainTyped DEF Fine
<1>5. CASE s0.dom[l].min > s0.dom[r].max
  <2>1. PropagateLessOrEqual(c, dom) = Fail(s0)
    BY <1>0, <1>1, <1>2, <1>5 DEF PropagateLessOrEqual
  <2>2. Fine(Fail(s0)) /\ ~ Fail(s0).ok /\ Narrower(s0, Fail(s0))
    BY <1>1, FailIs
  <2>3. ASSUME NEW a \in [GetVariables(c) -> Word], Meaning(c, a), Holds(a, c, s0)
        PROVE  FALSE
    <3>1. a[l] <= a[r] /\ a[l] \in Interval(s0.dom[l]) /\ a[r] \in Interval(s0.dom[r])
      BY <1>3, <2>3 DEF Holds
    <3> QED BY <1>4, <1>5, <3>1 DEF Interval
  <2> QED BY <1>0, <2>1, <2>2, <2>3 DEF Sound, Decides
<1>6. CASE ~ (s0.dom[l].min > s0.dom[r].max)
  <2>1. PICK s : s = RaiseMin(s0, r, s0.dom[l].min)
    OBVIOUS
  <2>2. /\ Fine(s) /\ s.ok = s0.ok /\ Narrower(s0, s)
        /\ s.dom[r].max = s0.dom[r].max
        /\ s.dom[r].min = IF s0.dom[l].min > s0.dom[r].min THEN s0.dom[l].min ELSE s0.dom[r].min
        /\ \A w \in Variable : w # r => s.dom[w] = s0.dom[w]
    <3>1. Fine(s0) /\ r \in Variable /\ s0.dom[l].min \in Int /\ s0.dom[l].min <= s0.dom[r].max
      BY <1>1, <1>3, <1>4, <1>6
    <3> QED BY <2>1, <3>1, RaiseMinIs
  <2>3. PICK t : t = LowerMax(s, l, s.dom[r].max)
    OBVIOUS
  <2>4. /\ Fine(t) /\ t.ok = s.ok /\ Narrower(s, t)
        /\ t.dom[l].min = s.dom[l].min
        /\ t.dom[l].max = IF s.dom[r].max < s.dom[l].max THEN s.dom[r].max ELSE s.dom[l].max
        /\ \A w \in Variable : w # l => t.dom[w] = s.dom[w]
    <3>1. Fine(s) /\ l \in Variable /\ s.dom[r].max \in Int /\ s.dom[r].max >= s.dom[l].min
      BY <1>3, <1>4, <1>6, <2>2
    <3> QED BY <2>3, <3>1, LowerMaxIs
  <2>5. PropagateLessOrEqual(c, dom) = t
    BY <1>0, <1>1, <1>2, <1>6, <2>1, <2>3 DEF PropagateLessOrEqual
  <2>6. Narrower(s0, t)
    BY <1>1, <2>2, <2>4, NarrowerTrans
  <2>7. ASSUME NEW a \in [GetVariables(c) -> Word], Meaning(c, a), Holds(a, c, s0)
        PROVE  t.ok /\ Holds(a, c, t)
    <3>1. a[l] <= a[r] /\ a[l] \in Interval(s0.dom[l]) /\ a[r] \in Interval(s0.dom[r])
      BY <1>3, <2>7 DEF Holds
    <3>2. a[l] \in Interval(t.dom[l]) /\ a[r] \in Interval(t.dom[r])
      BY <1>3, <1>4, <2>2, <2>4, <3>1, SMTT(40) DEF Interval
    <3> QED BY <1>1, <1>3, <2>2, <2>4, <3>2 DEF Holds
  <2>8. ASSUME \A v \in GetVariables(c) : dom[v].min = dom[v].max
        PROVE  Meaning(c, [v \in GetVariables(c) |-> dom[v].min])
    BY <1>1, <1>3, <1>4, <1>6, <2>8
  <2> QED BY <1>0, <2>4, <2>5, <2>6, <2>7, <2>8 DEF Sound, Decides
<1> QED BY <1>5, <1>6

LEMMA LessSound ==
  ASSUME NEW c, c.kind = "Less", c.vars \in Seq(Variable), Len(c.vars) = 2,
         IsInjective(c.vars), NEW dom, Fine(Call(dom))
  PROVE  Sound(c, dom, PropagateLess(c, dom))
PROOF
<1>0. PICK s0 : s0 = Call(dom)
  OBVIOUS
<1>1. s0.ok /\ s0.dom = dom /\ Fine(s0)
  BY <1>0 DEF Call
<1>2. PICK l, r : l = c.vars[1] /\ r = c.vars[2]
  OBVIOUS
<1>3. /\ l \in Variable /\ r \in Variable /\ l # r /\ GetVariables(c) = {l, r}
      /\ \A a : Meaning(c, a) <=> a[l] < a[r]
  BY <1>2, TwoVariables
<1>4. /\ s0.dom[l].min \in Nat /\ s0.dom[l].max \in Nat /\ s0.dom[l].min <= s0.dom[l].max
      /\ s0.dom[r].min \in Nat /\ s0.dom[r].max \in Nat /\ s0.dom[r].min <= s0.dom[r].max
      /\ s0.dom[r].max \in Word
  BY <1>1, <1>3, DomainTyped DEF Fine
<1>5. CASE s0.dom[l].min >= s0.dom[r].max
  <2>1. PropagateLess(c, dom) = Fail(s0)
    BY <1>0, <1>1, <1>2, <1>5 DEF PropagateLess
  <2>2. Fine(Fail(s0)) /\ ~ Fail(s0).ok /\ Narrower(s0, Fail(s0))
    BY <1>1, FailIs
  <2>3. ASSUME NEW a \in [GetVariables(c) -> Word], Meaning(c, a), Holds(a, c, s0)
        PROVE  FALSE
    <3>1. a[l] < a[r] /\ a[l] \in Interval(s0.dom[l]) /\ a[r] \in Interval(s0.dom[r])
      BY <1>3, <2>3 DEF Holds
    <3> QED BY <1>4, <1>5, <3>1 DEF Interval
  <2> QED BY <1>0, <2>1, <2>2, <2>3 DEF Sound, Decides
<1>6. CASE ~ (s0.dom[l].min >= s0.dom[r].max)
  <2>0. /\ AsWord(s0.dom[l].min + 1) = s0.dom[l].min + 1
        /\ AsWord(s0.dom[r].max - 1) = s0.dom[r].max - 1
    <3>1. PICK w \in Nat : Word = 0 .. w - 1
      BY Words
    <3>2. s0.dom[l].min + 1 \in Word /\ s0.dom[r].max - 1 \in Word
      BY <1>4, <1>6, <3>1
    <3> QED BY <3>2, Words
  <2>1. PICK s : s = RaiseMin(s0, r, s0.dom[l].min + 1)
    OBVIOUS
  <2>2. /\ Fine(s) /\ s.ok = s0.ok /\ Narrower(s0, s)
        /\ s.dom[r].max = s0.dom[r].max
        /\ s.dom[r].min = IF s0.dom[l].min + 1 > s0.dom[r].min THEN s0.dom[l].min + 1
                                                             ELSE s0.dom[r].min
        /\ \A w \in Variable : w # r => s.dom[w] = s0.dom[w]
    <3>1. Fine(s0) /\ r \in Variable /\ s0.dom[l].min + 1 \in Int /\ s0.dom[l].min + 1 <= s0.dom[r].max
      BY <1>1, <1>3, <1>4, <1>6
    <3> QED BY <2>1, <3>1, RaiseMinIs
  <2>3. PICK t : t = LowerMax(s, l, s.dom[r].max - 1)
    OBVIOUS
  <2>4. /\ Fine(t) /\ t.ok = s.ok /\ Narrower(s, t)
        /\ t.dom[l].min = s.dom[l].min
        /\ t.dom[l].max = IF s.dom[r].max - 1 < s.dom[l].max THEN s.dom[r].max - 1
                                                            ELSE s.dom[l].max
        /\ \A w \in Variable : w # l => t.dom[w] = s.dom[w]
    <3>1. Fine(s) /\ l \in Variable /\ s.dom[r].max - 1 \in Int /\ s.dom[r].max - 1 >= s.dom[l].min
      BY <1>3, <1>4, <1>6, <2>2
    <3> QED BY <2>3, <3>1, LowerMaxIs
  <2>5. PropagateLess(c, dom) = t
    <3>1. PropagateLess(c, dom) =
            LET u == RaiseMin(s0, r, AsWord(s0.dom[l].min + 1))
            IN  LowerMax(u, l, AsWord(u.dom[r].max - 1))
      BY <1>0, <1>1, <1>2, <1>6 DEF PropagateLess
    <3>2. s = RaiseMin(s0, r, AsWord(s0.dom[l].min + 1))
      BY <2>0, <2>1
    <3>3. AsWord(s.dom[r].max - 1) = s.dom[r].max - 1
      BY <2>0, <2>2
    <3> QED BY <2>3, <3>1, <3>2, <3>3
  <2>6. Narrower(s0, t)
    BY <1>1, <2>2, <2>4, NarrowerTrans
  <2>7. ASSUME NEW a \in [GetVariables(c) -> Word], Meaning(c, a), Holds(a, c, s0)
        PROVE  t.ok /\ Holds(a, c, t)
    <3>1. a[l] < a[r] /\ a[l] \in Interval(s0.dom[l]) /\ a[r] \in Interval(s0.dom[r])
      BY <1>3, <2>7 DEF Holds
    <3>2. t.dom[l].min = s0.dom[l].min /\ t.dom[r].max = s0.dom[r].max
      BY <1>3, <2>2, <2>4
    <3>3. /\ t.dom[l].max = IF s0.dom[r].max - 1 < s0.dom[l].max THEN s0.dom[r].max - 1
                                                                 ELSE s0.dom[l].max
          /\ t.dom[r].min = IF s0.dom[l].min + 1 > s0.dom[r].min THEN s0.dom[l].min + 1
                                                                 ELSE s0.dom[r].min
      BY <1>3, <2>2, <2>4
    <3>4. a[l] \in Interval(t.dom[l]) /\ a[r] \in Interval(t.dom[r])
      BY <1>4, <3>1, <3>2, <3>3 DEF Interval
    <3> QED BY <1>1, <1>3, <2>2, <2>4, <3>4 DEF Holds
  <2>8. ASSUME \A v \in GetVariables(c) : dom[v].min = dom[v].max
        PROVE  Meaning(c, [v \in GetVariables(c) |-> dom[v].min])
    BY <1>1, <1>3, <1>4, <1>6, <2>8
  <2> QED BY <1>0, <2>4, <2>5, <2>6, <2>7, <2>8 DEF Sound, Decides
<1> QED BY <1>5, <1>6

-----------------------------------------------------------------------------
(* Operands that are brought within a bound one by one *)

ClipMax(s, args, bound) ==
  ForEach(LAMBDA t, v : IF t.dom[v].min > bound THEN Fail(t) ELSE LowerMax(t, v, bound), s, args)

ClipMin(s, args, bound) ==
  ForEach(LAMBDA t, v : IF t.dom[v].max < bound THEN Fail(t) ELSE RaiseMin(t, v, bound), s, args)

StepMax(t, v, bound) ==
  IF t.ok THEN (IF t.dom[v].min > bound THEN Fail(t) ELSE LowerMax(t, v, bound)) ELSE t

StepMin(t, v, bound) ==
  IF t.ok THEN (IF t.dom[v].max < bound THEN Fail(t) ELSE RaiseMin(t, v, bound)) ELSE t

\* The states that clipping goes through
LeadsMax(h, n, s, args, bound) ==
  /\ h[0] = s /\ h[n] = ClipMax(s, args, bound)
  /\ \A i \in 1 .. n : h[i] = StepMax(h[i - 1], args[i], bound)

LeadsMin(h, n, s, args, bound) ==
  /\ h[0] = s /\ h[n] = ClipMin(s, args, bound)
  /\ \A i \in 1 .. n : h[i] = StepMin(h[i - 1], args[i], bound)

LEMMA StepMaxTyped ==
  ASSUME NEW t \in PropState, NEW v \in Variable, NEW bound \in Int
  PROVE  StepMax(t, v, bound) \in PropState
PROOF
<1>1. Fail(t) \in PropState
  BY DEF Fail, PropState
<1>2. ASSUME ~ (t.dom[v].min > bound), bound < t.dom[v].max
      PROVE  LowerMax(t, v, bound) \in PropState
  <2>1. /\ t.dom[v].min \in Nat /\ t.dom[v].max \in Nat
        /\ t.dom[v].min \in Word /\ t.dom[v].max \in Word
    BY DomainTyped
  <2>2. PICK w \in Nat : Word = 0 .. w - 1
    BY Words
  <2>3. bound \in Word
    BY <1>2, <2>1, <2>2
  <2>4. PICK d \in Domain : d = [min |-> t.dom[v].min, max |-> bound]
    <3>1. [min |-> t.dom[v].min, max |-> bound] \in Domain
      BY <2>1, <2>3 DEF Domain
    <3> QED BY <3>1
  <2>5. LowerMax(t, v, bound) = SetDomain(t, v, d, bound)
    BY <1>2, <2>4 DEF LowerMax, SetMax
  <2> QED BY <2>4, <2>5, SetTyped
<1>3. ASSUME ~ (bound < t.dom[v].max) PROVE LowerMax(t, v, bound) = t
  BY <1>3 DEF LowerMax
<1> QED BY <1>1, <1>2, <1>3 DEF StepMax

LEMMA StepMinTyped ==
  ASSUME NEW t \in PropState, NEW v \in Variable, NEW bound \in Int
  PROVE  StepMin(t, v, bound) \in PropState
PROOF
<1>1. Fail(t) \in PropState
  BY DEF Fail, PropState
<1>2. ASSUME ~ (t.dom[v].max < bound), bound > t.dom[v].min
      PROVE  RaiseMin(t, v, bound) \in PropState
  <2>1. /\ t.dom[v].min \in Nat /\ t.dom[v].max \in Nat
        /\ t.dom[v].min \in Word /\ t.dom[v].max \in Word
    BY DomainTyped
  <2>2. PICK w \in Nat : Word = 0 .. w - 1
    BY Words
  <2>3. bound \in Word
    BY <1>2, <2>1, <2>2
  <2>4. PICK d \in Domain : d = [min |-> bound, max |-> t.dom[v].max]
    <3>1. [min |-> bound, max |-> t.dom[v].max] \in Domain
      BY <2>1, <2>3 DEF Domain
    <3> QED BY <3>1
  <2>5. RaiseMin(t, v, bound) = SetDomain(t, v, d, bound)
    BY <1>2, <2>4 DEF RaiseMin, SetMin
  <2> QED BY <2>4, <2>5, SetTyped
<1>3. ASSUME ~ (bound > t.dom[v].min) PROVE RaiseMin(t, v, bound) = t
  BY <1>3 DEF RaiseMin
<1> QED BY <1>1, <1>2, <1>3 DEF StepMin

LEMMA ClipMaxSteps ==
  ASSUME NEW s \in PropState, NEW args \in Seq(Variable), NEW bound \in Int,
         NEW n \in Nat, n = Len(args)
  PROVE  \E h \in [0 .. n -> PropState] : LeadsMax(h, n, s, args, bound)
PROOF
<1> DEFINE g == [p \in PropState \X (1 .. n) |-> StepMax(p[1], args[p[2]], bound)]
           on(it) == [S \in SUBSET (1 .. n) |->
                       IF S = {} THEN s
                       ELSE StepMax(it[S \ {Max(S)}], args[Max(S)], bound)]
<1>1. DOMAIN args = 1 .. n /\ \A i \in 1 .. n : args[i] \in Variable
  OBVIOUS
<1>2. g \in [PropState \X (1 .. n) -> PropState]
  BY <1>1, StepMaxTyped
<1>3. ASSUME NEW t \in PropState, NEW i \in 1 .. n
      PROVE  g[<<t, i>>] = StepMax(t, args[i], bound)
  OBVIOUS
<1>4. ASSUME NEW S \in SUBSET (1 .. n), S # {}
      PROVE  Max(S) \in 1 .. n /\ S \ {Max(S)} \in SUBSET (1 .. n)
  <2>1. S \subseteq 0 .. n
    OBVIOUS
  <2>2. Max(S) \in S
    BY <1>4, <2>1, MaxOf
  <2> QED BY <2>2
<1> HIDE DEF g
<1>5. \E it : it = on(it)
  <2>1. PICK it \in [SUBSET (1 .. n) -> PropState] : Folds(it, n, PropState, s, g)
    <3>1. n \in Nat /\ s \in PropState /\ g \in [PropState \X (1 .. n) -> PropState]
      BY <1>2
    <3> QED BY <3>1, FoldExists, Zenon
  <2>2. ASSUME NEW S \in SUBSET (1 .. n), S # {}
        PROVE  it[S] = StepMax(it[S \ {Max(S)}], args[Max(S)], bound)
    <3>1. Max(S) \in 1 .. n /\ it[S \ {Max(S)}] \in PropState
      BY <1>4, <2>2
    <3> QED BY <1>3, <2>1, <2>2, <3>1 DEF Folds
  <2>3. it[{}] = s
    BY <2>1 DEF Folds
  <2>4. it = on(it)
    BY <2>2, <2>3
  <2> QED BY <2>4
<1>6. PICK it : it = (CHOOSE f : f = on(f)) /\ it = on(it)
  <2> HIDE DEF on
  <2> QED BY <1>5
<1>7. ClipMax(s, args, bound) = it[1 .. n]
  BY <1>1, <1>6 DEF ClipMax, ForEach, FoldLeft, MapThenFoldSet, StepMax
<1>8. it[{}] = s
  BY <1>6
<1>9. ASSUME NEW S \in SUBSET (1 .. n), S # {}, it[S \ {Max(S)}] \in PropState
      PROVE  it[S] = g[<<it[S \ {Max(S)}], Max(S)>>]
  <2>1. it[S] = StepMax(it[S \ {Max(S)}], args[Max(S)], bound)
    BY <1>6, <1>9
  <2>2. Max(S) \in 1 .. n
    BY <1>4, <1>9
  <2> QED BY <1>3, <1>9, <2>1, <2>2
<1>10. PICK h \in [0 .. n -> PropState] : Leads(h, n, s, g, it[1 .. n])
  <2>1. Folds(it, n, PropState, s, g)
    BY <1>8, <1>9 DEF Folds
  <2>2. n \in Nat /\ s \in PropState /\ g \in [PropState \X (1 .. n) -> PropState]
    BY <1>2
  <2> QED BY <2>1, <2>2, FoldSteps, Zenon
<1>11. \A i \in 1 .. n : h[i] = StepMax(h[i - 1], args[i], bound)
  <2>1. \A i \in 1 .. n : h[i - 1] \in PropState
    OBVIOUS
  <2> QED BY <1>3, <1>10, <2>1 DEF Leads
<1> QED BY <1>7, <1>10, <1>11 DEF Leads, LeadsMax

LEMMA ClipMinSteps ==
  ASSUME NEW s \in PropState, NEW args \in Seq(Variable), NEW bound \in Int,
         NEW n \in Nat, n = Len(args)
  PROVE  \E h \in [0 .. n -> PropState] : LeadsMin(h, n, s, args, bound)
PROOF
<1> DEFINE g == [p \in PropState \X (1 .. n) |-> StepMin(p[1], args[p[2]], bound)]
           on(it) == [S \in SUBSET (1 .. n) |->
                       IF S = {} THEN s
                       ELSE StepMin(it[S \ {Max(S)}], args[Max(S)], bound)]
<1>1. DOMAIN args = 1 .. n /\ \A i \in 1 .. n : args[i] \in Variable
  OBVIOUS
<1>2. g \in [PropState \X (1 .. n) -> PropState]
  BY <1>1, StepMinTyped
<1>3. ASSUME NEW t \in PropState, NEW i \in 1 .. n
      PROVE  g[<<t, i>>] = StepMin(t, args[i], bound)
  OBVIOUS
<1>4. ASSUME NEW S \in SUBSET (1 .. n), S # {}
      PROVE  Max(S) \in 1 .. n /\ S \ {Max(S)} \in SUBSET (1 .. n)
  <2>1. S \subseteq 0 .. n
    OBVIOUS
  <2>2. Max(S) \in S
    BY <1>4, <2>1, MaxOf
  <2> QED BY <2>2
<1> HIDE DEF g
<1>5. \E it : it = on(it)
  <2>1. PICK it \in [SUBSET (1 .. n) -> PropState] : Folds(it, n, PropState, s, g)
    <3>1. n \in Nat /\ s \in PropState /\ g \in [PropState \X (1 .. n) -> PropState]
      BY <1>2
    <3> QED BY <3>1, FoldExists, Zenon
  <2>2. ASSUME NEW S \in SUBSET (1 .. n), S # {}
        PROVE  it[S] = StepMin(it[S \ {Max(S)}], args[Max(S)], bound)
    <3>1. Max(S) \in 1 .. n /\ it[S \ {Max(S)}] \in PropState
      BY <1>4, <2>2
    <3> QED BY <1>3, <2>1, <2>2, <3>1 DEF Folds
  <2>3. it[{}] = s
    BY <2>1 DEF Folds
  <2>4. it = on(it)
    BY <2>2, <2>3
  <2> QED BY <2>4
<1>6. PICK it : it = (CHOOSE f : f = on(f)) /\ it = on(it)
  <2> HIDE DEF on
  <2> QED BY <1>5
<1>7. ClipMin(s, args, bound) = it[1 .. n]
  BY <1>1, <1>6 DEF ClipMin, ForEach, FoldLeft, MapThenFoldSet, StepMin
<1>8. it[{}] = s
  BY <1>6
<1>9. ASSUME NEW S \in SUBSET (1 .. n), S # {}, it[S \ {Max(S)}] \in PropState
      PROVE  it[S] = g[<<it[S \ {Max(S)}], Max(S)>>]
  <2>1. it[S] = StepMin(it[S \ {Max(S)}], args[Max(S)], bound)
    BY <1>6, <1>9
  <2>2. Max(S) \in 1 .. n
    BY <1>4, <1>9
  <2> QED BY <1>3, <1>9, <2>1, <2>2
<1>10. PICK h \in [0 .. n -> PropState] : Leads(h, n, s, g, it[1 .. n])
  <2>1. Folds(it, n, PropState, s, g)
    BY <1>8, <1>9 DEF Folds
  <2>2. n \in Nat /\ s \in PropState /\ g \in [PropState \X (1 .. n) -> PropState]
    BY <1>2
  <2> QED BY <2>1, <2>2, FoldSteps, Zenon
<1>11. \A i \in 1 .. n : h[i] = StepMin(h[i - 1], args[i], bound)
  <2>1. \A i \in 1 .. n : h[i - 1] \in PropState
    OBVIOUS
  <2> QED BY <1>3, <1>10, <2>1 DEF Leads
<1> QED BY <1>7, <1>10, <1>11 DEF Leads, LeadsMin

\* Where the clipping ends, or fails
LEMMA ClipMaxIs ==
  ASSUME NEW s, Fine(s), s.ok, NEW args \in Seq(Variable), NEW bound \in Int
  PROVE  LET t == ClipMax(s, args, bound)
         IN  /\ Fine(t) /\ Narrower(s, t)
             /\ t.ok <=> \A i \in DOMAIN args : s.dom[args[i]].min <= bound
             /\ \A v \in Variable : t.dom[v].min = s.dom[v].min
             /\ t.ok => \A i \in DOMAIN args :
                  t.dom[args[i]].max = IF bound < s.dom[args[i]].max THEN bound
                                                                    ELSE s.dom[args[i]].max
             /\ \A v \in Variable : v \notin ToSet(args) => t.dom[v] = s.dom[v]
PROOF
<1>1. PICK n \in Nat : n = Len(args) /\ DOMAIN args = 1 .. n
  OBVIOUS
<1>2. \A i \in 1 .. n : args[i] \in Variable /\ args[i] \in ToSet(args)
  BY <1>1 DEF ToSet
<1>3. s \in PropState
  BY DEF Fine
<1>4. PICK h \in [0 .. n -> PropState] :
        /\ h[0] = s /\ h[n] = ClipMax(s, args, bound)
        /\ \A i \in 1 .. n : h[i] = StepMax(h[i - 1], args[i], bound)
  <2>1. /\ s \in PropState /\ args \in Seq(Variable) /\ bound \in Int
        /\ n \in Nat /\ n = Len(args)
    BY <1>1, <1>3
  <2>2. PICK h \in [0 .. n -> PropState] : LeadsMax(h, n, s, args, bound)
    BY <2>1, ClipMaxSteps, Zenon
  <2> QED BY <2>2 DEF LeadsMax
<1> DEFINE Cut(n1) == IF bound < n1 THEN bound ELSE n1
           P(i) == /\ Fine(h[i]) /\ Narrower(s, h[i])
                   /\ h[i].ok <=> \A j \in 1 .. i : s.dom[args[j]].min <= bound
                   /\ \A v \in Variable : h[i].dom[v].min = s.dom[v].min
                   /\ h[i].ok => \A v \in Variable :
                        \/ h[i].dom[v].max = s.dom[v].max /\ \A j \in 1 .. i : args[j] # v
                        \/ h[i].dom[v].max = Cut(s.dom[v].max) /\ \E j \in 1 .. i : args[j] = v
                   /\ \A v \in Variable : v \notin ToSet(args) => h[i].dom[v] = s.dom[v]
           T == {i \in 0 .. n : P(i)}
<1>5. \A v \in Variable : s.dom[v].min \in Nat /\ s.dom[v].max \in Nat
  BY <1>3, DomainTyped
<1>6. P(0)
  <2>1. Narrower(s, s)
    BY FailIs
  <2>2. 1 .. 0 = {}
    OBVIOUS
  <2> QED BY <1>4, <2>1, <2>2
<1>7. ASSUME NEW i \in 1 .. n, P(i - 1) PROVE P(i)
  <2>1. PICK k, t, v : k = i - 1 /\ t = h[i - 1] /\ v = args[i]
    OBVIOUS
  <2>2. PICK u : u = h[i]
    OBVIOUS
  <2>3. /\ Fine(t) /\ Narrower(s, t)
        /\ t.ok <=> \A j \in 1 .. k : s.dom[args[j]].min <= bound
        /\ \A w \in Variable : t.dom[w].min = s.dom[w].min
        /\ t.ok => \A w \in Variable :
             \/ t.dom[w].max = s.dom[w].max /\ \A j \in 1 .. k : args[j] # w
             \/ t.dom[w].max = Cut(s.dom[w].max) /\ \E j \in 1 .. k : args[j] = w
        /\ \A w \in Variable : w \notin ToSet(args) => t.dom[w] = s.dom[w]
    BY <1>7, <2>1
  <2>4. u = StepMax(t, v, bound) /\ v \in Variable /\ v \in ToSet(args)
    BY <1>2, <1>4, <2>1, <2>2
  <2>5. 1 .. i = (1 .. k) \cup {i}
    BY <2>1
  <2>6. CASE ~ t.ok
    <3>1. u = t
      BY <2>4, <2>6 DEF StepMax
    <3>2. ~ \A j \in 1 .. i : s.dom[args[j]].min <= bound
      BY <2>3, <2>5, <2>6
    <3> QED BY <2>2, <2>3, <2>6, <3>1, <3>2
  <2>7. CASE t.ok /\ t.dom[v].min > bound
    <3>1. u = Fail(t)
      BY <2>4, <2>7 DEF StepMax
    <3>2. Fine(u) /\ ~ u.ok /\ u.dom = t.dom /\ Narrower(t, u)
      BY <2>3, <3>1, FailIs
    <3>3. Narrower(s, u)
      BY <2>3, <3>2, NarrowerTrans
    <3>4. s.dom[args[i]].min > bound
      BY <2>1, <2>3, <2>4, <2>7
    <3>5. ~ \A j \in 1 .. i : s.dom[args[j]].min <= bound
      BY <1>5, <2>1, <2>4, <3>4
    <3> QED BY <2>2, <2>3, <3>2, <3>3, <3>5
  <2>8. CASE t.ok /\ ~ (t.dom[v].min > bound)
    <3>0. t.dom[v].min \in Nat /\ t.dom[v].max \in Nat
      BY <2>3, <2>4, DomainTyped DEF Fine
    <3>1. u = LowerMax(t, v, bound) /\ bound >= t.dom[v].min
      BY <2>4, <2>8, <3>0 DEF StepMax
    <3>2. /\ Fine(u) /\ u.ok = t.ok /\ Narrower(t, u)
          /\ u.dom[v].min = t.dom[v].min
          /\ u.dom[v].max = IF bound < t.dom[v].max THEN bound ELSE t.dom[v].max
          /\ \A w \in Variable : w # v => u.dom[w] = t.dom[w]
      <4>1. Fine(t) /\ v \in Variable /\ bound \in Int /\ bound >= t.dom[v].min
        BY <2>3, <2>4, <3>1
      <4> QED BY <3>1, <4>1, LowerMaxIs
    <3>3. Narrower(s, u)
      BY <2>3, <3>2, NarrowerTrans
    <3>4. \A j \in 1 .. i : s.dom[args[j]].min <= bound
      BY <2>1, <2>3, <2>4, <2>5, <2>8, <3>1
    <3>5. \A w \in Variable : u.dom[w].min = s.dom[w].min
      BY <2>3, <2>4, <3>2
    <3>6. \A w \in Variable : w \notin ToSet(args) => u.dom[w] = s.dom[w]
      BY <2>3, <2>4, <3>2
    <3>7. ASSUME NEW w \in Variable
          PROVE  \/ u.dom[w].max = s.dom[w].max /\ \A j \in 1 .. i : args[j] # w
                 \/ u.dom[w].max = Cut(s.dom[w].max) /\ \E j \in 1 .. i : args[j] = w
      <4>1. CASE w = v
        <5>1. u.dom[w].max = Cut(s.dom[w].max)
          <6>1. t.dom[v].max = s.dom[v].max \/ t.dom[v].max = Cut(s.dom[v].max)
            BY <2>3, <2>4, <2>8
          <6>2. s.dom[v].max \in Nat
            BY <1>5, <2>4
          <6> QED BY <3>2, <4>1, <6>1, <6>2
        <5>2. i \in 1 .. i /\ args[i] = w
          BY <2>1, <4>1
        <5> QED BY <5>1, <5>2
      <4>2. CASE w # v
        <5>1. u.dom[w] = t.dom[w]
          BY <3>2, <4>2
        <5>2. /\ (\A j \in 1 .. k : args[j] # w) => \A j \in 1 .. i : args[j] # w
              /\ (\E j \in 1 .. k : args[j] = w) => \E j \in 1 .. i : args[j] = w
          BY <2>1, <2>5, <4>2
        <5>3. \/ t.dom[w].max = s.dom[w].max /\ \A j \in 1 .. k : args[j] # w
              \/ t.dom[w].max = Cut(s.dom[w].max) /\ \E j \in 1 .. k : args[j] = w
          BY <2>3, <2>8
        <5> HIDE DEF Cut
        <5> QED BY <5>1, <5>2, <5>3
      <4> QED BY <4>1, <4>2
    <3> HIDE DEF Cut
    <3> QED BY <2>2, <2>8, <3>2, <3>3, <3>4, <3>5, <3>6, <3>7
  <2> QED BY <2>6, <2>7, <2>8
<1>8. P(n)
  <2>1. 0 \in T
    BY <1>6
  <2>2. ASSUME NEW i \in 1 .. n, i - 1 \in T PROVE i \in T
    <3>1. P(i - 1)
      BY <2>2
    <3> HIDE DEF P
    <3> QED BY <1>7, <3>1
  <2> HIDE DEF P
  <2>3. 0 .. n \subseteq T
    <3> HIDE DEF T
    <3> QED BY <2>1, <2>2, UpTo
  <2> QED BY <2>3
<1>9. PICK t : t = ClipMax(s, args, bound)
  OBVIOUS
<1>10. ASSUME t.ok, NEW i \in 1 .. n
       PROVE  t.dom[args[i]].max = Cut(s.dom[args[i]].max)
  <2>1. /\ t.ok => \A v \in Variable :
             \/ t.dom[v].max = s.dom[v].max /\ \A j \in 1 .. n : args[j] # v
             \/ t.dom[v].max = Cut(s.dom[v].max) /\ \E j \in 1 .. n : args[j] = v
        /\ t = h[n]
    <3>1. t = h[n]
      BY <1>4, <1>9
    <3> HIDE DEF Cut
    <3> QED BY <1>8, <3>1
  <2> HIDE DEF Cut, P, T
  <2>2. PICK v \in Variable : v = args[i]
    BY <1>2
  <2>3. \/ t.dom[v].max = s.dom[v].max /\ \A j \in 1 .. n : args[j] # v
        \/ t.dom[v].max = Cut(s.dom[v].max)
    BY <1>10, <2>1
  <2> QED BY <2>2, <2>3
<1> QED BY <1>1, <1>4, <1>8, <1>9, <1>10, SMTT(40)

LEMMA ClipMinIs ==
  ASSUME NEW s, Fine(s), s.ok, NEW args \in Seq(Variable), NEW bound \in Int
  PROVE  LET t == ClipMin(s, args, bound)
         IN  /\ Fine(t) /\ Narrower(s, t)
             /\ t.ok <=> \A i \in DOMAIN args : s.dom[args[i]].max >= bound
             /\ \A v \in Variable : t.dom[v].max = s.dom[v].max
             /\ t.ok => \A i \in DOMAIN args :
                  t.dom[args[i]].min = IF bound > s.dom[args[i]].min THEN bound
                                                                    ELSE s.dom[args[i]].min
             /\ \A v \in Variable : v \notin ToSet(args) => t.dom[v] = s.dom[v]
PROOF
<1>1. PICK n \in Nat : n = Len(args) /\ DOMAIN args = 1 .. n
  OBVIOUS
<1>2. \A i \in 1 .. n : args[i] \in Variable /\ args[i] \in ToSet(args)
  BY <1>1 DEF ToSet
<1>3. s \in PropState
  BY DEF Fine
<1>4. PICK h \in [0 .. n -> PropState] :
        /\ h[0] = s /\ h[n] = ClipMin(s, args, bound)
        /\ \A i \in 1 .. n : h[i] = StepMin(h[i - 1], args[i], bound)
  <2>1. /\ s \in PropState /\ args \in Seq(Variable) /\ bound \in Int
        /\ n \in Nat /\ n = Len(args)
    BY <1>1, <1>3
  <2>2. PICK h \in [0 .. n -> PropState] : LeadsMin(h, n, s, args, bound)
    BY <2>1, ClipMinSteps, Zenon
  <2> QED BY <2>2 DEF LeadsMin
<1> DEFINE Cut(n1) == IF bound > n1 THEN bound ELSE n1
           P(i) == /\ Fine(h[i]) /\ Narrower(s, h[i])
                   /\ h[i].ok <=> \A j \in 1 .. i : s.dom[args[j]].max >= bound
                   /\ \A v \in Variable : h[i].dom[v].max = s.dom[v].max
                   /\ h[i].ok => \A v \in Variable :
                        \/ h[i].dom[v].min = s.dom[v].min /\ \A j \in 1 .. i : args[j] # v
                        \/ h[i].dom[v].min = Cut(s.dom[v].min) /\ \E j \in 1 .. i : args[j] = v
                   /\ \A v \in Variable : v \notin ToSet(args) => h[i].dom[v] = s.dom[v]
           T == {i \in 0 .. n : P(i)}
<1>5. \A v \in Variable : s.dom[v].min \in Nat /\ s.dom[v].max \in Nat
  BY <1>3, DomainTyped
<1>6. P(0)
  <2>1. Narrower(s, s)
    BY FailIs
  <2>2. 1 .. 0 = {}
    OBVIOUS
  <2> QED BY <1>4, <2>1, <2>2
<1>7. ASSUME NEW i \in 1 .. n, P(i - 1) PROVE P(i)
  <2>1. PICK k, t, v : k = i - 1 /\ t = h[i - 1] /\ v = args[i]
    OBVIOUS
  <2>2. PICK u : u = h[i]
    OBVIOUS
  <2>3. /\ Fine(t) /\ Narrower(s, t)
        /\ t.ok <=> \A j \in 1 .. k : s.dom[args[j]].max >= bound
        /\ \A w \in Variable : t.dom[w].max = s.dom[w].max
        /\ t.ok => \A w \in Variable :
             \/ t.dom[w].min = s.dom[w].min /\ \A j \in 1 .. k : args[j] # w
             \/ t.dom[w].min = Cut(s.dom[w].min) /\ \E j \in 1 .. k : args[j] = w
        /\ \A w \in Variable : w \notin ToSet(args) => t.dom[w] = s.dom[w]
    BY <1>7, <2>1
  <2>4. u = StepMin(t, v, bound) /\ v \in Variable /\ v \in ToSet(args)
    BY <1>2, <1>4, <2>1, <2>2
  <2>5. 1 .. i = (1 .. k) \cup {i}
    BY <2>1
  <2>6. CASE ~ t.ok
    <3>1. u = t
      BY <2>4, <2>6 DEF StepMin
    <3>2. ~ \A j \in 1 .. i : s.dom[args[j]].max >= bound
      BY <2>3, <2>5, <2>6
    <3> QED BY <2>2, <2>3, <2>6, <3>1, <3>2
  <2>7. CASE t.ok /\ t.dom[v].max < bound
    <3>1. u = Fail(t)
      BY <2>4, <2>7 DEF StepMin
    <3>2. Fine(u) /\ ~ u.ok /\ u.dom = t.dom /\ Narrower(t, u)
      BY <2>3, <3>1, FailIs
    <3>3. Narrower(s, u)
      BY <2>3, <3>2, NarrowerTrans
    <3>4. s.dom[args[i]].max < bound
      BY <2>1, <2>3, <2>4, <2>7
    <3>5. ~ \A j \in 1 .. i : s.dom[args[j]].max >= bound
      BY <1>5, <2>1, <2>4, <3>4
    <3> QED BY <2>2, <2>3, <3>2, <3>3, <3>5
  <2>8. CASE t.ok /\ ~ (t.dom[v].max < bound)
    <3>0. t.dom[v].min \in Nat /\ t.dom[v].max \in Nat
      BY <2>3, <2>4, DomainTyped DEF Fine
    <3>1. u = RaiseMin(t, v, bound) /\ bound <= t.dom[v].max
      BY <2>4, <2>8, <3>0 DEF StepMin
    <3>2. /\ Fine(u) /\ u.ok = t.ok /\ Narrower(t, u)
          /\ u.dom[v].max = t.dom[v].max
          /\ u.dom[v].min = IF bound > t.dom[v].min THEN bound ELSE t.dom[v].min
          /\ \A w \in Variable : w # v => u.dom[w] = t.dom[w]
      <4>1. Fine(t) /\ v \in Variable /\ bound \in Int /\ bound <= t.dom[v].max
        BY <2>3, <2>4, <3>1
      <4> QED BY <3>1, <4>1, RaiseMinIs
    <3>3. Narrower(s, u)
      BY <2>3, <3>2, NarrowerTrans
    <3>4. \A j \in 1 .. i : s.dom[args[j]].max >= bound
      BY <2>1, <2>3, <2>4, <2>5, <2>8, <3>1
    <3>5. \A w \in Variable : u.dom[w].max = s.dom[w].max
      BY <2>3, <2>4, <3>2
    <3>6. \A w \in Variable : w \notin ToSet(args) => u.dom[w] = s.dom[w]
      BY <2>3, <2>4, <3>2
    <3>7. ASSUME NEW w \in Variable
          PROVE  \/ u.dom[w].min = s.dom[w].min /\ \A j \in 1 .. i : args[j] # w
                 \/ u.dom[w].min = Cut(s.dom[w].min) /\ \E j \in 1 .. i : args[j] = w
      <4>1. CASE w = v
        <5>1. u.dom[w].min = Cut(s.dom[w].min)
          <6>1. t.dom[v].min = s.dom[v].min \/ t.dom[v].min = Cut(s.dom[v].min)
            BY <2>3, <2>4, <2>8
          <6>2. s.dom[v].min \in Nat
            BY <1>5, <2>4
          <6> QED BY <3>2, <4>1, <6>1, <6>2
        <5>2. i \in 1 .. i /\ args[i] = w
          BY <2>1, <4>1
        <5> QED BY <5>1, <5>2
      <4>2. CASE w # v
        <5>1. u.dom[w] = t.dom[w]
          BY <3>2, <4>2
        <5>2. /\ (\A j \in 1 .. k : args[j] # w) => \A j \in 1 .. i : args[j] # w
              /\ (\E j \in 1 .. k : args[j] = w) => \E j \in 1 .. i : args[j] = w
          BY <2>1, <2>5, <4>2
        <5>3. \/ t.dom[w].min = s.dom[w].min /\ \A j \in 1 .. k : args[j] # w
              \/ t.dom[w].min = Cut(s.dom[w].min) /\ \E j \in 1 .. k : args[j] = w
          BY <2>3, <2>8
        <5> HIDE DEF Cut
        <5> QED BY <5>1, <5>2, <5>3
      <4> QED BY <4>1, <4>2
    <3> HIDE DEF Cut
    <3> QED BY <2>2, <2>8, <3>2, <3>3, <3>4, <3>5, <3>6, <3>7
  <2> QED BY <2>6, <2>7, <2>8
<1>8. P(n)
  <2>1. 0 \in T
    BY <1>6
  <2>2. ASSUME NEW i \in 1 .. n, i - 1 \in T PROVE i \in T
    <3>1. P(i - 1)
      BY <2>2
    <3> HIDE DEF P
    <3> QED BY <1>7, <3>1
  <2> HIDE DEF P
  <2>3. 0 .. n \subseteq T
    <3> HIDE DEF T
    <3> QED BY <2>1, <2>2, UpTo
  <2> QED BY <2>3
<1>9. PICK t : t = ClipMin(s, args, bound)
  OBVIOUS
<1>10. ASSUME t.ok, NEW i \in 1 .. n
       PROVE  t.dom[args[i]].min = Cut(s.dom[args[i]].min)
  <2>1. /\ t.ok => \A v \in Variable :
             \/ t.dom[v].min = s.dom[v].min /\ \A j \in 1 .. n : args[j] # v
             \/ t.dom[v].min = Cut(s.dom[v].min) /\ \E j \in 1 .. n : args[j] = v
        /\ t = h[n]
    <3>1. t = h[n]
      BY <1>4, <1>9
    <3> HIDE DEF Cut
    <3> QED BY <1>8, <3>1
  <2> HIDE DEF Cut, P, T
  <2>2. PICK v \in Variable : v = args[i]
    BY <1>2
  <2>3. \/ t.dom[v].min = s.dom[v].min /\ \A j \in 1 .. n : args[j] # v
        \/ t.dom[v].min = Cut(s.dom[v].min)
    BY <1>10, <2>1
  <2> QED BY <2>2, <2>3
<1> QED BY <1>1, <1>4, <1>8, <1>9, <1>10, SMTT(40)

-----------------------------------------------------------------------------
(* Constraints that have a result and operands *)

LEMMA SequenceIs ==
  ASSUME NEW E, NEW m \in Nat, NEW q \in Seq(E), Len(q) = m
  PROVE  q = [i \in 1 .. m |-> q[i]]
PROOF
<1>1. q \in [1 .. Len(q) -> E]
  BY LenProperties
<1>2. q \in [1 .. m -> E]
  BY <1>1, Zenon
<1> QED BY <1>2

HasResult == {"Product", "Sum", "Max", "Min", "Call"}

\* A constraint with n operands
Takes(c, n, r, args) ==
  /\ r = Head(c.vars) /\ r = c.vars[1] /\ r \in GetVariables(c)
  /\ args = Tail(c.vars) /\ n = Len(args) /\ n = Len(c.vars) - 1
  /\ DOMAIN args = 1 .. n /\ GetVariables(c) = {r} \cup ToSet(args)
  /\ \A i \in 1 .. n : /\ args[i] = c.vars[i + 1] /\ args[i] \in Variable
                       /\ args[i] \in GetVariables(c) /\ args[i] \in ToSet(args)
  /\ IsInjective(c.vars) =>
       r \notin ToSet(args) /\ \A i, j \in 1 .. n : args[i] = args[j] => i = j
  /\ \A a : Meaning(c, a) <=> a[r] \in Results(c, [i \in 1 .. n |-> a[args[i]]])

LEMMA WithResult ==
  ASSUME NEW c, c.kind \in HasResult, c.vars \in Seq(Variable), Len(c.vars) >= 1
  PROVE  \E n \in Nat, r \in Variable, args \in Seq(Variable) : Takes(c, n, r, args)
PROOF
<1>1. PICK l \in Nat : l = Len(c.vars) /\ DOMAIN c.vars = 1 .. l /\ l >= 1
  OBVIOUS
<1>2. PICK n \in Nat : n = l - 1
  BY <1>1
<1>3. PICK r \in Variable : r = Head(c.vars) /\ r = c.vars[1]
  BY <1>1
<1>4. PICK args \in Seq(Variable) : args = Tail(c.vars)
  <2>1. c.vars # <<>>
    BY <1>1
  <2>2. Tail(c.vars) \in Seq(Variable)
    BY <2>1, HeadTailProperties
  <2> QED BY <2>2
<1>5. n = Len(args) /\ DOMAIN args = 1 .. n
  BY <1>1, <1>2, <1>4
<1>6. ASSUME NEW i \in 1 .. n PROVE args[i] = c.vars[i + 1] /\ i + 1 \in 1 .. l
  BY <1>1, <1>2, <1>4
<1>7. r \in GetVariables(c) /\ \A i \in 1 .. n : args[i] \in GetVariables(c)
  BY <1>1, <1>3, <1>6, SMTT(40) DEF GetVariables, ToSet
<1>8. \A i \in 1 .. n : args[i] \in ToSet(args) /\ args[i] \in Variable
  BY <1>5 DEF ToSet
<1>9. GetVariables(c) = {r} \cup ToSet(args)
  <2>1. ASSUME NEW v \in GetVariables(c) PROVE v \in {r} \cup ToSet(args)
    <3>1. PICK k \in 1 .. l : v = c.vars[k]
      BY <1>1 DEF GetVariables, ToSet
    <3>2. CASE k = 1
      BY <1>3, <3>1, <3>2
    <3>3. CASE k # 1
      <4>1. k - 1 \in 1 .. n /\ (k - 1) + 1 = k
        BY <1>2, <3>3
      <4>2. v = args[k - 1]
        BY <1>6, <3>1, <4>1
      <4> QED BY <1>8, <4>1, <4>2
    <3> QED BY <3>2, <3>3
  <2>2. ASSUME NEW v \in ToSet(args) PROVE v \in GetVariables(c)
    <3>1. PICK k \in 1 .. n : v = args[k]
      BY <1>5 DEF ToSet
    <3> QED BY <1>7, <3>1
  <2> QED BY <1>7, <2>1, <2>2
<1>10. ASSUME IsInjective(c.vars)
       PROVE  r \notin ToSet(args) /\ \A i, j \in 1 .. n : args[i] = args[j] => i = j
  <2>1. \A i, j \in 1 .. l : c.vars[i] = c.vars[j] => i = j
    BY <1>1, <1>10 DEF IsInjective
  <2>2. ASSUME r \in ToSet(args) PROVE FALSE
    <3>1. PICK k \in 1 .. n : r = args[k]
      BY <1>5, <2>2 DEF ToSet
    <3>2. c.vars[k + 1] = c.vars[1] /\ k + 1 \in 1 .. l /\ 1 \in 1 .. l
      BY <1>1, <1>3, <1>6, <3>1
    <3>3. k + 1 = 1
      BY <2>1, <3>2
    <3> QED BY <3>3
  <2>3. ASSUME NEW i \in 1 .. n, NEW j \in 1 .. n, args[i] = args[j] PROVE i = j
    <3>1. c.vars[i + 1] = c.vars[j + 1] /\ i + 1 \in 1 .. l /\ j + 1 \in 1 .. l
      BY <1>6, <2>3
    <3>2. i + 1 = j + 1
      BY <2>1, <3>1
    <3> QED BY <3>2
  <2> QED BY <2>2, <2>3
<1>11. ASSUME NEW a
       PROVE  Meaning(c, a) <=> a[r] \in Results(c, [i \in 1 .. n |-> a[args[i]]])
  <2>1. PICK value : value = [i \in DOMAIN c.vars |-> a[c.vars[i]]]
    OBVIOUS
  <2>2. Meaning(c, a) <=> Head(value) \in Results(c, Tail(value))
    BY <2>1 DEF Meaning, HasResult
  <2>3. /\ DOMAIN value = 1 .. l
        /\ Tail(value) = [i \in 1 .. l - 1 |-> value[i + 1]]
    <3>1. PICK E : \A i \in 1 .. l : a[c.vars[i]] \in E
      <4>1. \A i \in 1 .. l : a[c.vars[i]] \in {a[c.vars[k]] : k \in 1 .. l}
        OBVIOUS
      <4> QED BY <4>1
    <3>2. value \in [1 .. l -> E]
      BY <1>1, <2>1, <3>1
    <3>3. value \in Seq(E) /\ Len(value) = l /\ value # <<>>
      BY <1>1, <3>2
    <3>4. PICK tail \in Seq(E) :
            tail = Tail(value) /\ Len(tail) = l - 1 /\ \A i \in 1 .. Len(tail) : tail[i] = value[i + 1]
      BY <3>3, HeadTailProperties
    <3>5. tail = [i \in 1 .. l - 1 |-> value[i + 1]]
      <4>1. l - 1 \in Nat
        BY <1>1
      <4>2. PICK m \in Nat : m = l - 1
        BY <4>1
      <4>3. tail \in Seq(E) /\ Len(tail) = m
        BY <3>4, <4>2
      <4>4. tail = [i \in 1 .. m |-> tail[i]]
        BY <4>2, <4>3, SequenceIs
      <4>5. \A i \in 1 .. m : tail[i] = value[i + 1]
        BY <3>4, <4>3
      <4> QED BY <4>2, <4>4, <4>5
    <3> QED BY <1>1, <2>1, <3>4, <3>5
  <2>4. Head(value) = a[r]
    BY <1>1, <1>3, <2>1
  <2>5. Tail(value) = [i \in 1 .. n |-> a[args[i]]]
    <3>1. Tail(value) = [i \in 1 .. l - 1 |-> value[i + 1]]
      BY <2>3
    <3>2. \A i \in 1 .. n : value[i + 1] = a[args[i]]
      BY <1>1, <1>6, <2>1
    <3> QED BY <1>2, <3>1, <3>2
  <2> QED BY <2>2, <2>4, <2>5
<1>12. r = Head(c.vars) /\ r = c.vars[1] /\ args = Tail(c.vars) /\ n = Len(c.vars) - 1
  BY <1>1, <1>2, <1>3, <1>4
<1>13. \A i \in 1 .. n : args[i] = c.vars[i + 1]
  BY <1>6
<1>14. Takes(c, n, r, args)
  BY <1>5, <1>7, <1>8, <1>9, <1>10, <1>11, <1>12, <1>13 DEF Takes
<1> QED BY <1>14

-----------------------------------------------------------------------------
(* Max and Min *)

LEMMA ExtremaOfList ==
  ASSUME NEW n \in Nat \ {0}, NEW f \in [1 .. n -> Word]
  PROVE  /\ \E i \in 1 .. n : Max({f[j] : j \in 1 .. n}) = f[i] /\ \A j \in 1 .. n : f[j] <= f[i]
         /\ \E i \in 1 .. n : Min({f[j] : j \in 1 .. n}) = f[i] /\ \A j \in 1 .. n : f[i] <= f[j]
PROOF
<1>1. PICK w \in Nat : Word = 0 .. w
  <2>1. PICK m \in Nat : Word = 0 .. m - 1 /\ m >= 2
    BY Words
  <2>2. m - 1 \in Nat
    BY <2>1
  <2> QED BY <2>1, <2>2
<1>2. PICK S : S = {f[j] : j \in 1 .. n}
  OBVIOUS
<1>3. S \subseteq 0 .. w /\ S \subseteq Nat /\ S # {} /\ \A j \in 1 .. n : f[j] \in S
  <2>1. \A j \in 1 .. n : f[j] \in 0 .. w
    BY <1>1
  <2>2. 1 \in 1 .. n
    OBVIOUS
  <2>3. f[1] \in S
    BY <1>2, <2>2
  <2> QED BY <1>2, <2>1, <2>3
<1>4. Max(S) \in S /\ \A x \in S : x <= Max(S)
  BY <1>1, <1>3, MaxOf
<1>5. Min(S) \in S /\ \A x \in S : Min(S) <= x
  BY <1>3, MinOf
<1>6. PICK i \in 1 .. n : Max(S) = f[i]
  BY <1>2, <1>4
<1>7. PICK k \in 1 .. n : Min(S) = f[k]
  BY <1>2, <1>5
<1>8. \A j \in 1 .. n : f[j] <= f[i] /\ f[k] <= f[j]
  BY <1>3, <1>4, <1>5, <1>6, <1>7
<1> QED BY <1>2, <1>6, <1>7, <1>8

\* The extremum of one bound over the operands
LEMMA Bounds ==
  ASSUME NEW n \in Nat \ {0}, NEW args \in Seq(Variable), n = Len(args), NEW t \in PropState
  PROVE  /\ \E i \in 1 .. n : /\ Max({t.dom[v].min : v \in ToSet(args)}) = t.dom[args[i]].min
                              /\ \A j \in 1 .. n : t.dom[args[j]].min <= t.dom[args[i]].min
         /\ \E i \in 1 .. n : /\ Max({t.dom[v].max : v \in ToSet(args)}) = t.dom[args[i]].max
                              /\ \A j \in 1 .. n : t.dom[args[j]].max <= t.dom[args[i]].max
         /\ \E i \in 1 .. n : /\ Min({t.dom[v].min : v \in ToSet(args)}) = t.dom[args[i]].min
                              /\ \A j \in 1 .. n : t.dom[args[i]].min <= t.dom[args[j]].min
         /\ \E i \in 1 .. n : /\ Min({t.dom[v].max : v \in ToSet(args)}) = t.dom[args[i]].max
                              /\ \A j \in 1 .. n : t.dom[args[i]].max <= t.dom[args[j]].max
PROOF
<1>1. DOMAIN args = 1 .. n /\ \A i \in 1 .. n : args[i] \in Variable
  OBVIOUS
<1>2. PICK f, g : f = [j \in 1 .. n |-> t.dom[args[j]].min] /\ g = [j \in 1 .. n |-> t.dom[args[j]].max]
  OBVIOUS
<1>3. f \in [1 .. n -> Word] /\ g \in [1 .. n -> Word]
  BY <1>1, <1>2, DomainTyped
<1>4. \A j \in 1 .. n : f[j] = t.dom[args[j]].min /\ g[j] = t.dom[args[j]].max
  BY <1>2
<1>5. {t.dom[v].min : v \in ToSet(args)} = {f[j] : j \in 1 .. n}
  BY <1>1, <1>4 DEF ToSet
<1>6. {t.dom[v].max : v \in ToSet(args)} = {g[j] : j \in 1 .. n}
  BY <1>1, <1>4 DEF ToSet
<1>7. /\ \E i \in 1 .. n : Max({f[j] : j \in 1 .. n}) = f[i] /\ \A j \in 1 .. n : f[j] <= f[i]
      /\ \E i \in 1 .. n : Min({f[j] : j \in 1 .. n}) = f[i] /\ \A j \in 1 .. n : f[i] <= f[j]
  BY <1>3, ExtremaOfList, Zenon
<1>8. /\ \E i \in 1 .. n : Max({g[j] : j \in 1 .. n}) = g[i] /\ \A j \in 1 .. n : g[j] <= g[i]
      /\ \E i \in 1 .. n : Min({g[j] : j \in 1 .. n}) = g[i] /\ \A j \in 1 .. n : g[i] <= g[j]
  BY <1>3, ExtremaOfList, Zenon
<1>9. \E i \in 1 .. n : /\ Max({t.dom[v].min : v \in ToSet(args)}) = t.dom[args[i]].min
                         /\ \A j \in 1 .. n : t.dom[args[j]].min <= t.dom[args[i]].min
  BY <1>4, <1>5, <1>7, ZenonT(40)
<1>10. \E i \in 1 .. n : /\ Max({t.dom[v].max : v \in ToSet(args)}) = t.dom[args[i]].max
                          /\ \A j \in 1 .. n : t.dom[args[j]].max <= t.dom[args[i]].max
  BY <1>4, <1>6, <1>8, ZenonT(40)
<1>11. \E i \in 1 .. n : /\ Min({t.dom[v].min : v \in ToSet(args)}) = t.dom[args[i]].min
                          /\ \A j \in 1 .. n : t.dom[args[i]].min <= t.dom[args[j]].min
  <2>1. PICK i \in 1 .. n : Min({f[j] : j \in 1 .. n}) = f[i] /\ \A j \in 1 .. n : f[i] <= f[j]
    BY <1>7
  <2>2. \A j \in 1 .. n : t.dom[args[i]].min <= t.dom[args[j]].min
    BY <1>4, <2>1
  <2> QED BY <1>4, <1>5, <2>1, <2>2
<1>12. \E i \in 1 .. n : /\ Min({t.dom[v].max : v \in ToSet(args)}) = t.dom[args[i]].max
                          /\ \A j \in 1 .. n : t.dom[args[i]].max <= t.dom[args[j]].max
  <2>1. PICK i \in 1 .. n : Min({g[j] : j \in 1 .. n}) = g[i] /\ \A j \in 1 .. n : g[i] <= g[j]
    BY <1>8
  <2>2. \A j \in 1 .. n : t.dom[args[i]].max <= t.dom[args[j]].max
    BY <1>4, <2>1
  <2> QED BY <1>4, <1>6, <2>1, <2>2
<1> QED BY <1>9, <1>10, <1>11, <1>12

\* The calls in terms of clipping
LEMMA MaxIs ==
  ASSUME NEW c, NEW dom
  PROVE  PropagateMax(c, dom) =
           LET result == Head(c.vars)
               args == Tail(c.vars)
               s == ClipMax(Call(dom), args, dom[result].max)
               maxLower == Max({s.dom[v].min : v \in ToSet(args)})
               maxUpper == Max({s.dom[v].max : v \in ToSet(args)})
               checked == Checked(s, dom[result].max >= maxLower)
           IN  IF ~ s.ok THEN s
               ELSE IF dom[result].min > maxUpper THEN Fail(checked)
               ELSE RaiseMin(LowerMax(checked, result, maxUpper), result, maxLower)
PROOF BY DEF PropagateMax, ClipMax

LEMMA MinIs ==
  ASSUME NEW c, NEW dom
  PROVE  PropagateMin(c, dom) =
           LET result == Head(c.vars)
               args == Tail(c.vars)
               s == ClipMin(Call(dom), args, dom[result].min)
               minLower == Min({s.dom[v].min : v \in ToSet(args)})
               minUpper == Min({s.dom[v].max : v \in ToSet(args)})
               checked == Checked(s, dom[result].min <= minUpper)
           IN  IF ~ s.ok THEN s
               ELSE IF dom[result].max < minLower THEN Fail(checked)
               ELSE RaiseMin(LowerMax(checked, result, minUpper), result, minLower)
PROOF BY DEF PropagateMin, ClipMin

\* What a call of a function comes to, from the state s that clipping leaves
Assigned(s, args) == \A v \in ToSet(args) : Size(s.dom[v]) <= 1
Settled(s, args) == \A v \in ToSet(args) : s.dom[v].min = s.dom[v].max

CallGives(t, c, r, args, s) ==
  LET x == Apply(c.f, [i \in DOMAIN args |-> s.dom[args[i]].min])
      checked == Checked(s, Settled(s, args))
  IN  t = IF ~ s.ok \/ ~ Assigned(s, args) THEN s
          ELSE IF x \intersect Interval(s.dom[r]) = {} THEN Fail(checked)
          ELSE IF \A n \in x : s.dom[r] = [min |-> n, max |-> n] THEN checked
          ELSE SetValue(checked, r, CHOOSE n \in x : TRUE)

LEMMA CallIs ==
  ASSUME NEW c, NEW dom, NEW r, NEW args, NEW s,
         r = Head(c.vars), args = Tail(c.vars), s = ClipMax(Call(dom), args, c.limit)
  PROVE  CallGives(PropagateCall(c, dom), c, r, args, s)
PROOF
<1>1. PropagateCall(c, dom) =
        LET rr == Head(c.vars)
            aa == Tail(c.vars)
            ss == ClipMax(Call(dom), aa, c.limit)
            kk == \A v \in ToSet(aa) : Size(ss.dom[v]) <= 1
            cc == Checked(ss, \A v \in ToSet(aa) : ss.dom[v].min = ss.dom[v].max)
            xx == Apply(c.f, [i \in DOMAIN aa |-> ss.dom[aa[i]].min])
        IN  IF ~ ss.ok \/ ~ kk THEN ss
            ELSE IF xx \intersect Interval(ss.dom[rr]) = {} THEN Fail(cc)
            ELSE IF \A n \in xx : ss.dom[rr] = [min |-> n, max |-> n] THEN cc
            ELSE SetValue(cc, rr, CHOOSE n \in xx : TRUE)
  BY DEF PropagateCall, ClipMax
<1> QED BY <1>1 DEF CallGives, Assigned, Settled

LEMMA MaxSound ==
  ASSUME NEW c, c.kind = "Max", c.vars \in Seq(Variable), Len(c.vars) >= 2,
         IsInjective(c.vars), NEW dom, Fine(Call(dom))
  PROVE  Sound(c, dom, PropagateMax(c, dom))
PROOF
<1>0. PICK s0 : s0 = Call(dom)
  OBVIOUS
<1>1. s0.ok /\ s0.dom = dom /\ Fine(s0) /\ s0 \in PropState
  BY <1>0 DEF Call, Fine
<1>2. PICK n \in Nat, r \in Variable, args \in Seq(Variable) : Takes(c, n, r, args)
  <2>1. c.kind \in HasResult /\ Len(c.vars) >= 1
    BY DEF HasResult
  <2> QED BY <2>1, WithResult
<1>3. /\ r = Head(c.vars) /\ args = Tail(c.vars) /\ n = Len(args) /\ DOMAIN args = 1 .. n
      /\ GetVariables(c) = {r} \cup ToSet(args) /\ r \notin ToSet(args)
      /\ \A i \in 1 .. n : args[i] \in Variable /\ args[i] \in ToSet(args)
      /\ n \in Nat \ {0}
  BY <1>2 DEF Takes
<1>4. ASSUME NEW a \in [GetVariables(c) -> Word], NEW X, X = [i \in 1 .. n |-> a[args[i]]]
      PROVE  /\ a[r] \in Nat /\ X \in [1 .. n -> Nat]
             /\ Meaning(c, a) <=> /\ \A i \in 1 .. n : X[i] <= a[r]
                                  /\ \E i \in 1 .. n : a[r] = X[i]
  <2>1. a[r] \in Word /\ \A i \in 1 .. n : a[args[i]] \in Word
    BY <1>3
  <2>2. X \in [1 .. n -> Word] /\ ToSet(X) = {X[j] : j \in 1 .. n}
    BY <1>4, <2>1 DEF ToSet
  <2>3. Meaning(c, a) <=> a[r] \in Results(c, X)
    BY <1>2, <1>4 DEF Takes
  <2>4. Results(c, X) = {Max({X[j] : j \in 1 .. n})}
    BY <2>2 DEF Results
  <2>5. PICK i \in 1 .. n : Max({X[j] : j \in 1 .. n}) = X[i] /\ \A j \in 1 .. n : X[j] <= X[i]
    BY <1>3, <2>2, ExtremaOfList
  <2>6. a[r] \in Nat /\ X \in [1 .. n -> Nat]
    BY <2>1, <2>2, Words
  <2>7. Meaning(c, a) <=> a[r] = X[i]
    BY <2>3, <2>4, <2>5
  <2> QED BY <2>5, <2>6, <2>7
<1>5. PICK low, upper : low = s0.dom[r].min /\ upper = s0.dom[r].max
  OBVIOUS
<1>6. low \in Nat /\ upper \in Nat /\ low <= upper
  <2>1. s0.dom[r].min \in Nat /\ s0.dom[r].max \in Nat /\ s0.dom[r].min <= s0.dom[r].max
    BY <1>1, DomainTyped DEF Fine
  <2> QED BY <1>5, <2>1
<1>7. PICK s : s = ClipMax(s0, args, upper)
  OBVIOUS
<1>8. /\ Fine(s) /\ Narrower(s0, s)
      /\ s.ok <=> \A i \in DOMAIN args : s0.dom[args[i]].min <= upper
      /\ \A v \in Variable : s.dom[v].min = s0.dom[v].min
      /\ s.ok => \A i \in DOMAIN args :
           s.dom[args[i]].max = IF upper < s0.dom[args[i]].max THEN upper
                                                               ELSE s0.dom[args[i]].max
      /\ \A v \in Variable : v \notin ToSet(args) => s.dom[v] = s0.dom[v]
  <2>1. Fine(s0) /\ s0.ok /\ args \in Seq(Variable) /\ upper \in Int
    BY <1>1, <1>6
  <2> QED BY <1>7, <2>1, ClipMaxIs, SMTT(40)
<1>9. s \in PropState /\ s.dom[r] = s0.dom[r]
  BY <1>3, <1>8 DEF Fine
\* The bounds of the operands, at the call and clipped
<1>10. PICK L, H, U : /\ L = [i \in 1 .. n |-> s0.dom[args[i]].min]
                      /\ H = [i \in 1 .. n |-> s0.dom[args[i]].max]
                      /\ U = [i \in 1 .. n |-> s.dom[args[i]].max]
  OBVIOUS
<1>11. \A i \in 1 .. n : /\ L[i] = s0.dom[args[i]].min /\ L[i] = s.dom[args[i]].min
                         /\ H[i] = s0.dom[args[i]].max /\ U[i] = s.dom[args[i]].max
  BY <1>3, <1>8, <1>10
<1>12. ASSUME NEW i \in 1 .. n
       PROVE  L[i] \in Nat /\ H[i] \in Nat /\ U[i] \in Nat /\ L[i] <= H[i] /\ L[i] <= U[i]
  <2>1. PICK v \in Variable : v = args[i]
    BY <1>3
  <2>2. /\ s0.dom[v].min \in Nat /\ s0.dom[v].max \in Nat /\ s0.dom[v].min <= s0.dom[v].max
        /\ s.dom[v].min \in Nat /\ s.dom[v].max \in Nat /\ s.dom[v].min <= s.dom[v].max
    BY <1>1, <1>8, <1>9, DomainTyped DEF Fine
  <2> QED BY <1>11, <2>1, <2>2
<1>13. /\ s.ok <=> \A i \in 1 .. n : L[i] <= upper
       /\ s.ok => \A i \in 1 .. n : U[i] = IF upper < H[i] THEN upper ELSE H[i]
  <2>1. s.ok <=> \A i \in 1 .. n : s0.dom[args[i]].min <= upper
    BY <1>3, <1>8
  <2>2. (\A i \in 1 .. n : s0.dom[args[i]].min <= upper) <=> \A i \in 1 .. n : L[i] <= upper
    BY <1>11, Zenon
  <2>3. ASSUME s.ok, NEW i \in 1 .. n PROVE U[i] = IF upper < H[i] THEN upper ELSE H[i]
    <3>1. i \in DOMAIN args
      BY <1>3
    <3>2. s.dom[args[i]].max = IF upper < s0.dom[args[i]].max THEN upper ELSE s0.dom[args[i]].max
      BY <1>8, <2>3, <3>1
    <3>3. H[i] = s0.dom[args[i]].max /\ U[i] = s.dom[args[i]].max
      BY <1>11
    <3> QED BY <3>2, <3>3
  <2> QED BY <2>1, <2>2, <2>3
<1>14. PICK maxLower, maxUpper : /\ maxLower = Max({s.dom[v].min : v \in ToSet(args)})
                                 /\ maxUpper = Max({s.dom[v].max : v \in ToSet(args)})
  OBVIOUS
<1>15. PICK k \in 1 .. n : maxLower = L[k] /\ \A j \in 1 .. n : L[j] <= L[k]
  <2>1. PICK k \in 1 .. n : /\ Max({s.dom[v].min : v \in ToSet(args)}) = s.dom[args[k]].min
                            /\ \A j \in 1 .. n : s.dom[args[j]].min <= s.dom[args[k]].min
    <3>1. n \in Nat \ {0} /\ args \in Seq(Variable) /\ n = Len(args) /\ s \in PropState
      BY <1>3, <1>9
    <3> QED BY <3>1, Bounds, ZenonT(40)
  <2>2. maxLower = L[k]
    BY <1>11, <1>14, <2>1
  <2>3. ASSUME NEW j \in 1 .. n PROVE L[j] <= L[k]
    BY <1>11, <2>1
  <2> QED BY <2>2, <2>3
<1>16. PICK m \in 1 .. n : maxUpper = U[m] /\ \A j \in 1 .. n : U[j] <= U[m]
  <2>1. PICK m \in 1 .. n : /\ Max({s.dom[v].max : v \in ToSet(args)}) = s.dom[args[m]].max
                            /\ \A j \in 1 .. n : s.dom[args[j]].max <= s.dom[args[m]].max
    <3>1. n \in Nat \ {0} /\ args \in Seq(Variable) /\ n = Len(args) /\ s \in PropState
      BY <1>3, <1>9
    <3> QED BY <3>1, Bounds, ZenonT(40)
  <2>2. maxUpper = U[m]
    BY <1>11, <1>14, <2>1
  <2>3. ASSUME NEW j \in 1 .. n PROVE U[j] <= U[m]
    BY <1>11, <2>1
  <2> QED BY <2>2, <2>3
<1>17. maxLower \in Nat /\ maxUpper \in Nat /\ maxLower <= maxUpper
  BY <1>12, <1>15, <1>16
<1>18. PropagateMax(c, dom) =
         IF ~ s.ok THEN s
         ELSE IF low > maxUpper THEN Fail(Checked(s, upper >= maxLower))
              ELSE RaiseMin(LowerMax(Checked(s, upper >= maxLower), r, maxUpper), r, maxLower)
  <2>1. /\ r = Head(c.vars) /\ args = Tail(c.vars) /\ s = ClipMax(Call(dom), args, dom[r].max)
        /\ low = dom[r].min /\ upper = dom[r].max
    BY <1>0, <1>1, <1>3, <1>5, <1>7
  <2> QED BY <1>14, <2>1, MaxIs, ZenonT(40)
<1>19. ASSUME NEW a \in [GetVariables(c) -> Word], NEW X, X = [i \in 1 .. n |-> a[args[i]]],
              Meaning(c, a), Holds(a, c, s0)
       PROVE  /\ a[r] \in Nat /\ low <= a[r] /\ a[r] <= upper
              /\ X \in [1 .. n -> Nat]
              /\ \A i \in 1 .. n : L[i] <= X[i] /\ X[i] <= H[i] /\ X[i] <= a[r]
              /\ \E i \in 1 .. n : a[r] = X[i]
  <2>1. a[r] \in Interval(s0.dom[r]) /\ \A i \in 1 .. n : a[args[i]] \in Interval(s0.dom[args[i]])
    BY <1>3, <1>19 DEF Holds
  <2>2. \A i \in 1 .. n : X[i] \in L[i] .. H[i]
    BY <1>11, <1>19, <2>1 DEF Interval
  <2>3. a[r] \in low .. upper
    BY <1>5, <2>1 DEF Interval
  <2>4. /\ a[r] \in Nat /\ X \in [1 .. n -> Nat]
        /\ (\A i \in 1 .. n : X[i] <= a[r]) /\ \E i \in 1 .. n : a[r] = X[i]
    BY <1>4, <1>19
  <2> QED BY <1>6, <1>12, <2>2, <2>3, <2>4
<1>20. CASE ~ s.ok
  <2>1. PropagateMax(c, dom) = s
    BY <1>18, <1>20
  <2>2. ASSUME NEW a \in [GetVariables(c) -> Word], Meaning(c, a), Holds(a, c, s0)
        PROVE  FALSE
    <3>1. PICK X : X = [i \in 1 .. n |-> a[args[i]]]
      OBVIOUS
    <3>2. /\ a[r] \in Nat /\ a[r] <= upper /\ X \in [1 .. n -> Nat]
          /\ \A i \in 1 .. n : L[i] <= X[i] /\ X[i] <= a[r]
      BY <1>19, <2>2, <3>1
    <3>3. \A i \in 1 .. n : L[i] <= upper
      BY <1>6, <1>12, <3>2
    <3> QED BY <1>13, <1>20, <3>3
  <2> QED BY <1>0, <1>8, <1>20, <2>1, <2>2 DEF Sound, Decides
<1>21. ASSUME s.ok
       PROVE  /\ Checked(s, upper >= maxLower) = s
              /\ upper >= maxLower
              /\ \A i \in 1 .. n : U[i] = IF upper < H[i] THEN upper ELSE H[i]
  <2>1. upper >= maxLower
    BY <1>6, <1>12, <1>13, <1>15, <1>21
  <2>2. (upper >= maxLower) \in BOOLEAN
    BY <1>6, <1>17
  <2> QED BY <1>8, <1>13, <1>21, <2>1, <2>2, CheckedIs
<1>22. ASSUME s.ok, NEW a \in [GetVariables(c) -> Word], NEW X, X = [i \in 1 .. n |-> a[args[i]]],
              Meaning(c, a), Holds(a, c, s0)
       PROVE  /\ \A i \in 1 .. n : L[i] <= X[i] /\ X[i] <= U[i]
              /\ maxLower <= a[r] /\ a[r] <= maxUpper
  <2>1. /\ a[r] \in Nat /\ a[r] <= upper /\ X \in [1 .. n -> Nat]
        /\ \A i \in 1 .. n : L[i] <= X[i] /\ X[i] <= H[i] /\ X[i] <= a[r]
        /\ \E i \in 1 .. n : a[r] = X[i]
    BY <1>19, <1>22
  <2>2. ASSUME NEW i \in 1 .. n PROVE X[i] <= U[i]
    <3>1. U[i] = IF upper < H[i] THEN upper ELSE H[i]
      BY <1>21, <1>22
    <3>2. H[i] \in Nat /\ X[i] \in Nat /\ X[i] <= H[i] /\ X[i] <= a[r]
      BY <1>12, <2>1
    <3> QED BY <1>6, <2>1, <3>1, <3>2
  <2>3. maxLower <= a[r]
    BY <1>12, <1>15, <2>1
  <2>4. a[r] <= maxUpper
    BY <1>12, <1>16, <2>1, <2>2
  <2> QED BY <2>1, <2>2, <2>3, <2>4
<1>23. CASE s.ok /\ low > maxUpper
  <2>1. PropagateMax(c, dom) = Fail(s)
    BY <1>18, <1>21, <1>23
  <2>2. Fine(Fail(s)) /\ ~ Fail(s).ok /\ Narrower(s, Fail(s))
    BY <1>8, FailIs
  <2>3. Narrower(s0, Fail(s))
    BY <1>1, <1>8, <2>2, NarrowerTrans
  <2>4. ASSUME NEW a \in [GetVariables(c) -> Word], Meaning(c, a), Holds(a, c, s0)
        PROVE  FALSE
    <3>1. PICK X : X = [i \in 1 .. n |-> a[args[i]]]
      OBVIOUS
    <3>2. a[r] \in Nat /\ low <= a[r] /\ a[r] <= maxUpper
      BY <1>19, <1>22, <1>23, <2>4, <3>1
    <3> QED BY <1>6, <1>17, <1>23, <3>2
  <2> QED BY <1>0, <2>1, <2>2, <2>3, <2>4 DEF Sound, Decides
<1>24. CASE s.ok /\ ~ (low > maxUpper)
  <2>1. PICK u : u = LowerMax(s, r, maxUpper)
    OBVIOUS
  <2>2. /\ Fine(u) /\ u.ok = s.ok /\ Narrower(s, u)
        /\ u.dom[r].min = low
        /\ u.dom[r].max = IF maxUpper < upper THEN maxUpper ELSE upper
        /\ \A w \in Variable : w # r => u.dom[w] = s.dom[w]
    <3>1. Fine(s) /\ r \in Variable /\ maxUpper \in Int /\ maxUpper >= s.dom[r].min
      BY <1>5, <1>6, <1>8, <1>9, <1>17, <1>24
    <3>2. s.dom[r].min = low /\ s.dom[r].max = upper
      BY <1>5, <1>9
    <3> QED BY <2>1, <3>1, <3>2, LowerMaxIs
  <2>3. PICK t : t = RaiseMin(u, r, maxLower)
    OBVIOUS
  <2>4. u.dom[r].max \in Nat /\ maxLower <= u.dom[r].max
    BY <1>6, <1>17, <1>21, <1>24, <2>2
  <2>5. /\ Fine(t) /\ t.ok = u.ok /\ Narrower(u, t)
        /\ t.dom[r].max = u.dom[r].max
        /\ t.dom[r].min = IF maxLower > low THEN maxLower ELSE low
        /\ \A w \in Variable : w # r => t.dom[w] = u.dom[w]
    <3>1. Fine(u) /\ r \in Variable /\ maxLower \in Int /\ maxLower <= u.dom[r].max
      BY <1>17, <2>2, <2>4
    <3> QED BY <2>2, <2>3, <3>1, RaiseMinIs
  <2>6. PropagateMax(c, dom) = t
    BY <1>18, <1>21, <1>24, <2>1, <2>3
  <2>7. Narrower(s0, t)
    <3>1. Narrower(s0, u)
      BY <1>1, <1>8, <2>2, NarrowerTrans
    <3> QED BY <1>1, <2>2, <2>5, <3>1, NarrowerTrans
  <2>8. \A i \in 1 .. n : t.dom[args[i]].min = L[i] /\ t.dom[args[i]].max = U[i]
    <3> SUFFICES ASSUME NEW i \in 1 .. n
                 PROVE  t.dom[args[i]].min = L[i] /\ t.dom[args[i]].max = U[i]
      OBVIOUS
    <3>1. PICK v \in Variable : v = args[i] /\ v # r
      BY <1>3
    <3>2. t.dom[v] = u.dom[v] /\ u.dom[v] = s.dom[v]
      BY <2>2, <2>5, <3>1
    <3>3. L[i] = s.dom[v].min /\ U[i] = s.dom[v].max
      BY <1>11, <3>1
    <3> QED BY <3>1, <3>2, <3>3
  <2>9. ASSUME NEW a \in [GetVariables(c) -> Word], Meaning(c, a), Holds(a, c, s0)
        PROVE  t.ok /\ Holds(a, c, t)
    <3>1. PICK X : X = [i \in 1 .. n |-> a[args[i]]]
      OBVIOUS
    <3>2. /\ \A i \in 1 .. n : L[i] <= X[i] /\ X[i] <= U[i]
          /\ maxLower <= a[r] /\ a[r] <= maxUpper
      BY <1>22, <1>24, <2>9, <3>1
    <3>3. a[r] \in Nat /\ low <= a[r] /\ a[r] <= upper
      BY <1>19, <2>9, <3>1
    <3>4. t.dom[r].min <= a[r] /\ a[r] <= t.dom[r].max
      BY <1>6, <1>17, <2>2, <2>5, <3>2, <3>3
    <3>5. \A i \in 1 .. n : t.dom[args[i]].min <= a[args[i]] /\ a[args[i]] <= t.dom[args[i]].max
      BY <2>8, <3>1, <3>2
    <3>6. \A v \in GetVariables(c) : v = r \/ \E i \in 1 .. n : v = args[i]
      BY <1>3 DEF ToSet
    <3>7. \A v \in GetVariables(c) : t.dom[v].min <= a[v] /\ a[v] <= t.dom[v].max
      BY <3>4, <3>5, <3>6
    <3> QED BY <1>24, <2>2, <2>5, <3>7, HoldsIf
  <2>10. ASSUME \A v \in GetVariables(c) : dom[v].min = dom[v].max
         PROVE  Meaning(c, [v \in GetVariables(c) |-> dom[v].min])
    <3>1. PICK a : a = [v \in GetVariables(c) |-> dom[v].min]
      OBVIOUS
    <3>2. \A v \in GetVariables(c) : v \in Variable
      BY <1>3 DEF ToSet
    <3>3. a \in [GetVariables(c) -> Word]
      BY <1>1, <3>1, <3>2, DomainTyped
    <3>4. PICK X : X = [i \in 1 .. n |-> a[args[i]]]
      OBVIOUS
    <3>5. a[r] = low /\ low = upper
      BY <1>1, <1>3, <1>5, <2>10, <3>1
    <3>6. ASSUME NEW i \in 1 .. n PROVE X[i] = L[i] /\ L[i] = H[i]
      <4>1. PICK v \in GetVariables(c) : v = args[i]
        BY <1>3
      <4>2. dom[v].min = dom[v].max /\ a[v] = dom[v].min
        BY <2>10, <3>1
      <4>3. X[i] = a[v]
        BY <3>4, <4>1
      <4>4. L[i] = dom[v].min /\ H[i] = dom[v].max
        BY <1>1, <1>11, <4>1
      <4> QED BY <4>2, <4>3, <4>4
    <3>7. \A i \in 1 .. n : L[i] <= upper /\ U[i] = L[i]
      BY <1>6, <1>12, <1>13, <1>21, <1>24, <3>6, SMTT(40)
    <3>8. maxUpper <= upper /\ low <= maxUpper
      BY <1>6, <1>16, <1>17, <1>24, <3>7
    <3>9. a[r] = X[m] /\ \A i \in 1 .. n : X[i] <= a[r]
      BY <1>6, <1>16, <1>17, <3>5, <3>6, <3>7, <3>8
    <3>10. (\A i \in 1 .. n : X[i] <= a[r]) /\ \E i \in 1 .. n : a[r] = X[i]
      BY <3>9
    <3>11. Meaning(c, a)
      BY <1>4, <3>3, <3>4, <3>10
    <3> QED BY <3>1, <3>11
  <2> QED BY <1>0, <2>5, <2>6, <2>7, <2>9, <2>10 DEF Sound, Decides
<1> QED BY <1>20, <1>23, <1>24

LEMMA MinSound ==
  ASSUME NEW c, c.kind = "Min", c.vars \in Seq(Variable), Len(c.vars) >= 2,
         IsInjective(c.vars), NEW dom, Fine(Call(dom))
  PROVE  Sound(c, dom, PropagateMin(c, dom))
PROOF
<1>0. PICK s0 : s0 = Call(dom)
  OBVIOUS
<1>1. s0.ok /\ s0.dom = dom /\ Fine(s0) /\ s0 \in PropState
  BY <1>0 DEF Call, Fine
<1>2. PICK n \in Nat, r \in Variable, args \in Seq(Variable) : Takes(c, n, r, args)
  <2>1. c.kind \in HasResult /\ Len(c.vars) >= 1
    BY DEF HasResult
  <2> QED BY <2>1, WithResult
<1>3. /\ r = Head(c.vars) /\ args = Tail(c.vars) /\ n = Len(args) /\ DOMAIN args = 1 .. n
      /\ GetVariables(c) = {r} \cup ToSet(args) /\ r \notin ToSet(args)
      /\ \A i \in 1 .. n : args[i] \in Variable /\ args[i] \in ToSet(args)
      /\ n \in Nat \ {0}
  BY <1>2 DEF Takes
<1>4. ASSUME NEW a \in [GetVariables(c) -> Word], NEW X, X = [i \in 1 .. n |-> a[args[i]]]
      PROVE  /\ a[r] \in Nat /\ X \in [1 .. n -> Nat]
             /\ Meaning(c, a) <=> /\ \A i \in 1 .. n : a[r] <= X[i]
                                  /\ \E i \in 1 .. n : a[r] = X[i]
  <2>1. a[r] \in Word /\ \A i \in 1 .. n : a[args[i]] \in Word
    BY <1>3
  <2>2. X \in [1 .. n -> Word] /\ ToSet(X) = {X[j] : j \in 1 .. n}
    BY <1>4, <2>1 DEF ToSet
  <2>3. Meaning(c, a) <=> a[r] \in Results(c, X)
    BY <1>2, <1>4 DEF Takes
  <2>4. Results(c, X) = {Min({X[j] : j \in 1 .. n})}
    BY <2>2 DEF Results
  <2>5. PICK i \in 1 .. n : Min({X[j] : j \in 1 .. n}) = X[i] /\ \A j \in 1 .. n : X[i] <= X[j]
    BY <1>3, <2>2, ExtremaOfList
  <2>6. a[r] \in Nat /\ X \in [1 .. n -> Nat]
    BY <2>1, <2>2, Words
  <2>7. Meaning(c, a) <=> a[r] = X[i]
    BY <2>3, <2>4, <2>5
  <2> QED BY <2>5, <2>6, <2>7
<1>5. PICK low, upper : low = s0.dom[r].min /\ upper = s0.dom[r].max
  OBVIOUS
<1>6. upper \in Nat /\ low \in Nat /\ low <= upper
  <2>1. s0.dom[r].max \in Nat /\ s0.dom[r].min \in Nat /\ s0.dom[r].min <= s0.dom[r].max
    BY <1>1, DomainTyped DEF Fine
  <2> QED BY <1>5, <2>1
<1>7. PICK s : s = ClipMin(s0, args, low)
  OBVIOUS
<1>8. /\ Fine(s) /\ Narrower(s0, s)
      /\ s.ok <=> \A i \in DOMAIN args : low <= s0.dom[args[i]].max
      /\ \A v \in Variable : s.dom[v].max = s0.dom[v].max
      /\ s.ok => \A i \in DOMAIN args :
           s.dom[args[i]].min = IF low > s0.dom[args[i]].min THEN low
                                                               ELSE s0.dom[args[i]].min
      /\ \A v \in Variable : v \notin ToSet(args) => s.dom[v] = s0.dom[v]
  <2>1. Fine(s0) /\ s0.ok /\ args \in Seq(Variable) /\ low \in Int
    BY <1>1, <1>6
  <2> QED BY <1>7, <2>1, ClipMinIs, SMTT(40)
<1>9. s \in PropState /\ s.dom[r] = s0.dom[r]
  BY <1>3, <1>8 DEF Fine
\* The bounds of the operands, at the call and clipped
<1>10. PICK H, L, D : /\ H = [i \in 1 .. n |-> s0.dom[args[i]].max]
                      /\ L = [i \in 1 .. n |-> s0.dom[args[i]].min]
                      /\ D = [i \in 1 .. n |-> s.dom[args[i]].min]
  OBVIOUS
<1>11. \A i \in 1 .. n : /\ H[i] = s0.dom[args[i]].max /\ H[i] = s.dom[args[i]].max
                         /\ L[i] = s0.dom[args[i]].min /\ D[i] = s.dom[args[i]].min
  BY <1>3, <1>8, <1>10
<1>12. ASSUME NEW i \in 1 .. n
       PROVE  H[i] \in Nat /\ L[i] \in Nat /\ D[i] \in Nat /\ L[i] <= H[i] /\ D[i] <= H[i]
  <2>1. PICK v \in Variable : v = args[i]
    BY <1>3
  <2>2. /\ s0.dom[v].max \in Nat /\ s0.dom[v].min \in Nat /\ s0.dom[v].min <= s0.dom[v].max
        /\ s.dom[v].max \in Nat /\ s.dom[v].min \in Nat /\ s.dom[v].min <= s.dom[v].max
    BY <1>1, <1>8, <1>9, DomainTyped DEF Fine
  <2> QED BY <1>11, <2>1, <2>2
<1>13. /\ s.ok <=> \A i \in 1 .. n : low <= H[i]
       /\ s.ok => \A i \in 1 .. n : D[i] = IF low > L[i] THEN low ELSE L[i]
  <2>1. s.ok <=> \A i \in 1 .. n : low <= s0.dom[args[i]].max
    BY <1>3, <1>8
  <2>2. (\A i \in 1 .. n : low <= s0.dom[args[i]].max) <=> \A i \in 1 .. n : low <= H[i]
    BY <1>11, Zenon
  <2>3. ASSUME s.ok, NEW i \in 1 .. n PROVE D[i] = IF low > L[i] THEN low ELSE L[i]
    <3>1. i \in DOMAIN args
      BY <1>3
    <3>2. s.dom[args[i]].min = IF low > s0.dom[args[i]].min THEN low ELSE s0.dom[args[i]].min
      BY <1>8, <2>3, <3>1
    <3>3. L[i] = s0.dom[args[i]].min /\ D[i] = s.dom[args[i]].min
      BY <1>11
    <3> QED BY <3>2, <3>3
  <2> QED BY <2>1, <2>2, <2>3
<1>14. PICK minUpper, minLower : /\ minUpper = Min({s.dom[v].max : v \in ToSet(args)})
                                 /\ minLower = Min({s.dom[v].min : v \in ToSet(args)})
  OBVIOUS
<1>15. PICK k \in 1 .. n : minUpper = H[k] /\ \A j \in 1 .. n : H[k] <= H[j]
  <2>1. PICK k \in 1 .. n : /\ Min({s.dom[v].max : v \in ToSet(args)}) = s.dom[args[k]].max
                            /\ \A j \in 1 .. n : s.dom[args[k]].max <= s.dom[args[j]].max
    <3>1. n \in Nat \ {0} /\ args \in Seq(Variable) /\ n = Len(args) /\ s \in PropState
      BY <1>3, <1>9
    <3> QED BY <3>1, Bounds, ZenonT(40)
  <2>2. minUpper = H[k]
    BY <1>11, <1>14, <2>1
  <2>3. ASSUME NEW j \in 1 .. n PROVE H[k] <= H[j]
    BY <1>11, <2>1
  <2> QED BY <2>2, <2>3
<1>16. PICK m \in 1 .. n : minLower = D[m] /\ \A j \in 1 .. n : D[m] <= D[j]
  <2>1. PICK m \in 1 .. n : /\ Min({s.dom[v].min : v \in ToSet(args)}) = s.dom[args[m]].min
                            /\ \A j \in 1 .. n : s.dom[args[m]].min <= s.dom[args[j]].min
    <3>1. n \in Nat \ {0} /\ args \in Seq(Variable) /\ n = Len(args) /\ s \in PropState
      BY <1>3, <1>9
    <3> QED BY <3>1, Bounds, ZenonT(40)
  <2>2. minLower = D[m]
    BY <1>11, <1>14, <2>1
  <2>3. ASSUME NEW j \in 1 .. n PROVE D[m] <= D[j]
    BY <1>11, <2>1
  <2> QED BY <2>2, <2>3
<1>17. minUpper \in Nat /\ minLower \in Nat /\ minLower <= minUpper
  BY <1>12, <1>15, <1>16, SMTT(40)
<1>18. PropagateMin(c, dom) =
         IF ~ s.ok THEN s
         ELSE IF upper < minLower THEN Fail(Checked(s, low <= minUpper))
              ELSE RaiseMin(LowerMax(Checked(s, low <= minUpper), r, minUpper), r, minLower)
  <2>1. /\ r = Head(c.vars) /\ args = Tail(c.vars) /\ s = ClipMin(Call(dom), args, dom[r].min)
        /\ low = dom[r].min /\ upper = dom[r].max
    BY <1>0, <1>1, <1>3, <1>5, <1>7
  <2> QED BY <1>14, <2>1, MinIs, ZenonT(40)
<1>19. ASSUME NEW a \in [GetVariables(c) -> Word], NEW X, X = [i \in 1 .. n |-> a[args[i]]],
              Meaning(c, a), Holds(a, c, s0)
       PROVE  /\ a[r] \in Nat /\ low <= a[r] /\ a[r] <= upper
              /\ X \in [1 .. n -> Nat]
              /\ \A i \in 1 .. n : L[i] <= X[i] /\ X[i] <= H[i] /\ a[r] <= X[i]
              /\ \E i \in 1 .. n : a[r] = X[i]
  <2>1. a[r] \in Interval(s0.dom[r]) /\ \A i \in 1 .. n : a[args[i]] \in Interval(s0.dom[args[i]])
    BY <1>3, <1>19 DEF Holds
  <2>2. \A i \in 1 .. n : X[i] \in L[i] .. H[i]
    BY <1>11, <1>19, <2>1 DEF Interval
  <2>3. a[r] \in low .. upper
    BY <1>5, <2>1 DEF Interval
  <2>4. /\ a[r] \in Nat /\ X \in [1 .. n -> Nat]
        /\ (\A i \in 1 .. n : a[r] <= X[i]) /\ \E i \in 1 .. n : a[r] = X[i]
    BY <1>4, <1>19
  <2> QED BY <1>6, <1>12, <2>2, <2>3, <2>4
<1>20. CASE ~ s.ok
  <2>1. PropagateMin(c, dom) = s
    BY <1>18, <1>20
  <2>2. ASSUME NEW a \in [GetVariables(c) -> Word], Meaning(c, a), Holds(a, c, s0)
        PROVE  FALSE
    <3>1. PICK X : X = [i \in 1 .. n |-> a[args[i]]]
      OBVIOUS
    <3>2. /\ a[r] \in Nat /\ low <= a[r] /\ X \in [1 .. n -> Nat]
          /\ \A i \in 1 .. n : a[r] <= X[i] /\ X[i] <= H[i]
      BY <1>19, <2>2, <3>1
    <3>3. \A i \in 1 .. n : low <= H[i]
      BY <1>6, <1>12, <3>2
    <3> QED BY <1>13, <1>20, <3>3
  <2> QED BY <1>0, <1>8, <1>20, <2>1, <2>2 DEF Sound, Decides
<1>21. ASSUME s.ok
       PROVE  /\ Checked(s, low <= minUpper) = s
              /\ low <= minUpper
              /\ \A i \in 1 .. n : D[i] = IF low > L[i] THEN low ELSE L[i]
  <2>1. low <= minUpper
    BY <1>6, <1>12, <1>13, <1>15, <1>21
  <2>2. (low <= minUpper) \in BOOLEAN
    BY <1>6, <1>17
  <2> QED BY <1>8, <1>13, <1>21, <2>1, <2>2, CheckedIs
<1>22. ASSUME s.ok, NEW a \in [GetVariables(c) -> Word], NEW X, X = [i \in 1 .. n |-> a[args[i]]],
              Meaning(c, a), Holds(a, c, s0)
       PROVE  /\ \A i \in 1 .. n : D[i] <= X[i] /\ X[i] <= H[i]
              /\ minLower <= a[r] /\ a[r] <= minUpper
  <2>1. /\ a[r] \in Nat /\ low <= a[r] /\ X \in [1 .. n -> Nat]
        /\ \A i \in 1 .. n : L[i] <= X[i] /\ X[i] <= H[i] /\ a[r] <= X[i]
        /\ \E i \in 1 .. n : a[r] = X[i]
    BY <1>19, <1>22
  <2>2. ASSUME NEW i \in 1 .. n PROVE D[i] <= X[i]
    <3>1. D[i] = IF low > L[i] THEN low ELSE L[i]
      BY <1>21, <1>22
    <3>2. L[i] \in Nat /\ X[i] \in Nat /\ L[i] <= X[i] /\ a[r] <= X[i]
      BY <1>12, <2>1
    <3> QED BY <1>6, <2>1, <3>1, <3>2
  <2>3. a[r] <= minUpper
    BY <1>12, <1>15, <2>1
  <2>4. minLower <= a[r]
    <3>1. PICK i \in 1 .. n : a[r] = X[i]
      BY <2>1
    <3>2. D[m] \in Nat /\ D[i] \in Nat /\ D[m] <= D[i] /\ D[i] <= X[i]
      BY <1>12, <1>16, <2>2
    <3> QED BY <1>16, <2>1, <3>1, <3>2
  <2> QED BY <2>1, <2>2, <2>3, <2>4
<1>23. CASE s.ok /\ upper < minLower
  <2>1. PropagateMin(c, dom) = Fail(s)
    BY <1>18, <1>21, <1>23
  <2>2. Fine(Fail(s)) /\ ~ Fail(s).ok /\ Narrower(s, Fail(s))
    BY <1>8, FailIs
  <2>3. Narrower(s0, Fail(s))
    BY <1>1, <1>8, <2>2, NarrowerTrans
  <2>4. ASSUME NEW a \in [GetVariables(c) -> Word], Meaning(c, a), Holds(a, c, s0)
        PROVE  FALSE
    <3>1. PICK X : X = [i \in 1 .. n |-> a[args[i]]]
      OBVIOUS
    <3>2. a[r] \in Nat /\ minLower <= a[r] /\ a[r] <= upper
      BY <1>19, <1>22, <1>23, <2>4, <3>1
    <3> QED BY <1>6, <1>17, <1>23, <3>2
  <2> QED BY <1>0, <2>1, <2>2, <2>3, <2>4 DEF Sound, Decides
<1>24. CASE s.ok /\ ~ (upper < minLower)
  <2>1. PICK u : u = LowerMax(s, r, minUpper)
    OBVIOUS
  <2>2. /\ Fine(u) /\ u.ok = s.ok /\ Narrower(s, u)
        /\ u.dom[r].min = low
        /\ u.dom[r].max = IF minUpper < upper THEN minUpper ELSE upper
        /\ \A w \in Variable : w # r => u.dom[w] = s.dom[w]
    <3>1. Fine(s) /\ r \in Variable /\ minUpper \in Int /\ minUpper >= s.dom[r].min
      BY <1>5, <1>6, <1>8, <1>9, <1>17, <1>21, <1>24
    <3>2. s.dom[r].max = upper /\ s.dom[r].min = low
      BY <1>5, <1>9
    <3> QED BY <2>1, <3>1, <3>2, LowerMaxIs
  <2>3. PICK t : t = RaiseMin(u, r, minLower)
    OBVIOUS
  <2>4. u.dom[r].max \in Nat /\ minLower <= u.dom[r].max
    BY <1>6, <1>17, <1>24, <2>2
  <2>5. /\ Fine(t) /\ t.ok = u.ok /\ Narrower(u, t)
        /\ t.dom[r].max = u.dom[r].max
        /\ t.dom[r].min = IF minLower > low THEN minLower ELSE low
        /\ \A w \in Variable : w # r => t.dom[w] = u.dom[w]
    <3>1. Fine(u) /\ r \in Variable /\ minLower \in Int /\ minLower <= u.dom[r].max
      BY <1>17, <2>2, <2>4
    <3> QED BY <2>2, <2>3, <3>1, RaiseMinIs
  <2>6. PropagateMin(c, dom) = t
    BY <1>18, <1>21, <1>24, <2>1, <2>3
  <2>7. Narrower(s0, t)
    <3>1. Narrower(s0, u)
      BY <1>1, <1>8, <2>2, NarrowerTrans
    <3> QED BY <1>1, <2>2, <2>5, <3>1, NarrowerTrans
  <2>8. \A i \in 1 .. n : t.dom[args[i]].max = H[i] /\ t.dom[args[i]].min = D[i]
    <3> SUFFICES ASSUME NEW i \in 1 .. n
                 PROVE  t.dom[args[i]].max = H[i] /\ t.dom[args[i]].min = D[i]
      OBVIOUS
    <3>1. PICK v \in Variable : v = args[i] /\ v # r
      BY <1>3
    <3>2. t.dom[v] = u.dom[v] /\ u.dom[v] = s.dom[v]
      BY <2>2, <2>5, <3>1
    <3>3. H[i] = s.dom[v].max /\ D[i] = s.dom[v].min
      BY <1>11, <3>1
    <3> QED BY <3>1, <3>2, <3>3
  <2>9. ASSUME NEW a \in [GetVariables(c) -> Word], Meaning(c, a), Holds(a, c, s0)
        PROVE  t.ok /\ Holds(a, c, t)
    <3>1. PICK X : X = [i \in 1 .. n |-> a[args[i]]]
      OBVIOUS
    <3>2. /\ \A i \in 1 .. n : D[i] <= X[i] /\ X[i] <= H[i]
          /\ minLower <= a[r] /\ a[r] <= minUpper
      BY <1>22, <1>24, <2>9, <3>1
    <3>3. a[r] \in Nat /\ low <= a[r] /\ a[r] <= upper
      BY <1>19, <2>9, <3>1
    <3>4. t.dom[r].min <= a[r] /\ a[r] <= t.dom[r].max
      BY <1>6, <1>17, <2>2, <2>5, <3>2, <3>3
    <3>5. \A i \in 1 .. n : t.dom[args[i]].min <= a[args[i]] /\ a[args[i]] <= t.dom[args[i]].max
      BY <2>8, <3>1, <3>2
    <3>6. \A v \in GetVariables(c) : v = r \/ \E i \in 1 .. n : v = args[i]
      BY <1>3 DEF ToSet
    <3>7. \A v \in GetVariables(c) : t.dom[v].min <= a[v] /\ a[v] <= t.dom[v].max
      BY <3>4, <3>5, <3>6
    <3> QED BY <1>24, <2>2, <2>5, <3>7, HoldsIf
  <2>10. ASSUME \A v \in GetVariables(c) : dom[v].min = dom[v].max
         PROVE  Meaning(c, [v \in GetVariables(c) |-> dom[v].min])
    <3>1. PICK a : a = [v \in GetVariables(c) |-> dom[v].min]
      OBVIOUS
    <3>2. \A v \in GetVariables(c) : v \in Variable
      BY <1>3 DEF ToSet
    <3>3. a \in [GetVariables(c) -> Word]
      BY <1>1, <3>1, <3>2, DomainTyped
    <3>4. PICK X : X = [i \in 1 .. n |-> a[args[i]]]
      OBVIOUS
    <3>5. a[r] = upper /\ upper = low
      BY <1>1, <1>3, <1>5, <2>10, <3>1
    <3>6. ASSUME NEW i \in 1 .. n PROVE X[i] = H[i] /\ H[i] = L[i]
      <4>1. PICK v \in GetVariables(c) : v = args[i]
        BY <1>3
      <4>2. dom[v].min = dom[v].max /\ a[v] = dom[v].min
        BY <2>10, <3>1
      <4>3. X[i] = a[v]
        BY <3>4, <4>1
      <4>4. H[i] = dom[v].max /\ L[i] = dom[v].min
        BY <1>1, <1>11, <4>1
      <4> QED BY <4>2, <4>3, <4>4
    <3>7. \A i \in 1 .. n : low <= H[i] /\ D[i] = H[i]
      BY <1>6, <1>12, <1>13, <1>21, <1>24, <3>6
    <3>8. low <= minLower /\ minLower <= upper
      BY <1>6, <1>16, <1>17, <1>24, <3>7
    <3>9. a[r] = X[m] /\ \A i \in 1 .. n : a[r] <= X[i]
      BY <1>6, <1>16, <1>17, <3>5, <3>6, <3>7, <3>8
    <3>10. (\A i \in 1 .. n : a[r] <= X[i]) /\ \E i \in 1 .. n : a[r] = X[i]
      BY <3>9
    <3>11. Meaning(c, a)
      BY <1>4, <3>3, <3>4, <3>10
    <3> QED BY <3>1, <3>11
  <2> QED BY <1>0, <2>5, <2>6, <2>7, <2>9, <2>10 DEF Sound, Decides
<1> QED BY <1>20, <1>23, <1>24

-----------------------------------------------------------------------------
(* Calls of functions *)

\* A domain has its size but for the widest one, whose size wraps to nothing.
LEMMA Sizes ==
  ASSUME NEW d \in Domain, d.min <= d.max
  PROVE  /\ Size(d) > 0 <=> d.max - d.min + 1 < 2^Bits
         /\ Size(d) > 0 => Size(d) = d.max - d.min + 1
PROOF
<1>1. PICK w \in Nat : w = 2^Bits /\ w >= 2 /\ Word = 0 .. w - 1
  BY Words
<1>2. PICK k \in Nat : k = d.max - d.min + 1 /\ k >= 1 /\ k <= w
  <2>1. d.max \in 0 .. w - 1 /\ d.min \in 0 .. w - 1
    BY <1>1 DEF Domain
  <2>2. d.max - d.min + 1 \in Nat /\ d.max - d.min + 1 >= 1 /\ d.max - d.min + 1 <= w
    BY <2>1
  <2> QED BY <2>2
<1>3. Size(d) = AsWord(k)
  BY <1>2 DEF Size
<1>4. CASE k < w
  <2>1. AsWord(k) = k
    BY <1>1, <1>2, <1>4, Words
  <2> QED BY <1>1, <1>2, <1>3, <1>4, <2>1
<1>5. CASE k = w
  <2>1. AsWord(k) = w % w
    BY <1>1, <1>5 DEF AsWord
  <2>2. w % w = 0
    BY <1>1, Z3
  <2> QED BY <1>1, <1>2, <1>3, <1>5, <2>1, <2>2
<1> QED BY <1>1, <1>2, <1>4, <1>5

LEMMA CallSound ==
  ASSUME NEW c, c.kind = "Call", c.vars \in Seq(Variable), Len(c.vars) >= 1,
         IsInjective(c.vars), c.limit \in Word,
         \A values \in [1 .. Len(c.vars) - 1 -> Word] :
           Apply(c.f, values) = {} \/ \E n \in Word : Apply(c.f, values) = {n},
         NEW dom, Fine(Call(dom)), \A v \in Variable : Size(dom[v]) > 0
  PROVE  Sound(c, dom, PropagateCall(c, dom))
PROOF
<1>0. PICK s0 : s0 = Call(dom)
  OBVIOUS
<1>1. s0.ok /\ s0.dom = dom /\ Fine(s0) /\ s0 \in PropState
  BY <1>0 DEF Call, Fine
<1>2. PICK n \in Nat, r \in Variable, args \in Seq(Variable) : Takes(c, n, r, args)
  <2>1. c.kind \in HasResult
    BY DEF HasResult
  <2> QED BY <2>1, WithResult
<1>3. /\ r = Head(c.vars) /\ args = Tail(c.vars) /\ n = Len(args) /\ DOMAIN args = 1 .. n
      /\ GetVariables(c) = {r} \cup ToSet(args) /\ r \notin ToSet(args)
      /\ \A i \in 1 .. n : args[i] \in Variable /\ args[i] \in ToSet(args)
      /\ n = Len(c.vars) - 1
  BY <1>2 DEF Takes
<1>4. PICK bound \in Nat : bound = c.limit
  BY Words
<1>5. ASSUME NEW a, NEW X, X = [i \in 1 .. n |-> a[args[i]]]
      PROVE  Meaning(c, a) <=> (\A i \in 1 .. n : X[i] <= bound) /\ a[r] \in Apply(c.f, X)
  <2>1. Meaning(c, a) <=> a[r] \in Results(c, X)
    BY <1>2, <1>5 DEF Takes
  <2>2. Results(c, X) = IF \A i \in 1 .. n : X[i] <= bound THEN Apply(c.f, X) ELSE {}
    BY <1>4, <1>5 DEF Results
  <2> QED BY <2>1, <2>2
<1>7. PICK s : s = ClipMax(s0, args, bound)
  OBVIOUS
<1>8. /\ Fine(s) /\ Narrower(s0, s)
      /\ s.ok <=> \A i \in DOMAIN args : s0.dom[args[i]].min <= bound
      /\ \A v \in Variable : s.dom[v].min = s0.dom[v].min
      /\ s.ok => \A i \in DOMAIN args :
           s.dom[args[i]].max = IF bound < s0.dom[args[i]].max THEN bound
                                                               ELSE s0.dom[args[i]].max
      /\ \A v \in Variable : v \notin ToSet(args) => s.dom[v] = s0.dom[v]
  <2>1. Fine(s0) /\ s0.ok /\ args \in Seq(Variable) /\ bound \in Int
    BY <1>1
  <2> QED BY <1>7, <2>1, ClipMaxIs, SMTT(60)
<1>9. s \in PropState /\ s.dom[r] = s0.dom[r]
  BY <1>3, <1>8 DEF Fine
\* The bounds of the operands, at the call and clipped
<1>10. PICK L, H, U : /\ L = [i \in 1 .. n |-> s0.dom[args[i]].min]
                      /\ H = [i \in 1 .. n |-> s0.dom[args[i]].max]
                      /\ U = [i \in 1 .. n |-> s.dom[args[i]].max]
  OBVIOUS
<1>11. \A i \in 1 .. n : /\ L[i] = s0.dom[args[i]].min /\ L[i] = s.dom[args[i]].min
                         /\ H[i] = s0.dom[args[i]].max /\ U[i] = s.dom[args[i]].max
  BY <1>3, <1>8, <1>10
<1>12. ASSUME NEW i \in 1 .. n
       PROVE  /\ L[i] \in Nat /\ L[i] \in Word /\ H[i] \in Nat /\ U[i] \in Nat
              /\ L[i] <= H[i] /\ L[i] <= U[i] /\ U[i] <= H[i]
              /\ Size(s.dom[args[i]]) = U[i] - L[i] + 1
  <2>1. PICK v \in Variable : v = args[i]
    BY <1>3
  <2>2. /\ s0.dom[v].min \in Nat /\ s0.dom[v].max \in Nat /\ s0.dom[v].min <= s0.dom[v].max
        /\ s.dom[v].min \in Nat /\ s.dom[v].max \in Nat /\ s.dom[v].min <= s.dom[v].max
        /\ s.dom[v].min \in Word /\ s0.dom[v] \in Domain /\ s.dom[v] \in Domain
    BY <1>1, <1>8, <1>9, DomainTyped DEF Fine
  <2>3. s.dom[v].max <= s0.dom[v].max /\ s.dom[v].min = s0.dom[v].min
    BY <1>8 DEF Narrower
  <2>4. Size(s0.dom[v]) > 0 /\ 2^Bits \in Nat
    BY <1>1, Words
  <2>5. s0.dom[v].max - s0.dom[v].min + 1 < 2^Bits
    BY <2>2, <2>4, Sizes
  <2>6. s.dom[v].max - s.dom[v].min + 1 < 2^Bits
    BY <2>2, <2>3, <2>4, <2>5, SMTT(40)
  <2>7. Size(s.dom[v]) = s.dom[v].max - s.dom[v].min + 1
    BY <2>2, <2>6, Sizes
  <2> QED BY <1>11, <2>1, <2>2, <2>3, <2>7
<1>13. /\ s.ok <=> \A i \in 1 .. n : L[i] <= bound
       /\ s.ok => \A i \in 1 .. n : U[i] = IF bound < H[i] THEN bound ELSE H[i]
  <2>1. s.ok <=> \A i \in 1 .. n : s0.dom[args[i]].min <= bound
    BY <1>3, <1>8
  <2>2. (\A i \in 1 .. n : s0.dom[args[i]].min <= bound) <=> \A i \in 1 .. n : L[i] <= bound
    BY <1>11, Zenon
  <2>3. ASSUME s.ok, NEW i \in 1 .. n PROVE U[i] = IF bound < H[i] THEN bound ELSE H[i]
    <3>1. i \in DOMAIN args
      BY <1>3
    <3>2. s.dom[args[i]].max = IF bound < s0.dom[args[i]].max THEN bound ELSE s0.dom[args[i]].max
      BY <1>8, <2>3, <3>1
    <3>3. H[i] = s0.dom[args[i]].max /\ U[i] = s.dom[args[i]].max
      BY <1>11
    <3> QED BY <3>2, <3>3
  <2> QED BY <2>1, <2>2, <2>3
<1>14. PICK known \in BOOLEAN : known = \A v \in ToSet(args) : Size(s.dom[v]) <= 1
  OBVIOUS
<1>15. known <=> \A i \in 1 .. n : L[i] = U[i]
  <2>1. known <=> \A i \in 1 .. n : Size(s.dom[args[i]]) <= 1
    BY <1>3, <1>14 DEF ToSet
  <2>2. \A i \in 1 .. n : Size(s.dom[args[i]]) <= 1 <=> L[i] = U[i]
    BY <1>12
  <2> QED BY <2>1, <2>2, Zenon
<1>16. PICK x : x = Apply(c.f, L)
  OBVIOUS
<1>17. L \in [1 .. n -> Word] /\ (x = {} \/ \E k \in Word : x = {k})
  <2>1. L \in [1 .. n -> Word]
    BY <1>10, <1>12
  <2> QED BY <1>3, <1>16, <2>1
<1>18. PICK checked : checked = Checked(s, \A v \in ToSet(args) : s.dom[v].min = s.dom[v].max)
  OBVIOUS
<1>19. PropagateCall(c, dom) =
         IF ~ s.ok \/ ~ known THEN s
         ELSE IF x \intersect Interval(s.dom[r]) = {} THEN Fail(checked)
              ELSE IF \A k \in x : s.dom[r] = [min |-> k, max |-> k] THEN checked
                   ELSE SetValue(checked, r, CHOOSE k \in x : TRUE)
  <2>1. L = [i \in DOMAIN args |-> s.dom[args[i]].min]
    <3>1. L = [i \in 1 .. n |-> L[i]]
      BY <1>10
    <3> QED BY <1>3, <1>11, <3>1
  <2>2. s = ClipMax(Call(dom), Tail(c.vars), c.limit)
    BY <1>0, <1>3, <1>4, <1>7
  <2>3. x = Apply(c.f, [i \in DOMAIN args |-> s.dom[args[i]].min])
    BY <1>16, <2>1
  <2>4. r = Head(c.vars) /\ args = Tail(c.vars) /\ s = ClipMax(Call(dom), args, c.limit)
    BY <1>3, <2>2
  <2>5. known \in BOOLEAN /\ (known <=> \A v \in ToSet(args) : Size(s.dom[v]) <= 1)
    BY <1>14
  <2>6. CallGives(PropagateCall(c, dom), c, r, args, s)
    BY <2>4, CallIs, Zenon
  <2>7. known <=> Assigned(s, args)
    BY <2>5 DEF Assigned
  <2>8. checked = Checked(s, Settled(s, args))
    BY <1>18 DEF Settled
  <2> QED BY <2>3, <2>6, <2>7, <2>8 DEF CallGives
<1>20. known => checked = s
  <2>1. ASSUME known, NEW v \in ToSet(args) PROVE s.dom[v].min = s.dom[v].max
    <3>1. PICK i \in 1 .. n : v = args[i]
      BY <1>3, <2>1 DEF ToSet
    <3> QED BY <1>11, <1>15, <2>1, <3>1
  <2>2. (\A v \in ToSet(args) : s.dom[v].min = s.dom[v].max) \in BOOLEAN
    OBVIOUS
  <2> QED BY <1>8, <1>18, <2>1, <2>2, CheckedIs
\* A solution of the domains at the call
<1>21. ASSUME NEW a \in [GetVariables(c) -> Word], NEW X, X = [i \in 1 .. n |-> a[args[i]]],
              Meaning(c, a), Holds(a, c, s0)
       PROVE  /\ s.ok /\ Holds(a, c, s)
              /\ a[r] \in Interval(s.dom[r])
              /\ known => a[r] \in x
  <2>1. a[r] \in Interval(s0.dom[r]) /\ \A i \in 1 .. n : a[args[i]] \in Interval(s0.dom[args[i]])
    BY <1>3, <1>21 DEF Holds
  <2>2. \A i \in 1 .. n : X[i] \in L[i] .. H[i]
    BY <1>11, <1>21, <2>1 DEF Interval
  <2>3. (\A i \in 1 .. n : X[i] <= bound) /\ a[r] \in Apply(c.f, X)
    BY <1>5, <1>21
  <2>4. s.ok
    BY <1>12, <1>13, <2>2, <2>3
  <2>5. ASSUME NEW i \in 1 .. n PROVE X[i] \in L[i] .. U[i]
    <3>1. U[i] = IF bound < H[i] THEN bound ELSE H[i]
      BY <1>13, <2>4
    <3> QED BY <1>12, <2>2, <2>3, <3>1
  <2>6. ASSUME NEW v \in GetVariables(c) PROVE a[v] \in Interval(s.dom[v])
    <3>1. CASE v = r
      BY <1>9, <2>1, <3>1
    <3>2. CASE v # r
      <4>1. PICK i \in 1 .. n : v = args[i]
        BY <1>3, <3>2 DEF ToSet
      <4>2. X[i] = a[v] /\ L[i] = s.dom[v].min /\ U[i] = s.dom[v].max
        BY <1>11, <1>21, <4>1
      <4> QED BY <2>5, <4>2 DEF Interval
    <3> QED BY <3>1, <3>2
  <2>7. ASSUME known PROVE a[r] \in x
    <3>1. \A i \in 1 .. n : X[i] = L[i]
      BY <1>12, <1>15, <2>5, <2>7
    <3>2. X = L
      <4>1. L = [i \in 1 .. n |-> L[i]] /\ X = [i \in 1 .. n |-> X[i]]
        BY <1>10, <1>21
      <4> QED BY <3>1, <4>1
    <3> QED BY <1>16, <2>3, <3>2
  <2> QED BY <1>3, <2>4, <2>6, <2>7 DEF Holds
\* When all is assigned, at the call
<1>22. ASSUME \A v \in GetVariables(c) : dom[v].min = dom[v].max, s.ok
       PROVE  /\ known
              /\ s.dom[r].min = dom[r].min /\ s.dom[r].max = dom[r].min
              /\ dom[r].min \in x => Meaning(c, [v \in GetVariables(c) |-> dom[v].min])
  <2>1. ASSUME NEW i \in 1 .. n PROVE dom[args[i]].min = L[i] /\ L[i] = H[i]
    BY <1>1, <1>3, <1>11, <1>22, SMTT(40)
  <2>2. known
    BY <1>12, <1>15, <2>1
  <2>3. s.dom[r].min = dom[r].min /\ s.dom[r].max = dom[r].min
    BY <1>1, <1>3, <1>9, <1>22
  <2>4. ASSUME dom[r].min \in x PROVE Meaning(c, [v \in GetVariables(c) |-> dom[v].min])
    <3>1. PICK a : a = [v \in GetVariables(c) |-> dom[v].min]
      OBVIOUS
    <3>2. a[r] = dom[r].min /\ \A i \in 1 .. n : a[args[i]] = L[i]
      BY <1>3, <2>1, <3>1
    <3>3. L = [i \in 1 .. n |-> a[args[i]]]
      <4>1. L = [i \in 1 .. n |-> L[i]]
        BY <1>10
      <4> QED BY <3>2, <4>1
    <3>4. \A i \in 1 .. n : L[i] <= bound
      BY <1>13, <1>22
    <3>5. Meaning(c, a)
      BY <1>5, <1>16, <2>4, <3>2, <3>3, <3>4
    <3> QED BY <3>1, <3>5
  <2> QED BY <2>2, <2>3, <2>4
<1>23. CASE ~ s.ok \/ ~ known
  <2>1. PropagateCall(c, dom) = s
    BY <1>19, <1>23
  <2>2. \A a \in [GetVariables(c) -> Word] :
          Meaning(c, a) /\ Holds(a, c, s0) => s.ok /\ Holds(a, c, s)
    BY <1>21
  <2> QED BY <1>0, <1>8, <1>22, <1>23, <2>1, <2>2 DEF Sound, Decides
<1>24. CASE s.ok /\ known /\ x \intersect Interval(s.dom[r]) = {}
  <2>1. PropagateCall(c, dom) = Fail(s)
    BY <1>19, <1>20, <1>24
  <2>2. Fine(Fail(s)) /\ ~ Fail(s).ok /\ Narrower(s, Fail(s))
    BY <1>8, FailIs
  <2>3. Narrower(s0, Fail(s))
    BY <1>1, <1>8, <2>2, NarrowerTrans
  <2>4. \A a \in [GetVariables(c) -> Word] : ~ (Meaning(c, a) /\ Holds(a, c, s0))
    BY <1>21, <1>24
  <2> QED BY <1>0, <2>1, <2>2, <2>3, <2>4 DEF Sound, Decides
<1>25. CASE s.ok /\ known /\ x \intersect Interval(s.dom[r]) # {}
  <2>1. PICK k \in Word : x = {k} /\ k \in Interval(s.dom[r])
    BY <1>17, <1>25
  <2>2. (CHOOSE j \in x : TRUE) = k
    BY <2>1
  <2>3. PICK d : d = [min |-> k, max |-> k]
    OBVIOUS
  <2>4. ASSUME \A v \in GetVariables(c) : dom[v].min = dom[v].max
        PROVE  Meaning(c, [v \in GetVariables(c) |-> dom[v].min])
    <3>1. s.dom[r].min \in Nat /\ s.dom[r].max \in Nat /\ k \in Nat
      <4>1. k \in Nat
        BY <2>1, Words
      <4> QED BY <1>9, <4>1, DomainTyped
    <3>2. k = dom[r].min
      BY <1>22, <1>25, <2>1, <2>4, <3>1 DEF Interval
    <3> QED BY <1>22, <1>25, <2>1, <2>4, <3>2
  <2>5. CASE s.dom[r] = d
    <3>1. PropagateCall(c, dom) = s
      BY <1>19, <1>20, <1>25, <2>1, <2>3, <2>5
    <3>2. \A a \in [GetVariables(c) -> Word] :
            Meaning(c, a) /\ Holds(a, c, s0) => s.ok /\ Holds(a, c, s)
      BY <1>21
    <3> QED BY <1>0, <1>8, <2>4, <3>1, <3>2 DEF Sound, Decides
  <2>6. CASE s.dom[r] # d
    <3>1. PICK t : t = SetDomain(s, r, d, k)
      OBVIOUS
    <3>2. PropagateCall(c, dom) = t
      BY <1>19, <1>20, <1>25, <2>1, <2>2, <2>3, <2>6, <3>1 DEF SetValue
    <3>3. d \in Domain /\ d.min = k /\ d.max = k /\ k \in Nat
      BY <2>1, <2>3, Words DEF Domain
    <3>4. /\ t \in PropState /\ t.ok = s.ok /\ t.dom[r] = d /\ ~ t.fault
          /\ \A w \in Variable : w # r => t.dom[w] = s.dom[w]
      <4>1. s \in PropState /\ r \in Variable /\ d \in Domain /\ ~ s.fault
        BY <1>8, <1>9, <3>3 DEF Fine
      <4> QED BY <2>1, <3>1, <4>1, SetTyped
    <3>5. Fine(t)
      BY <1>8, <3>3, <3>4 DEF Fine
    <3>6. Narrower(s, t)
      <4>1. \A w \in Variable : s.dom[w].min \in Nat /\ s.dom[w].max \in Nat
        BY <1>9, DomainTyped
      <4>2. s.dom[r].min <= k /\ k <= s.dom[r].max
        BY <2>1 DEF Interval
      <4>3. ASSUME NEW w \in Variable
            PROVE  s.dom[w].min <= t.dom[w].min /\ t.dom[w].max <= s.dom[w].max
        <5>1. CASE w = r
          BY <3>3, <3>4, <4>2, <5>1
        <5>2. CASE w # r
          BY <3>4, <4>1, <5>2
        <5> QED BY <5>1, <5>2
      <4> QED BY <4>3 DEF Narrower
    <3>7. Narrower(s0, t)
      BY <1>1, <1>8, <3>5, <3>6, NarrowerTrans
    <3>8. ASSUME NEW a \in [GetVariables(c) -> Word], Meaning(c, a), Holds(a, c, s0)
          PROVE  t.ok /\ Holds(a, c, t)
      <4>1. PICK X : X = [i \in 1 .. n |-> a[args[i]]]
        OBVIOUS
      <4>2. Holds(a, c, s) /\ a[r] = k
        BY <1>21, <1>25, <2>1, <3>8, <4>1
      <4>3. \A v \in GetVariables(c) : v \in Variable
        BY <1>3 DEF ToSet
      <4>4. a[r] \in Interval(t.dom[r])
        BY <3>3, <3>4, <4>2 DEF Interval
      <4> QED BY <1>25, <3>4, <4>2, <4>3, <4>4 DEF Holds
    <3> QED BY <1>0, <2>4, <3>2, <3>5, <3>7, <3>8 DEF Sound, Decides
  <2> QED BY <2>5, <2>6
<1> QED BY <1>23, <1>24, <1>25

-----------------------------------------------------------------------------
(* Sums of lists *)

\* The recursion of a sum, and the partial sums that it goes through
Adding(it, n, f) ==
  [S \in SUBSET (1 .. n) |-> IF S = {} THEN 0 ELSE it[S \ {Max(S)}] + f[Max(S)]]

Adds(h, n, f, total) ==
  /\ h \in [0 .. n -> Nat]
  /\ h[0] = 0 /\ h[n] = total /\ \A i \in 1 .. n : h[i] = h[i - 1] + f[i]

AddsUpTo(n, f, total) == \E h : Adds(h, n, f, total)

LEMMA AddingTakes ==
  ASSUME NEW n \in Nat, NEW f \in [1 .. n -> Nat]
  PROVE  /\ \E it : it = Adding(it, n, f)
         /\ \A it : it = Adding(it, n, f) => AddsUpTo(n, f, it[1 .. n])
PROOF
<1> DEFINE g == [p \in Nat \X (1 .. n) |-> p[1] + f[p[2]]]
<1>1. g \in [Nat \X (1 .. n) -> Nat]
  OBVIOUS
<1>2. ASSUME NEW t \in Nat, NEW i \in 1 .. n PROVE g[<<t, i>>] = t + f[i]
  OBVIOUS
<1>3. ASSUME NEW S \in SUBSET (1 .. n), S # {}
      PROVE  Max(S) \in 1 .. n /\ S \ {Max(S)} \in SUBSET (1 .. n)
  <2>1. S \subseteq 0 .. n
    OBVIOUS
  <2>2. Max(S) \in S
    BY <1>3, <2>1, MaxOf
  <2> QED BY <2>2
<1> HIDE DEF g
<1>4. \E it : it = Adding(it, n, f)
  <2>1. PICK it \in [SUBSET (1 .. n) -> Nat] : Folds(it, n, Nat, 0, g)
    <3>1. n \in Nat /\ 0 \in Nat /\ g \in [Nat \X (1 .. n) -> Nat]
      BY <1>1
    <3> QED BY <3>1, FoldExists, Zenon
  <2>2. ASSUME NEW S \in SUBSET (1 .. n), S # {}
        PROVE  it[S] = it[S \ {Max(S)}] + f[Max(S)]
    <3>1. Max(S) \in 1 .. n /\ it[S \ {Max(S)}] \in Nat
      BY <1>3, <2>2
    <3> QED BY <1>2, <2>1, <2>2, <3>1 DEF Folds
  <2>3. it[{}] = 0
    BY <2>1 DEF Folds
  <2>4. it = Adding(it, n, f)
    BY <2>2, <2>3 DEF Adding
  <2> QED BY <2>4
<1>5. ASSUME NEW it, it = Adding(it, n, f) PROVE AddsUpTo(n, f, it[1 .. n])
  <2>1. it[{}] = 0
    BY <1>5 DEF Adding
  <2>2. ASSUME NEW S \in SUBSET (1 .. n), S # {}, it[S \ {Max(S)}] \in Nat
        PROVE  it[S] = g[<<it[S \ {Max(S)}], Max(S)>>]
    <3>1. it[S] = it[S \ {Max(S)}] + f[Max(S)]
      BY <1>5, <2>2 DEF Adding
    <3>2. Max(S) \in 1 .. n
      BY <1>3, <2>2
    <3> QED BY <1>2, <2>2, <3>1, <3>2
  <2>3. PICK h \in [0 .. n -> Nat] : Leads(h, n, 0, g, it[1 .. n])
    <3>1. Folds(it, n, Nat, 0, g)
      BY <2>1, <2>2 DEF Folds
    <3>2. n \in Nat /\ 0 \in Nat /\ g \in [Nat \X (1 .. n) -> Nat]
      BY <1>1
    <3> QED BY <3>1, <3>2, FoldSteps, Zenon
  <2>4. ASSUME NEW i \in 1 .. n PROVE h[i] = h[i - 1] + f[i]
    <3>1. h[i - 1] \in Nat /\ h[i] = g[<<h[i - 1], i>>]
      BY <2>3 DEF Leads
    <3> QED BY <1>2, <3>1
  <2>5. Adds(h, n, f, it[1 .. n])
    BY <2>3, <2>4 DEF Leads, Adds
  <2> QED BY <2>5 DEF AddsUpTo
<1> QED BY <1>4, <1>5

\* The folds of the sums
LEMMA SumOfList ==
  ASSUME NEW n \in Nat, NEW X \in [1 .. n -> Nat]
  PROVE  AddsUpTo(n, X, FoldLeft(+, 0, X))
PROOF
<1> DEFINE on(it) == [S \in SUBSET (1 .. n) |-> IF S = {} THEN 0 ELSE it[S \ {Max(S)}] + X[Max(S)]]
<1>1. \A it : on(it) = Adding(it, n, X)
  BY DEF Adding
<1> HIDE DEF on
<1>2. PICK it : it = (CHOOSE f : f = on(f)) /\ it = on(it)
  <2>1. \E it : it = on(it)
    BY <1>1, AddingTakes
  <2> QED BY <2>1
<1>3. AddsUpTo(n, X, it[1 .. n])
  BY <1>1, <1>2, AddingTakes
<1>4. DOMAIN X = 1 .. n
  OBVIOUS
<1>5. FoldLeft(+, 0, X) = it[1 .. n]
  BY <1>2, <1>4 DEF FoldLeft, MapThenFoldSet, on
<1> QED BY <1>3, <1>5

LowSum(dom, args) == FoldLeft(LAMBDA k, v : k + dom[v].min, 0, args)
HighSum(dom, args) == FoldLeft(LAMBDA k, v : k + dom[v].max, 0, args)

LEMMA SumOfMins ==
  ASSUME NEW n \in Nat, NEW dom, NEW args \in Seq(Variable), n = Len(args), DOMAIN args = 1 .. n,
         NEW X \in [1 .. n -> Nat], \A i \in 1 .. n : X[i] = dom[args[i]].min
  PROVE  AddsUpTo(n, X, LowSum(dom, args))
PROOF
<1> DEFINE on(it) == [S \in SUBSET (1 .. n) |->
                       IF S = {} THEN 0 ELSE it[S \ {Max(S)}] + dom[args[Max(S)]].min]
<1>1. ASSUME NEW it PROVE on(it) = Adding(it, n, X)
  <2>1. ASSUME NEW S \in SUBSET (1 .. n), S # {} PROVE X[Max(S)] = dom[args[Max(S)]].min
    <3>1. S \subseteq 0 .. n
      OBVIOUS
    <3>2. Max(S) \in S
      BY <2>1, <3>1, MaxOf
    <3> QED BY <3>2
  <2> QED BY <2>1 DEF Adding
<1> HIDE DEF on
<1>2. PICK it : it = (CHOOSE f : f = on(f)) /\ it = on(it)
  <2>1. \E it : it = on(it)
    BY <1>1, AddingTakes
  <2> QED BY <2>1
<1>3. AddsUpTo(n, X, it[1 .. n])
  BY <1>1, <1>2, AddingTakes
<1>4. LowSum(dom, args) = it[1 .. n]
  BY <1>2 DEF LowSum, FoldLeft, MapThenFoldSet, on
<1> QED BY <1>3, <1>4

LEMMA SumOfMaxs ==
  ASSUME NEW n \in Nat, NEW dom, NEW args \in Seq(Variable), n = Len(args), DOMAIN args = 1 .. n,
         NEW X \in [1 .. n -> Nat], \A i \in 1 .. n : X[i] = dom[args[i]].max
  PROVE  AddsUpTo(n, X, HighSum(dom, args))
PROOF
<1> DEFINE on(it) == [S \in SUBSET (1 .. n) |->
                       IF S = {} THEN 0 ELSE it[S \ {Max(S)}] + dom[args[Max(S)]].max]
<1>1. ASSUME NEW it PROVE on(it) = Adding(it, n, X)
  <2>1. ASSUME NEW S \in SUBSET (1 .. n), S # {} PROVE X[Max(S)] = dom[args[Max(S)]].max
    <3>1. S \subseteq 0 .. n
      OBVIOUS
    <3>2. Max(S) \in S
      BY <2>1, <3>1, MaxOf
    <3> QED BY <3>2
  <2> QED BY <2>1 DEF Adding
<1> HIDE DEF on
<1>2. PICK it : it = (CHOOSE f : f = on(f)) /\ it = on(it)
  <2>1. \E it : it = on(it)
    BY <1>1, AddingTakes
  <2> QED BY <2>1
<1>3. AddsUpTo(n, X, it[1 .. n])
  BY <1>1, <1>2, AddingTakes
<1>4. HighSum(dom, args) = it[1 .. n]
  BY <1>2 DEF HighSum, FoldLeft, MapThenFoldSet, on
<1> QED BY <1>3, <1>4

\* Sums of lists that lie one above the other differ by what any two of their
\* terms do, at least.
LEMMA SumsCompare ==
  ASSUME NEW n \in Nat, NEW f \in [1 .. n -> Nat], NEW g \in [1 .. n -> Nat],
         \A i \in 1 .. n : f[i] <= g[i],
         NEW F, NEW G, AddsUpTo(n, f, F), AddsUpTo(n, g, G)
  PROVE  /\ F \in Nat /\ G \in Nat /\ F <= G
         /\ \A j \in 1 .. n : f[j] <= F /\ g[j] - f[j] <= G - F
PROOF
<1>1. PICK h : Adds(h, n, f, F)
  BY DEF AddsUpTo
<1>2. PICK k : Adds(k, n, g, G)
  BY DEF AddsUpTo
<1>3. /\ h \in [0 .. n -> Nat] /\ h[0] = 0 /\ h[n] = F /\ \A i \in 1 .. n : h[i] = h[i - 1] + f[i]
      /\ k \in [0 .. n -> Nat] /\ k[0] = 0 /\ k[n] = G /\ \A i \in 1 .. n : k[i] = k[i - 1] + g[i]
  BY <1>1, <1>2 DEF Adds
<1> DEFINE P(i) == /\ h[i] <= k[i]
                   /\ \A j \in 1 .. i : f[j] <= h[i] /\ g[j] - f[j] <= k[i] - h[i]
           T == {i \in 0 .. n : P(i)}
<1>4. 0 \in T
  <2>1. 1 .. 0 = {}
    OBVIOUS
  <2> QED BY <1>3, <2>1
<1>5. ASSUME NEW i \in 1 .. n, i - 1 \in T PROVE i \in T
  <2>1. PICK m \in 0 .. n : m = i - 1 /\ 1 .. i = (1 .. m) \cup {i}
    OBVIOUS
  <2>2. PICK x, y \in Nat : x = h[m] /\ y = k[m]
    BY <1>3
  <2>3. PICK p, q \in Nat : p = f[i] /\ q = g[i] /\ p <= q
    OBVIOUS
  <2>4. h[i] = x + p /\ k[i] = y + q
    BY <1>3, <2>1, <2>2, <2>3
  <2>5. /\ x <= y
        /\ \A j \in 1 .. m : f[j] <= x /\ g[j] - f[j] <= y - x
    BY <1>5, <2>1, <2>2
  <2>6. h[i] <= k[i]
    BY <2>3, <2>4, <2>5
  <2>7. ASSUME NEW j \in 1 .. i PROVE f[j] <= h[i] /\ g[j] - f[j] <= k[i] - h[i]
    <3>1. CASE j = i
      BY <2>3, <2>4, <2>5, <3>1, SMTT(40), ZenonT(40)
    <3>2. CASE j # i
      <4>1. j \in 1 .. m /\ j \in 1 .. n
        BY <2>1, <3>2
      <4>2. PICK c, d \in Nat : c = f[j] /\ d = g[j]
        BY <4>1
      <4>3. c <= x /\ d - c <= y - x
        BY <2>5, <4>1, <4>2
      <4>4. c <= x + p /\ d - c <= (y + q) - (x + p)
        BY <2>3, <4>3
      <4> QED BY <2>4, <4>2, <4>4
    <3> QED BY <3>1, <3>2
  <2> QED BY <2>6, <2>7
<1>6. n \in T
  <2>1. 0 .. n \subseteq T
    <3> HIDE DEF T
    <3> QED BY <1>4, <1>5, UpTo
  <2> QED BY <2>1
<1> QED BY <1>3, <1>6

\* A sum is at most its number of terms times what bounds them.
LEMMA SumIsBounded ==
  ASSUME NEW n \in Nat, NEW m \in Nat, NEW f \in [1 .. n -> Nat], \A i \in 1 .. n : f[i] <= m,
         NEW F, AddsUpTo(n, f, F)
  PROVE  F <= n * m
PROOF
<1>1. PICK h : Adds(h, n, f, F)
  BY DEF AddsUpTo
<1>2. h \in [0 .. n -> Nat] /\ h[0] = 0 /\ h[n] = F /\ \A i \in 1 .. n : h[i] = h[i - 1] + f[i]
  BY <1>1 DEF Adds
<1> DEFINE T == {i \in 0 .. n : h[i] <= i * m}
<1>3. 0 \in T
  BY <1>2
<1>4. ASSUME NEW i \in 1 .. n, i - 1 \in T PROVE i \in T
  <2>1. h[i - 1] \in Nat /\ h[i - 1] <= (i - 1) * m
    BY <1>2, <1>4
  <2>2. h[i] = h[i - 1] + f[i] /\ f[i] \in Nat /\ f[i] <= m
    BY <1>2
  <2>3. (i - 1) * m + m = i * m /\ (i - 1) * m \in Nat /\ i * m \in Nat
    BY Z3
  <2>4. h[i] <= i * m
    BY <2>1, <2>2, <2>3
  <2> QED BY <2>4
<1>5. n \in T
  <2>1. 0 .. n \subseteq T
    <3> HIDE DEF T
    <3> QED BY <1>3, <1>4, UpTo
  <2> QED BY <2>1
<1> QED BY <1>2, <1>5

-----------------------------------------------------------------------------
(* Sum *)

SumFold(s, args, result, least, most) ==
  ForEach(LAMBDA t, v : SumOperand(t, v, result, least, most), s, args)

StepSum(t, v, result, least, most) ==
  IF t.ok THEN SumOperand(t, v, result, least, most) ELSE t

LeadsSum(h, n, s, args, result, least, most) ==
  /\ h[0] = s /\ h[n] = SumFold(s, args, result, least, most)
  /\ \A i \in 1 .. n : h[i] = StepSum(h[i - 1], args[i], result, least, most)

LEMMA SumIs ==
  ASSUME NEW c, NEW dom
  PROVE  PropagateSum(c, dom) =
           LET result == Head(c.vars)
               args == Tail(c.vars)
               minSum == LowSum(dom, args)
               maxSum == HighSum(dom, args)
               s == LowerMax(RaiseMin(Call(dom), result, minSum), result, maxSum)
           IN  IF minSum > dom[result].max \/ maxSum < dom[result].min THEN Fail(Call(dom))
               ELSE SumFold(s, args, result, minSum, maxSum)
PROOF BY DEF PropagateSum, SumFold, LowSum, HighSum

\* Tightening keeps the type, of any state.
LEMMA LowerMaxTyped ==
  ASSUME NEW t \in PropState, NEW v \in Variable, NEW n \in Int, n >= t.dom[v].min
  PROVE  LowerMax(t, v, n) \in PropState
PROOF
<1>1. CASE n < t.dom[v].max
  <2>1. /\ t.dom[v].min \in Nat /\ t.dom[v].max \in Nat
        /\ t.dom[v].min \in Word /\ t.dom[v].max \in Word
    BY DomainTyped
  <2>2. PICK w \in Nat : Word = 0 .. w - 1
    BY Words
  <2>3. n \in Word
    BY <1>1, <2>1, <2>2
  <2>4. PICK d \in Domain : d = [min |-> t.dom[v].min, max |-> n]
    <3>1. [min |-> t.dom[v].min, max |-> n] \in Domain
      BY <2>1, <2>3 DEF Domain
    <3> QED BY <3>1
  <2>5. LowerMax(t, v, n) = SetDomain(t, v, d, n)
    BY <1>1, <2>4 DEF LowerMax, SetMax
  <2> QED BY <2>4, <2>5, SetTyped
<1>2. CASE ~ (n < t.dom[v].max)
  BY <1>2 DEF LowerMax
<1> QED BY <1>1, <1>2

LEMMA RaiseMinTyped ==
  ASSUME NEW t \in PropState, NEW v \in Variable, NEW n \in Int, n <= t.dom[v].max
  PROVE  RaiseMin(t, v, n) \in PropState
PROOF
<1>1. CASE n > t.dom[v].min
  <2>1. /\ t.dom[v].min \in Nat /\ t.dom[v].max \in Nat
        /\ t.dom[v].min \in Word /\ t.dom[v].max \in Word
    BY DomainTyped
  <2>2. PICK w \in Nat : Word = 0 .. w - 1
    BY Words
  <2>3. n \in Word
    BY <1>1, <2>1, <2>2
  <2>4. PICK d \in Domain : d = [min |-> n, max |-> t.dom[v].max]
    <3>1. [min |-> n, max |-> t.dom[v].max] \in Domain
      BY <2>1, <2>3 DEF Domain
    <3> QED BY <3>1
  <2>5. RaiseMin(t, v, n) = SetDomain(t, v, d, n)
    BY <1>1, <2>4 DEF RaiseMin, SetMin
  <2> QED BY <2>4, <2>5, SetTyped
<1>2. CASE ~ (n > t.dom[v].min)
  BY <1>2 DEF RaiseMin
<1> QED BY <1>1, <1>2

LEMMA BigTyped ==
  ASSUME NEW n \in Int
  PROVE  AsBig(n) \in Nat
PROOF
<1>1. PICK b \in Nat : b = 2^(2 * Bits) /\ b >= 1
  <2>1. PICK w \in Nat : w = 2^Bits /\ w >= 2
    BY Words
  <2>2. w * w \in Nat /\ w * w >= 1
    BY <2>1, Z3
  <2> QED BY <2>1, <2>2, BitsAssumption
<1>2. n % b \in Nat
  BY <1>1, Z3
<1> QED BY <1>1, <1>2 DEF AsBig

LEMMA StepSumTyped ==
  ASSUME NEW t \in PropState, NEW v \in Variable, NEW r \in Variable,
         NEW least \in Int, NEW most \in Int
  PROVE  StepSum(t, v, r, least, most) \in PropState
PROOF
<1>1. ASSUME NEW u \in PropState PROVE Fail(u) \in PropState
  BY DEF Fail, PropState
<1>2. ASSUME NEW u \in PropState, NEW w \in Variable
      PROVE  u.dom[w].min \in Nat /\ u.dom[w].max \in Nat
  BY DomainTyped
<1>3. PICK newMax \in Int : newMax = t.dom[r].max - AsBig(least - t.dom[v].min)
  <2>1. least - t.dom[v].min \in Int
    BY <1>2
  <2>2. AsBig(least - t.dom[v].min) \in Nat
    BY <2>1, BigTyped
  <2> QED BY <1>2, <2>2
<1>4. PICK low : low = LowerMax(t, v, newMax)
  OBVIOUS
<1>5. PICK newMin : newMin = low.dom[r].min - AsBig(most - t.dom[v].max)
  OBVIOUS
<1>6. SumOperand(t, v, r, least, most) =
        IF newMax < t.dom[v].min THEN Fail(t)
        ELSE IF newMin > low.dom[v].max THEN Fail(low) ELSE RaiseMin(low, v, newMin)
  BY <1>3, <1>4, <1>5 DEF SumOperand
<1>7. ASSUME ~ (newMax < t.dom[v].min)
      PROVE  /\ low \in PropState
             /\ ~ (newMin > low.dom[v].max) => RaiseMin(low, v, newMin) \in PropState
  <2>1. newMax >= t.dom[v].min
    BY <1>2, <1>7
  <2>2. low \in PropState
    BY <1>4, <2>1, LowerMaxTyped
  <2>3. newMin \in Int
    <3>1. most - t.dom[v].max \in Int
      BY <1>2
    <3>2. AsBig(most - t.dom[v].max) \in Nat
      BY <3>1, BigTyped
    <3>3. low.dom[r].min \in Nat
      BY <1>2, <2>2
    <3> QED BY <1>5, <3>2, <3>3
  <2>4. ASSUME ~ (newMin > low.dom[v].max) PROVE RaiseMin(low, v, newMin) \in PropState
    <3>1. newMin <= low.dom[v].max
      BY <1>2, <2>2, <2>3, <2>4
    <3> QED BY <2>2, <2>3, <3>1, RaiseMinTyped
  <2> QED BY <2>2, <2>4
<1>8. SumOperand(t, v, r, least, most) \in PropState
  BY <1>1, <1>6, <1>7
<1> QED BY <1>8 DEF StepSum

LEMMA SumSteps ==
  ASSUME NEW s \in PropState, NEW args \in Seq(Variable), NEW r \in Variable,
         NEW least \in Int, NEW most \in Int, NEW n \in Nat, n = Len(args)
  PROVE  \E h \in [0 .. n -> PropState] : LeadsSum(h, n, s, args, r, least, most)
PROOF
<1> DEFINE g == [p \in PropState \X (1 .. n) |-> StepSum(p[1], args[p[2]], r, least, most)]
           on(it) == [S \in SUBSET (1 .. n) |->
                       IF S = {} THEN s
                       ELSE StepSum(it[S \ {Max(S)}], args[Max(S)], r, least, most)]
<1>1. DOMAIN args = 1 .. n /\ \A i \in 1 .. n : args[i] \in Variable
  OBVIOUS
<1>2. g \in [PropState \X (1 .. n) -> PropState]
  BY <1>1, StepSumTyped
<1>3. ASSUME NEW t \in PropState, NEW i \in 1 .. n
      PROVE  g[<<t, i>>] = StepSum(t, args[i], r, least, most)
  OBVIOUS
<1>4. ASSUME NEW S \in SUBSET (1 .. n), S # {}
      PROVE  Max(S) \in 1 .. n /\ S \ {Max(S)} \in SUBSET (1 .. n)
  <2>1. S \subseteq 0 .. n
    OBVIOUS
  <2>2. Max(S) \in S
    BY <1>4, <2>1, MaxOf
  <2> QED BY <2>2
<1> HIDE DEF g
<1>5. \E it : it = on(it)
  <2>1. PICK it \in [SUBSET (1 .. n) -> PropState] : Folds(it, n, PropState, s, g)
    <3>1. n \in Nat /\ s \in PropState /\ g \in [PropState \X (1 .. n) -> PropState]
      BY <1>2
    <3> QED BY <3>1, FoldExists, Zenon
  <2>2. ASSUME NEW S \in SUBSET (1 .. n), S # {}
        PROVE  it[S] = StepSum(it[S \ {Max(S)}], args[Max(S)], r, least, most)
    <3>1. Max(S) \in 1 .. n /\ it[S \ {Max(S)}] \in PropState
      BY <1>4, <2>2
    <3> QED BY <1>3, <2>1, <2>2, <3>1 DEF Folds
  <2>3. it[{}] = s
    BY <2>1 DEF Folds
  <2>4. it = on(it)
    BY <2>2, <2>3
  <2> QED BY <2>4
<1>6. PICK it : it = (CHOOSE f : f = on(f)) /\ it = on(it)
  <2> HIDE DEF on
  <2> QED BY <1>5
<1>7. SumFold(s, args, r, least, most) = it[1 .. n]
  BY <1>1, <1>6 DEF SumFold, ForEach, FoldLeft, MapThenFoldSet, StepSum
<1>8. it[{}] = s
  BY <1>6
<1>9. ASSUME NEW S \in SUBSET (1 .. n), S # {}, it[S \ {Max(S)}] \in PropState
      PROVE  it[S] = g[<<it[S \ {Max(S)}], Max(S)>>]
  <2>1. it[S] = StepSum(it[S \ {Max(S)}], args[Max(S)], r, least, most)
    BY <1>6, <1>9
  <2>2. Max(S) \in 1 .. n
    BY <1>4, <1>9
  <2> QED BY <1>3, <1>9, <2>1, <2>2
<1>10. PICK h \in [0 .. n -> PropState] : Leads(h, n, s, g, it[1 .. n])
  <2>1. Folds(it, n, PropState, s, g)
    BY <1>8, <1>9 DEF Folds
  <2>2. n \in Nat /\ s \in PropState /\ g \in [PropState \X (1 .. n) -> PropState]
    BY <1>2
  <2> QED BY <2>1, <2>2, FoldSteps, Zenon
<1>11. \A i \in 1 .. n : h[i] = StepSum(h[i - 1], args[i], r, least, most)
  <2>1. \A i \in 1 .. n : h[i - 1] \in PropState
    OBVIOUS
  <2> QED BY <1>3, <1>10, <2>1 DEF Leads
<1> QED BY <1>7, <1>10, <1>11 DEF Leads, LeadsSum

\* One operand.  The sums count its domain as the call found it, and it has not
\* changed since.
SumStepped(t, u, v, r, least, most) ==
  /\ Fine(u) /\ Narrower(t, u)
  /\ \A w \in Variable : w # v => u.dom[w] = t.dom[w]
  /\ \A x, y \in Nat :
       /\ t.dom[v].min <= x /\ x <= t.dom[v].max
       /\ t.dom[r].min <= y /\ y <= t.dom[r].max
       /\ x - t.dom[v].min <= y - least /\ t.dom[v].max - x <= most - y
       => u.ok = t.ok /\ u.dom[v].min <= x /\ x <= u.dom[v].max

LEMMA SumOperandIs ==
  ASSUME NEW t, Fine(t), NEW v \in Variable, NEW r \in Variable, v # r,
         NEW least \in Nat, NEW most \in Nat,
         least < 2^Bits * 2^Bits, most < 2^Bits * 2^Bits,
         t.dom[v].min <= least, t.dom[v].max <= most
  PROVE  SumStepped(t, SumOperand(t, v, r, least, most), v, r, least, most)
PROOF
<1>1. PICK L, H, lo, hi \in Nat :
        L = t.dom[v].min /\ H = t.dom[v].max /\ lo = t.dom[r].min /\ hi = t.dom[r].max
  BY DomainTyped DEF Fine
<1>2. L <= H /\ lo <= hi /\ L <= least /\ H <= most
  BY <1>1 DEF Fine
<1>3. AsBig(least - t.dom[v].min) = least - L /\ AsBig(most - t.dom[v].max) = most - H
  <2>1. PICK b \in Nat : b = 2^Bits * 2^Bits /\ \A n \in Nat : n < b => AsBig(n) = n
    <3>1. PICK w \in Nat : w = 2^Bits
      BY Words
    <3>2. w * w \in Nat
      BY <3>1
    <3>3. PICK b \in Nat : b = 2^Bits * 2^Bits
      BY <3>1, <3>2
    <3> QED BY <3>3, Words
  <2>2. least < b /\ most < b
    BY <2>1
  <2>3. least - L \in Nat /\ least - L < b /\ most - H \in Nat /\ most - H < b
    BY <1>2, <2>2
  <2> QED BY <1>1, <2>1, <2>3
<1>4. PICK newMax \in Int : newMax = hi - (least - L)
  OBVIOUS
<1>5. PICK low : low = LowerMax(t, v, newMax)
  OBVIOUS
<1>6. PICK u : u = SumOperand(t, v, r, least, most)
  OBVIOUS
<1>7. u = IF newMax < t.dom[v].min THEN Fail(t)
          ELSE IF low.dom[r].min - (most - H) > low.dom[v].max THEN Fail(low)
          ELSE RaiseMin(low, v, low.dom[r].min - (most - H))
  BY <1>1, <1>3, <1>4, <1>5, <1>6 DEF SumOperand
<1>8. CASE newMax < L
  <2>1. u = Fail(t)
    BY <1>1, <1>7, <1>8
  <2>2. Fine(u) /\ u.dom = t.dom /\ Narrower(t, u)
    BY <2>1, FailIs
  <2>3. ASSUME NEW x \in Nat, NEW y \in Nat, L <= x, y <= hi, x - L <= y - least PROVE FALSE
    BY <1>4, <1>8, <2>3
  <2> QED BY <1>1, <1>6, <2>2, <2>3 DEF SumStepped
<1>9. CASE ~ (newMax < L)
  <2>1. /\ Fine(low) /\ low.ok = t.ok /\ Narrower(t, low)
        /\ low.dom[v].min = L
        /\ low.dom[v].max = IF newMax < H THEN newMax ELSE H
        /\ \A w \in Variable : w # v => low.dom[w] = t.dom[w]
    <3>1. newMax >= t.dom[v].min
      BY <1>1, <1>9
    <3> QED BY <1>1, <1>5, <3>1, LowerMaxIs
  <2>2. PICK newMin, m \in Int : newMin = lo - (most - H) /\ m = low.dom[v].max
    <3>1. low.dom[v].max \in Nat
      BY <2>1, DomainTyped DEF Fine
    <3> QED BY <3>1
  <2>3. low.dom[r].min = lo
    BY <1>1, <2>1
  <2>4. u = IF newMin > m THEN Fail(low) ELSE RaiseMin(low, v, newMin)
    BY <1>1, <1>7, <1>9, <2>2, <2>3
  <2>5. ASSUME NEW x \in Nat, NEW y \in Nat, L <= x, x <= H, lo <= y, y <= hi,
               x - L <= y - least, H - x <= most - y
        PROVE  newMin <= x /\ x <= m
    BY <1>4, <2>1, <2>2, <2>5
  <2>6. CASE newMin > m
    <3>1. u = Fail(low)
      BY <2>4, <2>6
    <3>2. Fine(u) /\ u.dom = low.dom /\ Narrower(low, u)
      BY <2>1, <3>1, FailIs
    <3>3. Narrower(t, u)
      BY <2>1, <3>2, NarrowerTrans
    <3>4. \A w \in Variable : w # v => u.dom[w] = t.dom[w]
      BY <2>1, <3>2
    <3>5. ASSUME NEW x \in Nat, NEW y \in Nat, L <= x, x <= H, lo <= y, y <= hi,
                 x - L <= y - least, H - x <= most - y
          PROVE  FALSE
      <4>1. newMin <= x /\ x <= m
        BY <2>5, <3>5
      <4> QED BY <2>2, <2>6, <4>1
    <3> QED BY <1>1, <1>6, <3>2, <3>3, <3>4, <3>5 DEF SumStepped
  <2>7. CASE ~ (newMin > m)
    <3>1. /\ Fine(u) /\ u.ok = low.ok /\ Narrower(low, u)
          /\ u.dom[v].max = m
          /\ u.dom[v].min = IF newMin > L THEN newMin ELSE L
          /\ \A w \in Variable : w # v => u.dom[w] = low.dom[w]
      <4>1. newMin <= low.dom[v].max /\ u = RaiseMin(low, v, newMin)
        BY <2>2, <2>4, <2>7
      <4> QED BY <2>1, <2>2, <4>1, RaiseMinIs
    <3>2. Narrower(t, u)
      BY <2>1, <3>1, NarrowerTrans
    <3>3. \A w \in Variable : w # v => u.dom[w] = t.dom[w]
      BY <2>1, <3>1
    <3>4. ASSUME NEW x \in Nat, NEW y \in Nat, L <= x, x <= H, lo <= y, y <= hi,
                 x - L <= y - least, H - x <= most - y
          PROVE  u.ok = t.ok /\ u.dom[v].min <= x /\ x <= u.dom[v].max
      BY <2>1, <2>2, <2>5, <3>1, <3>4
    <3> QED BY <1>1, <1>6, <3>1, <3>2, <3>3, <3>4 DEF SumStepped
  <2> QED BY <2>6, <2>7
<1> QED BY <1>8, <1>9

LEMMA SumSound ==
  ASSUME NEW c, c.kind = "Sum", c.vars \in Seq(Variable), Len(c.vars) \in 1 .. 2^Bits,
         IsInjective(c.vars), NEW dom, Fine(Call(dom))
  PROVE  Sound(c, dom, PropagateSum(c, dom))
PROOF
<1>0. PICK s0 : s0 = Call(dom)
  OBVIOUS
<1>1. s0.ok /\ s0.dom = dom /\ Fine(s0) /\ s0 \in PropState
  BY <1>0 DEF Call, Fine
<1>2. PICK n \in Nat, r \in Variable, args \in Seq(Variable) : Takes(c, n, r, args)
  <2>1. c.kind \in HasResult /\ Len(c.vars) >= 1
    BY Words DEF HasResult
  <2> QED BY <2>1, WithResult
<1>3. /\ r = Head(c.vars) /\ args = Tail(c.vars) /\ n = Len(args) /\ DOMAIN args = 1 .. n
      /\ GetVariables(c) = {r} \cup ToSet(args) /\ r \notin ToSet(args)
      /\ \A i \in 1 .. n : args[i] \in Variable /\ args[i] \in ToSet(args)
      /\ \A i, j \in 1 .. n : args[i] = args[j] => i = j
      /\ n = Len(c.vars) - 1
  BY <1>2 DEF Takes
<1>4. PICK lo, hi \in Nat : lo = s0.dom[r].min /\ hi = s0.dom[r].max /\ lo <= hi
  BY <1>1, DomainTyped DEF Fine
\* The bounds of the operands, at the call
<1>5. PICK L, H : /\ L = [i \in 1 .. n |-> s0.dom[args[i]].min]
                  /\ H = [i \in 1 .. n |-> s0.dom[args[i]].max]
  OBVIOUS
<1>6. /\ L \in [1 .. n -> Nat] /\ H \in [1 .. n -> Nat]
      /\ \A i \in 1 .. n : /\ L[i] = s0.dom[args[i]].min /\ H[i] = s0.dom[args[i]].max
                           /\ L[i] <= H[i] /\ L[i] \in Word /\ H[i] \in Word
  <2>1. ASSUME NEW i \in 1 .. n
        PROVE  /\ s0.dom[args[i]].min \in Nat /\ s0.dom[args[i]].max \in Nat
               /\ s0.dom[args[i]].min \in Word /\ s0.dom[args[i]].max \in Word
               /\ s0.dom[args[i]].min <= s0.dom[args[i]].max
    <3>1. PICK v \in Variable : v = args[i]
      BY <1>3
    <3> QED BY <1>1, <3>1, DomainTyped DEF Fine
  <2> QED BY <1>5, <2>1
<1>7. PICK least, most : least = LowSum(dom, args) /\ most = HighSum(dom, args)
  OBVIOUS
<1>8. AddsUpTo(n, L, least) /\ AddsUpTo(n, H, most)
  <2>1. \A i \in 1 .. n : L[i] = dom[args[i]].min /\ H[i] = dom[args[i]].max
    BY <1>1, <1>6
  <2>2. AddsUpTo(n, L, LowSum(dom, args))
    BY <1>3, <1>6, <2>1, SumOfMins
  <2>3. AddsUpTo(n, H, HighSum(dom, args))
    BY <1>3, <1>6, <2>1, SumOfMaxs
  <2> QED BY <1>7, <2>2, <2>3
<1>9. /\ least \in Nat /\ most \in Nat /\ least <= most
      /\ \A i \in 1 .. n : L[i] <= least /\ H[i] <= most
      /\ (\A i \in 1 .. n : L[i] = H[i]) => least = most
  <2>1. L \in [1 .. n -> Nat] /\ H \in [1 .. n -> Nat] /\ \A i \in 1 .. n : L[i] <= H[i] /\ H[i] <= H[i]
    BY <1>6
  <2>2. /\ least \in Nat /\ most \in Nat /\ least <= most
        /\ \A i \in 1 .. n : L[i] <= least
    BY <1>8, <2>1, SumsCompare
  <2>4. ASSUME \A i \in 1 .. n : L[i] = H[i] PROVE least = most
    <3>1. \A i \in 1 .. n : H[i] <= L[i]
      BY <2>1, <2>4
    <3>2. most <= least
      BY <1>8, <2>1, <3>1, SumsCompare
    <3> QED BY <2>2, <3>2
  <2>3. \A i \in 1 .. n : H[i] <= most
    BY <1>8, <2>1, SumsCompare
  <2> QED BY <2>2, <2>3, <2>4
<1>10. least < 2^Bits * 2^Bits /\ most < 2^Bits * 2^Bits
  <2>1. PICK w \in Nat : w = 2^Bits /\ w >= 2 /\ Word = 0 .. w - 1
    BY Words
  <2>2. PICK m \in Nat : m = w - 1
    BY <2>1
  <2>3. n <= m /\ \A i \in 1 .. n : L[i] <= m /\ H[i] <= m
    BY <1>3, <1>6, <2>1, <2>2
  <2>4. least <= n * m /\ most <= n * m
    BY <1>6, <1>8, <2>3, SumIsBounded
  <2>5. n * m <= m * m
    BY <2>2, <2>3, Times
  <2>6. n * m \in Nat /\ m * m \in Nat /\ w * w \in Nat /\ m * m < w * w
    <3>1. w = m + 1
      BY <2>1, <2>2
    <3> QED BY <3>1, SquareBelow, Times
  <2>7. least < w * w /\ most < w * w
    BY <1>9, <2>4, <2>5, <2>6
  <2> QED BY <2>1, <2>7
\* A solution of the domains at the call
<1>11. ASSUME NEW a \in [GetVariables(c) -> Word], Meaning(c, a), Holds(a, c, s0)
       PROVE  \E y \in Nat, X \in [1 .. n -> Nat] :
                /\ y = a[r] /\ lo <= y /\ y <= hi
                /\ \A i \in 1 .. n : X[i] = a[args[i]] /\ L[i] <= X[i] /\ X[i] <= H[i]
                /\ \A i \in 1 .. n : X[i] - L[i] <= y - least /\ H[i] - X[i] <= most - y
                /\ least <= y /\ y <= most
  <2>1. PICK X : X = [i \in 1 .. n |-> a[args[i]]]
    OBVIOUS
  <2>2. a[r] \in Nat /\ \A i \in 1 .. n : a[args[i]] \in Nat
    <3>1. \A v \in GetVariables(c) : a[v] \in Nat
      BY Words
    <3> QED BY <1>3, <3>1
  <2>3. X \in [1 .. n -> Nat] /\ \A i \in 1 .. n : X[i] = a[args[i]]
    BY <2>1, <2>2
  <2>4. a[r] \in Interval(s0.dom[r]) /\ \A i \in 1 .. n : a[args[i]] \in Interval(s0.dom[args[i]])
    BY <1>3, <1>11 DEF Holds
  <2>5. lo <= a[r] /\ a[r] <= hi /\ \A i \in 1 .. n : L[i] <= X[i] /\ X[i] <= H[i]
    <3>1. a[r] \in lo .. hi
      BY <1>4, <2>4 DEF Interval
    <3>2. \A i \in 1 .. n : X[i] \in L[i] .. H[i]
      BY <1>6, <2>3, <2>4 DEF Interval
    <3> QED BY <1>4, <1>6, <3>1, <3>2, SMTT(40), ZenonT(40)
  <2>6. a[r] = FoldLeft(+, 0, X)
    <3>1. a[r] \in Results(c, X)
      BY <1>2, <1>11, <2>1 DEF Takes
    <3>2. Results(c, X) = {FoldLeft(+, 0, X)}
      BY DEF Results
    <3> QED BY <3>1, <3>2
  <2>7. AddsUpTo(n, X, a[r])
    BY <2>3, <2>6, SumOfList
  <2>8. least <= a[r] /\ \A i \in 1 .. n : X[i] - L[i] <= a[r] - least
    BY <1>6, <1>8, <2>3, <2>5, <2>7, SumsCompare
  <2>9. a[r] <= most /\ \A i \in 1 .. n : H[i] - X[i] <= most - a[r]
    BY <1>6, <1>8, <2>3, <2>5, <2>7, SumsCompare
  <2> QED BY <2>2, <2>3, <2>5, <2>8, <2>9
<1>12. PropagateSum(c, dom) =
         IF least > hi \/ most < lo THEN Fail(s0)
         ELSE SumFold(LowerMax(RaiseMin(s0, r, least), r, most), args, r, least, most)
  BY <1>0, <1>1, <1>3, <1>4, <1>7, SumIs
<1>13. CASE least > hi \/ most < lo
  <2>1. PropagateSum(c, dom) = Fail(s0)
    BY <1>12, <1>13
  <2>2. Fine(Fail(s0)) /\ ~ Fail(s0).ok /\ Narrower(s0, Fail(s0))
    BY <1>1, FailIs
  <2>3. ASSUME NEW a \in [GetVariables(c) -> Word], Meaning(c, a), Holds(a, c, s0) PROVE FALSE
    <3>1. \E y \in Nat : lo <= y /\ y <= hi /\ least <= y /\ y <= most
      BY <1>11, <2>3
    <3> QED BY <1>4, <1>9, <1>13, <3>1
  <2> QED BY <1>0, <2>1, <2>2, <2>3 DEF Sound, Decides
<1>14. CASE ~ (least > hi \/ most < lo)
  <2>1. PICK s1 : s1 = RaiseMin(s0, r, least)
    OBVIOUS
  <2>2. /\ Fine(s1) /\ s1.ok = s0.ok /\ Narrower(s0, s1)
        /\ s1.dom[r].max = hi
        /\ s1.dom[r].min = IF least > lo THEN least ELSE lo
        /\ \A w \in Variable : w # r => s1.dom[w] = s0.dom[w]
    <3>1. least \in Int /\ least <= s0.dom[r].max
      BY <1>4, <1>9, <1>14
    <3> QED BY <1>1, <1>4, <2>1, <3>1, RaiseMinIs, ZenonT(40)
  <2>3. PICK s : s = LowerMax(s1, r, most)
    OBVIOUS
  <2>4. /\ Fine(s) /\ s.ok = s1.ok /\ Narrower(s1, s)
        /\ s.dom[r].min = s1.dom[r].min
        /\ s.dom[r].max = IF most < hi THEN most ELSE hi
        /\ \A w \in Variable : w # r => s.dom[w] = s1.dom[w]
    <3>1. most \in Int /\ most >= s1.dom[r].min
      BY <1>4, <1>9, <1>14, <2>2
    <3> QED BY <2>2, <2>3, <3>1, LowerMaxIs
  <2>5. PICK t : t = SumFold(s, args, r, least, most) /\ t = PropagateSum(c, dom)
    BY <1>12, <1>14, <2>1, <2>3
  <2>6. Narrower(s0, s) /\ s \in PropState
    BY <1>1, <2>2, <2>4, NarrowerTrans DEF Fine
  <2>7. s.ok /\ \A w \in Variable : w # r => s.dom[w] = s0.dom[w]
    BY <1>1, <2>2, <2>4
  <2>8. PICK h \in [0 .. n -> PropState] :
          h[0] = s /\ h[n] = t /\ \A i \in 1 .. n : h[i] = StepSum(h[i - 1], args[i], r, least, most)
    <3>1. /\ s \in PropState /\ args \in Seq(Variable) /\ r \in Variable
          /\ least \in Int /\ most \in Int /\ n \in Nat /\ n = Len(args)
      BY <1>3, <1>9, <2>6
    <3>2. PICK h \in [0 .. n -> PropState] : LeadsSum(h, n, s, args, r, least, most)
      BY <3>1, SumSteps, Zenon
    <3> QED BY <2>5, <3>2 DEF LeadsSum
  <2> DEFINE Solution(y, X) ==
               /\ s.dom[r].min <= y /\ y <= s.dom[r].max
               /\ \A i \in 1 .. n : L[i] <= X[i] /\ X[i] <= H[i]
               /\ \A i \in 1 .. n : X[i] - L[i] <= y - least /\ H[i] - X[i] <= most - y
             P(i) == /\ Fine(h[i]) /\ Narrower(s, h[i])
                     /\ h[i].dom[r] = s.dom[r]
                     /\ \A j \in 1 .. n : j > i => h[i].dom[args[j]] = s0.dom[args[j]]
                     /\ \A y \in Nat, X \in [1 .. n -> Nat] : Solution(y, X) =>
                          h[i].ok /\ \A j \in 1 .. n : h[i].dom[args[j]].min <= X[j]
                                                       /\ X[j] <= h[i].dom[args[j]].max
             T == {i \in 0 .. n : P(i)}
  <2>9. P(0)
    <3>1. Narrower(s, s)
      BY <2>4, FailIs
    <3>2. ASSUME NEW j \in 1 .. n PROVE s.dom[args[j]] = s0.dom[args[j]]
      <4>1. PICK v \in Variable : v = args[j] /\ v # r
        BY <1>3
      <4> QED BY <2>7, <4>1
    <3>3. \A j \in 1 .. n : s.dom[args[j]].min = L[j] /\ s.dom[args[j]].max = H[j]
      BY <1>6, <3>2
    <3>4. ASSUME NEW y \in Nat, NEW X \in [1 .. n -> Nat], Solution(y, X), NEW j \in 1 .. n
          PROVE  s.dom[args[j]].min <= X[j] /\ X[j] <= s.dom[args[j]].max
      BY <3>3, <3>4
    <3>0. PICK z : z = 0
      OBVIOUS
    <3>5. PICK k : k = h[z]
      OBVIOUS
    <3>k. k = s
      BY <2>8, <3>0, <3>5
    <3>6. Fine(k) /\ Narrower(s, k) /\ k.dom[r] = s.dom[r]
      BY <2>4, <3>1, <3>k
    <3>7. \A j \in 1 .. n : j > z => k.dom[args[j]] = s0.dom[args[j]]
      BY <3>2, <3>k
    <3>8. \A y \in Nat, X \in [1 .. n -> Nat] : Solution(y, X) =>
            k.ok /\ \A j \in 1 .. n : k.dom[args[j]].min <= X[j] /\ X[j] <= k.dom[args[j]].max
      <4> HIDE DEF Solution
      <4> QED BY <2>7, <3>4, <3>k
    <3>9. P(z)
      <4> HIDE DEF Solution
      <4> QED BY <3>5, <3>6, <3>7, <3>8, Zenon
    <3> HIDE DEF P
    <3> QED BY <3>0, <3>9
  <2>10. ASSUME NEW i \in 1 .. n, P(i - 1) PROVE P(i)
    <3>1. PICK p, u, v : p = h[i - 1] /\ u = h[i] /\ v = args[i]
      OBVIOUS
    <3>2. /\ Fine(p) /\ Narrower(s, p) /\ p.dom[r] = s.dom[r]
          /\ \A j \in 1 .. n : j > i - 1 => p.dom[args[j]] = s0.dom[args[j]]
          /\ \A y \in Nat, X \in [1 .. n -> Nat] : Solution(y, X) =>
               p.ok /\ \A j \in 1 .. n : p.dom[args[j]].min <= X[j] /\ X[j] <= p.dom[args[j]].max
      BY <2>10, <3>1
    <3>3. v \in Variable /\ v # r /\ u = StepSum(p, v, r, least, most)
      BY <1>3, <2>8, <3>1
    <3>4. CASE ~ p.ok
      <4>1. u = p
        BY <3>3, <3>4 DEF StepSum
      <4>2. \A j \in 1 .. n : j > i => j > i - 1
        OBVIOUS
      <4>3. \A j \in 1 .. n : j > i => u.dom[args[j]] = s0.dom[args[j]]
        BY <3>2, <4>1, <4>2
      <4>4. Fine(u) /\ Narrower(s, u) /\ u.dom[r] = s.dom[r]
        BY <3>2, <4>1
      <4>5. \A y \in Nat, X \in [1 .. n -> Nat] : Solution(y, X) =>
              u.ok /\ \A j \in 1 .. n : u.dom[args[j]].min <= X[j] /\ X[j] <= u.dom[args[j]].max
        <5> HIDE DEF Solution
        <5> QED BY <3>2, <4>1, Zenon
      <4> HIDE DEF Solution
      <4> QED BY <3>1, <4>3, <4>4, <4>5, Zenon
    <3>5. CASE p.ok
      <4>1. p.dom[v].min = L[i] /\ p.dom[v].max = H[i]
        <5>1. p.dom[args[i]] = s0.dom[args[i]]
          BY <3>2
        <5> QED BY <1>6, <3>1, <5>1
      <4>2. SumStepped(p, u, v, r, least, most)
        <5>1. p.dom[v].min <= least /\ p.dom[v].max <= most
          BY <1>9, <4>1
        <5>2. u = SumOperand(p, v, r, least, most)
          BY <3>3, <3>5 DEF StepSum
        <5>3. Fine(p) /\ least \in Nat /\ most \in Nat
          BY <1>9, <3>2
        <5> QED BY <1>10, <3>3, <5>1, <5>2, <5>3, SumOperandIs
      <4>3. /\ Fine(u) /\ Narrower(p, u)
            /\ \A w \in Variable : w # v => u.dom[w] = p.dom[w]
        BY <4>2 DEF SumStepped
      <4>4. Narrower(s, u)
        BY <2>4, <3>2, <4>3, NarrowerTrans
      <4>5. u.dom[r] = s.dom[r]
        BY <3>2, <3>3, <4>3
      <4>6. ASSUME NEW j \in 1 .. n, j > i PROVE u.dom[args[j]] = s0.dom[args[j]]
        <5>1. args[j] # v /\ args[j] \in Variable /\ j > i - 1
          BY <1>3, <3>1, <4>6
        <5> QED BY <3>2, <4>3, <5>1
      <4>7. ASSUME NEW y \in Nat, NEW X \in [1 .. n -> Nat], Solution(y, X)
            PROVE  u.ok /\ \A j \in 1 .. n : u.dom[args[j]].min <= X[j] /\ X[j] <= u.dom[args[j]].max
        <5>1. p.ok /\ \A j \in 1 .. n : p.dom[args[j]].min <= X[j] /\ X[j] <= p.dom[args[j]].max
          <6> HIDE DEF Solution
          <6> QED BY <3>2, <4>7
        <5>2. PICK x \in Nat : x = X[i]
          OBVIOUS
        <5>3. u.ok = p.ok /\ u.dom[v].min <= x /\ x <= u.dom[v].max
          <6>1. /\ p.dom[v].min <= x /\ x <= p.dom[v].max
                /\ p.dom[r].min <= y /\ y <= p.dom[r].max
                /\ x - p.dom[v].min <= y - least /\ p.dom[v].max - x <= most - y
            BY <3>2, <4>1, <4>7, <5>2
          <6> QED BY <4>2, <6>1 DEF SumStepped
        <5>4. ASSUME NEW j \in 1 .. n PROVE u.dom[args[j]].min <= X[j] /\ X[j] <= u.dom[args[j]].max
          <6>1. CASE j = i
            BY <3>1, <5>2, <5>3, <6>1
          <6>2. CASE j # i
            <7>1. args[j] # v /\ args[j] \in Variable
              BY <1>3, <3>1, <6>2
            <7>2. u.dom[args[j]] = p.dom[args[j]]
              BY <4>3, <7>1
            <7> QED BY <5>1, <7>2
          <6> QED BY <6>1, <6>2
        <5> QED BY <5>1, <5>3, <5>4
      <4>8. Fine(u) /\ Narrower(s, u) /\ u.dom[r] = s.dom[r]
        BY <4>3, <4>4, <4>5
      <4>9. \A j \in 1 .. n : j > i => u.dom[args[j]] = s0.dom[args[j]]
        BY <4>6
      <4>10. \A y \in Nat, X \in [1 .. n -> Nat] : Solution(y, X) =>
               u.ok /\ \A j \in 1 .. n : u.dom[args[j]].min <= X[j] /\ X[j] <= u.dom[args[j]].max
        <5> HIDE DEF Solution
        <5> QED BY <4>7, Zenon
      <4> HIDE DEF Solution
      <4> QED BY <3>1, <4>8, <4>9, <4>10, Zenon
    <3> QED BY <3>4, <3>5
  <2>11. P(n)
    <3>1. 0 \in T
      <4>1. PICK z : z = 0 /\ P(z)
        <5> HIDE DEF P
        <5> QED BY <2>9
      <4>2. z \in 0 .. n
        BY <4>1
      <4>3. z \in T
        <5> HIDE DEF P
        <5> QED BY <4>1, <4>2
      <4> QED BY <4>1, <4>3
    <3>2. ASSUME NEW i \in 1 .. n, i - 1 \in T PROVE i \in T
      <4>1. P(i - 1)
        BY <3>2
      <4> HIDE DEF P
      <4> QED BY <2>10, <4>1
    <3>3. 0 .. n \subseteq T
      <4> HIDE DEF T
      <4> QED BY <3>1, <3>2, UpTo
    <3> HIDE DEF P
    <3> QED BY <3>3
  <2>12. /\ Fine(t) /\ Narrower(s, t) /\ t.dom[r] = s.dom[r]
         /\ \A y \in Nat, X \in [1 .. n -> Nat] : Solution(y, X) =>
              t.ok /\ \A j \in 1 .. n : t.dom[args[j]].min <= X[j] /\ X[j] <= t.dom[args[j]].max
    <3> HIDE DEF Solution
    <3> QED BY <2>8, <2>11
  <2>13. Narrower(s0, t)
    BY <1>1, <2>4, <2>6, <2>12, NarrowerTrans
  <2>14. ASSUME NEW a \in [GetVariables(c) -> Word], Meaning(c, a), Holds(a, c, s0)
         PROVE  t.ok /\ Holds(a, c, t)
    <3>1. PICK y \in Nat, X \in [1 .. n -> Nat] :
            /\ y = a[r] /\ lo <= y /\ y <= hi
            /\ \A i \in 1 .. n : X[i] = a[args[i]] /\ L[i] <= X[i] /\ X[i] <= H[i]
            /\ \A i \in 1 .. n : X[i] - L[i] <= y - least /\ H[i] - X[i] <= most - y
            /\ least <= y /\ y <= most
      BY <1>11, <2>14
    <3>2. s.dom[r].min <= y /\ y <= s.dom[r].max
      BY <1>4, <1>9, <2>2, <2>4, <3>1
    <3>3. Solution(y, X)
      BY <3>1, <3>2
    <3>4. t.ok /\ \A j \in 1 .. n : t.dom[args[j]].min <= X[j] /\ X[j] <= t.dom[args[j]].max
      <4> HIDE DEF Solution
      <4> QED BY <2>12, <3>3
    <3>5. ASSUME NEW v \in GetVariables(c) PROVE t.dom[v].min <= a[v] /\ a[v] <= t.dom[v].max
      <4>1. CASE v = r
        BY <2>12, <3>1, <3>2, <4>1
      <4>2. CASE v # r
        <5>1. PICK j \in 1 .. n : v = args[j]
          BY <1>3, <4>2 DEF ToSet
        <5> QED BY <3>1, <3>4, <5>1
      <4> QED BY <4>1, <4>2
    <3> QED BY <2>12, <3>4, <3>5, HoldsIf
  <2>15. ASSUME \A v \in GetVariables(c) : dom[v].min = dom[v].max
         PROVE  Meaning(c, [v \in GetVariables(c) |-> dom[v].min])
    <3>1. PICK a : a = [v \in GetVariables(c) |-> dom[v].min]
      OBVIOUS
    <3>2. ASSUME NEW i \in 1 .. n PROVE L[i] = H[i] /\ a[args[i]] = L[i]
      BY <1>1, <1>3, <1>6, <2>15, <3>1, ZenonT(40)
    <3>3. L = [i \in 1 .. n |-> a[args[i]]]
      <4>1. L = [i \in 1 .. n |-> L[i]]
        BY <1>5
      <4> QED BY <3>2, <4>1
    <3>4. PICK total : total = FoldLeft(+, 0, L) /\ AddsUpTo(n, L, total)
      BY <1>6, SumOfList
    <3>5. total = least
      <4>1. L \in [1 .. n -> Nat] /\ \A i \in 1 .. n : L[i] <= L[i]
        BY <1>6
      <4>2. total \in Nat /\ least <= total /\ total <= least
        BY <1>8, <3>4, <4>1, SumsCompare
      <4> QED BY <1>9, <4>2
    <3>6. a[r] = lo /\ lo = hi
      BY <1>1, <1>3, <1>4, <2>15, <3>1
    <3>7. least = most /\ a[r] = least
      BY <1>4, <1>9, <1>14, <3>2, <3>6
    <3>8. Results(c, L) = {total}
      BY <3>4 DEF Results
    <3>9. Meaning(c, a)
      BY <1>2, <3>3, <3>5, <3>7, <3>8 DEF Takes
    <3> QED BY <3>1, <3>9
  <2> QED BY <1>0, <2>5, <2>12, <2>13, <2>14, <2>15 DEF Sound, Decides
<1> QED BY <1>13, <1>14

-----------------------------------------------------------------------------
(* Product: arithmetic *)

LEMMA Quotient ==
  ASSUME NEW n \in Nat, NEW m \in Nat \ {0}
  PROVE  /\ n \div m \in Nat /\ n % m \in Nat /\ n % m < m
         /\ n = (n \div m) * m + (n % m)
         /\ n \div m <= n
PROOF
<1>1. n \div m \in Nat /\ n % m \in Nat /\ n % m < m /\ n = m * (n \div m) + (n % m)
  BY Z3
<1>2. PICK q, e \in Nat : q = n \div m /\ e = n % m
  BY <1>1
<1>3. n = m * q + e /\ m * q = q * m /\ q * m \in Nat
  BY <1>1, <1>2, Times
<1>4. q <= q * m
  <2>1. 1 <= m /\ 1 \in Nat /\ 1 * q = q /\ m * q = q * m
    BY <1>2, <1>3
  <2>2. 1 * q <= m * q
    BY <2>1, Times
  <2> QED BY <2>1, <2>2
<1> QED BY <1>1, <1>2, <1>3, <1>4

\* The largest factor that stays within n, and the least one that reaches it
LEMMA UpperFactor ==
  ASSUME NEW n \in Nat, NEW m \in Nat \ {0}
  PROVE  /\ \A a \in Nat : a * m <= n => a <= n \div m
         /\ \A a \in Nat : n < m * a => n \div m < a
PROOF
<1>1. PICK q, e \in Nat : q = n \div m /\ e = n % m /\ e < m /\ n = q * m + e
  BY Quotient
<1>2. q * m \in Nat /\ (q + 1) * m = q * m + m /\ q + 1 \in Nat
  BY <1>1, Z3
<1>3. ASSUME NEW a \in Nat, a * m <= n PROVE a <= q
  <2>1. a * m < (q + 1) * m
    <3>1. a * m \in Nat
      BY Times
    <3> QED BY <1>1, <1>2, <1>3, <3>1
  <2>2. a < q + 1
    BY <1>2, <2>1, Times
  <2> QED BY <1>1, <2>2
<1>4. ASSUME NEW a \in Nat, n < m * a PROVE q < a
  <2>1. a * m \in Nat /\ a * m = m * a
    BY Times
  <2>2. q * m < a * m
    BY <1>1, <1>2, <1>4, <2>1
  <2> QED BY <1>1, <2>2, Times
<1> QED BY <1>1, <1>3, <1>4

LEMMA LowerFactor ==
  ASSUME NEW n \in Nat, NEW m \in Nat \ {0}
  PROVE  LET f == (n \div m) + (IF n % m # 0 THEN 1 ELSE 0)
         IN  f \in Nat /\ f <= n /\ \A a \in Nat : n <= a * m => f <= a
PROOF
<1>1. PICK q, e \in Nat : q = n \div m /\ e = n % m /\ e < m /\ n = q * m + e /\ q <= n
  BY Quotient
<1>2. q * m \in Nat
  BY <1>1, Times
<1>3. CASE e = 0
  <2>1. ASSUME NEW a \in Nat, n <= a * m PROVE q <= a
    <3>1. q * m <= a * m
      BY <1>1, <1>2, <1>3, <2>1
    <3> QED BY <1>1, <3>1, Times
  <2> QED BY <1>1, <1>3, <2>1
<1>4. CASE e # 0
  <2>1. ASSUME NEW a \in Nat, n <= a * m PROVE q + 1 <= a
    <3>1. a * m \in Nat
      BY Times
    <3>2. q * m < a * m
      BY <1>1, <1>2, <1>4, <2>1, <3>1
    <3>3. q < a
      BY <1>1, <3>2, Times
    <3> QED BY <1>1, <3>3
  <2>2. q + 1 <= n
    <3>1. q <= q * m
      <4>1. 1 * q <= m * q /\ q * m = m * q
        <5>1. 1 \in Nat /\ 1 <= m
          OBVIOUS
        <5> QED BY <1>1, <5>1, Times
      <4> QED BY <1>1, <4>1
    <3> QED BY <1>1, <1>2, <1>4, <3>1
  <2> QED BY <1>1, <1>4, <2>1, <2>2
<1> QED BY <1>3, <1>4

-----------------------------------------------------------------------------
(* Product: one pass of its loop *)

\* A solution, as numbers: x is a, y is b and the product a * b.  The same number
\* for the same variable.
Fits(t, v, n) == t.dom[v].min <= n /\ n <= t.dom[v].max

Solves(t, x, y, r, a, b) ==
  /\ Fits(t, x, a) /\ Fits(t, y, b) /\ Fits(t, r, a * b)
  /\ (x = y => a = b) /\ (x = r => a = a * b) /\ (y = r => b = a * b)

Keeps(t, u, x, y, r) ==
  /\ Fine(u) /\ Narrower(t, u) /\ (u.ok => t.ok)
  /\ \A a, b \in Nat : Solves(t, x, y, r, a, b) => u.ok = t.ok /\ Solves(u, x, y, r, a, b)

LEMMA KeepsTrans ==
  ASSUME NEW t, NEW u, NEW s, NEW x, NEW y, NEW r, Fine(t),
         Keeps(t, u, x, y, r), Keeps(u, s, x, y, r)
  PROVE  Keeps(t, s, x, y, r)
PROOF
<1>1. Narrower(t, s)
  BY NarrowerTrans DEF Keeps
<1>2. Fine(s) /\ (s.ok => t.ok)
  BY DEF Keeps
<1>3. ASSUME NEW a \in Nat, NEW b \in Nat, Solves(t, x, y, r, a, b)
      PROVE  s.ok = t.ok /\ Solves(s, x, y, r, a, b)
  <2>1. u.ok = t.ok /\ Solves(u, x, y, r, a, b)
    BY <1>3 DEF Keeps
  <2>2. s.ok = u.ok /\ Solves(s, x, y, r, a, b)
    BY <2>1 DEF Keeps
  <2> QED BY <2>1, <2>2
<1> QED BY <1>1, <1>2, <1>3 DEF Keeps

LEMMA KeepsSwapped ==
  ASSUME NEW t, NEW u, NEW x, NEW y, NEW r, Keeps(t, u, x, y, r)
  PROVE  Keeps(t, u, y, x, r)
PROOF
<1>1. ASSUME NEW a \in Nat, NEW b \in Nat, Solves(t, y, x, r, a, b)
      PROVE  u.ok = t.ok /\ Solves(u, y, x, r, a, b)
  <2>1. a * b = b * a
    BY Times
  <2>2. Solves(t, x, y, r, b, a)
    BY <1>1, <2>1 DEF Solves
  <2>3. u.ok = t.ok /\ Solves(u, x, y, r, b, a)
    BY <2>2 DEF Keeps
  <2> QED BY <2>1, <2>3 DEF Solves
<1> QED BY <1>1 DEF Keeps

\* A bound that no solution exceeds may be set.
LEMMA LoweredKeeps ==
  ASSUME NEW t, Fine(t), NEW v \in Variable, NEW n \in Int, n >= t.dom[v].min,
         NEW x \in Variable, NEW y \in Variable, NEW r \in Variable,
         \A a, b \in Nat : Solves(t, x, y, r, a, b) =>
           /\ v = x => a <= n
           /\ v = y => b <= n
           /\ v = r => a * b <= n
  PROVE  Keeps(t, LowerMax(t, v, n), x, y, r)
PROOF
<1>1. PICK u : u = LowerMax(t, v, n)
  OBVIOUS
<1>2. /\ Fine(u) /\ u.ok = t.ok /\ Narrower(t, u)
      /\ u.dom[v].min = t.dom[v].min
      /\ u.dom[v].max = IF n < t.dom[v].max THEN n ELSE t.dom[v].max
      /\ \A w \in Variable : w # v => u.dom[w] = t.dom[w]
  BY <1>1, LowerMaxIs
<1>3. ASSUME NEW w \in Variable, NEW k \in Nat, Fits(t, w, k), w = v => k <= n
      PROVE  Fits(u, w, k)
  BY <1>2, <1>3 DEF Fits
<1>4. ASSUME NEW a \in Nat, NEW b \in Nat, Solves(t, x, y, r, a, b)
      PROVE  u.ok = t.ok /\ Solves(u, x, y, r, a, b)
  <2>1. a * b \in Nat
    BY Times
  <2>2. (v = x => a <= n) /\ (v = y => b <= n) /\ (v = r => a * b <= n)
    BY <1>4
  <2> QED BY <1>2, <1>3, <1>4, <2>1, <2>2 DEF Solves
<1> QED BY <1>1, <1>2, <1>4 DEF Keeps

LEMMA RaisedKeeps ==
  ASSUME NEW t, Fine(t), NEW v \in Variable, NEW n \in Int, n <= t.dom[v].max,
         NEW x \in Variable, NEW y \in Variable, NEW r \in Variable,
         \A a, b \in Nat : Solves(t, x, y, r, a, b) =>
           /\ v = x => n <= a
           /\ v = y => n <= b
           /\ v = r => n <= a * b
  PROVE  Keeps(t, RaiseMin(t, v, n), x, y, r)
PROOF
<1>1. PICK u : u = RaiseMin(t, v, n)
  OBVIOUS
<1>2. /\ Fine(u) /\ u.ok = t.ok /\ Narrower(t, u)
      /\ u.dom[v].max = t.dom[v].max
      /\ u.dom[v].min = IF n > t.dom[v].min THEN n ELSE t.dom[v].min
      /\ \A w \in Variable : w # v => u.dom[w] = t.dom[w]
  BY <1>1, RaiseMinIs
<1>3. ASSUME NEW w \in Variable, NEW k \in Nat, Fits(t, w, k), w = v => n <= k
      PROVE  Fits(u, w, k)
  BY <1>2, <1>3 DEF Fits
<1>4. ASSUME NEW a \in Nat, NEW b \in Nat, Solves(t, x, y, r, a, b)
      PROVE  u.ok = t.ok /\ Solves(u, x, y, r, a, b)
  <2>1. a * b \in Nat
    BY Times
  <2>2. (v = x => n <= a) /\ (v = y => n <= b) /\ (v = r => n <= a * b)
    BY <1>4
  <2> QED BY <1>2, <1>3, <1>4, <2>1, <2>2 DEF Solves
<1> QED BY <1>1, <1>2, <1>4 DEF Keeps

\* Setting a bound that no solution exceeds, with the assert of the code
LEMMA ProductUpperKeeps ==
  ASSUME NEW t, Fine(t), NEW x \in Variable, NEW y \in Variable, NEW r \in Variable
  PROVE  Keeps(t, ProductUpper(t, x, y, r), x, y, r)
PROOF
<1>1. PICK X, m, R, L \in Nat : X = t.dom[x].max /\ m = t.dom[y].min /\ R = t.dom[r].max /\ L = t.dom[x].min
  BY DomainTyped DEF Fine
<1>2. PICK u : u = ProductUpper(t, x, y, r)
  OBVIOUS
<1>3. u = IF ~ t.ok \/ m = 0 \/ m * X <= R THEN t
          ELSE IF R \div m < L THEN Fail(Checked(t, R \div m < X))
               ELSE SetMax(Checked(t, R \div m < X), x, R \div m)
  BY <1>1, <1>2 DEF ProductUpper
<1>4. CASE ~ t.ok \/ m = 0 \/ m * X <= R
  <2>1. u = t /\ Narrower(t, t)
    BY <1>3, <1>4, FailIs
  <2> QED BY <1>2, <2>1 DEF Keeps
<1>5. CASE ~ (~ t.ok \/ m = 0 \/ m * X <= R)
  <2>1. m * X \in Nat /\ m \in Nat \ {0} /\ R < m * X
    <3>1. m * X \in Nat
      BY <1>1, Times
    <3> QED BY <1>1, <1>5, <3>1
  <2>2. PICK n \in Nat : n = R \div m /\ n < X /\ \A a \in Nat : a * m <= R => a <= n
    <3>1. R \in Nat /\ m \in Nat \ {0}
      BY <1>1, <2>1
    <3>2. R \div m \in Nat
      BY <3>1, Quotient
    <3>3. \A a \in Nat : a * m <= R => a <= R \div m
      BY <3>1, UpperFactor
    <3>4. \A a \in Nat : R < m * a => R \div m < a
      BY <3>1, UpperFactor
    <3>5. R \div m < X
      BY <1>1, <2>1, <3>4
    <3> QED BY <3>2, <3>3, <3>5
  <2>3. Checked(t, R \div m < X) = t
    <3>1. (n < X) \in BOOLEAN /\ n < X
      BY <2>2
    <3>2. Checked(t, n < X) = t
      BY <3>1, CheckedIs
    <3> QED BY <2>2, <3>2
  <2>4. ASSUME NEW a \in Nat, NEW b \in Nat, Solves(t, x, y, r, a, b) PROVE a <= n /\ L <= a
    <3>1. m <= b /\ a * b <= R /\ L <= a
      BY <1>1, <2>4 DEF Solves, Fits
    <3>2. m * a <= b * a /\ a * m = m * a /\ a * b = b * a /\ a * m \in Nat /\ a * b \in Nat
      BY <1>1, <3>1, Times
    <3>3. a * m <= R
      BY <1>1, <3>1, <3>2
    <3> QED BY <2>2, <3>1, <3>3
  <2>5. CASE n < L
    <3>1. u = Fail(t)
      BY <1>3, <1>5, <2>2, <2>3, <2>5
    <3>2. Fine(u) /\ ~ u.ok /\ Narrower(t, u)
      BY <3>1, FailIs
    <3>3. ASSUME NEW a \in Nat, NEW b \in Nat, Solves(t, x, y, r, a, b) PROVE FALSE
      <4>1. a <= n /\ L <= a
        BY <2>4, <3>3
      <4> QED BY <1>1, <2>2, <2>5, <4>1
    <3> QED BY <1>2, <3>2, <3>3 DEF Keeps
  <2>6. CASE ~ (n < L)
    <3>1. u = SetMax(t, x, n)
      BY <1>3, <1>5, <2>2, <2>3, <2>6
    <3>2. u = LowerMax(t, x, n)
      BY <1>1, <2>2, <3>1 DEF LowerMax
    <3>3. n >= t.dom[x].min /\ n \in Int
      BY <1>1, <2>2, <2>6
    <3>4. ASSUME NEW a \in Nat, NEW b \in Nat, Solves(t, x, y, r, a, b)
          PROVE  (x = x => a <= n) /\ (x = y => b <= n) /\ (x = r => a * b <= n)
      BY <2>4, <3>4 DEF Solves
    <3> QED BY <1>2, <3>2, <3>3, <3>4, LoweredKeeps
  <2> QED BY <2>5, <2>6
<1> QED BY <1>4, <1>5

LEMMA ProductLowerKeeps ==
  ASSUME NEW t, Fine(t), NEW x \in Variable, NEW y \in Variable, NEW r \in Variable
  PROVE  Keeps(t, ProductLower(t, x, y, r), x, y, r)
PROOF
<1>1. PICK low, m, L, X \in Nat : low = t.dom[r].min /\ m = t.dom[y].max /\ L = t.dom[x].min /\ X = t.dom[x].max
  BY DomainTyped DEF Fine
<1>2. PICK u : u = ProductLower(t, x, y, r)
  OBVIOUS
<1>3. PICK q : q = (low \div m) + (IF low % m # 0 THEN 1 ELSE 0)
  OBVIOUS
<1>4. PICK n : n = AsWord(q)
  OBVIOUS
<1>5. u = IF ~ t.ok \/ m = 0 \/ m * L >= low \/ n <= L THEN t
          ELSE IF n > X THEN Fail(t) ELSE SetMin(t, x, n)
  BY <1>1, <1>2, <1>3, <1>4 DEF ProductLower
<1>6. CASE ~ t.ok \/ m = 0 \/ m * L >= low \/ n <= L
  <2>1. u = t /\ Narrower(t, t)
    BY <1>5, <1>6, FailIs
  <2> QED BY <1>2, <2>1 DEF Keeps
<1>7. CASE ~ (~ t.ok \/ m = 0 \/ m * L >= low \/ n <= L)
  <2>1. m \in Nat \ {0}
    BY <1>1, <1>7
  <2>2. q \in Nat /\ q <= low /\ \A a \in Nat : low <= a * m => q <= a
    BY <1>1, <1>3, <2>1, LowerFactor
  <2>3. n = q /\ n \in Nat
    <3>1. low \in Word
      BY <1>1, DomainTyped DEF Fine
    <3>2. PICK w \in Nat : Word = 0 .. w - 1
      BY Words
    <3>3. q \in Word
      BY <2>2, <3>1, <3>2
    <3>4. AsWord(q) = q
      BY <3>3, Words
    <3> QED BY <1>4, <2>2, <3>4
  <2>4. ASSUME NEW a \in Nat, NEW b \in Nat, Solves(t, x, y, r, a, b) PROVE n <= a /\ a <= X
    <3>1. b <= m /\ low <= a * b /\ a <= X
      BY <1>1, <2>4 DEF Solves, Fits
    <3>2. b * a <= m * a /\ a * m = m * a /\ a * b = b * a /\ a * m \in Nat /\ a * b \in Nat
      BY <1>1, <3>1, Times
    <3>3. low <= a * m
      BY <1>1, <3>1, <3>2
    <3> QED BY <2>2, <2>3, <3>1, <3>3
  <2>5. CASE n > X
    <3>1. u = Fail(t)
      BY <1>5, <1>7, <2>5
    <3>2. Fine(u) /\ ~ u.ok /\ Narrower(t, u)
      BY <3>1, FailIs
    <3>3. ASSUME NEW a \in Nat, NEW b \in Nat, Solves(t, x, y, r, a, b) PROVE FALSE
      <4>1. n <= a /\ a <= X
        BY <2>4, <3>3
      <4> QED BY <1>1, <2>3, <2>5, <4>1
    <3> QED BY <1>2, <3>2, <3>3 DEF Keeps
  <2>6. CASE ~ (n > X)
    <3>1. u = SetMin(t, x, n)
      BY <1>5, <1>7, <2>6
    <3>2. n > L
      BY <1>1, <1>7, <2>3
    <3>3. u = RaiseMin(t, x, n)
      BY <1>1, <3>1, <3>2 DEF RaiseMin
    <3>4. n <= t.dom[x].max /\ n \in Int
      BY <1>1, <2>3, <2>6
    <3>5. ASSUME NEW a \in Nat, NEW b \in Nat, Solves(t, x, y, r, a, b)
          PROVE  (x = x => n <= a) /\ (x = y => n <= b) /\ (x = r => n <= a * b)
      BY <2>4, <3>5 DEF Solves
    <3> QED BY <1>2, <3>3, <3>4, <3>5, RaisedKeeps
  <2> QED BY <2>5, <2>6
<1> QED BY <1>6, <1>7

-----------------------------------------------------------------------------
(* Product: its loop ends, from any state.  Every change of a domain takes *)
(* something from the widths of the three.                                 *)

Width(d) == d.max - d.min + 2^Bits

Rank(t, x, y, r) == Width(t.dom[x]) + Width(t.dom[y]) + Width(t.dom[r])

Tightens(t, u, x, y, r) ==
  /\ u \in PropState
  /\ Rank(u, x, y, r) <= Rank(t, x, y, r)
  /\ u.touched = t.touched \/ Rank(u, x, y, r) < Rank(t, x, y, r)

LEMMA RankTyped ==
  ASSUME NEW t \in PropState, NEW x \in Variable, NEW y \in Variable, NEW r \in Variable
  PROVE  /\ Rank(t, x, y, r) \in Nat /\ Rank(t, x, y, r) <= 6 * 2^Bits
         /\ \A v \in {x, y, r} : Width(t.dom[v]) \in Nat
PROOF
<1>1. PICK w \in Nat : w = 2^Bits /\ Word = 0 .. w - 1
  BY Words
<1>2. ASSUME NEW v \in {x, y, r} PROVE Width(t.dom[v]) \in Nat /\ Width(t.dom[v]) <= 2 * w
  <2>1. t.dom[v].min \in 0 .. w - 1 /\ t.dom[v].max \in 0 .. w - 1
    BY <1>1, DomainTyped
  <2> QED BY <1>1, <2>1 DEF Width
<1>3. PICK a, b, c \in Nat : /\ a = Width(t.dom[x]) /\ b = Width(t.dom[y]) /\ c = Width(t.dom[r])
                             /\ a <= 2 * w /\ b <= 2 * w /\ c <= 2 * w
  BY <1>2
<1>4. Rank(t, x, y, r) = a + b + c
  BY <1>3 DEF Rank
<1>5. a + b + c \in Nat /\ a + b + c <= 6 * w
  BY <1>3
<1>6. Rank(t, x, y, r) \in Nat /\ Rank(t, x, y, r) <= 6 * 2^Bits
  BY <1>1, <1>4, <1>5
<1> QED BY <1>2, <1>6

LEMMA TightensTrans ==
  ASSUME NEW x \in Variable, NEW y \in Variable, NEW r \in Variable,
         NEW t \in PropState, NEW u, NEW s, Tightens(t, u, x, y, r), Tightens(u, s, x, y, r)
  PROVE  Tightens(t, s, x, y, r)
PROOF
<1>1. u \in PropState /\ s \in PropState
  BY DEF Tightens
<1>2. PICK a, b, c \in Nat : a = Rank(t, x, y, r) /\ b = Rank(u, x, y, r) /\ c = Rank(s, x, y, r)
  BY <1>1, RankTyped
<1> QED BY <1>1, <1>2 DEF Tightens

\* States with the same domains and calls
LEMMA SameTightens ==
  ASSUME NEW t \in PropState, NEW x \in Variable, NEW y \in Variable, NEW r \in Variable
  PROVE  /\ Tightens(t, t, x, y, r) /\ Tightens(t, Fail(t), x, y, r)
         /\ \A p \in BOOLEAN : /\ Tightens(t, Checked(t, p), x, y, r)
                               /\ Checked(t, p).dom = t.dom
PROOF
<1>1. ASSUME NEW u \in PropState, u.dom = t.dom, u.touched = t.touched
      PROVE  Tightens(t, u, x, y, r)
  <2>1. PICK a \in Nat : a = Rank(t, x, y, r)
    BY RankTyped
  <2>2. Rank(u, x, y, r) = a
    BY <1>1, <2>1 DEF Rank
  <2> QED BY <1>1, <2>1, <2>2 DEF Tightens
<1>2. Fail(t) \in PropState /\ Fail(t).dom = t.dom /\ Fail(t).touched = t.touched
  BY DEF Fail, PropState
<1>3. ASSUME NEW p \in BOOLEAN
      PROVE  /\ Checked(t, p) \in PropState /\ Checked(t, p).dom = t.dom
             /\ Checked(t, p).touched = t.touched
  BY DEF Checked, PropState
<1> QED BY <1>1, <1>2, <1>3

LEMMA SetTightens ==
  ASSUME NEW x \in Variable, NEW y \in Variable, NEW r \in Variable,
         NEW t \in PropState, NEW v \in {x, y, r}, NEW d \in Domain, NEW n,
         Width(d) < Width(t.dom[v])
  PROVE  Tightens(t, SetDomain(t, v, d, n), x, y, r)
PROOF
<1>1. PICK u : u = SetDomain(t, v, d, n)
  OBVIOUS
<1>2. u \in PropState /\ u.dom[v] = d /\ \A w \in Variable : w # v => u.dom[w] = t.dom[w]
  BY <1>1, SetTyped
<1>3. \A w \in {x, y, r} : Width(t.dom[w]) \in Nat /\ Width(u.dom[w]) \in Nat
  BY <1>2, RankTyped
<1>4. PICK a, b, c, e, f, g \in Nat :
        /\ a = Width(t.dom[x]) /\ b = Width(t.dom[y]) /\ c = Width(t.dom[r])
        /\ e = Width(u.dom[x]) /\ f = Width(u.dom[y]) /\ g = Width(u.dom[r])
  BY <1>3
<1>5. (v = x => e < a) /\ (v = y => f < b) /\ (v = r => g < c)
  BY <1>2, <1>4
<1>6. (v # x => e = a) /\ (v # y => f = b) /\ (v # r => g = c)
  BY <1>2, <1>4
<1>7. v = x \/ v = y \/ v = r
  OBVIOUS
<1>8. e + f + g < a + b + c
  BY <1>5, <1>6, <1>7
<1>9. Rank(t, x, y, r) = a + b + c /\ Rank(u, x, y, r) = e + f + g
  BY <1>4 DEF Rank
<1> QED BY <1>1, <1>2, <1>8, <1>9 DEF Tightens

LEMMA BoundTightens ==
  ASSUME NEW x \in Variable, NEW y \in Variable, NEW r \in Variable,
         NEW t \in PropState, NEW v \in {x, y, r}, NEW n \in Nat
  PROVE  /\ n < t.dom[v].max => Tightens(t, SetMax(t, v, n), x, y, r)
         /\ n > t.dom[v].min /\ n \in Word => Tightens(t, SetMin(t, v, n), x, y, r)
PROOF
<1>1. /\ t.dom[v].min \in Nat /\ t.dom[v].max \in Nat
      /\ t.dom[v].min \in Word /\ t.dom[v].max \in Word
  BY DomainTyped
<1>2. PICK w \in Nat : Word = 0 .. w - 1 /\ w = 2^Bits
  BY Words
<1>3. ASSUME n < t.dom[v].max PROVE Tightens(t, SetMax(t, v, n), x, y, r)
  <2>1. n \in Word
    BY <1>1, <1>2, <1>3
  <2>2. PICK d \in Domain : d = [min |-> t.dom[v].min, max |-> n]
    <3>1. [min |-> t.dom[v].min, max |-> n] \in Domain
      BY <1>1, <2>1 DEF Domain
    <3> QED BY <3>1
  <2>3. Width(d) < Width(t.dom[v])
    BY <1>1, <1>2, <1>3, <2>2 DEF Width
  <2>4. SetMax(t, v, n) = SetDomain(t, v, d, n)
    BY <2>2 DEF SetMax
  <2> QED BY <2>2, <2>3, <2>4, SetTightens
<1>4. ASSUME n > t.dom[v].min, n \in Word PROVE Tightens(t, SetMin(t, v, n), x, y, r)
  <2>1. PICK d \in Domain : d = [min |-> n, max |-> t.dom[v].max]
    <3>1. [min |-> n, max |-> t.dom[v].max] \in Domain
      BY <1>1, <1>4 DEF Domain
    <3> QED BY <3>1
  <2>2. Width(d) < Width(t.dom[v])
    BY <1>1, <1>2, <1>4, <2>1, SMTT(40) DEF Width
  <2>3. SetMin(t, v, n) = SetDomain(t, v, d, n)
    BY <2>1 DEF SetMin
  <2> QED BY <2>1, <2>2, <2>3, SetTightens
<1> QED BY <1>3, <1>4

LEMMA ProductUpperTightens ==
  ASSUME NEW x \in Variable, NEW y \in Variable, NEW r \in Variable,
         NEW t \in PropState, NEW p \in {x, y, r}, NEW q \in {x, y, r}
  PROVE  Tightens(t, ProductUpper(t, p, q, r), x, y, r)
PROOF
<1>1. p \in Variable /\ q \in Variable
  OBVIOUS
<1>2. PICK X, m, R, L \in Nat : X = t.dom[p].max /\ m = t.dom[q].min /\ R = t.dom[r].max /\ L = t.dom[p].min
  BY <1>1, DomainTyped
<1>3. PICK n, k : n = R \div m /\ k = Checked(t, R \div m < X)
  OBVIOUS
<1>4. Tightens(t, k, x, y, r) /\ k.dom = t.dom /\ k \in PropState
  <2>1. (R \div m < X) \in BOOLEAN
    OBVIOUS
  <2>2. Tightens(t, k, x, y, r) /\ k.dom = t.dom
    BY <1>3, <2>1, SameTightens
  <2> QED BY <2>2 DEF Tightens
<1>5. ProductUpper(t, p, q, r) =
        IF ~ t.ok \/ m = 0 \/ m * X <= R THEN t
        ELSE IF n < L THEN Fail(k) ELSE SetMax(k, p, n)
  BY <1>2, <1>3 DEF ProductUpper
<1>6. Tightens(t, t, x, y, r)
  BY SameTightens
<1>7. Tightens(t, Fail(k), x, y, r)
  <2>1. Tightens(k, Fail(k), x, y, r)
    BY <1>4, SameTightens
  <2> QED BY <1>4, <2>1, TightensTrans
<1>8. ASSUME ~ (~ t.ok \/ m = 0 \/ m * X <= R) PROVE Tightens(t, SetMax(k, p, n), x, y, r)
  <2>1. m * X \in Nat /\ m \in Nat \ {0} /\ R < m * X
    <3>1. m * X \in Nat
      BY <1>2, Times
    <3> QED BY <1>2, <1>8, <3>1
  <2>2. R \in Nat /\ m \in Nat \ {0}
    BY <1>2, <2>1
  <2>3. n \in Nat
    BY <1>3, <2>2, Quotient
  <2>4. \A a \in Nat : R < m * a => R \div m < a
    BY <2>2, UpperFactor
  <2>5. n < k.dom[p].max
    BY <1>2, <1>3, <1>4, <2>1, <2>4
  <2>6. Tightens(k, SetMax(k, p, n), x, y, r)
    BY <1>4, <2>3, <2>5, BoundTightens
  <2> QED BY <1>4, <2>6, TightensTrans
<1> QED BY <1>5, <1>6, <1>7, <1>8

LEMMA ProductLowerTightens ==
  ASSUME NEW x \in Variable, NEW y \in Variable, NEW r \in Variable,
         NEW t \in PropState, NEW p \in {x, y, r}, NEW q \in {x, y, r}
  PROVE  Tightens(t, ProductLower(t, p, q, r), x, y, r)
PROOF
<1>1. p \in Variable /\ q \in Variable
  OBVIOUS
<1>2. PICK low, m, L, X \in Nat : low = t.dom[r].min /\ m = t.dom[q].max /\ L = t.dom[p].min /\ X = t.dom[p].max
  BY <1>1, DomainTyped
<1>3. PICK k : k = (low \div m) + (IF low % m # 0 THEN 1 ELSE 0)
  OBVIOUS
<1>4. PICK n : n = AsWord(k)
  OBVIOUS
<1>5. ProductLower(t, p, q, r) =
        IF ~ t.ok \/ m = 0 \/ m * L >= low \/ n <= L THEN t
        ELSE IF n > X THEN Fail(t) ELSE SetMin(t, p, n)
  BY <1>2, <1>3, <1>4 DEF ProductLower
<1>6. ASSUME ~ (~ t.ok \/ m = 0 \/ m * L >= low \/ n <= L) PROVE Tightens(t, SetMin(t, p, n), x, y, r)
  <2>1. m \in Nat \ {0}
    BY <1>2, <1>6
  <2>2. k \in Nat /\ k <= low
    BY <1>2, <1>3, <2>1, LowerFactor
  <2>3. n \in Nat /\ n \in Word
    <3>1. low \in Word
      BY <1>2, DomainTyped
    <3>2. PICK w \in Nat : Word = 0 .. w - 1
      BY Words
    <3>3. k \in Word
      BY <2>2, <3>1, <3>2
    <3>4. AsWord(k) = k
      BY <3>3, Words
    <3> QED BY <1>4, <2>2, <3>3, <3>4
  <2>4. n > t.dom[p].min
    BY <1>2, <1>6, <2>3
  <2> QED BY <2>3, <2>4, BoundTightens
<1> QED BY <1>5, <1>6, SameTightens

LEMMA ProductPassTightens ==
  ASSUME NEW x \in Variable, NEW y \in Variable, NEW r \in Variable, NEW t \in PropState
  PROVE  Tightens(t, ProductPass(t, r, x, y), x, y, r)
PROOF
<1>0. ASSUME NEW v \in Variable PROVE t.dom[v].min \in Nat /\ t.dom[v].max \in Nat
  BY DomainTyped
<1>1. PICK lo, hi \in Nat : lo = AsBig(t.dom[x].min * t.dom[y].min) /\ hi = AsBig(t.dom[x].max * t.dom[y].max)
  <2>1. t.dom[x].min * t.dom[y].min \in Nat /\ t.dom[x].max * t.dom[y].max \in Nat
    BY <1>0, Times
  <2> QED BY <2>1, BigTyped
<1>2. PICK s0, s1, s2, s3, s4, s5 :
        /\ s0 = RaiseMin(t, r, lo) /\ s1 = LowerMax(s0, r, hi)
        /\ s2 = ProductUpper(s1, x, y, r) /\ s3 = ProductUpper(s2, y, x, r)
        /\ s4 = ProductLower(s3, x, y, r) /\ s5 = ProductLower(s4, y, x, r)
  OBVIOUS
<1>3. ProductPass(t, r, x, y) = IF lo > t.dom[r].max \/ hi < t.dom[r].min THEN Fail(t) ELSE s5
  BY <1>1, <1>2 DEF ProductPass
<1>4. CASE lo > t.dom[r].max \/ hi < t.dom[r].min
  BY <1>3, <1>4, SameTightens
<1>5. CASE ~ (lo > t.dom[r].max \/ hi < t.dom[r].min)
  <2>1. Tightens(t, s0, x, y, r)
    <3>1. CASE lo > t.dom[r].min
      <4>1. lo \in Word
        <5>1. t.dom[r].max \in Word /\ t.dom[r].max \in Nat
          BY DomainTyped
        <5>2. PICK w \in Nat : Word = 0 .. w - 1
          BY Words
        <5>3. ~ (lo > t.dom[r].max)
          BY <1>5
        <5> QED BY <1>1, <5>1, <5>2, <5>3
      <4>2. s0 = SetMin(t, r, lo)
        BY <1>2, <3>1 DEF RaiseMin
      <4> QED BY <3>1, <4>1, <4>2, BoundTightens
    <3>2. CASE ~ (lo > t.dom[r].min)
      <4>1. s0 = t
        BY <1>2, <3>2 DEF RaiseMin
      <4> QED BY <4>1, SameTightens
    <3> QED BY <3>1, <3>2
  <2>2. s0 \in PropState
    BY <2>1 DEF Tightens
  <2>3. Tightens(s0, s1, x, y, r)
    <3>1. CASE hi < s0.dom[r].max
      <4>1. s1 = SetMax(s0, r, hi)
        BY <1>2, <3>1 DEF LowerMax
      <4> QED BY <2>2, <3>1, <4>1, BoundTightens
    <3>2. CASE ~ (hi < s0.dom[r].max)
      <4>1. s1 = s0
        BY <1>2, <3>2 DEF LowerMax
      <4> QED BY <2>2, <4>1, SameTightens
    <3> QED BY <3>1, <3>2
  <2>4. Tightens(t, s1, x, y, r) /\ s1 \in PropState
    BY <2>1, <2>3, TightensTrans DEF Tightens
  <2>5. Tightens(t, s2, x, y, r) /\ s2 \in PropState
    <3>1. Tightens(s1, s2, x, y, r)
      BY <1>2, <2>4, ProductUpperTightens
    <3> QED BY <2>4, <3>1, TightensTrans DEF Tightens
  <2>6. Tightens(t, s3, x, y, r) /\ s3 \in PropState
    <3>1. Tightens(s2, s3, x, y, r)
      BY <1>2, <2>5, ProductUpperTightens
    <3> QED BY <2>5, <3>1, TightensTrans DEF Tightens
  <2>7. Tightens(t, s4, x, y, r) /\ s4 \in PropState
    <3>1. Tightens(s3, s4, x, y, r)
      BY <1>2, <2>6, ProductLowerTightens
    <3> QED BY <2>6, <3>1, TightensTrans DEF Tightens
  <2>8. Tightens(t, s5, x, y, r)
    <3>1. Tightens(s4, s5, x, y, r)
      BY <1>2, <2>7, ProductLowerTightens
    <3> QED BY <2>7, <3>1, TightensTrans DEF Tightens
  <2> QED BY <1>3, <1>5, <2>8
<1> QED BY <1>4, <1>5

-----------------------------------------------------------------------------
(* Loops.  A recursive function is well-defined when something falls at    *)
(* each of its calls.                                                      *)

Repeats(f, S, next, goes) ==
  \A s \in S : f[s] = IF goes[s] THEN f[next[s]] ELSE next[s]

Falls(S, next, goes, rank, n) ==
  \A s \in S : rank[s] <= n /\ (goes[s] => rank[next[s]] < rank[s])

LEMMA LoopExists ==
  ASSUME NEW S, NEW next \in [S -> S], NEW goes \in [S -> BOOLEAN],
         NEW rank \in [S -> Nat], NEW n \in Nat, Falls(S, next, goes, rank, n)
  PROVE  \E f \in [S -> S] : Repeats(f, S, next, goes)
PROOF
<1> DEFINE Right(f, k) == \A s \in S : rank[s] < k => f[s] = IF goes[s] THEN f[next[s]] ELSE next[s]
           T == {k \in 0 .. n + 1 : \E f \in [S -> S] : Right(f, k)}
<1>1. 0 \in T
  <2>1. \A s \in S : ~ (rank[s] < 0)
    OBVIOUS
  <2> QED BY <2>1
<1>2. ASSUME NEW k \in 1 .. n + 1, k - 1 \in T PROVE k \in T
  <2>1. PICK f \in [S -> S] : Right(f, k - 1)
    BY <1>2
  <2>2. PICK g : g = [s \in S |-> IF goes[s] THEN f[next[s]] ELSE next[s]]
    OBVIOUS
  <2>3. g \in [S -> S] /\ \A s \in S : g[s] = IF goes[s] THEN f[next[s]] ELSE next[s]
    BY <2>2
  <2>4. ASSUME NEW s \in S, rank[s] < k PROVE g[s] = IF goes[s] THEN g[next[s]] ELSE next[s]
    <3>1. CASE goes[s]
      <4>1. PICK t \in S : t = next[s]
        OBVIOUS
      <4>2. rank[t] < rank[s] /\ rank[t] \in Nat /\ rank[s] \in Nat
        BY <3>1, <4>1 DEF Falls
      <4>3. rank[t] < k - 1
        BY <2>4, <4>2
      <4>4. f[t] = g[t]
        BY <2>1, <2>3, <4>3
      <4> QED BY <2>3, <3>1, <4>1, <4>4
    <3>2. CASE ~ goes[s]
      BY <2>3, <3>2
    <3> QED BY <3>1, <3>2
  <2>5. Right(g, k)
    BY <2>4
  <2> HIDE DEF Right
  <2> QED BY <2>3, <2>5
<1>3. 0 .. n + 1 \subseteq T
  <2> HIDE DEF T
  <2>1. n + 1 \in Nat
    OBVIOUS
  <2> QED BY <1>1, <1>2, <2>1, UpTo
<1>4. PICK f \in [S -> S] : Right(f, n + 1)
  <2>1. n + 1 \in T
    <3> HIDE DEF T
    <3> QED BY <1>3
  <2> HIDE DEF Right
  <2> QED BY <2>1
<1>5. \A s \in S : rank[s] < n + 1
  BY DEF Falls
<1> QED BY <1>4, <1>5 DEF Repeats

\* From Q each pass leads to P; where P lies in Q, so does the whole loop.
Passes(f, Q, P) == \A s \in Q : f[s] \in P

LEMMA LoopLeads ==
  ASSUME NEW S, NEW next \in [S -> S], NEW goes \in [S -> BOOLEAN],
         NEW rank \in [S -> Nat], NEW n \in Nat, Falls(S, next, goes, rank, n),
         NEW f, Repeats(f, S, next, goes),
         NEW Q \in SUBSET S, NEW P \in SUBSET Q, Passes(next, Q, P)
  PROVE  Passes(f, Q, P)
PROOF
<1> USE DEF Passes
<1> DEFINE T == {k \in 0 .. n + 1 : \A s \in Q : rank[s] < k => f[s] \in P}
<1>1. 0 \in T
  <2>1. \A s \in Q : ~ (rank[s] < 0)
    OBVIOUS
  <2> QED BY <2>1
<1>2. ASSUME NEW k \in 1 .. n + 1, k - 1 \in T PROVE k \in T
  <2>1. ASSUME NEW s \in Q, rank[s] < k PROVE f[s] \in P
    <3>0. f[s] = IF goes[s] THEN f[next[s]] ELSE next[s]
      BY DEF Repeats
    <3>1. CASE goes[s]
      <4>1. PICK t \in Q : t = next[s]
        OBVIOUS
      <4>2. rank[t] < rank[s] /\ rank[t] \in Nat /\ rank[s] \in Nat
        BY <3>1, <4>1 DEF Falls
      <4>3. rank[t] < k - 1
        BY <2>1, <4>2
      <4>4. f[t] \in P
        BY <1>2, <4>3
      <4> QED BY <3>0, <3>1, <4>1, <4>4
    <3>2. CASE ~ goes[s]
      BY <3>0, <3>2
    <3> QED BY <3>1, <3>2
  <2> QED BY <2>1
<1>3. 0 .. n + 1 \subseteq T
  <2> HIDE DEF T
  <2>1. n + 1 \in Nat
    OBVIOUS
  <2> QED BY <1>1, <1>2, <2>1, UpTo
<1>4. n + 1 \in T
  BY <1>3
<1>5. \A s \in Q : rank[s] < n + 1
  BY DEF Falls
<1> QED BY <1>4, <1>5

-----------------------------------------------------------------------------
(* Product: a pass, and the call *)

LEMMA SolvesEarlier ==
  ASSUME NEW t, NEW u, Fine(t), Fine(u), Narrower(t, u),
         NEW x \in Variable, NEW y \in Variable, NEW r \in Variable,
         NEW a \in Nat, NEW b \in Nat, Solves(u, x, y, r, a, b)
  PROVE  Solves(t, x, y, r, a, b)
PROOF
<1>1. ASSUME NEW v \in Variable, NEW k \in Nat, Fits(u, v, k) PROVE Fits(t, v, k)
  <2>1. /\ t.dom[v].min \in Nat /\ t.dom[v].max \in Nat
        /\ u.dom[v].min \in Nat /\ u.dom[v].max \in Nat
    BY DomainTyped DEF Fine
  <2>2. t.dom[v].min <= u.dom[v].min /\ u.dom[v].max <= t.dom[v].max
    BY DEF Narrower
  <2> QED BY <1>1, <2>1, <2>2 DEF Fits
<1>2. a * b \in Nat
  BY Times
<1> QED BY <1>1, <1>2 DEF Solves

\* The products of the bounds, which the wide arithmetic holds
LEMMA BoundProducts ==
  ASSUME NEW t, Fine(t), NEW x \in Variable, NEW y \in Variable, NEW r \in Variable
  PROVE  \E lo, hi \in Nat :
           /\ lo = AsBig(t.dom[x].min * t.dom[y].min) /\ hi = AsBig(t.dom[x].max * t.dom[y].max)
           /\ lo = t.dom[x].min * t.dom[y].min /\ hi = t.dom[x].max * t.dom[y].max
           /\ lo <= hi
           /\ \A a, b \in Nat : Solves(t, x, y, r, a, b) => lo <= a * b /\ a * b <= hi
PROOF
<1>1. PICK w \in Nat : w = 2^Bits /\ w >= 2 /\ Word = 0 .. w - 1
  BY Words
<1>2. PICK a0, a1, b0, b1 \in Nat :
        /\ a0 = t.dom[x].min /\ a1 = t.dom[x].max /\ b0 = t.dom[y].min /\ b1 = t.dom[y].max
        /\ a0 <= a1 /\ b0 <= b1 /\ a1 < w /\ b1 < w
  <2>1. /\ t.dom[x].min \in 0 .. w - 1 /\ t.dom[x].max \in 0 .. w - 1
        /\ t.dom[y].min \in 0 .. w - 1 /\ t.dom[y].max \in 0 .. w - 1
    BY <1>1, DomainTyped DEF Fine
  <2>2. t.dom[x].min <= t.dom[x].max /\ t.dom[y].min <= t.dom[y].max
    BY DEF Fine
  <2> QED BY <1>1, <2>1, <2>2, SMTT(40), ZenonT(40)
<1>3. ASSUME NEW a \in Nat, NEW b \in Nat, NEW c \in Nat, NEW d \in Nat, a <= c, b <= d
      PROVE  a * b <= c * d /\ a * b \in Nat /\ c * d \in Nat
  <2>1. a * b <= c * b /\ b * c <= d * c /\ c * b = b * c /\ d * c = c * d
    BY <1>3, Times
  <2>2. a * b \in Nat /\ c * b \in Nat /\ c * d \in Nat
    BY Times
  <2> QED BY <2>1, <2>2
<1>4. PICK lo, hi \in Nat : lo = a0 * b0 /\ hi = a1 * b1
  BY <1>3
<1>5. lo <= hi
  BY <1>2, <1>3, <1>4
<1>6. hi < w * w
  <2>1. PICK m \in Nat : m = w - 1 /\ a1 <= m /\ b1 <= m
    BY <1>1, <1>2
  <2>2. hi <= m * m /\ m * m \in Nat
    BY <1>3, <1>4, <2>1
  <2>3. w = m + 1
    BY <1>1, <2>1
  <2>4. m * m < w * w /\ w * w \in Nat
    BY <2>3, SquareBelow
  <2> QED BY <2>2, <2>3, <2>4
<1>7. AsBig(lo) = lo /\ AsBig(hi) = hi
  <2>1. w * w \in Nat /\ lo < w * w
    <3>1. w * w \in Nat
      BY Times
    <3> QED BY <1>5, <1>6, <3>1
  <2> QED BY <1>1, <1>6, <2>1, Words
<1>8. ASSUME NEW a \in Nat, NEW b \in Nat, Solves(t, x, y, r, a, b)
      PROVE  lo <= a * b /\ a * b <= hi
  <2>1. a0 <= a /\ a <= a1 /\ b0 <= b /\ b <= b1
    BY <1>2, <1>8 DEF Solves, Fits
  <2> QED BY <1>3, <1>4, <2>1
<1> QED BY <1>2, <1>4, <1>5, <1>7, <1>8

\* What is returned when all has a value
Settles(t, u, x, y, r) ==
  u.ok /\ (\A v \in {x, y, r} : t.dom[v].min = t.dom[v].max) =>
    t.dom[r].min = t.dom[x].min * t.dom[y].min

LEMMA ProductPassKeeps ==
  ASSUME NEW t, Fine(t), NEW x \in Variable, NEW y \in Variable, NEW r \in Variable
  PROVE  /\ Keeps(t, ProductPass(t, r, x, y), x, y, r)
         /\ Settles(t, ProductPass(t, r, x, y), x, y, r)
PROOF
<1>1. PICK lo, hi \in Nat :
        /\ lo = AsBig(t.dom[x].min * t.dom[y].min) /\ hi = AsBig(t.dom[x].max * t.dom[y].max)
        /\ lo = t.dom[x].min * t.dom[y].min /\ hi = t.dom[x].max * t.dom[y].max
        /\ lo <= hi
        /\ \A a, b \in Nat : Solves(t, x, y, r, a, b) => lo <= a * b /\ a * b <= hi
  BY BoundProducts
<1>2. PICK s0, s1, s2, s3, s4, s5 :
        /\ s0 = RaiseMin(t, r, lo) /\ s1 = LowerMax(s0, r, hi)
        /\ s2 = ProductUpper(s1, x, y, r) /\ s3 = ProductUpper(s2, y, x, r)
        /\ s4 = ProductLower(s3, x, y, r) /\ s5 = ProductLower(s4, y, x, r)
  OBVIOUS
<1>3. PICK u : u = ProductPass(t, r, x, y)
  OBVIOUS
<1>4. u = IF lo > t.dom[r].max \/ hi < t.dom[r].min THEN Fail(t) ELSE s5
  BY <1>1, <1>2, <1>3 DEF ProductPass
<1>5. PICK R0, R1 \in Nat : R0 = t.dom[r].min /\ R1 = t.dom[r].max /\ R0 <= R1
  BY DomainTyped DEF Fine
<1>6. CASE lo > R1 \/ hi < R0
  <2>1. u = Fail(t)
    BY <1>4, <1>5, <1>6
  <2>2. Fine(u) /\ ~ u.ok /\ Narrower(t, u)
    BY <2>1, FailIs
  <2>3. ASSUME NEW a \in Nat, NEW b \in Nat, Solves(t, x, y, r, a, b) PROVE FALSE
    <3>1. R0 <= a * b /\ a * b <= R1
      BY <1>5, <2>3 DEF Solves, Fits
    <3>2. lo <= a * b /\ a * b <= hi /\ a * b \in Nat
      BY <1>1, <2>3, Times
    <3> QED BY <1>5, <1>6, <3>1, <3>2
  <2> QED BY <1>3, <2>2, <2>3 DEF Keeps, Settles
<1>7. CASE ~ (lo > R1 \/ hi < R0)
  <2>1. lo <= R1 /\ R0 <= hi /\ u = s5
    BY <1>4, <1>5, <1>7
  <2>2. Keeps(t, s0, x, y, r) /\ s0.dom[r].min <= hi
    <3>1. lo \in Int /\ lo <= t.dom[r].max
      BY <1>5, <2>1
    <3>2. s0.dom[r].min = IF lo > R0 THEN lo ELSE R0
      BY <1>2, <1>5, <3>1, RaiseMinIs
    <3>3. ASSUME NEW a \in Nat, NEW b \in Nat, Solves(t, x, y, r, a, b)
          PROVE  (r = x => lo <= a) /\ (r = y => lo <= b) /\ (r = r => lo <= a * b)
      <4>1. lo <= a * b
        BY <1>1, <3>3
      <4> QED BY <3>3, <4>1 DEF Solves
    <3>4. Keeps(t, s0, x, y, r)
      BY <1>2, <3>1, <3>3, RaisedKeeps
    <3> QED BY <1>1, <2>1, <3>2, <3>4
  <2>3. Fine(s0) /\ Narrower(t, s0)
    BY <2>2 DEF Keeps
  <2>4. Keeps(s0, s1, x, y, r)
    <3>1. hi \in Int /\ hi >= s0.dom[r].min
      <4>1. s0.dom[r].min \in Nat
        BY <2>3, DomainTyped DEF Fine
      <4> QED BY <2>2, <4>1
    <3>2. ASSUME NEW a \in Nat, NEW b \in Nat, Solves(s0, x, y, r, a, b)
          PROVE  (r = x => a <= hi) /\ (r = y => b <= hi) /\ (r = r => a * b <= hi)
      <4>1. Solves(t, x, y, r, a, b)
        BY <2>3, <3>2, SolvesEarlier
      <4>2. a * b <= hi
        BY <1>1, <4>1
      <4> QED BY <4>1, <4>2 DEF Solves
    <3> QED BY <1>2, <2>3, <3>1, <3>2, LoweredKeeps
  <2>5. Keeps(t, s1, x, y, r) /\ Fine(s1)
    <3>1. Keeps(t, s1, x, y, r)
      BY <2>2, <2>4, KeepsTrans
    <3> QED BY <3>1 DEF Keeps
  <2>6. Keeps(t, s2, x, y, r) /\ Fine(s2)
    <3>1. Keeps(s1, s2, x, y, r)
      BY <1>2, <2>5, ProductUpperKeeps
    <3>2. Keeps(t, s2, x, y, r)
      BY <2>5, <3>1, KeepsTrans
    <3> QED BY <3>2 DEF Keeps
  <2>7. Keeps(t, s3, x, y, r) /\ Fine(s3)
    <3>1. Keeps(s2, s3, y, x, r)
      BY <1>2, <2>6, ProductUpperKeeps
    <3>2. Keeps(s2, s3, x, y, r)
      BY <3>1, KeepsSwapped
    <3>3. Keeps(t, s3, x, y, r)
      BY <2>6, <3>2, KeepsTrans
    <3> QED BY <3>3 DEF Keeps
  <2>8. Keeps(t, s4, x, y, r) /\ Fine(s4)
    <3>1. Keeps(s3, s4, x, y, r)
      BY <1>2, <2>7, ProductLowerKeeps
    <3>2. Keeps(t, s4, x, y, r)
      BY <2>7, <3>1, KeepsTrans
    <3> QED BY <3>2 DEF Keeps
  <2>9. Keeps(t, s5, x, y, r)
    <3>1. Keeps(s4, s5, y, x, r)
      BY <1>2, <2>8, ProductLowerKeeps
    <3>2. Keeps(s4, s5, x, y, r)
      BY <3>1, KeepsSwapped
    <3> QED BY <2>8, <3>2, KeepsTrans
  <2>10. ASSUME \A v \in {x, y, r} : t.dom[v].min = t.dom[v].max
         PROVE  t.dom[r].min = t.dom[x].min * t.dom[y].min
    <3>1. t.dom[x].min = t.dom[x].max /\ t.dom[y].min = t.dom[y].max /\ R0 = R1
      BY <1>5, <2>10
    <3>2. lo = hi
      BY <1>1, <3>1
    <3>3. R0 = lo
      BY <1>5, <2>1, <3>1, <3>2
    <3> QED BY <1>1, <1>5, <3>3
  <2> QED BY <1>3, <2>1, <2>9, <2>10 DEF Settles
<1> QED BY <1>6, <1>7

ProductRecursion(f, x, y, r) ==
  f = [s \in PropState |->
         LET next == ProductPass(s, r, x, y)
         IN IF next.ok /\ next.touched # s.touched THEN f[next] ELSE next]

LEMMA ProductIs ==
  ASSUME NEW c, NEW dom
  PROVE  PropagateProduct(c, dom) =
           (CHOOSE f : ProductRecursion(f, c.vars[2], c.vars[3], c.vars[1]))[Call(dom)]
PROOF BY DEF PropagateProduct, ProductRecursion

\* The loop, as a function of the state that a pass starts from
ProductLoop(f, next, goes, rank, n, x, y, r) ==
  /\ next \in [PropState -> PropState] /\ goes \in [PropState -> BOOLEAN]
  /\ rank \in [PropState -> Nat] /\ n \in Nat
  /\ Falls(PropState, next, goes, rank, n) /\ Repeats(f, PropState, next, goes)
  /\ \A s \in PropState : /\ next[s] = ProductPass(s, r, x, y)
                           /\ (goes[s] <=> next[s].ok /\ next[s].touched # s.touched)

LEMMA ProductLoops ==
  ASSUME NEW c, NEW dom, NEW x \in Variable, NEW y \in Variable, NEW r \in Variable,
         r = c.vars[1], x = c.vars[2], y = c.vars[3]
  PROVE  \E f, next, goes, rank, n :
           ProductLoop(f, next, goes, rank, n, x, y, r) /\ PropagateProduct(c, dom) = f[Call(dom)]
PROOF
<1>1. PICK s0 : s0 = Call(dom)
  OBVIOUS
<1>2. PICK next : next = [s \in PropState |-> ProductPass(s, r, x, y)]
  OBVIOUS
<1>3. PICK goes : goes = [s \in PropState |-> next[s].ok /\ next[s].touched # s.touched]
  OBVIOUS
<1>4. PICK rank : rank = [s \in PropState |-> Rank(s, x, y, r)]
  OBVIOUS
<1>5. PICK n \in Nat : n = 6 * 2^Bits
  BY Words
<1>6. ASSUME NEW s \in PropState
      PROVE  /\ Tightens(s, next[s], x, y, r) /\ next[s] \in PropState
             /\ rank[s] = Rank(s, x, y, r) /\ rank[s] \in Nat /\ rank[s] <= n
             /\ goes[s] \in BOOLEAN
             /\ goes[s] <=> next[s].ok /\ next[s].touched # s.touched
  <2>1. next[s] = ProductPass(s, r, x, y)
    BY <1>2
  <2>2. Tightens(s, next[s], x, y, r)
    BY <2>1, ProductPassTightens
  <2>3. Rank(s, x, y, r) \in Nat /\ Rank(s, x, y, r) <= n
    BY <1>5, RankTyped
  <2>4. goes[s] = (next[s].ok /\ next[s].touched # s.touched)
    BY <1>3
  <2>5. next[s].ok \in BOOLEAN
    BY <2>2 DEF Tightens, PropState
  <2>6. next[s] \in PropState
    BY <2>2 DEF Tightens
  <2>7. rank[s] = Rank(s, x, y, r)
    BY <1>4
  <2> QED BY <2>2, <2>3, <2>4, <2>5, <2>6, <2>7
<1>7. /\ next \in [PropState -> PropState] /\ goes \in [PropState -> BOOLEAN]
      /\ rank \in [PropState -> Nat]
  <2>1. next \in [PropState -> PropState]
    BY <1>2, <1>6
  <2>2. goes \in [PropState -> BOOLEAN]
    <3>1. DOMAIN goes = PropState /\ goes = [s \in PropState |-> goes[s]]
      BY <1>3
    <3> QED BY <1>6, <3>1
  <2>3. rank \in [PropState -> Nat]
    <3>1. DOMAIN rank = PropState /\ rank = [s \in PropState |-> rank[s]]
      BY <1>4
    <3> QED BY <1>6, <3>1
  <2> QED BY <2>1, <2>2, <2>3
<1>8. Falls(PropState, next, goes, rank, n)
  <2>1. ASSUME NEW s \in PropState, goes[s] PROVE rank[next[s]] < rank[s]
    <3>1. Tightens(s, next[s], x, y, r) /\ next[s].touched # s.touched
      BY <1>6, <2>1
    <3>2. Rank(next[s], x, y, r) < Rank(s, x, y, r)
      BY <3>1 DEF Tightens
    <3> QED BY <1>6, <3>2
  <2> QED BY <1>6, <2>1 DEF Falls
<1>9. PICK f : ProductRecursion(f, x, y, r) /\ PropagateProduct(c, dom) = f[s0]
  <2>1. PICK g \in [PropState -> PropState] : Repeats(g, PropState, next, goes)
    BY <1>7, <1>8, LoopExists
  <2>2. ProductRecursion(g, x, y, r)
    <3>1. ASSUME NEW s \in PropState
          PROVE  g[s] = LET u == ProductPass(s, r, x, y)
                        IN IF u.ok /\ u.touched # s.touched THEN g[u] ELSE u
      <4>1. PICK u : u = ProductPass(s, r, x, y) /\ u = next[s]
        BY <1>2
      <4>2. g[s] = IF goes[s] THEN g[u] ELSE u
        BY <2>1, <4>1 DEF Repeats
      <4>3. goes[s] <=> u.ok /\ u.touched # s.touched
        BY <1>6, <4>1
      <4> QED BY <4>1, <4>2, <4>3
    <3>2. g = [s \in PropState |-> g[s]]
      BY <2>1
    <3> QED BY <3>1, <3>2 DEF ProductRecursion
  <2>3. ProductRecursion(CHOOSE h : ProductRecursion(h, x, y, r), x, y, r)
    BY <2>2
  <2>4. PropagateProduct(c, dom) = (CHOOSE h : ProductRecursion(h, x, y, r))[Call(dom)]
    BY ProductIs
  <2> QED BY <1>1, <2>3, <2>4
<1>10. Repeats(f, PropState, next, goes)
  <2>1. ASSUME NEW s \in PropState PROVE f[s] = IF goes[s] THEN f[next[s]] ELSE next[s]
    <3>1. PICK u : u = ProductPass(s, r, x, y) /\ u = next[s]
      BY <1>2
    <3>2. f[s] = IF u.ok /\ u.touched # s.touched THEN f[u] ELSE u
      BY <1>9, <3>1, ZenonT(40) DEF ProductRecursion
    <3>3. goes[s] <=> u.ok /\ u.touched # s.touched
      BY <1>6, <3>1
    <3> QED BY <3>1, <3>2, <3>3
  <2> QED BY <2>1 DEF Repeats
<1>11. \A s \in PropState : next[s] = ProductPass(s, r, x, y)
  BY <1>2
<1>12. ProductLoop(f, next, goes, rank, n, x, y, r)
  BY <1>6, <1>7, <1>8, <1>10, <1>11 DEF ProductLoop
<1> QED BY <1>1, <1>9, <1>12

\* What holds of a state that the loop comes to, and what of the one it returns
Reaches(s, u, x, y, r) == u \in PropState /\ Keeps(s, u, x, y, r)

Returns(s, u, x, y, r) ==
  Reaches(s, u, x, y, r) /\ Settles(s, u, x, y, r)

LEMMA ProductReturns ==
  ASSUME NEW c, NEW dom, Fine(Call(dom)), NEW x \in Variable, NEW y \in Variable, NEW r \in Variable,
         r = c.vars[1], x = c.vars[2], y = c.vars[3]
  PROVE  Returns(Call(dom), PropagateProduct(c, dom), x, y, r)
PROOF
<1>1. PICK s0 : s0 = Call(dom) /\ Fine(s0) /\ s0 \in PropState
  BY DEF Fine
<1>2. PICK f, next, goes, rank, n :
        ProductLoop(f, next, goes, rank, n, x, y, r) /\ PropagateProduct(c, dom) = f[s0]
  BY <1>1, ProductLoops
<1>3. /\ next \in [PropState -> PropState] /\ goes \in [PropState -> BOOLEAN]
      /\ rank \in [PropState -> Nat] /\ n \in Nat
      /\ Falls(PropState, next, goes, rank, n) /\ Repeats(f, PropState, next, goes)
      /\ \A s \in PropState : next[s] = ProductPass(s, r, x, y)
  BY <1>2 DEF ProductLoop
<1>4. PICK Q, P \in SUBSET PropState :
         /\ P \subseteq Q
         /\ Q = {u \in PropState : Reaches(s0, u, x, y, r)}
         /\ P = {u \in PropState : Returns(s0, u, x, y, r)}
  <2>1. {u \in PropState : Returns(s0, u, x, y, r)} \subseteq {u \in PropState : Reaches(s0, u, x, y, r)}
    BY DEF Returns
  <2> QED BY <2>1
<1>5. s0 \in Q
  <2>1. Narrower(s0, s0)
    BY <1>1, FailIs
  <2>2. Keeps(s0, s0, x, y, r)
    BY <1>1, <2>1 DEF Keeps
  <2> QED BY <1>1, <1>4, <2>2 DEF Reaches
<1>6. ASSUME NEW s \in Q PROVE next[s] \in P
  <2>1. s \in PropState /\ Keeps(s0, s, x, y, r) /\ Fine(s) /\ Narrower(s0, s)
    BY <1>4 DEF Reaches, Keeps
  <2>2. PICK u : u = ProductPass(s, r, x, y) /\ u = next[s] /\ u \in PropState
    BY <1>3, <2>1
  <2>3. Keeps(s, u, x, y, r) /\ Settles(s, u, x, y, r)
    <3>1. Fine(s) /\ x \in Variable /\ y \in Variable /\ r \in Variable
      BY <2>1
    <3>2. /\ Keeps(s, ProductPass(s, r, x, y), x, y, r)
          /\ Settles(s, ProductPass(s, r, x, y), x, y, r)
      BY <3>1, ProductPassKeeps, Zenon
    <3> QED BY <2>2, <3>2, Zenon
  <2>4. Keeps(s0, u, x, y, r)
    BY <1>1, <2>1, <2>3, KeepsTrans
  <2>5. ASSUME u.ok, \A v \in {x, y, r} : s0.dom[v].min = s0.dom[v].max
        PROVE  s0.dom[r].min = s0.dom[x].min * s0.dom[y].min
    <3>1. ASSUME NEW v \in {x, y, r} PROVE s.dom[v].min = s.dom[v].max /\ s.dom[v].min = s0.dom[v].min
      <4>1. /\ s0.dom[v].min \in Nat /\ s0.dom[v].max \in Nat
            /\ s.dom[v].min \in Nat /\ s.dom[v].max \in Nat
        BY <1>1, <2>1, DomainTyped, SMTT(40), ZenonT(40)
      <4>2. /\ s0.dom[v].min <= s.dom[v].min /\ s.dom[v].max <= s0.dom[v].max
            /\ s.dom[v].min <= s.dom[v].max
        BY <2>1 DEF Narrower, Fine
      <4>3. s0.dom[v].min = s0.dom[v].max
        BY <2>5
      <4> QED BY <4>1, <4>2, <4>3
    <3>2. s.dom[r].min = s.dom[x].min * s.dom[y].min
      BY <2>3, <2>5, <3>1 DEF Settles
    <3>3. s.dom[r].min = s0.dom[r].min /\ s.dom[x].min = s0.dom[x].min /\ s.dom[y].min = s0.dom[y].min
      BY <3>1
    <3> QED BY <3>2, <3>3
  <2>6. Returns(s0, u, x, y, r)
    BY <2>2, <2>4, <2>5 DEF Returns, Reaches, Settles
  <2> QED BY <1>4, <2>2, <2>6
<1>7. f[s0] \in P
  <2>1. \A s \in Q : next[s] \in P
    BY <1>6
  <2>2. \A s \in Q : f[s] \in P
    <3>1. /\ next \in [PropState -> PropState] /\ goes \in [PropState -> BOOLEAN]
          /\ rank \in [PropState -> Nat] /\ n \in Nat /\ Falls(PropState, next, goes, rank, n)
          /\ Repeats(f, PropState, next, goes)
          /\ Q \in SUBSET PropState /\ P \in SUBSET Q /\ Passes(next, Q, P)
      BY <1>3, <1>4, <2>1 DEF Passes
    <3>2. Passes(f, Q, P)
      BY <3>1, LoopLeads, Zenon
    <3> QED BY <3>2 DEF Passes
  <2> QED BY <1>5, <2>2
<1> QED BY <1>1, <1>2, <1>4, <1>7

LEMMA ProductSound ==
  ASSUME NEW c, c.kind = "Product", c.vars \in Seq(Variable), Len(c.vars) = 3,
         NEW dom, Fine(Call(dom))
  PROVE  Sound(c, dom, PropagateProduct(c, dom))
PROOF
<1>0. PICK s0 : s0 = Call(dom)
  OBVIOUS
<1>1. s0.ok /\ s0.dom = dom /\ Fine(s0)
  BY <1>0 DEF Call
<1>2. PICK n \in Nat, r \in Variable, args \in Seq(Variable) : Takes(c, n, r, args)
  <2>1. c.kind \in HasResult /\ Len(c.vars) >= 1
    BY DEF HasResult
  <2> QED BY <2>1, WithResult
<1>3. /\ r = c.vars[1] /\ n = 2 /\ GetVariables(c) = {r} \cup ToSet(args)
      /\ r \in GetVariables(c) /\ DOMAIN args = 1 .. 2
      /\ \A i \in 1 .. 2 : args[i] = c.vars[i + 1] /\ args[i] \in Variable /\ args[i] \in GetVariables(c)
      /\ \A a : Meaning(c, a) <=> a[r] \in Results(c, [i \in 1 .. 2 |-> a[args[i]]])
  <2>1. n = 2
    BY <1>2 DEF Takes
  <2> QED BY <1>2, <2>1 DEF Takes
<1>4. PICK x, y \in Variable : x = args[1] /\ y = args[2] /\ x = c.vars[2] /\ y = c.vars[3]
  <2>1. 1 \in 1 .. 2 /\ 2 \in 1 .. 2
    OBVIOUS
  <2> QED BY <1>3, <2>1
<1>5. GetVariables(c) = {x, y, r}
  <2>1. ToSet(args) = {args[i] : i \in 1 .. 2}
    BY <1>3 DEF ToSet
  <2>2. ToSet(args) = {x, y}
    <3>1. 1 .. 2 = {1, 2}
      OBVIOUS
    <3>2. ToSet(args) = {args[1], args[2]}
      BY <2>1, <3>1
    <3> QED BY <1>4, <3>2
  <2> QED BY <1>3, <2>2
<1>6. ASSUME NEW a PROVE Meaning(c, a) <=> a[r] = a[x] * a[y]
  <2>1. PICK X : X = [i \in 1 .. 2 |-> a[args[i]]]
    OBVIOUS
  <2>2. X[1] = a[x] /\ X[2] = a[y]
    <3>1. 1 \in 1 .. 2 /\ 2 \in 1 .. 2
      OBVIOUS
    <3>2. X[1] = a[args[1]] /\ X[2] = a[args[2]]
      BY <2>1, <3>1
    <3> QED BY <1>4, <3>2
  <2>3. Results(c, X) = {X[1] * X[2]}
    BY DEF Results
  <2> QED BY <1>3, <2>1, <2>2, <2>3, SMTT(40), ZenonT(40)
<1>7. PICK t : t = PropagateProduct(c, dom) /\ Returns(s0, t, x, y, r)
  BY <1>0, <1>3, <1>4, ProductReturns
<1>8. Fine(t) /\ Narrower(s0, t) /\ Keeps(s0, t, x, y, r)
  BY <1>7 DEF Returns, Reaches, Keeps
<1>9. ASSUME NEW a \in [GetVariables(c) -> Word], Meaning(c, a), Holds(a, c, s0)
      PROVE  t.ok /\ Holds(a, c, t)
  <2>1. PICK A, B \in Nat : A = a[x] /\ B = a[y] /\ a[r] = A * B
    <3>1. a[x] \in Nat /\ a[y] \in Nat
      BY <1>5, Words
    <3> QED BY <1>6, <1>9, <3>1
  <2>2. \A v \in {x, y, r} : s0.dom[v].min <= a[v] /\ a[v] <= s0.dom[v].max
    <3>1. ASSUME NEW v \in {x, y, r} PROVE s0.dom[v].min <= a[v] /\ a[v] <= s0.dom[v].max
      <4>1. s0.dom[v].min \in Nat /\ s0.dom[v].max \in Nat
        BY <1>1, DomainTyped DEF Fine
      <4>2. a[v] \in Interval(s0.dom[v])
        BY <1>5, <1>9 DEF Holds
      <4> QED BY <4>1, <4>2 DEF Interval
    <3> QED BY <3>1
  <2>3. Solves(s0, x, y, r, A, B)
    BY <2>1, <2>2 DEF Solves, Fits
  <2>4. t.ok /\ Solves(t, x, y, r, A, B)
    BY <1>1, <1>8, <2>3 DEF Keeps
  <2>5. \A v \in GetVariables(c) : t.dom[v].min <= a[v] /\ a[v] <= t.dom[v].max
    BY <1>5, <2>1, <2>4 DEF Solves, Fits
  <2> QED BY <1>8, <2>4, <2>5, HoldsIf
<1>10. ASSUME t.ok, \A v \in GetVariables(c) : dom[v].min = dom[v].max
       PROVE  Meaning(c, [v \in GetVariables(c) |-> dom[v].min])
  <2>1. PICK a : a = [v \in GetVariables(c) |-> dom[v].min]
    OBVIOUS
  <2>2. a[r] = dom[r].min /\ a[x] = dom[x].min /\ a[y] = dom[y].min
    BY <1>5, <2>1
  <2>3. dom[r].min = dom[x].min * dom[y].min
    BY <1>1, <1>5, <1>7, <1>10 DEF Returns, Settles
  <2> QED BY <1>6, <2>1, <2>2, <2>3
<1> QED BY <1>0, <1>7, <1>8, <1>9, <1>10 DEF Sound, Decides

-----------------------------------------------------------------------------
(* The calls *)

\* A call of any constraint that Model builds, from domains that are intervals
\* and have a size, is sound: it fails no assert, leaves intervals within those it
\* was given, loses no solution, and returns true from single values only if they
\* meet the constraint (Constraint.cpp, every propagate()).
THEOREM DispatchSound ==
  ASSUME CallsFit, NEW c \in Calls, NEW dom, Fine(Call(dom)), \A v \in Variable : Size(dom[v]) > 0
  PROVE  Sound(c, dom, Dispatch(c, dom)) /\ c.vars \in Seq(Variable)
PROOF
<1>1. /\ c.vars \in Seq(Variable)
      /\ c.kind = "Product" \/ IsInjective(c.vars)
      /\ \/ c.kind = "Product" /\ Len(c.vars) = 3
         \/ c.kind = "Sum" /\ Len(c.vars) \in 1 .. 2^Bits
         \/ c.kind \in {"Max", "Min"} /\ Len(c.vars) >= 2
         \/ c.kind \in {"Less", "LessOrEqual"} /\ Len(c.vars) = 2
         \/ /\ c.kind = "Call" /\ Len(c.vars) >= 1
            /\ c.limit \in Word
            /\ \A values \in [1 .. Len(c.vars) - 1 -> Word] :
                 Apply(c.f, values) = {} \/ \E n \in Word : Apply(c.f, values) = {n}
  BY DEF CallsFit
<1>2. CASE c.kind = "Product"
  <2>1. Dispatch(c, dom) = PropagateProduct(c, dom)
    BY <1>2 DEF Dispatch
  <2>2. Len(c.vars) = 3
    BY <1>1, <1>2
  <2> QED BY <1>1, <1>2, <2>1, <2>2, ProductSound
<1>3. CASE c.kind = "Sum"
  <2>1. Dispatch(c, dom) = PropagateSum(c, dom)
    BY <1>3 DEF Dispatch
  <2>2. Len(c.vars) \in 1 .. 2^Bits /\ IsInjective(c.vars)
    BY <1>1, <1>3
  <2> QED BY <1>1, <1>3, <2>1, <2>2, SumSound
<1>4. CASE c.kind = "Max"
  <2>1. Dispatch(c, dom) = PropagateMax(c, dom)
    BY <1>4 DEF Dispatch
  <2>2. Len(c.vars) >= 2 /\ IsInjective(c.vars)
    BY <1>1, <1>4
  <2> QED BY <1>1, <1>4, <2>1, <2>2, MaxSound
<1>5. CASE c.kind = "Min"
  <2>1. Dispatch(c, dom) = PropagateMin(c, dom)
    BY <1>5 DEF Dispatch
  <2>2. Len(c.vars) >= 2 /\ IsInjective(c.vars)
    BY <1>1, <1>5
  <2> QED BY <1>1, <1>5, <2>1, <2>2, MinSound
<1>6. CASE c.kind = "Less"
  <2>1. Dispatch(c, dom) = PropagateLess(c, dom)
    BY <1>6 DEF Dispatch
  <2>2. Len(c.vars) = 2 /\ IsInjective(c.vars)
    BY <1>1, <1>6
  <2> QED BY <1>1, <1>6, <2>1, <2>2, LessSound
<1>7. CASE c.kind = "LessOrEqual"
  <2>1. Dispatch(c, dom) = PropagateLessOrEqual(c, dom)
    BY <1>7 DEF Dispatch
  <2>2. Len(c.vars) = 2 /\ IsInjective(c.vars)
    BY <1>1, <1>7
  <2> QED BY <1>1, <1>7, <2>1, <2>2, LessOrEqualSound
<1>8. CASE c.kind = "Call"
  <2>1. Dispatch(c, dom) = PropagateCall(c, dom)
    BY <1>8 DEF Dispatch
  <2>2. /\ Len(c.vars) >= 1 /\ IsInjective(c.vars) /\ c.limit \in Word
        /\ \A values \in [1 .. Len(c.vars) - 1 -> Word] :
             Apply(c.f, values) = {} \/ \E n \in Word : Apply(c.f, values) = {n}
    BY <1>1, <1>8
  <2>3. Sound(c, dom, PropagateCall(c, dom))
    BY <1>1, <1>8, <2>2, CallSound
  <2> QED BY <1>1, <2>1, <2>3
<1> QED BY <1>1, <1>2, <1>3, <1>4, <1>5, <1>6, <1>7, <1>8

\* What is left, after any number of calls, of the domains at the first
IInv ==
  /\ constraint \in Calls /\ entry \in Domains /\ calls \in 0 .. MaxCalls
  /\ Fine(Call(entry)) /\ \A v \in Variable : Size(entry[v]) > 0
  /\ Fine(outcome) /\ Narrower(Call(entry), outcome)
  /\ \A a \in [GetVariables(constraint) -> Word] :
       Meaning(constraint, a) /\ Holds(a, constraint, Call(entry)) =>
         outcome.ok /\ Holds(a, constraint, outcome)
  /\ calls > 0 => Decides(constraint, entry, outcome)

LEMMA InitiallyFine ==
  ASSUME CallsFit, Init
  PROVE  IInv
PROOF
<1>1. PICK d \in [GetVariables(constraint) -> Inputs] :
        entry = [v \in Variable |-> IF v \in GetVariables(constraint) THEN d[v] ELSE Free]
  BY DEF Init
<1>2. PICK w \in Nat : w = 2^Bits /\ w >= 2 /\ Word = 0 .. w - 1
  BY Words
<1>3. Free \in Domain /\ Free.min <= Free.max /\ Size(Free) > 0
  <2>1. Free \in Domain /\ Free.min = 0 /\ Free.max = 0
    BY <1>2 DEF Free, Domain
  <2>2. Free.min <= Free.max /\ Free.max - Free.min + 1 < 2^Bits
    BY <1>2, <2>1
  <2> QED BY <2>1, <2>2, Sizes
<1>4. ASSUME NEW v \in Variable
      PROVE  entry[v] \in Domain /\ entry[v].min <= entry[v].max /\ Size(entry[v]) > 0
  <2>1. CASE v \in GetVariables(constraint)
    <3>1. entry[v] \in Inputs
      BY <1>1, <2>1
    <3> QED BY <3>1 DEF CallsFit
  <2>2. CASE v \notin GetVariables(constraint)
    BY <1>1, <1>3, <2>2
  <2> QED BY <2>1, <2>2
<1>5. entry \in Domains
  BY <1>1, <1>4 DEF Domains
<1>6. Fine(Call(entry))
  BY <1>4, <1>5 DEF Fine, Call, PropState
<1>7. Narrower(Call(entry), Call(entry))
  BY <1>6, FailIs
<1>8. outcome = Call(entry) /\ calls = 0 /\ constraint \in Calls /\ Call(entry).ok
  BY DEF Init, Call
<1> QED BY <1>4, <1>5, <1>6, <1>7, <1>8 DEF IInv, MaxCalls

\* Domains that leave one value are not narrowed further.
LEMMA NarrowedSingles ==
  ASSUME NEW t, NEW u, Fine(t), Fine(u), Narrower(t, u), NEW v \in Variable
  PROVE  /\ t.dom[v].min = t.dom[v].max =>
              u.dom[v].min = t.dom[v].min /\ u.dom[v].max = t.dom[v].min
         /\ Size(t.dom[v]) > 0 => Size(u.dom[v]) > 0
PROOF
<1>1. /\ t.dom[v].min \in Nat /\ t.dom[v].max \in Nat /\ t.dom[v] \in Domain
      /\ u.dom[v].min \in Nat /\ u.dom[v].max \in Nat /\ u.dom[v] \in Domain
  BY DomainTyped DEF Fine
<1>2. /\ t.dom[v].min <= t.dom[v].max /\ u.dom[v].min <= u.dom[v].max
      /\ t.dom[v].min <= u.dom[v].min /\ u.dom[v].max <= t.dom[v].max
  BY DEF Fine, Narrower
<1>3. ASSUME Size(t.dom[v]) > 0 PROVE Size(u.dom[v]) > 0
  <2>1. t.dom[v].max - t.dom[v].min + 1 < 2^Bits
    BY <1>1, <1>2, <1>3, Sizes
  <2>2. u.dom[v].max - u.dom[v].min + 1 < 2^Bits
    <3>1. PICK w \in Nat : w = 2^Bits
      BY Words
    <3> QED BY <1>1, <1>2, <2>1, <3>1
  <2> QED BY <1>1, <1>2, <2>2, Sizes
<1> QED BY <1>1, <1>2, <1>3

LEMMA CallKeepsFine ==
  ASSUME CallsFit, IInv, PropagateAgain
  PROVE  IInv'
PROOF
<1>1. PICK c, t, u : c = constraint /\ t = outcome /\ u = outcome'
  OBVIOUS
<1>2. PICK s : s = Call(entry) /\ s.dom = entry
  <2>1. Call(entry).dom = entry
    BY DEF Call
  <2> QED BY <2>1
<1>3. /\ c \in Calls /\ entry \in Domains /\ Fine(s) /\ Fine(t) /\ Narrower(s, t)
      /\ \A v \in Variable : Size(entry[v]) > 0
      /\ \A a \in [GetVariables(c) -> Word] :
           Meaning(c, a) /\ Holds(a, c, s) => t.ok /\ Holds(a, c, t)
  BY <1>1, <1>2 DEF IInv
<1>4. u = Dispatch(c, t.dom) /\ t.ok /\ constraint' = c /\ entry' = entry
  BY <1>1 DEF PropagateAgain
<1>5. PICK m : m = Call(t.dom) /\ m.dom = t.dom /\ Fine(m)
  <2>1. Fine(Call(t.dom)) /\ Call(t.dom).dom = t.dom
    BY <1>3 DEF Fine, Call, PropState
  <2> QED BY <2>1
<1>6. \A v \in Variable : Size(t.dom[v]) > 0
  BY <1>2, <1>3, NarrowedSingles
<1>7. Sound(c, t.dom, u) /\ c.vars \in Seq(Variable)
  BY <1>3, <1>4, <1>5, <1>6, DispatchSound
<1>8. \A v \in GetVariables(c) : v \in Variable
  BY <1>7 DEF GetVariables, ToSet
<1>9. /\ Fine(u) /\ Narrower(m, u)
      /\ \A a \in [GetVariables(c) -> Word] :
           Meaning(c, a) /\ Holds(a, c, m) => u.ok /\ Holds(a, c, u)
      /\ u.ok /\ (\A v \in GetVariables(c) : t.dom[v].min = t.dom[v].max) =>
           Meaning(c, [v \in GetVariables(c) |-> t.dom[v].min])
  BY <1>5, <1>7 DEF Sound, Decides
<1>10. Narrower(s, u)
  <2>1. Narrower(t, u)
    BY <1>5, <1>9 DEF Narrower
  <2> QED BY <1>3, <1>9, <2>1, NarrowerTrans
<1>11. ASSUME NEW a \in [GetVariables(c) -> Word], Meaning(c, a), Holds(a, c, s)
       PROVE  u.ok /\ Holds(a, c, u)
  <2>1. Holds(a, c, t)
    BY <1>3, <1>11
  <2>2. Holds(a, c, m)
    BY <1>5, <2>1 DEF Holds
  <2> QED BY <1>9, <1>11, <2>2
<1>12. ASSUME u.ok, \A v \in GetVariables(c) : entry[v].min = entry[v].max
       PROVE  Meaning(c, [v \in GetVariables(c) |-> entry[v].min])
  <2>1. \A v \in GetVariables(c) : t.dom[v].min = entry[v].min /\ t.dom[v].max = entry[v].min
    BY <1>2, <1>3, <1>8, <1>12, NarrowedSingles
  <2>2. [v \in GetVariables(c) |-> t.dom[v].min] = [v \in GetVariables(c) |-> entry[v].min]
    BY <2>1
  <2> QED BY <1>9, <1>12, <2>1, <2>2
<1>13. Decides(c, entry, u)
  BY <1>2, <1>11, <1>12 DEF Decides
<1>14. calls' \in 0 .. MaxCalls
  BY DEF IInv, PropagateAgain, MaxCalls
<1> QED BY <1>1, <1>2, <1>3, <1>4, <1>9, <1>10, <1>11, <1>13, <1>14 DEF IInv

LEMMA FineNarrowsSoundly ==
  ASSUME CallsFit, IInv
  PROVE  NarrowsSoundly
PROOF
<1>1. constraint.vars \in Seq(Variable)
  BY DEF IInv, CallsFit
<1>2. \A v \in GetVariables(constraint) : v \in Variable
  BY <1>1 DEF GetVariables, ToSet
<1>3. TypeOK /\ AssertsHold
  BY DEF IInv, TypeOK, AssertsHold, Fine
<1>4. ASSUME NEW a \in Candidates(entry), Meaning(constraint, a)
      PROVE  /\ outcome.ok
             /\ \A v \in GetVariables(constraint) : a[v] \in Interval(outcome.dom[v])
  <2>1. \A v \in GetVariables(constraint) : a[v] \in Interval(entry[v])
    BY DEF Candidates
  <2>2. PICK s : s = Call(entry) /\ s.dom = entry /\ s \in PropState
    BY DEF IInv, Call, Fine
  <2>3. ASSUME NEW v \in GetVariables(constraint) PROVE a[v] \in Word
    <3>1. /\ entry[v].min \in Nat /\ entry[v].max \in Nat
          /\ entry[v].min \in Word /\ entry[v].max \in Word
      BY <1>2, <2>2, DomainTyped
    <3>2. PICK w \in Nat : Word = 0 .. w - 1
      BY Words
    <3>3. a[v] \in entry[v].min .. entry[v].max
      BY <2>1 DEF Interval
    <3> QED BY <3>1, <3>2, <3>3
  <2>4. a \in [GetVariables(constraint) -> Word]
    BY <2>3 DEF Candidates
  <2>5. Holds(a, constraint, Call(entry))
    BY <2>1, <2>2 DEF Holds
  <2>6. outcome.ok /\ Holds(a, constraint, outcome)
    BY <1>4, <2>4, <2>5 DEF IInv
  <2> QED BY <2>6 DEF Holds
<1> QED BY <1>3, <1>4 DEF NarrowsSoundly, NoSolutionLost

LEMMA FineDecides ==
  ASSUME CallsFit, IInv
  PROVE  DecidesAssignment
PROOF
<1> SUFFICES ASSUME calls > 0, \A v \in GetVariables(constraint) : Size(entry[v]) = 1
             PROVE  outcome.ok <=> Meaning(constraint, [v \in GetVariables(constraint) |-> entry[v].min])
  BY DEF DecidesAssignment
<1>1. constraint.vars \in Seq(Variable)
  BY DEF IInv, CallsFit
<1>2. \A v \in GetVariables(constraint) : v \in Variable
  BY <1>1 DEF GetVariables, ToSet
<1>3. PICK s : s = Call(entry) /\ s.dom = entry /\ Fine(s) /\ s \in PropState
  BY DEF IInv, Call, Fine
<1>4. ASSUME NEW v \in GetVariables(constraint)
      PROVE  entry[v].min = entry[v].max /\ entry[v].min \in Word /\ entry[v].min \in Interval(entry[v])
  <2>1. /\ entry[v].min \in Nat /\ entry[v].max \in Nat
        /\ entry[v].min \in Word /\ entry[v] \in Domain
    BY <1>2, <1>3, DomainTyped
  <2>2. entry[v].min <= entry[v].max
    BY <1>2, <1>3 DEF Fine
  <2>3. Size(entry[v]) = entry[v].max - entry[v].min + 1
    BY <2>1, <2>2, Sizes
  <2>4. entry[v].min = entry[v].max
    BY <2>1, <2>3
  <2> QED BY <2>1, <2>4 DEF Interval
<1>5. PICK a : a = [v \in GetVariables(constraint) |-> entry[v].min]
  OBVIOUS
<1>6. a \in [GetVariables(constraint) -> Word] /\ Holds(a, constraint, Call(entry))
  BY <1>3, <1>4, <1>5 DEF Holds
<1>7. Decides(constraint, entry, outcome)
  BY DEF IInv
<1>8. outcome.ok => Meaning(constraint, a)
  BY <1>4, <1>5, <1>7 DEF Decides
<1>9. Meaning(constraint, a) => outcome.ok
  BY <1>6, <1>7 DEF Decides
<1> QED BY <1>5, <1>8, <1>9

LEMMA CallsStayFine ==
  ASSUME CallsFit
  PROVE  Spec => []IInv
PROOF
<1>1. Init => IInv
  BY InitiallyFine
<1>2. IInv /\ [Next]_vars => IInv'
  <2> SUFFICES ASSUME IInv, [Next]_vars PROVE IInv'
    OBVIOUS
  <2>1. CASE PropagateAgain
    BY <2>1, CallKeepsFine
  <2>2. CASE UNCHANGED vars
    BY <2>2 DEF IInv, vars
  <2> QED BY <2>1, <2>2 DEF Next
<1> QED BY <1>1, <1>2, PTL DEF Spec

\* A call of any constraint that Model builds, from any domains, narrows domains,
\* keeps them intervals, loses no assignment that meets the constraint and fails no
\* assert; and so does a second call (Constraint.cpp, every propagate()).
THEOREM CallsNarrowSoundly == CallsFit /\ Spec => []NarrowsSoundly
PROOF
<1> SUFFICES ASSUME CallsFit PROVE Spec => []NarrowsSoundly
  OBVIOUS
<1>1. Spec => []IInv
  BY CallsStayFine
<1>2. IInv => NarrowsSoundly
  BY FineNarrowsSoundly
<1> QED BY <1>1, <1>2, PTL

\* Where every variable of a constraint has one value, propagate() returns true
\* exactly when the values meet the constraint.
THEOREM CallsDecideAssignments == CallsFit /\ Spec => []DecidesAssignment
PROOF
<1> SUFFICES ASSUME CallsFit PROVE Spec => []DecidesAssignment
  OBVIOUS
<1>1. Spec => []IInv
  BY CallsStayFine
<1>2. IInv => DecidesAssignment
  BY FineDecides
<1> QED BY <1>1, <1>2, PTL
=============================================================================
