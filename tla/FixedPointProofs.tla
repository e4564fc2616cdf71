-------------------------- MODULE FixedPointProofs --------------------------
(***************************************************************************)
(* That propagate() of every constraint computes a fixed point: from the   *)
(* domains that a successful call leaves, a call succeeds and changes      *)
(* nothing.  Per constraint, a lemma ...Rests says what the domains are to *)
(* be like for that, and ...Settled that a call leaves them so.            *)
(***************************************************************************)
EXTENDS ConstraintProofs

\* The state from which a call of the domains that t has left starts
LEMMA CalledAgain ==
  ASSUME NEW t, Fine(t)
  PROVE  /\ Fine(Call(t.dom)) /\ Call(t.dom).dom = t.dom /\ Call(t.dom).ok
         /\ Call(t.dom) \in PropState /\ Call(t.dom).touched = <<>>
PROOF BY DEF Fine, Call, PropState

\* A bound that does not tighten the domain is not set.
LEMMA Untouched ==
  ASSUME NEW t \in PropState, NEW v \in Variable, NEW n \in Int
  PROVE  /\ n >= t.dom[v].max => LowerMax(t, v, n) = t
         /\ n <= t.dom[v].min => RaiseMin(t, v, n) = t
PROOF
<1>1. t.dom[v].min \in Nat /\ t.dom[v].max \in Nat
  BY DomainTyped
<1> QED BY <1>1 DEF LowerMax, RaiseMin

-----------------------------------------------------------------------------
(* LessOrEqual and Less *)

LEMMA Between ==
  ASSUME NEW w \in Nat, NEW a \in Nat, NEW b \in 0 .. w - 1, a < b
  PROVE  /\ a + 1 \in 0 .. w - 1 /\ b - 1 \in 0 .. w - 1
         /\ b - 1 \in Int /\ a <= b - 1
OBVIOUS

LEMMA LessOrEqualRests ==
  ASSUME NEW c, NEW dom, NEW l \in Variable, NEW r \in Variable,
         l = c.vars[1], r = c.vars[2], Fine(Call(dom)),
         dom[l].min <= dom[r].min, dom[l].max <= dom[r].max
  PROVE  PropagateLessOrEqual(c, dom) = Call(dom)
PROOF
<1>1. PICK s0 : s0 = Call(dom) /\ s0.dom = dom /\ s0 \in PropState
  BY DEF Call, Fine
<1>2. /\ dom[l].min \in Nat /\ dom[l].max \in Nat /\ dom[l].min <= dom[l].max
      /\ dom[r].min \in Nat /\ dom[r].max \in Nat
  BY <1>1, DomainTyped DEF Fine
<1>3. RaiseMin(s0, r, dom[l].min) = s0 /\ LowerMax(s0, l, dom[r].max) = s0
  BY <1>1, <1>2, Untouched
<1>4. ~ (dom[l].min > dom[r].max)
  BY <1>2
<1> QED BY <1>1, <1>3, <1>4 DEF PropagateLessOrEqual

LEMMA LessOrEqualSettled ==
  ASSUME NEW c, c.kind = "LessOrEqual", c.vars \in Seq(Variable), Len(c.vars) = 2,
         IsInjective(c.vars), NEW dom, Fine(Call(dom)),
         NEW t, t = PropagateLessOrEqual(c, dom), Fine(t), t.ok
  PROVE  PropagateLessOrEqual(c, t.dom) = Call(t.dom)
PROOF
<1>1. PICK s0 : s0 = Call(dom) /\ s0.dom = dom /\ Fine(s0)
  BY DEF Call
<1>2. PICK l, r \in Variable : l = c.vars[1] /\ r = c.vars[2] /\ l # r
  BY TwoVariables
<1>3. /\ s0.dom[l].min \in Nat /\ s0.dom[l].max \in Nat /\ s0.dom[l].min <= s0.dom[l].max
      /\ s0.dom[r].min \in Nat /\ s0.dom[r].max \in Nat
  BY <1>1, DomainTyped DEF Fine
<1>4. ~ (s0.dom[l].min > s0.dom[r].max)
  <2>1. ASSUME s0.dom[l].min > s0.dom[r].max PROVE FALSE
    <3>1. t = Fail(s0)
      BY <1>1, <1>2, <2>1 DEF PropagateLessOrEqual
    <3> QED BY <1>1, <3>1, FailIs
  <2> QED BY <2>1
<1>5. PICK s : s = RaiseMin(s0, r, s0.dom[l].min)
  OBVIOUS
<1>6. t = LowerMax(s, l, s.dom[r].max)
  BY <1>1, <1>2, <1>4, <1>5 DEF PropagateLessOrEqual
<1>7. /\ Fine(s) /\ s.dom[r].max = s0.dom[r].max
      /\ s.dom[r].min = IF s0.dom[l].min > s0.dom[r].min THEN s0.dom[l].min ELSE s0.dom[r].min
      /\ \A w \in Variable : w # r => s.dom[w] = s0.dom[w]
  <2>1. s0.dom[l].min \in Int /\ s0.dom[l].min <= s0.dom[r].max
    BY <1>3, <1>4
  <2> QED BY <1>1, <1>5, <2>1, RaiseMinIs
<1>8. /\ t.dom[l].min = s.dom[l].min
      /\ t.dom[l].max = IF s.dom[r].max < s.dom[l].max THEN s.dom[r].max ELSE s.dom[l].max
      /\ \A w \in Variable : w # l => t.dom[w] = s.dom[w]
  <2>1. s.dom[r].max \in Int /\ s.dom[r].max >= s.dom[l].min
    BY <1>2, <1>3, <1>4, <1>7, SMTT(40)
  <2>2. PICK m \in Int : m = s.dom[r].max /\ m >= s.dom[l].min
    BY <2>1
  <2>3. Fine(s) /\ t = LowerMax(s, l, m)
    BY <1>6, <1>7, <2>2
  <2>4. LET u == LowerMax(s, l, m)
        IN  /\ Fine(u) /\ u.ok = s.ok /\ Narrower(s, u)
            /\ u.dom[l].min = s.dom[l].min
            /\ u.dom[l].max = IF m < s.dom[l].max THEN m ELSE s.dom[l].max
            /\ \A w \in Variable : w # l => u.dom[w] = s.dom[w]
    BY <2>2, <2>3, LowerMaxIs, ZenonT(40)
  <2> QED BY <2>2, <2>3, <2>4
<1>9. t.dom[l].min <= t.dom[r].min /\ t.dom[l].max <= t.dom[r].max
  <2>1. s.dom[l] = s0.dom[l] /\ t.dom[r] = s.dom[r]
    BY <1>2, <1>7, <1>8
  <2> QED BY <1>3, <1>7, <1>8, <2>1
<1>10. Fine(Call(t.dom))
  BY CalledAgain
<1>11. PICK d : d = t.dom
  OBVIOUS
<1>12. /\ l = c.vars[1] /\ r = c.vars[2] /\ Fine(Call(d))
      /\ d[l].min <= d[r].min /\ d[l].max <= d[r].max
  BY <1>2, <1>9, <1>10, <1>11
<1> QED BY <1>2, <1>11, <1>12, LessOrEqualRests, Zenon

LEMMA LessRests ==
  ASSUME NEW c, NEW dom, NEW l \in Variable, NEW r \in Variable,
         l = c.vars[1], r = c.vars[2], Fine(Call(dom)),
         dom[l].min < dom[r].min, dom[l].max < dom[r].max
  PROVE  PropagateLess(c, dom) = Call(dom)
PROOF
<1>1. PICK s0 : s0 = Call(dom) /\ s0.dom = dom /\ s0 \in PropState
  BY DEF Call, Fine
<1>2. /\ dom[l].min \in Nat /\ dom[l].max \in Nat /\ dom[l].min <= dom[l].max
      /\ dom[r].min \in Nat /\ dom[r].max \in Nat /\ dom[r].min \in Word /\ dom[r].max \in Word
  BY <1>1, DomainTyped DEF Fine
<1>3. AsWord(dom[l].min + 1) = dom[l].min + 1 /\ AsWord(dom[r].max - 1) = dom[r].max - 1
  <2>1. PICK w \in Nat : Word = 0 .. w - 1
    BY Words
  <2>2. dom[l].min + 1 \in Word
    <3>1. dom[r].min \in 0 .. w - 1
      BY <1>2, <2>1
    <3> QED BY <1>2, <2>1, <3>1, Between
  <2>3. dom[r].max - 1 \in Word
    <3>1. dom[r].max \in 0 .. w - 1
      BY <1>2, <2>1
    <3> QED BY <1>2, <2>1, <3>1, Between
  <2> QED BY <2>2, <2>3, Words
<1>4. PICK a, b \in Int : a = dom[l].min + 1 /\ b = dom[r].max - 1
  BY <1>2
<1>5. RaiseMin(s0, r, a) = s0 /\ LowerMax(s0, l, b) = s0
  <2>1. a <= s0.dom[r].min /\ b >= s0.dom[l].max
    BY <1>1, <1>2, <1>4
  <2> QED BY <1>1, <2>1, Untouched
<1>6. ~ (dom[l].min >= dom[r].max)
  BY <1>2
<1>7. PropagateLess(c, dom) =
        LET u == RaiseMin(s0, r, AsWord(dom[l].min + 1))
        IN  LowerMax(u, l, AsWord(u.dom[r].max - 1))
  BY <1>1, <1>6 DEF PropagateLess
<1> QED BY <1>1, <1>3, <1>4, <1>5, <1>7

LEMMA LessSettled ==
  ASSUME NEW c, c.kind = "Less", c.vars \in Seq(Variable), Len(c.vars) = 2,
         IsInjective(c.vars), NEW dom, Fine(Call(dom)),
         NEW t, t = PropagateLess(c, dom), Fine(t), t.ok
  PROVE  PropagateLess(c, t.dom) = Call(t.dom)
PROOF
<1>1. PICK s0 : s0 = Call(dom) /\ s0.dom = dom /\ Fine(s0)
  BY DEF Call
<1>2. PICK l, r \in Variable : l = c.vars[1] /\ r = c.vars[2] /\ l # r
  BY TwoVariables
<1>3. /\ s0.dom[l].min \in Nat /\ s0.dom[l].max \in Nat /\ s0.dom[l].min <= s0.dom[l].max
      /\ s0.dom[r].min \in Nat /\ s0.dom[r].max \in Nat /\ s0.dom[r].max \in Word
  BY <1>1, DomainTyped DEF Fine
<1>4. ~ (s0.dom[l].min >= s0.dom[r].max)
  <2>1. ASSUME s0.dom[l].min >= s0.dom[r].max PROVE FALSE
    <3>1. t = Fail(s0)
      BY <1>1, <1>2, <2>1 DEF PropagateLess
    <3> QED BY <1>1, <3>1, FailIs
  <2> QED BY <2>1
<1>5. /\ AsWord(s0.dom[l].min + 1) = s0.dom[l].min + 1
      /\ AsWord(s0.dom[r].max - 1) = s0.dom[r].max - 1
  <2>1. PICK w \in Nat : Word = 0 .. w - 1
    BY Words
  <2>2. s0.dom[l].min + 1 \in Word /\ s0.dom[r].max - 1 \in Word
    <3>1. s0.dom[r].max \in 0 .. w - 1
      BY <1>3, <2>1
    <3>2. s0.dom[l].min < s0.dom[r].max
      BY <1>3, <1>4
    <3> QED BY <1>3, <2>1, <3>1, <3>2, Between
  <2> QED BY <2>2, Words
<1>6. PICK s : s = RaiseMin(s0, r, s0.dom[l].min + 1)
  OBVIOUS
<1>7. /\ Fine(s) /\ s.dom[r].max = s0.dom[r].max
      /\ s.dom[r].min = IF s0.dom[l].min + 1 > s0.dom[r].min THEN s0.dom[l].min + 1
                                                             ELSE s0.dom[r].min
      /\ \A w \in Variable : w # r => s.dom[w] = s0.dom[w]
  <2>1. s0.dom[l].min + 1 \in Int /\ s0.dom[l].min + 1 <= s0.dom[r].max
    BY <1>3, <1>4
  <2> QED BY <1>1, <1>6, <2>1, RaiseMinIs
<1>8. t = LowerMax(s, l, s.dom[r].max - 1)
  <2>1. PropagateLess(c, dom) =
          LET u == RaiseMin(s0, r, AsWord(s0.dom[l].min + 1))
          IN  LowerMax(u, l, AsWord(u.dom[r].max - 1))
    BY <1>1, <1>2, <1>4 DEF PropagateLess
  <2> QED BY <1>5, <1>6, <1>7, <2>1
<1>9. /\ t.dom[l].min = s.dom[l].min
      /\ t.dom[l].max = IF s.dom[r].max - 1 < s.dom[l].max THEN s.dom[r].max - 1
                                                          ELSE s.dom[l].max
      /\ \A w \in Variable : w # l => t.dom[w] = s.dom[w]
  <2>1. s.dom[r].max - 1 \in Int /\ s.dom[r].max - 1 >= s.dom[l].min
    <3>1. s.dom[l].min = s0.dom[l].min /\ s.dom[r].max = s0.dom[r].max
      BY <1>2, <1>7
    <3>2. PICK p, q \in Nat : p = s0.dom[l].min /\ q = s0.dom[r].max
      BY <1>3
    <3>3. ~ (p >= q)
      BY <1>4, <3>2
    <3>4. q - 1 \in Int /\ q - 1 >= p
      BY <3>3
    <3> QED BY <3>1, <3>2, <3>4
  <2>2. PICK m \in Int : m = s.dom[r].max - 1 /\ m >= s.dom[l].min
    BY <2>1
  <2>3. Fine(s) /\ t = LowerMax(s, l, m)
    BY <1>7, <1>8, <2>2
  <2>4. LET u == LowerMax(s, l, m)
        IN  /\ Fine(u) /\ u.ok = s.ok /\ Narrower(s, u)
            /\ u.dom[l].min = s.dom[l].min
            /\ u.dom[l].max = IF m < s.dom[l].max THEN m ELSE s.dom[l].max
            /\ \A w \in Variable : w # l => u.dom[w] = s.dom[w]
    BY <2>2, <2>3, LowerMaxIs, ZenonT(40)
  <2> QED BY <2>2, <2>3, <2>4
<1>10. t.dom[l].min < t.dom[r].min /\ t.dom[l].max < t.dom[r].max
  <2>1. s.dom[l] = s0.dom[l] /\ t.dom[r] = s.dom[r]
    BY <1>2, <1>7, <1>9
  <2> QED BY <1>3, <1>7, <1>9, <2>1, SMTT(40)
<1>11. Fine(Call(t.dom))
  BY CalledAgain
<1>12. PICK d : d = t.dom
  OBVIOUS
<1>13. /\ l = c.vars[1] /\ r = c.vars[2] /\ Fine(Call(d))
      /\ d[l].min < d[r].min /\ d[l].max < d[r].max
  BY <1>2, <1>10, <1>11, <1>12
<1> QED BY <1>2, <1>12, <1>13, LessRests, Zenon

-----------------------------------------------------------------------------
(* Max, Min and Call: operands that are within the bound are not clipped.  *)

LEMMA ClipMaxRests ==
  ASSUME NEW s, Fine(s), NEW args \in Seq(Variable), NEW bound \in Int,
         \A i \in DOMAIN args : s.dom[args[i]].max <= bound
  PROVE  ClipMax(s, args, bound) = s
PROOF
<1>1. PICK n \in Nat : n = Len(args) /\ DOMAIN args = 1 .. n
  OBVIOUS
<1>2. s \in PropState /\ \A i \in 1 .. n : args[i] \in Variable
  BY <1>1 DEF Fine
<1>3. PICK h \in [0 .. n -> PropState] : LeadsMax(h, n, s, args, bound)
  <2>1. s \in PropState /\ args \in Seq(Variable) /\ bound \in Int /\ n \in Nat /\ n = Len(args)
    BY <1>1, <1>2
  <2> QED BY <2>1, ClipMaxSteps, Zenon
<1>4. ASSUME NEW i \in 1 .. n PROVE StepMax(s, args[i], bound) = s
  <2>1. PICK v \in Variable : v = args[i]
    BY <1>2
  <2>2. s.dom[v].min \in Nat /\ s.dom[v].max \in Nat /\ s.dom[v].min <= s.dom[v].max
    BY <1>2, DomainTyped DEF Fine
  <2>3. bound >= s.dom[v].max /\ ~ (s.dom[v].min > bound)
    BY <1>1, <2>1, <2>2
  <2>4. LowerMax(s, v, bound) = s
    BY <1>2, <2>3, Untouched
  <2> QED BY <2>1, <2>3, <2>4 DEF StepMax
<1> DEFINE T == {i \in 0 .. n : h[i] = s}
<1>5. 0 \in T
  BY <1>3 DEF LeadsMax
<1>6. ASSUME NEW i \in 1 .. n, i - 1 \in T PROVE i \in T
  <2>1. h[i] = StepMax(h[i - 1], args[i], bound) /\ h[i - 1] = s
    BY <1>3, <1>6 DEF LeadsMax
  <2> QED BY <1>4, <2>1
<1>7. n \in T
  <2>1. 0 .. n \subseteq T
    <3> HIDE DEF T
    <3> QED BY <1>5, <1>6, UpTo
  <2> QED BY <2>1
<1> QED BY <1>3, <1>7 DEF LeadsMax

LEMMA ClipMinRests ==
  ASSUME NEW s, Fine(s), NEW args \in Seq(Variable), NEW bound \in Int,
         \A i \in DOMAIN args : s.dom[args[i]].min >= bound
  PROVE  ClipMin(s, args, bound) = s
PROOF
<1>1. PICK n \in Nat : n = Len(args) /\ DOMAIN args = 1 .. n
  OBVIOUS
<1>2. s \in PropState /\ \A i \in 1 .. n : args[i] \in Variable
  BY <1>1 DEF Fine
<1>3. PICK h \in [0 .. n -> PropState] : LeadsMin(h, n, s, args, bound)
  <2>1. s \in PropState /\ args \in Seq(Variable) /\ bound \in Int /\ n \in Nat /\ n = Len(args)
    BY <1>1, <1>2
  <2> QED BY <2>1, ClipMinSteps, Zenon
<1>4. ASSUME NEW i \in 1 .. n PROVE StepMin(s, args[i], bound) = s
  <2>1. PICK v \in Variable : v = args[i]
    BY <1>2
  <2>2. s.dom[v].min \in Nat /\ s.dom[v].max \in Nat /\ s.dom[v].min <= s.dom[v].max
    BY <1>2, DomainTyped DEF Fine
  <2>3. bound <= s.dom[v].min /\ ~ (s.dom[v].max < bound)
    BY <1>1, <2>1, <2>2
  <2>4. RaiseMin(s, v, bound) = s
    BY <1>2, <2>3, Untouched
  <2> QED BY <2>1, <2>3, <2>4 DEF StepMin
<1> DEFINE T == {i \in 0 .. n : h[i] = s}
<1>5. 0 \in T
  BY <1>3 DEF LeadsMin
<1>6. ASSUME NEW i \in 1 .. n, i - 1 \in T PROVE i \in T
  <2>1. h[i] = StepMin(h[i - 1], args[i], bound) /\ h[i - 1] = s
    BY <1>3, <1>6 DEF LeadsMin
  <2> QED BY <1>4, <2>1
<1>7. n \in T
  <2>1. 0 .. n \subseteq T
    <3> HIDE DEF T
    <3> QED BY <1>5, <1>6, UpTo
  <2> QED BY <2>1
<1> QED BY <1>3, <1>7 DEF LeadsMin

\* The bounds of the operands, as lists, and their extrema
Operands(t, n, args, A, B) ==
  /\ A \in [1 .. n -> Nat] /\ B \in [1 .. n -> Nat]
  /\ \A i \in 1 .. n : A[i] = t.dom[args[i]].min /\ B[i] = t.dom[args[i]].max /\ A[i] <= B[i]

Extrema(t, n, args, A, B) ==
  /\ \E k \in 1 .. n : Max({t.dom[v].min : v \in ToSet(args)}) = A[k] /\ \A j \in 1 .. n : A[j] <= A[k]
  /\ \E k \in 1 .. n : Max({t.dom[v].max : v \in ToSet(args)}) = B[k] /\ \A j \in 1 .. n : B[j] <= B[k]
  /\ \E k \in 1 .. n : Min({t.dom[v].min : v \in ToSet(args)}) = A[k] /\ \A j \in 1 .. n : A[k] <= A[j]
  /\ \E k \in 1 .. n : Min({t.dom[v].max : v \in ToSet(args)}) = B[k] /\ \A j \in 1 .. n : B[k] <= B[j]

LEMMA OperandsAre ==
  ASSUME NEW n \in Nat, NEW args \in Seq(Variable), n = Len(args), NEW t, Fine(t)
  PROVE  /\ \E A, B : Operands(t, n, args, A, B)
         /\ n # 0 => \A A, B : Operands(t, n, args, A, B) => Extrema(t, n, args, A, B)
PROOF
<1>1. DOMAIN args = 1 .. n /\ t \in PropState /\ \A i \in 1 .. n : args[i] \in Variable
  BY DEF Fine
<1>2. ASSUME NEW i \in 1 .. n
      PROVE  /\ t.dom[args[i]].min \in Nat /\ t.dom[args[i]].max \in Nat
             /\ t.dom[args[i]].min <= t.dom[args[i]].max
  <2>1. PICK v \in Variable : v = args[i]
    BY <1>1
  <2> QED BY <1>1, <2>1, DomainTyped DEF Fine
<1>3. PICK A, B : /\ A = [i \in 1 .. n |-> t.dom[args[i]].min]
                  /\ B = [i \in 1 .. n |-> t.dom[args[i]].max]
  OBVIOUS
<1>4. Operands(t, n, args, A, B)
  BY <1>2, <1>3 DEF Operands
<1>5. ASSUME n # 0, NEW C, NEW D, Operands(t, n, args, C, D) PROVE Extrema(t, n, args, C, D)
  <2>1. n \in Nat \ {0}
    BY <1>5
  <2>2. \A i \in 1 .. n : C[i] = t.dom[args[i]].min /\ D[i] = t.dom[args[i]].max
    BY <1>5 DEF Operands
  <2>3. /\ \E i \in 1 .. n : /\ Max({t.dom[v].min : v \in ToSet(args)}) = t.dom[args[i]].min
                              /\ \A j \in 1 .. n : t.dom[args[j]].min <= t.dom[args[i]].min
        /\ \E i \in 1 .. n : /\ Max({t.dom[v].max : v \in ToSet(args)}) = t.dom[args[i]].max
                              /\ \A j \in 1 .. n : t.dom[args[j]].max <= t.dom[args[i]].max
        /\ \E i \in 1 .. n : /\ Min({t.dom[v].min : v \in ToSet(args)}) = t.dom[args[i]].min
                              /\ \A j \in 1 .. n : t.dom[args[i]].min <= t.dom[args[j]].min
        /\ \E i \in 1 .. n : /\ Min({t.dom[v].max : v \in ToSet(args)}) = t.dom[args[i]].max
                              /\ \A j \in 1 .. n : t.dom[args[i]].max <= t.dom[args[j]].max
    BY <1>1, <2>1, Bounds, Zenon
  <2>4. \E k \in 1 .. n : Max({t.dom[v].min : v \in ToSet(args)}) = C[k] /\ \A j \in 1 .. n : C[j] <= C[k]
    <3>1. PICK k \in 1 .. n : /\ Max({t.dom[v].min : v \in ToSet(args)}) = t.dom[args[k]].min
                              /\ \A j \in 1 .. n : t.dom[args[j]].min <= t.dom[args[k]].min
      BY <2>3
    <3> QED BY <2>2, <3>1, ZenonT(40)
  <2>5. \E k \in 1 .. n : Max({t.dom[v].max : v \in ToSet(args)}) = D[k] /\ \A j \in 1 .. n : D[j] <= D[k]
    <3>1. PICK k \in 1 .. n : /\ Max({t.dom[v].max : v \in ToSet(args)}) = t.dom[args[k]].max
                              /\ \A j \in 1 .. n : t.dom[args[j]].max <= t.dom[args[k]].max
      BY <2>3
    <3> QED BY <2>2, <3>1, Zenon
  <2>6. \E k \in 1 .. n : Min({t.dom[v].min : v \in ToSet(args)}) = C[k] /\ \A j \in 1 .. n : C[k] <= C[j]
    <3>1. PICK k \in 1 .. n : /\ Min({t.dom[v].min : v \in ToSet(args)}) = t.dom[args[k]].min
                              /\ \A j \in 1 .. n : t.dom[args[k]].min <= t.dom[args[j]].min
      BY <2>3
    <3> QED BY <2>2, <3>1, ZenonT(40)
  <2>7. \E k \in 1 .. n : Min({t.dom[v].max : v \in ToSet(args)}) = D[k] /\ \A j \in 1 .. n : D[k] <= D[j]
    <3>1. PICK k \in 1 .. n : /\ Min({t.dom[v].max : v \in ToSet(args)}) = t.dom[args[k]].max
                              /\ \A j \in 1 .. n : t.dom[args[k]].max <= t.dom[args[j]].max
      BY <2>3
    <3> QED BY <2>2, <3>1, ZenonT(40)
  <2> QED BY <2>4, <2>5, <2>6, <2>7, Zenon DEF Extrema
<1> QED BY <1>4, <1>5

LEMMA MaxRests ==
  ASSUME NEW c, NEW dom, Fine(Call(dom)), NEW n \in Nat \ {0}, NEW r \in Variable,
         NEW args \in Seq(Variable), Takes(c, n, r, args),
         \A i \in 1 .. n : dom[args[i]].min <= dom[r].min /\ dom[args[i]].max <= dom[r].max,
         \E i \in 1 .. n : dom[args[i]].max >= dom[r].max
  PROVE  PropagateMax(c, dom) = Call(dom)
PROOF
<1>1. PICK s : s = Call(dom) /\ s.dom = dom /\ Fine(s) /\ s.ok /\ s \in PropState
  BY DEF Call, Fine
<1>2. /\ r = Head(c.vars) /\ args = Tail(c.vars) /\ n = Len(args) /\ DOMAIN args = 1 .. n
      /\ \A i \in 1 .. n : args[i] \in Variable
  BY DEF Takes
<1>3. PICK low, upper \in Nat : low = s.dom[r].min /\ upper = s.dom[r].max /\ low <= upper
  BY <1>1, DomainTyped DEF Fine
<1>4. PICK A, B : Operands(s, n, args, A, B) /\ Extrema(s, n, args, A, B)
  BY <1>1, <1>2, OperandsAre
<1>5. /\ A \in [1 .. n -> Nat] /\ B \in [1 .. n -> Nat]
      /\ \A i \in 1 .. n : A[i] <= low /\ B[i] <= upper
      /\ \E i \in 1 .. n : B[i] >= upper
  <2>1. \A i \in 1 .. n : A[i] = dom[args[i]].min /\ B[i] = dom[args[i]].max
    BY <1>1, <1>4, Zenon DEF Operands
  <2>2. ASSUME NEW i \in 1 .. n PROVE A[i] <= low /\ B[i] <= upper
    <3>1. dom[args[i]].min <= dom[r].min /\ dom[args[i]].max <= dom[r].max
      OBVIOUS
    <3> QED BY <1>1, <1>3, <2>1, <3>1
  <2>3. PICK i \in 1 .. n : dom[args[i]].max >= dom[r].max
    OBVIOUS
  <2>4. B[i] >= upper
    BY <1>1, <1>3, <2>1, <2>3
  <2>5. A \in [1 .. n -> Nat] /\ B \in [1 .. n -> Nat]
    BY <1>4 DEF Operands
  <2> QED BY <2>2, <2>4, <2>5
<1>6. PICK maxLower, maxUpper : /\ maxLower = Max({s.dom[v].min : v \in ToSet(args)})
                                /\ maxUpper = Max({s.dom[v].max : v \in ToSet(args)})
  OBVIOUS
<1>7. ClipMax(s, args, upper) = s
  <2>1. ASSUME NEW i \in DOMAIN args PROVE s.dom[args[i]].max <= upper
    <3>1. i \in 1 .. n /\ B[i] = s.dom[args[i]].max
      BY <1>2, <1>4, Zenon DEF Operands
    <3> QED BY <1>5, <3>1
  <2>2. Fine(s) /\ args \in Seq(Variable) /\ upper \in Int
    BY <1>1, <1>3
  <2> QED BY <2>1, <2>2, ClipMaxRests, Zenon
<1>8. /\ \E k \in 1 .. n : maxLower = A[k]
      /\ \E k \in 1 .. n : maxUpper = B[k] /\ \A j \in 1 .. n : B[j] <= B[k]
  BY <1>4, <1>6 DEF Extrema
<1>9. maxLower \in Nat /\ maxUpper \in Nat /\ maxLower <= low /\ maxUpper = upper
  <2>1. PICK k \in 1 .. n : maxLower = A[k]
    BY <1>8
  <2>2. PICK l \in 1 .. n : maxUpper = B[l] /\ \A j \in 1 .. n : B[j] <= B[l]
    BY <1>8
  <2>3. PICK i \in 1 .. n : B[i] >= upper
    BY <1>5
  <2>4. A[k] \in Nat /\ A[k] <= low /\ B[l] \in Nat /\ B[l] <= upper /\ B[i] \in Nat /\ B[i] <= B[l]
    BY <1>5, <2>2
  <2> QED BY <1>3, <2>1, <2>2, <2>3, <2>4, SMTT(40)
<1>10. Checked(s, upper >= maxLower) = s
  <2>1. (upper >= maxLower) \in BOOLEAN /\ upper >= maxLower
    BY <1>3, <1>9, SMTT(40)
  <2> QED BY <1>1, <2>1, CheckedIs
<1>11. RaiseMin(LowerMax(s, r, maxUpper), r, maxLower) = s
  <2>1. LowerMax(s, r, maxUpper) = s
    BY <1>1, <1>3, <1>9, Untouched
  <2>2. RaiseMin(s, r, maxLower) = s
    BY <1>1, <1>3, <1>9, Untouched
  <2> QED BY <2>1, <2>2
<1>12. ~ (low > maxUpper)
  BY <1>3, <1>9, SMTT(40), ZenonT(40)
<1>13. PropagateMax(c, dom) =
         IF ~ s.ok THEN s
         ELSE IF low > maxUpper THEN Fail(Checked(s, upper >= maxLower))
              ELSE RaiseMin(LowerMax(Checked(s, upper >= maxLower), r, maxUpper), r, maxLower)
  BY <1>1, <1>2, <1>3, <1>6, <1>7, MaxIs
<1> QED BY <1>1, <1>10, <1>11, <1>12, <1>13

LEMMA MaxSettled ==
  ASSUME NEW c, c.kind = "Max", c.vars \in Seq(Variable), Len(c.vars) >= 2,
         IsInjective(c.vars), NEW dom, Fine(Call(dom)),
         NEW t, t = PropagateMax(c, dom), Fine(t), t.ok
  PROVE  PropagateMax(c, t.dom) = Call(t.dom)
PROOF
<1>1. PICK s0 : s0 = Call(dom) /\ s0.ok /\ s0.dom = dom /\ Fine(s0) /\ s0 \in PropState
  BY DEF Call, Fine
<1>2. PICK n \in Nat \ {0}, r \in Variable, args \in Seq(Variable) : Takes(c, n, r, args)
  <2>1. c.kind \in HasResult /\ Len(c.vars) >= 1
    BY DEF HasResult
  <2>2. PICK n \in Nat, r \in Variable, args \in Seq(Variable) : Takes(c, n, r, args)
    BY <2>1, WithResult
  <2>3. n # 0
    BY <2>2 DEF Takes
  <2> QED BY <2>2, <2>3
<1>3. /\ r = Head(c.vars) /\ args = Tail(c.vars) /\ n = Len(args) /\ DOMAIN args = 1 .. n
      /\ r \notin ToSet(args) /\ \A i \in 1 .. n : args[i] \in Variable /\ args[i] \in ToSet(args)
  BY <1>2 DEF Takes
<1>4. PICK low, upper \in Nat : low = s0.dom[r].min /\ upper = s0.dom[r].max /\ low <= upper
  BY <1>1, DomainTyped DEF Fine
<1>5. PICK s : s = ClipMax(s0, args, upper)
  OBVIOUS
<1>6. /\ Fine(s) /\ s \in PropState /\ s.dom[r] = s0.dom[r]
      /\ s.ok <=> \A i \in DOMAIN args : s0.dom[args[i]].min <= upper
      /\ \A v \in Variable : s.dom[v].min = s0.dom[v].min
      /\ s.ok => \A i \in DOMAIN args :
           s.dom[args[i]].max = IF upper < s0.dom[args[i]].max THEN upper
                                                               ELSE s0.dom[args[i]].max
  <2>1. Fine(s0) /\ s0.ok /\ args \in Seq(Variable) /\ upper \in Int
    BY <1>1
  <2>2. /\ Fine(s)
        /\ s.ok <=> \A i \in DOMAIN args : s0.dom[args[i]].min <= upper
        /\ \A v \in Variable : s.dom[v].min = s0.dom[v].min
        /\ s.ok => \A i \in DOMAIN args :
             s.dom[args[i]].max = IF upper < s0.dom[args[i]].max THEN upper
                                                                 ELSE s0.dom[args[i]].max
        /\ \A v \in Variable : v \notin ToSet(args) => s.dom[v] = s0.dom[v]
    BY <1>5, <2>1, ClipMaxIs, SMTT(60)
  <2> QED BY <1>3, <2>2 DEF Fine
<1>7. PICK maxLower, maxUpper : /\ maxLower = Max({s.dom[v].min : v \in ToSet(args)})
                                /\ maxUpper = Max({s.dom[v].max : v \in ToSet(args)})
  OBVIOUS
<1>8. t = IF ~ s.ok THEN s
          ELSE IF low > maxUpper THEN Fail(Checked(s, upper >= maxLower))
               ELSE RaiseMin(LowerMax(Checked(s, upper >= maxLower), r, maxUpper), r, maxLower)
  BY <1>1, <1>3, <1>4, <1>5, <1>7, MaxIs, ZenonT(40)
<1>9. s.ok
  BY <1>8
<1>10. PICK A, B : Operands(s, n, args, A, B) /\ Extrema(s, n, args, A, B)
  BY <1>3, <1>6, OperandsAre
<1>11. /\ A \in [1 .. n -> Nat] /\ B \in [1 .. n -> Nat]
       /\ \A i \in 1 .. n : A[i] <= B[i] /\ B[i] <= upper
  <2>1. ASSUME NEW i \in 1 .. n PROVE B[i] <= upper
    <3>1. PICK v \in Variable : v = args[i]
      BY <1>3
    <3>2. s0.dom[v].max \in Nat
      BY <1>1, DomainTyped
    <3>3. s.dom[v].max = IF upper < s0.dom[v].max THEN upper ELSE s0.dom[v].max
      BY <1>3, <1>6, <1>9, <3>1
    <3>4. B[i] = s.dom[v].max
      BY <1>10, <3>1 DEF Operands
    <3> QED BY <3>2, <3>3, <3>4
  <2> QED BY <1>10, <2>1 DEF Operands
<1>12. /\ \E k \in 1 .. n : maxLower = A[k] /\ \A j \in 1 .. n : A[j] <= A[k]
       /\ \E k \in 1 .. n : maxUpper = B[k] /\ \A j \in 1 .. n : B[j] <= B[k]
  BY <1>7, <1>10 DEF Extrema
<1>13. maxLower \in Nat /\ maxUpper \in Nat /\ maxLower <= maxUpper /\ maxUpper <= upper
  BY <1>11, <1>12
<1>14. Checked(s, upper >= maxLower) = s
  <2>1. (upper >= maxLower) \in BOOLEAN /\ upper >= maxLower
    BY <1>13
  <2> QED BY <1>6, <2>1, CheckedIs
<1>15. ~ (low > maxUpper)
  <2>1. ASSUME low > maxUpper PROVE FALSE
    <3>1. t = Fail(s)
      BY <1>8, <1>9, <1>14, <2>1
    <3> QED BY <1>6, <3>1, FailIs
  <2> QED BY <2>1
<1>16. PICK u : u = LowerMax(s, r, maxUpper)
  OBVIOUS
<1>17. t = RaiseMin(u, r, maxLower)
  BY <1>8, <1>9, <1>14, <1>15, <1>16
<1>18. /\ Fine(u) /\ u.dom[r].min = low /\ u.dom[r].max = maxUpper
       /\ \A w \in Variable : w # r => u.dom[w] = s.dom[w]
  <2>1. Fine(s) /\ r \in Variable /\ maxUpper \in Int /\ maxUpper >= s.dom[r].min
    BY <1>4, <1>6, <1>13, <1>15
  <2>2. /\ Fine(u) /\ u.dom[r].min = s.dom[r].min
        /\ u.dom[r].max = IF maxUpper < s.dom[r].max THEN maxUpper ELSE s.dom[r].max
        /\ \A w \in Variable : w # r => u.dom[w] = s.dom[w]
    BY <1>16, <2>1, LowerMaxIs
  <2> QED BY <1>4, <1>6, <1>13, <2>2
<1>19. /\ t.dom[r].max = maxUpper
       /\ t.dom[r].min = IF maxLower > low THEN maxLower ELSE low
       /\ \A w \in Variable : w # r => t.dom[w] = u.dom[w]
  <2>1. Fine(u) /\ r \in Variable /\ maxLower \in Int /\ maxLower <= u.dom[r].max
    BY <1>13, <1>18
  <2> QED BY <1>17, <1>18, <2>1, RaiseMinIs
<1>20. PICK d : d = t.dom /\ Fine(Call(d))
  BY CalledAgain
<1>21. ASSUME NEW i \in 1 .. n PROVE d[args[i]].min = A[i] /\ d[args[i]].max = B[i]
  <2>1. args[i] \in Variable /\ args[i] # r
    BY <1>3
  <2>2. d[args[i]] = s.dom[args[i]]
    BY <1>18, <1>19, <1>20, <2>1
  <2> QED BY <1>10, <2>2 DEF Operands
<1>22. \A i \in 1 .. n : d[args[i]].min <= d[r].min /\ d[args[i]].max <= d[r].max
  <2>1. d[r].max = maxUpper /\ d[r].min >= maxLower /\ d[r].min \in Nat
    <3>1. d[r].max = maxUpper /\ d[r].min = IF maxLower > low THEN maxLower ELSE low
      BY <1>19, <1>20
    <3> QED BY <1>4, <1>13, <3>1
  <2>2. ASSUME NEW i \in 1 .. n PROVE A[i] <= d[r].min /\ B[i] <= d[r].max
    <3>1. PICK k \in 1 .. n : maxLower = A[k] /\ \A j \in 1 .. n : A[j] <= A[k]
      BY <1>12
    <3>2. PICK l \in 1 .. n : maxUpper = B[l] /\ \A j \in 1 .. n : B[j] <= B[l]
      BY <1>12
    <3>3. A[i] \in Nat /\ B[i] \in Nat /\ A[i] <= maxLower /\ B[i] <= maxUpper
      BY <1>11, <3>1, <3>2
    <3> QED BY <1>13, <2>1, <3>3
  <2> QED BY <1>21, <2>2
<1>23. \E i \in 1 .. n : d[args[i]].max >= d[r].max
  <2>1. PICK k \in 1 .. n : maxUpper = B[k]
    BY <1>12
  <2>2. d[args[k]].max = d[r].max
    BY <1>19, <1>20, <1>21, <2>1
  <2> QED BY <1>13, <1>19, <1>20, <2>2
<1>24. PropagateMax(c, d) = Call(d)
  BY <1>2, <1>20, <1>22, <1>23, MaxRests, Zenon
<1> QED BY <1>20, <1>24

LEMMA MinRests ==
  ASSUME NEW c, NEW dom, Fine(Call(dom)), NEW n \in Nat \ {0}, NEW r \in Variable,
         NEW args \in Seq(Variable), Takes(c, n, r, args),
         \A i \in 1 .. n : dom[args[i]].min >= dom[r].min /\ dom[args[i]].max >= dom[r].max,
         \E i \in 1 .. n : dom[args[i]].min <= dom[r].min
  PROVE  PropagateMin(c, dom) = Call(dom)
PROOF
<1>1. PICK s : s = Call(dom) /\ s.dom = dom /\ Fine(s) /\ s.ok /\ s \in PropState
  BY DEF Call, Fine
<1>2. /\ r = Head(c.vars) /\ args = Tail(c.vars) /\ n = Len(args) /\ DOMAIN args = 1 .. n
      /\ \A i \in 1 .. n : args[i] \in Variable
  BY DEF Takes
<1>3. PICK lower, high \in Nat : lower = s.dom[r].min /\ high = s.dom[r].max /\ lower <= high
  BY <1>1, DomainTyped DEF Fine
<1>4. PICK A, B : Operands(s, n, args, A, B) /\ Extrema(s, n, args, A, B)
  BY <1>1, <1>2, OperandsAre
<1>5. /\ A \in [1 .. n -> Nat] /\ B \in [1 .. n -> Nat]
      /\ \A i \in 1 .. n : A[i] >= lower /\ B[i] >= high
      /\ \E i \in 1 .. n : A[i] <= lower
  <2>1. \A i \in 1 .. n : A[i] = dom[args[i]].min /\ B[i] = dom[args[i]].max
    BY <1>1, <1>4, Zenon DEF Operands
  <2>2. ASSUME NEW i \in 1 .. n PROVE A[i] >= lower /\ B[i] >= high
    <3>1. dom[args[i]].min >= dom[r].min /\ dom[args[i]].max >= dom[r].max
      OBVIOUS
    <3> QED BY <1>1, <1>3, <2>1, <3>1
  <2>3. PICK i \in 1 .. n : dom[args[i]].min <= dom[r].min
    OBVIOUS
  <2>4. A[i] <= lower
    BY <1>1, <1>3, <2>1, <2>3
  <2>5. A \in [1 .. n -> Nat] /\ B \in [1 .. n -> Nat]
    BY <1>4 DEF Operands
  <2> QED BY <2>2, <2>4, <2>5
<1>6. PICK minLower, minUpper : /\ minLower = Min({s.dom[v].min : v \in ToSet(args)})
                                /\ minUpper = Min({s.dom[v].max : v \in ToSet(args)})
  OBVIOUS
<1>7. ClipMin(s, args, lower) = s
  <2>1. ASSUME NEW i \in DOMAIN args PROVE s.dom[args[i]].min >= lower
    <3>1. i \in 1 .. n /\ A[i] = s.dom[args[i]].min
      BY <1>2, <1>4, Zenon DEF Operands
    <3> QED BY <1>5, <3>1
  <2>2. Fine(s) /\ args \in Seq(Variable) /\ lower \in Int
    BY <1>1, <1>3
  <2> QED BY <2>1, <2>2, ClipMinRests, Zenon
<1>8. /\ \E k \in 1 .. n : minLower = A[k] /\ \A j \in 1 .. n : A[k] <= A[j]
      /\ \E k \in 1 .. n : minUpper = B[k]
  BY <1>4, <1>6 DEF Extrema
<1>9. minLower \in Nat /\ minUpper \in Nat /\ minLower = lower /\ minUpper >= high
  <2>1. PICK k \in 1 .. n : minLower = A[k] /\ \A j \in 1 .. n : A[k] <= A[j]
    BY <1>8
  <2>2. PICK l \in 1 .. n : minUpper = B[l]
    BY <1>8
  <2>3. PICK i \in 1 .. n : A[i] <= lower
    BY <1>5
  <2>4. A[k] \in Nat /\ A[k] >= lower /\ B[l] \in Nat /\ B[l] >= high /\ A[i] \in Nat /\ A[k] <= A[i]
    BY <1>5, <2>1
  <2>5. PICK o, p, q \in Nat : o = A[k] /\ p = A[i] /\ q = B[l]
    BY <2>4
  <2>6. o >= lower /\ o <= p /\ p <= lower /\ q >= high
    BY <2>3, <2>4, <2>5
  <2>7. o = lower
    BY <1>3, <2>6, SMTT(40)
  <2> QED BY <2>1, <2>2, <2>5, <2>6, <2>7
<1>10. Checked(s, lower <= minUpper) = s
  <2>1. (lower <= minUpper) \in BOOLEAN /\ lower <= minUpper
    BY <1>3, <1>9, SMTT(40)
  <2> QED BY <1>1, <2>1, CheckedIs
<1>11. RaiseMin(LowerMax(s, r, minUpper), r, minLower) = s
  <2>1. LowerMax(s, r, minUpper) = s
    BY <1>1, <1>3, <1>9, Untouched
  <2>2. RaiseMin(s, r, minLower) = s
    BY <1>1, <1>3, <1>9, Untouched
  <2> QED BY <2>1, <2>2
<1>12. ~ (high < minLower)
  BY <1>3, <1>9
<1>13. PropagateMin(c, dom) =
         IF ~ s.ok THEN s
         ELSE IF high < minLower THEN Fail(Checked(s, lower <= minUpper))
              ELSE RaiseMin(LowerMax(Checked(s, lower <= minUpper), r, minUpper), r, minLower)
  BY <1>1, <1>2, <1>3, <1>6, <1>7, MinIs
<1> QED BY <1>1, <1>10, <1>11, <1>12, <1>13

LEMMA MinSettled ==
  ASSUME NEW c, c.kind = "Min", c.vars \in Seq(Variable), Len(c.vars) >= 2,
         IsInjective(c.vars), NEW dom, Fine(Call(dom)),
         NEW t, t = PropagateMin(c, dom), Fine(t), t.ok
  PROVE  PropagateMin(c, t.dom) = Call(t.dom)
PROOF
<1>1. PICK s0 : s0 = Call(dom) /\ s0.ok /\ s0.dom = dom /\ Fine(s0) /\ s0 \in PropState
  BY DEF Call, Fine
<1>2. PICK n \in Nat \ {0}, r \in Variable, args \in Seq(Variable) : Takes(c, n, r, args)
  <2>1. c.kind \in HasResult /\ Len(c.vars) >= 1
    BY DEF HasResult
  <2>2. PICK n \in Nat, r \in Variable, args \in Seq(Variable) : Takes(c, n, r, args)
    BY <2>1, WithResult
  <2>3. n # 0
    BY <2>2 DEF Takes
  <2> QED BY <2>2, <2>3
<1>3. /\ r = Head(c.vars) /\ args = Tail(c.vars) /\ n = Len(args) /\ DOMAIN args = 1 .. n
      /\ r \notin ToSet(args) /\ \A i \in 1 .. n : args[i] \in Variable /\ args[i] \in ToSet(args)
  BY <1>2 DEF Takes
<1>4. PICK lower, high \in Nat : lower = s0.dom[r].min /\ high = s0.dom[r].max /\ lower <= high
  BY <1>1, DomainTyped DEF Fine
<1>5. PICK s : s = ClipMin(s0, args, lower)
  OBVIOUS
<1>6. /\ Fine(s) /\ s \in PropState /\ s.dom[r] = s0.dom[r]
      /\ s.ok => \A i \in DOMAIN args :
           s.dom[args[i]].min = IF lower > s0.dom[args[i]].min THEN lower
                                                               ELSE s0.dom[args[i]].min
  <2>1. Fine(s0) /\ s0.ok /\ args \in Seq(Variable) /\ lower \in Int
    BY <1>1
  <2>2. /\ Fine(s)
        /\ s.ok => \A i \in DOMAIN args :
             s.dom[args[i]].min = IF lower > s0.dom[args[i]].min THEN lower
                                                                 ELSE s0.dom[args[i]].min
        /\ \A v \in Variable : v \notin ToSet(args) => s.dom[v] = s0.dom[v]
    BY <1>5, <2>1, ClipMinIs, SMTT(60)
  <2> QED BY <1>3, <2>2 DEF Fine
<1>7. PICK minLower, minUpper : /\ minLower = Min({s.dom[v].min : v \in ToSet(args)})
                                /\ minUpper = Min({s.dom[v].max : v \in ToSet(args)})
  OBVIOUS
<1>8. t = IF ~ s.ok THEN s
          ELSE IF high < minLower THEN Fail(Checked(s, lower <= minUpper))
               ELSE RaiseMin(LowerMax(Checked(s, lower <= minUpper), r, minUpper), r, minLower)
  BY <1>1, <1>3, <1>4, <1>5, <1>7, MinIs, ZenonT(40)
<1>9. s.ok
  BY <1>8
<1>10. PICK A, B : Operands(s, n, args, A, B) /\ Extrema(s, n, args, A, B)
  BY <1>3, <1>6, OperandsAre
<1>11. /\ A \in [1 .. n -> Nat] /\ B \in [1 .. n -> Nat]
       /\ \A i \in 1 .. n : A[i] <= B[i] /\ A[i] >= lower
  <2>1. ASSUME NEW i \in 1 .. n PROVE A[i] >= lower
    <3>1. PICK v \in Variable : v = args[i]
      BY <1>3
    <3>2. s0.dom[v].min \in Nat
      BY <1>1, DomainTyped
    <3>3. s.dom[v].min = IF lower > s0.dom[v].min THEN lower ELSE s0.dom[v].min
      BY <1>3, <1>6, <1>9, <3>1
    <3>4. A[i] = s.dom[v].min
      BY <1>10, <3>1 DEF Operands
    <3> QED BY <3>2, <3>3, <3>4
  <2> QED BY <1>10, <2>1 DEF Operands
<1>12. /\ \E k \in 1 .. n : minLower = A[k] /\ \A j \in 1 .. n : A[k] <= A[j]
       /\ \E k \in 1 .. n : minUpper = B[k] /\ \A j \in 1 .. n : B[k] <= B[j]
  BY <1>7, <1>10 DEF Extrema
<1>13. minLower \in Nat /\ minUpper \in Nat /\ minLower <= minUpper /\ minLower >= lower
  <2>1. PICK k \in 1 .. n : minLower = A[k] /\ \A j \in 1 .. n : A[k] <= A[j]
    BY <1>12
  <2>2. PICK l \in 1 .. n : minUpper = B[l]
    BY <1>12
  <2>3. A[k] \in Nat /\ A[k] >= lower /\ A[l] \in Nat /\ B[l] \in Nat /\ A[l] <= B[l] /\ A[k] <= A[l]
    BY <1>11, <2>1
  <2> QED BY <2>1, <2>2, <2>3
<1>14. Checked(s, lower <= minUpper) = s
  <2>1. (lower <= minUpper) \in BOOLEAN /\ lower <= minUpper
    BY <1>13
  <2> QED BY <1>6, <2>1, CheckedIs
<1>15. ~ (high < minLower)
  <2>1. ASSUME high < minLower PROVE FALSE
    <3>1. t = Fail(s)
      BY <1>8, <1>9, <1>14, <2>1
    <3> QED BY <1>6, <3>1, FailIs
  <2> QED BY <2>1
<1>16. PICK u : u = LowerMax(s, r, minUpper)
  OBVIOUS
<1>17. t = RaiseMin(u, r, minLower)
  BY <1>8, <1>9, <1>14, <1>15, <1>16
<1>18. /\ Fine(u) /\ u.dom[r].min = lower
       /\ u.dom[r].max = IF minUpper < high THEN minUpper ELSE high
       /\ \A w \in Variable : w # r => u.dom[w] = s.dom[w]
  <2>1. Fine(s) /\ r \in Variable /\ minUpper \in Int /\ minUpper >= s.dom[r].min
    BY <1>4, <1>6, <1>13
  <2>2. /\ Fine(u) /\ u.dom[r].min = s.dom[r].min
        /\ u.dom[r].max = IF minUpper < s.dom[r].max THEN minUpper ELSE s.dom[r].max
        /\ \A w \in Variable : w # r => u.dom[w] = s.dom[w]
    BY <1>16, <2>1, LowerMaxIs
  <2> QED BY <1>4, <1>6, <1>13, <2>2
<1>19. /\ t.dom[r].max = u.dom[r].max
       /\ t.dom[r].min = IF minLower > lower THEN minLower ELSE lower
       /\ \A w \in Variable : w # r => t.dom[w] = u.dom[w]
  <2>1. Fine(u) /\ r \in Variable /\ minLower \in Int /\ minLower <= u.dom[r].max
    BY <1>4, <1>13, <1>15, <1>18
  <2> QED BY <1>17, <1>18, <2>1, RaiseMinIs
<1>20. PICK d : d = t.dom /\ Fine(Call(d))
  BY CalledAgain
<1>21. ASSUME NEW i \in 1 .. n PROVE d[args[i]].min = A[i] /\ d[args[i]].max = B[i]
  <2>1. args[i] \in Variable /\ args[i] # r
    BY <1>3
  <2>2. d[args[i]] = s.dom[args[i]]
    BY <1>18, <1>19, <1>20, <2>1
  <2> QED BY <1>10, <2>2 DEF Operands
<1>22. d[r].min = minLower /\ d[r].max \in Nat /\ d[r].max <= minUpper
  <2>1. d[r].min = IF minLower > lower THEN minLower ELSE lower
    BY <1>19, <1>20
  <2>2. d[r].max = IF minUpper < high THEN minUpper ELSE high
    BY <1>18, <1>19, <1>20
  <2> QED BY <1>4, <1>13, <2>1, <2>2
<1>23. \A i \in 1 .. n : d[args[i]].min >= d[r].min /\ d[args[i]].max >= d[r].max
  <2>1. ASSUME NEW i \in 1 .. n PROVE A[i] >= d[r].min /\ B[i] >= d[r].max
    <3>1. PICK k \in 1 .. n : minLower = A[k] /\ \A j \in 1 .. n : A[k] <= A[j]
      BY <1>12
    <3>2. PICK l \in 1 .. n : minUpper = B[l] /\ \A j \in 1 .. n : B[l] <= B[j]
      BY <1>12
    <3>3. A[i] \in Nat /\ B[i] \in Nat /\ A[i] >= minLower /\ B[i] >= minUpper
      BY <1>11, <1>13, <3>1, <3>2
    <3> QED BY <1>13, <1>22, <3>3
  <2> QED BY <1>21, <2>1
<1>24. \E i \in 1 .. n : d[args[i]].min <= d[r].min
  <2>1. PICK k \in 1 .. n : minLower = A[k]
    BY <1>12
  <2>2. d[args[k]].min = d[r].min
    BY <1>21, <1>22, <2>1
  <2> QED BY <1>13, <1>22, <2>2
<1>25. PropagateMin(c, d) = Call(d)
  BY <1>2, <1>20, <1>23, <1>24, MinRests, Zenon
<1> QED BY <1>20, <1>25

\* The result of a function that is called stays what it was called for.
LEMMA CallSettled ==
  ASSUME NEW c, c.kind = "Call", c.vars \in Seq(Variable), Len(c.vars) >= 1,
         IsInjective(c.vars), c.limit \in Word,
         \A values \in [1 .. Len(c.vars) - 1 -> Word] :
           Apply(c.f, values) = {} \/ \E n \in Word : Apply(c.f, values) = {n},
         NEW dom, Fine(Call(dom)), \A v \in Variable : Size(dom[v]) > 0,
         NEW t, t = PropagateCall(c, dom), Fine(t), t.ok
  PROVE  PropagateCall(c, t.dom) = Call(t.dom)
PROOF
<1>1. PICK s0 : s0 = Call(dom) /\ s0.ok /\ s0.dom = dom /\ Fine(s0) /\ s0 \in PropState
  BY DEF Call, Fine
<1>2. PICK n \in Nat, r \in Variable, args \in Seq(Variable) : Takes(c, n, r, args)
  <2>1. c.kind \in HasResult
    BY DEF HasResult
  <2> QED BY <2>1, WithResult
<1>3. /\ r = Head(c.vars) /\ args = Tail(c.vars) /\ n = Len(args) /\ DOMAIN args = 1 .. n
      /\ r \notin ToSet(args) /\ n = Len(c.vars) - 1
      /\ \A i \in 1 .. n : args[i] \in Variable /\ args[i] \in ToSet(args)
  BY <1>2 DEF Takes
<1>4. PICK bound \in Nat : bound = c.limit
  BY Words
<1>5. PICK s : s = ClipMax(s0, args, bound)
  OBVIOUS
<1>6. /\ Fine(s) /\ Narrower(s0, s) /\ s \in PropState
      /\ s.ok => \A i \in DOMAIN args :
           s.dom[args[i]].max = IF bound < s0.dom[args[i]].max THEN bound
                                                               ELSE s0.dom[args[i]].max
  <2>1. Fine(s0) /\ s0.ok /\ args \in Seq(Variable) /\ bound \in Int
    BY <1>1
  <2>2. /\ Fine(s) /\ Narrower(s0, s)
        /\ s.ok => \A i \in DOMAIN args :
             s.dom[args[i]].max = IF bound < s0.dom[args[i]].max THEN bound
                                                                 ELSE s0.dom[args[i]].max
    BY <1>5, <2>1, ClipMaxIs, SMTT(60)
  <2> QED BY <2>2 DEF Fine
<1>7. PICK x : x = Apply(c.f, [i \in DOMAIN args |-> s.dom[args[i]].min])
  OBVIOUS
<1>8. x = {} \/ \E k \in Word : x = {k}
  <2>1. ASSUME NEW i \in 1 .. n PROVE s.dom[args[i]].min \in Word
    <3>1. PICK v \in Variable : v = args[i]
      BY <1>3
    <3> QED BY <1>6, <3>1, DomainTyped
  <2>2. [i \in DOMAIN args |-> s.dom[args[i]].min] \in [1 .. Len(c.vars) - 1 -> Word]
    BY <1>3, <2>1
  <2> QED BY <1>7, <2>2
\* Clipping leaves the operands within the limit, and later steps do not touch them.
<1>9. ASSUME NEW d, Fine(Call(d)), s.ok, \A i \in 1 .. n : d[args[i]] = s.dom[args[i]]
      PROVE  ClipMax(Call(d), args, bound) = Call(d)
  <2>1. ASSUME NEW i \in DOMAIN args PROVE Call(d).dom[args[i]].max <= bound
    <3>1. PICK v \in Variable : v = args[i] /\ i \in 1 .. n
      BY <1>3
    <3>2. s0.dom[v].max \in Nat
      BY <1>1, DomainTyped
    <3>3. s.dom[v].max = IF bound < s0.dom[v].max THEN bound ELSE s0.dom[v].max
      BY <1>6, <1>9, <3>1
    <3>4. Call(d).dom[args[i]] = s.dom[v]
      BY <1>9, <3>1 DEF Call
    <3> QED BY <3>2, <3>3, <3>4
  <2>2. Fine(Call(d)) /\ args \in Seq(Variable) /\ bound \in Int
    BY <1>9
  <2> QED BY <2>1, <2>2, ClipMaxRests, Zenon
<1>10. ASSUME NEW d, s.ok, \A i \in 1 .. n : d[args[i]] = s.dom[args[i]], Fine(Call(d))
       PROVE  /\ CallGives(PropagateCall(c, d), c, r, args, Call(d))
              /\ Call(d).ok /\ Call(d).dom = d /\ ~ Call(d).fault
              /\ Assigned(Call(d), args) <=> Assigned(s, args)
              /\ Settled(Call(d), args) <=> Settled(s, args)
              /\ Apply(c.f, [i \in DOMAIN args |-> Call(d).dom[args[i]].min]) = x
  <2>1. PICK e : e = Call(d) /\ e.dom = d /\ e.ok /\ ~ e.fault
    <3>1. PICK e : e = Call(d)
      OBVIOUS
    <3>2. e.dom = d /\ e.ok
      BY <3>1 DEF Call
    <3>3. ~ e.fault
      BY <1>10, <3>1 DEF Fine
    <3> QED BY <3>1, <3>2, <3>3
  <2>2. \A v \in ToSet(args) : d[v] = s.dom[v]
    BY <1>3, <1>10, SMTT(40) DEF ToSet
  <2>3. e = ClipMax(Call(d), args, c.limit)
    BY <1>4, <1>9, <1>10, <2>1
  <2>4. CallGives(PropagateCall(c, d), c, r, args, e)
    BY <1>3, <2>3, CallIs, Zenon
  <2>5. Assigned(e, args) <=> Assigned(s, args)
    BY <2>1, <2>2 DEF Assigned
  <2>6. Settled(e, args) <=> Settled(s, args)
    BY <2>1, <2>2, SMTT(40) DEF Settled
  <2>7. [i \in DOMAIN args |-> e.dom[args[i]].min] = [i \in DOMAIN args |-> s.dom[args[i]].min]
    BY <1>3, <1>10, <2>1
  <2> QED BY <1>7, <2>1, <2>4, <2>5, <2>6, <2>7
<1>11. CallGives(t, c, r, args, s)
  <2>1. r = Head(c.vars) /\ args = Tail(c.vars) /\ s = ClipMax(Call(dom), args, c.limit)
    BY <1>1, <1>3, <1>4, <1>5
  <2> QED BY <2>1, CallIs, Zenon
<1>12. PICK checked : checked = Checked(s, Settled(s, args))
  OBVIOUS
<1>13. t = IF ~ s.ok \/ ~ Assigned(s, args) THEN s
           ELSE IF x \intersect Interval(s.dom[r]) = {} THEN Fail(checked)
           ELSE IF \A n_1 \in x : s.dom[r] = [min |-> n_1, max |-> n_1] THEN checked
           ELSE SetValue(checked, r, CHOOSE n_1 \in x : TRUE)
  BY <1>7, <1>11, <1>12 DEF CallGives
<1>14. s.ok
  BY <1>13
<1>15. PICK d : d = t.dom /\ Fine(Call(d))
  BY CalledAgain
<1>16. CASE ~ Assigned(s, args)
  <2>1. t = s
    BY <1>13, <1>16
  <2>2. CallGives(PropagateCall(c, d), c, r, args, Call(d)) /\ ~ Assigned(Call(d), args)
    BY <1>10, <1>14, <1>15, <1>16, <2>1
  <2> QED BY <1>15, <2>2 DEF CallGives
\* When the operands have values, so has the result.
<1>17. CASE Assigned(s, args)
  <2>1. Settled(s, args)
    <3>1. ASSUME NEW v \in ToSet(args) PROVE s.dom[v].min = s.dom[v].max
      <4>1. v \in Variable
        BY <1>3, <3>1 DEF ToSet
      <4>2. /\ s0.dom[v].min \in Nat /\ s0.dom[v].max \in Nat /\ s0.dom[v].min <= s0.dom[v].max
            /\ s.dom[v].min \in Nat /\ s.dom[v].max \in Nat /\ s.dom[v].min <= s.dom[v].max
            /\ s0.dom[v] \in Domain /\ s.dom[v] \in Domain
            /\ s0.dom[v].min <= s.dom[v].min /\ s.dom[v].max <= s0.dom[v].max
        BY <1>1, <1>6, <4>1, DomainTyped DEF Fine, Narrower
      <4>3. s0.dom[v].max - s0.dom[v].min + 1 < 2^Bits
        BY <1>1, <4>1, <4>2, Sizes
      <4>4. s.dom[v].max - s.dom[v].min + 1 < 2^Bits
        <5>1. PICK w \in Nat : w = 2^Bits
          BY Words
        <5>2. s0.dom[v].max - s0.dom[v].min + 1 < w
          BY <4>3, <5>1
        <5>3. PICK x0, y0, x1, y1 \in Nat : /\ x0 = s0.dom[v].min /\ y0 = s0.dom[v].max
                                           /\ x1 = s.dom[v].min /\ y1 = s.dom[v].max
          BY <4>2
        <5>4. x0 <= x1 /\ y1 <= y0 /\ y0 - x0 + 1 < w
          BY <4>2, <5>2, <5>3
        <5>5. y1 - x1 + 1 < w
          BY <5>1, <5>4
        <5> QED BY <5>1, <5>3, <5>5
      <4>5. Size(s.dom[v]) = s.dom[v].max - s.dom[v].min + 1
        BY <4>2, <4>4, Sizes
      <4>6. Size(s.dom[v]) <= 1
        BY <1>17, <3>1 DEF Assigned
      <4> QED BY <4>2, <4>5, <4>6
    <3> QED BY <3>1 DEF Settled
  <2>2. checked = s
    <3>1. Settled(s, args) \in BOOLEAN
      BY DEF Settled
    <3> QED BY <1>6, <1>12, <2>1, <3>1, CheckedIs
  <2>3. x \intersect Interval(s.dom[r]) # {}
    <3>1. ASSUME x \intersect Interval(s.dom[r]) = {} PROVE FALSE
      <4>1. t = Fail(s)
        BY <1>13, <1>14, <1>17, <2>2, <3>1
      <4> QED BY <1>6, <4>1, FailIs
    <3> QED BY <3>1
  <2>4. PICK k \in Word : x = {k} /\ k \in Interval(s.dom[r])
    BY <1>8, <2>3
  <2>5. d[r] = [min |-> k, max |-> k] /\ \A w \in Variable : w # r => d[w] = s.dom[w]
    <3>1. (CHOOSE j \in x : TRUE) = k
      BY <2>4
    <3>2. PICK e : e = [min |-> k, max |-> k]
      OBVIOUS
    <3>3. CASE s.dom[r] = e
      <4>1. t = s
        BY <1>13, <1>14, <1>17, <2>2, <2>3, <2>4, <3>2, <3>3
      <4> QED BY <1>15, <3>2, <3>3, <4>1
    <3>4. CASE s.dom[r] # e
      <4>1. t = SetDomain(s, r, e, k)
        BY <1>13, <1>14, <1>17, <2>2, <2>3, <2>4, <3>1, <3>2, <3>4 DEF SetValue
      <4>2. e \in Domain
        BY <2>4, <3>2 DEF Domain
      <4>3. t.dom[r] = e /\ \A w \in Variable : w # r => t.dom[w] = s.dom[w]
        BY <1>6, <4>1, <4>2, SetTyped
      <4> QED BY <1>15, <3>2, <4>3
    <3> QED BY <3>3, <3>4
  <2>6. \A i \in 1 .. n : d[args[i]] = s.dom[args[i]]
    BY <1>3, <2>5
  <2>7. PICK e : e = Call(d)
    OBVIOUS
  <2>8. /\ CallGives(PropagateCall(c, d), c, r, args, e)
        /\ e.ok /\ e.dom = d /\ ~ e.fault /\ Fine(e) /\ e \in PropState
        /\ Assigned(e, args) /\ Settled(e, args)
        /\ Apply(c.f, [i \in DOMAIN args |-> e.dom[args[i]].min]) = x
    BY <1>10, <1>14, <1>15, <1>17, <2>1, <2>6, <2>7 DEF Fine
  <2>9. Checked(e, Settled(e, args)) = e
    <3>1. Settled(e, args) \in BOOLEAN
      BY DEF Settled
    <3> QED BY <2>8, <3>1, CheckedIs
  <2>10. x \intersect Interval(e.dom[r]) # {}
    <3>1. k \in Interval(e.dom[r])
      <4>1. k \in Nat
        BY <2>4, Words
      <4> QED BY <2>5, <2>8, <4>1 DEF Interval
    <3> QED BY <2>4, <3>1
  <2>11. \A j \in x : e.dom[r] = [min |-> j, max |-> j]
    BY <2>4, <2>5, <2>8
  <2>12. PropagateCall(c, d) = e
    BY <2>8, <2>9, <2>10, <2>11 DEF CallGives
  <2> QED BY <1>15, <2>7, <2>12
<1> QED BY <1>16, <1>17

-----------------------------------------------------------------------------
(* Sum: arithmetic.  The terms of a sum over and above an amount *)

Termwise(n, f, g, e) ==
  /\ f \in [1 .. n -> Nat] /\ g \in [1 .. n -> Nat] /\ e \in [1 .. n -> Nat]
  /\ \A i \in 1 .. n : e[i] = f[i] + g[i]

LEMMA SumsAdd ==
  ASSUME NEW n \in Nat, NEW f, NEW g, NEW e, Termwise(n, f, g, e),
         NEW F, NEW G, NEW E, AddsUpTo(n, f, F), AddsUpTo(n, g, G), AddsUpTo(n, e, E)
  PROVE  F \in Nat /\ G \in Nat /\ E = F + G
PROOF
<1>0. /\ f \in [1 .. n -> Nat] /\ g \in [1 .. n -> Nat] /\ e \in [1 .. n -> Nat]
      /\ \A i \in 1 .. n : e[i] = f[i] + g[i]
  BY DEF Termwise
<1>1. PICK h : Adds(h, n, f, F)
  BY DEF AddsUpTo
<1>2. PICK k : Adds(k, n, g, G)
  BY DEF AddsUpTo
<1>3. PICK m : Adds(m, n, e, E)
  BY DEF AddsUpTo
<1>4. /\ h \in [0 .. n -> Nat] /\ h[0] = 0 /\ h[n] = F /\ \A i \in 1 .. n : h[i] = h[i - 1] + f[i]
      /\ k \in [0 .. n -> Nat] /\ k[0] = 0 /\ k[n] = G /\ \A i \in 1 .. n : k[i] = k[i - 1] + g[i]
      /\ m \in [0 .. n -> Nat] /\ m[0] = 0 /\ m[n] = E /\ \A i \in 1 .. n : m[i] = m[i - 1] + e[i]
  BY <1>1, <1>2, <1>3 DEF Adds
<1> DEFINE T == {i \in 0 .. n : m[i] = h[i] + k[i]}
<1>5. 0 \in T
  BY <1>4
<1>6. ASSUME NEW i \in 1 .. n, i - 1 \in T PROVE i \in T
  <2>1. h[i - 1] \in Nat /\ k[i - 1] \in Nat /\ m[i - 1] = h[i - 1] + k[i - 1]
    BY <1>4, <1>6
  <2>2. h[i] = h[i - 1] + f[i] /\ k[i] = k[i - 1] + g[i] /\ m[i] = m[i - 1] + e[i]
    BY <1>4
  <2>3. f[i] \in Nat /\ g[i] \in Nat /\ e[i] = f[i] + g[i]
    BY <1>0
  <2>4. PICK x, y, p, q \in Nat : x = h[i - 1] /\ y = k[i - 1] /\ p = f[i] /\ q = g[i]
    BY <2>1, <2>3
  <2>5. m[i] = (x + y) + (p + q) /\ h[i] = x + p /\ k[i] = y + q
    BY <2>1, <2>2, <2>3, <2>4
  <2>6. m[i] = h[i] + k[i]
    BY <2>5
  <2> QED BY <2>6
<1>7. n \in T
  <2>1. 0 .. n \subseteq T
    <3> HIDE DEF T
    <3> QED BY <1>5, <1>6, UpTo
  <2> QED BY <2>1
<1> QED BY <1>4, <1>7

\* The terms of w over and above d, themselves added up
Excess(n, w, d, X) ==
  /\ X \in [1 .. n -> Nat]
  /\ \A i \in 1 .. n : X[i] = IF w[i] > d THEN w[i] - d ELSE 0

\* Together they come to d less than the terms do, or to nothing; and so do
\* any but one of them.
LEMMA ExcessSum ==
  ASSUME NEW n \in Nat, NEW w \in [1 .. n -> Nat], NEW d \in Nat, NEW X, Excess(n, w, d, X),
         NEW W, NEW S, AddsUpTo(n, w, W), AddsUpTo(n, X, S)
  PROVE  /\ W \in Nat /\ S \in Nat
         /\ S = 0 \/ S <= W - d
         /\ \A i \in 1 .. n : S = X[i] \/ S - X[i] <= W - w[i] - d
PROOF
<1>1. PICK h : Adds(h, n, X, S)
  BY DEF AddsUpTo
<1>2. PICK k : Adds(k, n, w, W)
  BY DEF AddsUpTo
<1>3. /\ h \in [0 .. n -> Nat] /\ h[0] = 0 /\ h[n] = S /\ \A i \in 1 .. n : h[i] = h[i - 1] + X[i]
      /\ k \in [0 .. n -> Nat] /\ k[0] = 0 /\ k[n] = W /\ \A i \in 1 .. n : k[i] = k[i - 1] + w[i]
  BY <1>1, <1>2 DEF Adds
<1> DEFINE P(i) == /\ h[i] = 0 \/ h[i] <= k[i] - d
                   /\ \A j \in 1 .. i : /\ X[j] <= h[i] /\ w[j] <= k[i]
                                        /\ h[i] = X[j] \/ h[i] - X[j] <= k[i] - w[j] - d
           T == {i \in 0 .. n : P(i)}
<1>4. 0 \in T
  <2>1. 1 .. 0 = {}
    OBVIOUS
  <2> QED BY <1>3, <2>1
<1>5. ASSUME NEW i \in 1 .. n, i - 1 \in T PROVE i \in T
  <2>1. PICK m \in 0 .. n : m = i - 1 /\ 1 .. i = (1 .. m) \cup {i}
    OBVIOUS
  <2>2. PICK x, y \in Nat : x = h[m] /\ y = k[m]
    BY <1>3
  <2>3. PICK p, q \in Nat : p = X[i] /\ q = w[i] /\ (p = 0 \/ p = q - d)
    <3>1. X[i] \in Nat /\ w[i] \in Nat /\ X[i] = IF w[i] > d THEN w[i] - d ELSE 0
      BY DEF Excess
    <3> QED BY <3>1
  <2>a. p = 0 \/ p = q - d
    BY <2>3
  <2>4. h[i] = x + p /\ k[i] = y + q
    BY <1>3, <2>1, <2>2, <2>3
  <2>5. /\ x = 0 \/ x <= y - d
        /\ \A j \in 1 .. m : X[j] <= x /\ w[j] <= y /\ (x = X[j] \/ x - X[j] <= y - w[j] - d)
    BY <1>5, <2>1, <2>2
  <2>6. h[i] = 0 \/ h[i] <= k[i] - d
    <3>1. x = 0 \/ x <= y - d
      BY <2>5
    <3>2. x + p = 0 \/ x + p <= (y + q) - d
      BY <2>a, <3>1
    <3> QED BY <2>4, <3>2
  <2>7. ASSUME NEW j \in 1 .. i
        PROVE  /\ X[j] <= h[i] /\ w[j] <= k[i]
               /\ h[i] = X[j] \/ h[i] - X[j] <= k[i] - w[j] - d
    <3>1. CASE j = i
      <4>1. x = 0 \/ x <= y - d
        BY <2>5
      <4>2. /\ p <= x + p /\ q <= y + q
            /\ x + p = p \/ (x + p) - p <= (y + q) - q - d
        BY <2>a, <4>1
      <4> QED BY <2>3, <2>4, <3>1, <4>2
    <3>2. CASE j # i
      <4>1. j \in 1 .. m /\ j \in 1 .. n
        BY <2>1, <3>2
      <4>2. PICK a, b \in Nat : a = X[j] /\ b = w[j]
        BY <4>1 DEF Excess
      <4>3. a <= x /\ b <= y /\ (x = a \/ x - a <= y - b - d)
        BY <2>5, <4>1, <4>2
      <4>4. a <= x + p /\ b <= y + q
        BY <4>3
      <4>5. x + p = a \/ (x + p) - a <= (y + q) - b - d
        <5>1. CASE x = a
          BY <2>a, <4>3, <5>1
        <5>2. CASE x - a <= y - b - d
          BY <2>a, <4>3, <5>2
        <5> QED BY <4>3, <5>1, <5>2
      <4> QED BY <2>4, <4>2, <4>4, <4>5
    <3> QED BY <3>1, <3>2
  <2> QED BY <2>6, <2>7
<1>6. n \in T
  <2>1. 0 .. n \subseteq T
    <3> HIDE DEF T
    <3> QED BY <1>4, <1>5, UpTo
  <2> QED BY <2>1
<1> QED BY <1>3, <1>6

\* The bounds that a call gives operands of bounds L and H, with sums least and
\* most, under a result from a to b
SumBounds(n, L, H, least, most, a, b, P, Q) ==
  /\ P \in [1 .. n -> Nat] /\ Q \in [1 .. n -> Nat]
  /\ \A i \in 1 .. n :
       /\ P[i] = IF a - (most - H[i]) > L[i] THEN a - (most - H[i]) ELSE L[i]
       /\ Q[i] = IF b - (least - L[i]) < H[i] THEN b - (least - L[i]) ELSE H[i]

LEMMA Beyond ==
  ASSUME NEW g \in Nat, NEW D \in Nat PROVE (IF g > D THEN g - D ELSE 0) >= g - D
OBVIOUS

\* One operand's share of it: width g, taken down by y and up by x.
LEMMA RoomAbove ==
  ASSUME NEW least \in Nat, NEW W \in Nat, NEW a \in Nat, NEW b \in Nat, a <= b,
         NEW D \in Nat, D = least + W - a, NEW E \in Nat, E = b - least,
         NEW g \in Nat, NEW p \in Nat, NEW q \in Nat, NEW x \in Nat, NEW y \in Nat,
         p + g = q + y + x, y >= g - E,
         NEW S \in Nat, S = x \/ S - x <= W - g - D
  PROVE  q + (least + S) - p <= b
PROOF
<1>1. q + (least + S) - p = g - y + least + (S - x)
  OBVIOUS
<1>2. CASE S = x
  BY <1>1, <1>2
<1>3. CASE S - x <= W - g - D
  BY <1>1, <1>3
<1> QED BY <1>2, <1>3

LEMMA RoomBelow ==
  ASSUME NEW least \in Nat, NEW W \in Nat, NEW a \in Nat, NEW b \in Nat, a <= b,
         NEW D \in Nat, D = least + W - a, NEW E \in Nat, E = b - least,
         NEW g \in Nat, NEW p \in Nat, NEW q \in Nat, NEW x \in Nat, NEW y \in Nat,
         p + g = q + y + x, x >= g - D,
         NEW G \in Nat, NEW R \in Nat, G + R = least + W, R = y \/ R - y <= W - g - E
  PROVE  p + G - q >= a
PROOF
<1>1. p + G - q = x + y - g + least + W - R
  OBVIOUS
<1>2. CASE R = y
  BY <1>1, <1>2
<1>3. CASE R - y <= W - g - E
  BY <1>1, <1>3
<1> QED BY <1>2, <1>3

\* and what they add up to: no more than the result allows.
LEMMA SumsFit ==
  ASSUME NEW n \in Nat, NEW L \in [1 .. n -> Nat], NEW H \in [1 .. n -> Nat],
         \A i \in 1 .. n : L[i] <= H[i],
         NEW least, NEW most, AddsUpTo(n, L, least), AddsUpTo(n, H, most),
         NEW a \in Nat, NEW b \in Nat, least <= a, a <= b, b <= most,
         NEW P, NEW Q, SumBounds(n, L, H, least, most, a, b, P, Q),
         NEW F, NEW G, AddsUpTo(n, P, F), AddsUpTo(n, Q, G)
  PROVE  /\ F \in Nat /\ G \in Nat /\ F <= a /\ b <= G
         /\ \A i \in 1 .. n : Q[i] + F - P[i] <= b /\ P[i] + G - Q[i] >= a
PROOF
<1>1. PICK w : w = [i \in 1 .. n |-> H[i] - L[i]]
  OBVIOUS
<1>2. /\ w \in [1 .. n -> Nat] /\ \A i \in 1 .. n : w[i] = H[i] - L[i]
      /\ \A i \in 1 .. n : L[i] \in Nat /\ H[i] \in Nat
  BY <1>1
<1>3. PICK W : AddsUpTo(n, w, W)
  BY <1>2, SumOfList
<1>4. least \in Nat /\ W \in Nat /\ most = least + W
  <2>1. ASSUME NEW i \in 1 .. n PROVE H[i] = L[i] + w[i]
    <3>1. L[i] \in Nat /\ H[i] \in Nat /\ w[i] = H[i] - L[i]
      BY <1>2
    <3> QED BY <3>1
  <2>2. Termwise(n, L, w, H)
    BY <1>2, <2>1 DEF Termwise
  <2> QED BY <1>3, <2>2, SumsAdd
<1>5. PICK D, E \in Nat : D = most - a /\ E = b - least /\ D <= W /\ E <= W
  BY <1>4
<1>6. PICK X, Y : /\ X = [i \in 1 .. n |-> IF w[i] > D THEN w[i] - D ELSE 0]
                  /\ Y = [i \in 1 .. n |-> IF w[i] > E THEN w[i] - E ELSE 0]
  OBVIOUS
<1>7. Excess(n, w, D, X) /\ Excess(n, w, E, Y)
  <2>1. ASSUME NEW i \in 1 .. n
        PROVE  /\ (IF w[i] > D THEN w[i] - D ELSE 0) \in Nat
               /\ (IF w[i] > E THEN w[i] - E ELSE 0) \in Nat
    <3>1. w[i] \in Nat
      BY <1>2
    <3> QED BY <1>5, <3>1, SMTT(40), ZenonT(40)
  <2>2. X \in [1 .. n -> Nat] /\ Y \in [1 .. n -> Nat]
    BY <1>6, <2>1
  <2>3. \A i \in 1 .. n : /\ X[i] = IF w[i] > D THEN w[i] - D ELSE 0
                          /\ Y[i] = IF w[i] > E THEN w[i] - E ELSE 0
    BY <1>6
  <2> QED BY <2>2, <2>3 DEF Excess
<1>8. PICK S, R : AddsUpTo(n, X, S) /\ AddsUpTo(n, Y, R)
  <2>1. X \in [1 .. n -> Nat] /\ Y \in [1 .. n -> Nat]
    BY <1>7 DEF Excess
  <2> QED BY <2>1, SumOfList
<1>9. /\ S \in Nat /\ (S = 0 \/ S <= W - D)
      /\ \A i \in 1 .. n : S = X[i] \/ S - X[i] <= W - w[i] - D
  BY <1>2, <1>3, <1>5, <1>7, <1>8, ExcessSum
<1>10. /\ R \in Nat /\ (R = 0 \/ R <= W - E)
       /\ \A i \in 1 .. n : R = Y[i] \/ R - Y[i] <= W - w[i] - E
  BY <1>2, <1>3, <1>5, <1>7, <1>8, ExcessSum
<1>11. ASSUME NEW i \in 1 .. n
       PROVE  /\ L[i] \in Nat /\ H[i] \in Nat /\ L[i] <= H[i] /\ w[i] = H[i] - L[i]
              /\ X[i] \in Nat /\ X[i] = IF w[i] > D THEN w[i] - D ELSE 0
              /\ Y[i] \in Nat /\ Y[i] = IF w[i] > E THEN w[i] - E ELSE 0
              /\ P[i] \in Nat /\ P[i] = L[i] + X[i]
              /\ Q[i] \in Nat /\ H[i] = Q[i] + Y[i]
  <2>1. PICK l, h, p, q \in Nat : l = L[i] /\ h = H[i] /\ p = P[i] /\ q = Q[i]
    BY <1>2 DEF SumBounds
  <2>2. /\ p = IF a - (most - h) > l THEN a - (most - h) ELSE l
        /\ q = IF b - (least - l) < h THEN b - (least - l) ELSE h
    BY <2>1 DEF SumBounds
  <2>3. w[i] = h - l /\ l <= h
    BY <1>2, <2>1
  <2>4. /\ X[i] \in Nat /\ X[i] = IF h - l > D THEN (h - l) - D ELSE 0
        /\ Y[i] \in Nat /\ Y[i] = IF h - l > E THEN (h - l) - E ELSE 0
    BY <1>7, <2>3 DEF Excess
  <2>5. p = l + X[i] /\ h = q + Y[i]
    BY <1>4, <1>5, <2>2, <2>3, <2>4
  <2> QED BY <2>1, <2>3, <2>4, <2>5
<1>12. F \in Nat /\ F = least + S
  <2>1. P \in [1 .. n -> Nat] /\ X \in [1 .. n -> Nat]
    BY <1>7 DEF SumBounds, Excess
  <2>2. F = least + S
    <3>1. Termwise(n, L, X, P)
      BY <1>11, <2>1 DEF Termwise
    <3> QED BY <1>8, <3>1, SumsAdd
  <2> QED BY <1>4, <1>9, <2>2
<1>13. G \in Nat /\ most = G + R
  <2>1. Q \in [1 .. n -> Nat] /\ Y \in [1 .. n -> Nat]
    BY <1>7 DEF SumBounds, Excess
  <2>2. Termwise(n, Q, Y, H)
    BY <1>11, <2>1 DEF Termwise
  <2> QED BY <1>8, <2>2, SumsAdd
<1>14. F <= a /\ b <= G
  BY <1>4, <1>5, <1>9, <1>10, <1>12, <1>13
<1>15. ASSUME NEW i \in 1 .. n PROVE Q[i] + F - P[i] <= b /\ P[i] + G - Q[i] >= a
  <2>1. PICK l, h, p, q, x, y \in Nat :
          l = L[i] /\ h = H[i] /\ p = P[i] /\ q = Q[i] /\ x = X[i] /\ y = Y[i]
    BY <1>11
  <2>2. /\ l <= h /\ p = l + x /\ h = q + y
        /\ x = (IF h - l > D THEN (h - l) - D ELSE 0)
        /\ y = (IF h - l > E THEN (h - l) - E ELSE 0)
    <3>1. w[i] = h - l
      BY <1>11, <2>1
    <3> QED BY <1>11, <2>1, <3>1
  <2>3. /\ S = x \/ S - x <= W - (h - l) - D
        /\ R = y \/ R - y <= W - (h - l) - E
    BY <1>9, <1>10, <1>11, <2>1
  <2>4. y >= (h - l) - E /\ x >= (h - l) - D
    <3>1. PICK g \in Nat : g = h - l
      BY <2>2
    <3> QED BY <1>5, <2>2, <3>1, Beyond
  <2>5. most = least + W /\ D = most - a /\ E = b - least /\ W \in Nat /\ S \in Nat /\ R \in Nat
    BY <1>4, <1>5, <1>9, <1>10
  <2>6. least \in Nat /\ F = least + S /\ G + R = most /\ F \in Nat /\ G \in Nat
    BY <1>4, <1>12, <1>13
  <2>7. h - l \in Nat /\ p + (h - l) = q + y + x
    BY <2>2
  <2>8. q + F - p <= b
    BY <2>3, <2>4, <2>5, <2>6, <2>7, RoomAbove
  <2>9. p + G - q >= a
    BY <2>3, <2>4, <2>5, <2>6, <2>7, RoomBelow
  <2> QED BY <2>1, <2>8, <2>9
<1> QED BY <1>12, <1>13, <1>14, <1>15

-----------------------------------------------------------------------------
(* Sum *)

\* One operand: the bounds it is left with, when the step returns true
SumStepGives(u, t, v, L, H, least, most, a, b) ==
  /\ Fine(u)
  /\ \A w \in Variable : w # v => u.dom[w] = t.dom[w]
  /\ u.ok => /\ u.dom[v].min = IF a - (most - H) > L THEN a - (most - H) ELSE L
             /\ u.dom[v].max = IF b - (least - L) < H THEN b - (least - L) ELSE H
  /\ H + least - L <= b /\ L + most - H >= a => u = t

LEMMA SumStepIs ==
  ASSUME NEW t, Fine(t), t.ok, NEW v \in Variable, NEW r \in Variable, v # r,
         NEW least \in Nat, NEW most \in Nat,
         least < 2^Bits * 2^Bits, most < 2^Bits * 2^Bits,
         NEW L \in Nat, NEW H \in Nat, NEW a \in Nat, NEW b \in Nat,
         t.dom[v].min = L, t.dom[v].max = H, t.dom[r].min = a, t.dom[r].max = b,
         L <= least, H <= most
  PROVE  SumStepGives(SumOperand(t, v, r, least, most), t, v, L, H, least, most, a, b)
PROOF
<1>1. L <= H /\ a <= b /\ t \in PropState
  BY DEF Fine
<1>2. AsBig(least - t.dom[v].min) = least - L /\ AsBig(most - t.dom[v].max) = most - H
  <2>1. PICK m \in Nat : m = 2^Bits * 2^Bits /\ \A n \in Nat : n < m => AsBig(n) = n
    <3>1. PICK w \in Nat : w = 2^Bits
      BY Words
    <3>2. w * w \in Nat
      BY <3>1
    <3>3. PICK m \in Nat : m = 2^Bits * 2^Bits
      BY <3>1, <3>2
    <3> QED BY <3>3, Words
  <2>2. least < m /\ most < m
    BY <2>1
  <2>3. least - L \in Nat /\ least - L < m /\ most - H \in Nat /\ most - H < m
    BY <1>1, <2>2
  <2> QED BY <2>1, <2>3
<1>3. PICK newMax \in Int : newMax = b - (least - L)
  OBVIOUS
<1>4. PICK low : low = LowerMax(t, v, newMax)
  OBVIOUS
<1>5. PICK u : u = SumOperand(t, v, r, least, most)
  OBVIOUS
<1>6. u = IF newMax < t.dom[v].min THEN Fail(t)
          ELSE IF low.dom[r].min - (most - H) > low.dom[v].max THEN Fail(low)
          ELSE RaiseMin(low, v, low.dom[r].min - (most - H))
  BY <1>2, <1>3, <1>4, <1>5 DEF SumOperand
<1>7. CASE newMax < L
  <2>1. u = Fail(t)
    BY <1>6, <1>7
  <2>2. Fine(u) /\ u.dom = t.dom /\ ~ u.ok
    BY <2>1, FailIs
  <2>3. ~ (H + least - L <= b)
    BY <1>1, <1>3, <1>7
  <2> QED BY <1>5, <2>2, <2>3 DEF SumStepGives
<1>8. CASE ~ (newMax < L)
  <2>1. /\ Fine(low) /\ low.dom[v].min = L
        /\ low.dom[v].max = IF newMax < H THEN newMax ELSE H
        /\ \A w \in Variable : w # v => low.dom[w] = t.dom[w]
    <3>1. newMax >= t.dom[v].min
      BY <1>8
    <3> QED BY <1>4, <3>1, LowerMaxIs
  <2>2. PICK newMin, m \in Int : newMin = a - (most - H) /\ m = low.dom[v].max
    <3>1. low.dom[v].max \in Nat
      BY <2>1, DomainTyped DEF Fine
    <3> QED BY <3>1
  <2>3. low.dom[r].min = a
    BY <2>1
  <2>4. u = IF newMin > m THEN Fail(low) ELSE RaiseMin(low, v, newMin)
    BY <1>6, <1>8, <2>2, <2>3
  <2>5. ASSUME H + least - L <= b, L + most - H >= a PROVE u = t
    <3>1. low = t
      <4>1. newMax >= t.dom[v].max
        BY <1>3, <2>5
      <4> QED BY <1>1, <1>4, <4>1, Untouched
    <3>2. newMin <= t.dom[v].min
      BY <2>2, <2>5
    <3>3. ~ (newMin > m)
      BY <1>1, <2>2, <3>1, <3>2
    <3>4. RaiseMin(t, v, newMin) = t
      BY <1>1, <2>2, <3>2, Untouched
    <3> QED BY <2>4, <3>1, <3>3, <3>4
  <2>6. CASE newMin > m
    <3>1. u = Fail(low)
      BY <2>4, <2>6
    <3>2. Fine(u) /\ u.dom = low.dom /\ ~ u.ok
      BY <2>1, <3>1, FailIs
    <3>3. \A w \in Variable : w # v => u.dom[w] = t.dom[w]
      BY <2>1, <3>2
    <3> QED BY <1>5, <2>5, <3>2, <3>3 DEF SumStepGives
  <2>7. CASE ~ (newMin > m)
    <3>1. /\ Fine(u) /\ u.dom[v].max = m
          /\ u.dom[v].min = IF newMin > L THEN newMin ELSE L
          /\ \A w \in Variable : w # v => u.dom[w] = low.dom[w]
      <4>1. newMin <= low.dom[v].max /\ u = RaiseMin(low, v, newMin)
        BY <2>2, <2>4, <2>7
      <4> QED BY <2>1, <2>2, <4>1, RaiseMinIs
    <3>2. \A w \in Variable : w # v => u.dom[w] = t.dom[w]
      BY <2>1, <3>1
    <3>3. /\ u.dom[v].min = IF a - (most - H) > L THEN a - (most - H) ELSE L
          /\ u.dom[v].max = IF b - (least - L) < H THEN b - (least - L) ELSE H
      BY <1>3, <2>1, <2>2, <3>1
    <3> QED BY <1>5, <2>5, <3>1, <3>2, <3>3 DEF SumStepGives
  <2> QED BY <2>6, <2>7
<1> QED BY <1>7, <1>8

\* The sums that a call computes, and what there is to know of them
SumsOf(dom, n, args, L, H, least, most) ==
  /\ L \in [1 .. n -> Nat] /\ H \in [1 .. n -> Nat]
  /\ \A i \in 1 .. n : L[i] = dom[args[i]].min /\ H[i] = dom[args[i]].max /\ L[i] <= H[i]
  /\ least = LowSum(dom, args) /\ most = HighSum(dom, args)
  /\ AddsUpTo(n, L, least) /\ AddsUpTo(n, H, most)
  /\ least \in Nat /\ most \in Nat /\ least <= most
  /\ least < 2^Bits * 2^Bits /\ most < 2^Bits * 2^Bits
  /\ \A i \in 1 .. n : L[i] <= least /\ H[i] <= most

LEMMA OperandSums ==
  ASSUME NEW n \in Nat, NEW args \in Seq(Variable), n = Len(args), n + 1 \in 1 .. 2^Bits,
         NEW dom, Fine(Call(dom))
  PROVE  \E L, H, least, most : SumsOf(dom, n, args, L, H, least, most)
PROOF
<1>1. PICK s : s = Call(dom) /\ s.dom = dom /\ Fine(s) /\ s \in PropState
  BY DEF Call, Fine
<1>2. DOMAIN args = 1 .. n /\ \A i \in 1 .. n : args[i] \in Variable
  OBVIOUS
<1>3. PICK L, H : /\ L = [i \in 1 .. n |-> dom[args[i]].min]
                  /\ H = [i \in 1 .. n |-> dom[args[i]].max]
  OBVIOUS
<1>4. /\ L \in [1 .. n -> Nat] /\ H \in [1 .. n -> Nat]
      /\ \A i \in 1 .. n : /\ L[i] = dom[args[i]].min /\ H[i] = dom[args[i]].max
                           /\ L[i] <= H[i] /\ L[i] \in Word /\ H[i] \in Word
  <2>1. ASSUME NEW i \in 1 .. n
        PROVE  /\ dom[args[i]].min \in Nat /\ dom[args[i]].max \in Nat
               /\ dom[args[i]].min \in Word /\ dom[args[i]].max \in Word
               /\ dom[args[i]].min <= dom[args[i]].max
    <3>1. PICK v \in Variable : v = args[i]
      BY <1>2
    <3>2. /\ s.dom[v].min \in Nat /\ s.dom[v].max \in Nat
          /\ s.dom[v].min \in Word /\ s.dom[v].max \in Word /\ s.dom[v].min <= s.dom[v].max
      BY <1>1, DomainTyped DEF Fine
    <3> QED BY <1>1, <3>1, <3>2
  <2> QED BY <1>3, <2>1
<1>5. PICK least, most : least = LowSum(dom, args) /\ most = HighSum(dom, args)
  OBVIOUS
<1>6. AddsUpTo(n, L, least) /\ AddsUpTo(n, H, most)
  <2>1. \A i \in 1 .. n : L[i] = dom[args[i]].min /\ H[i] = dom[args[i]].max
    BY <1>4
  <2>2. AddsUpTo(n, L, LowSum(dom, args))
    BY <1>2, <1>4, <2>1, SumOfMins
  <2>3. AddsUpTo(n, H, HighSum(dom, args))
    BY <1>2, <1>4, <2>1, SumOfMaxs
  <2> QED BY <1>5, <2>2, <2>3
<1>7. /\ least \in Nat /\ most \in Nat /\ least <= most
      /\ \A i \in 1 .. n : L[i] <= least /\ H[i] <= most
  <2>1. \A i \in 1 .. n : L[i] <= H[i] /\ H[i] <= H[i]
    BY <1>4
  <2>2. least \in Nat /\ most \in Nat /\ least <= most /\ \A i \in 1 .. n : L[i] <= least
    BY <1>4, <1>6, <2>1, SumsCompare
  <2>3. \A i \in 1 .. n : H[i] <= most
    BY <1>4, <1>6, <2>1, SumsCompare
  <2> QED BY <2>2, <2>3
<1>8. least < 2^Bits * 2^Bits /\ most < 2^Bits * 2^Bits
  <2>1. PICK w \in Nat : w = 2^Bits /\ w >= 2 /\ Word = 0 .. w - 1
    BY Words
  <2>2. PICK m \in Nat : m = w - 1
    BY <2>1
  <2>3. n <= m /\ \A i \in 1 .. n : L[i] <= m /\ H[i] <= m
    BY <1>4, <2>1, <2>2
  <2>4. least <= n * m /\ most <= n * m
    BY <1>4, <1>6, <2>3, SumIsBounded
  <2>5. n * m <= m * m
    BY <2>2, <2>3, Times
  <2>6. n * m \in Nat /\ m * m \in Nat /\ w * w \in Nat /\ m * m < w * w
    <3>1. w = m + 1
      BY <2>1, <2>2
    <3> QED BY <3>1, SquareBelow, Times
  <2>7. least < w * w /\ most < w * w
    BY <1>7, <2>4, <2>5, <2>6
  <2> QED BY <2>1, <2>7
<1>9. SumsOf(dom, n, args, L, H, least, most)
  BY <1>4, <1>5, <1>6, <1>7, <1>8 DEF SumsOf
<1> QED BY <1>9

\* Each operand within what the result leaves it, beside the others
SumFits(n, L, H, least, most, a, b) ==
  /\ least <= a /\ b <= most
  /\ \A i \in 1 .. n : H[i] + least - L[i] <= b /\ L[i] + most - H[i] >= a

LEMMA SumRests ==
  ASSUME NEW c, NEW dom, Fine(Call(dom)), NEW n \in Nat, NEW r \in Variable,
         NEW args \in Seq(Variable), Takes(c, n, r, args), r \notin ToSet(args),
         NEW L, NEW H, NEW least, NEW most, SumsOf(dom, n, args, L, H, least, most),
         SumFits(n, L, H, least, most, dom[r].min, dom[r].max)
  PROVE  PropagateSum(c, dom) = Call(dom)
PROOF
<1>1. PICK s : s = Call(dom) /\ s.dom = dom /\ Fine(s) /\ s \in PropState /\ s.ok
  BY DEF Call, Fine
<1>2. /\ r = Head(c.vars) /\ args = Tail(c.vars) /\ n = Len(args) /\ DOMAIN args = 1 .. n
      /\ \A i \in 1 .. n : args[i] \in Variable /\ args[i] # r
  BY DEF Takes
<1>3. PICK a, b \in Nat : a = dom[r].min /\ b = dom[r].max /\ a <= b
  BY <1>1, DomainTyped DEF Fine
<1>4. /\ least \in Nat /\ most \in Nat /\ least <= a /\ b <= most
      /\ least = LowSum(dom, args) /\ most = HighSum(dom, args)
      /\ least < 2^Bits * 2^Bits /\ most < 2^Bits * 2^Bits
  BY <1>3 DEF SumsOf, SumFits
<1>5. ASSUME NEW i \in 1 .. n PROVE StepSum(s, args[i], r, least, most) = s
  <2>1. PICK v \in Variable : v = args[i] /\ v # r
    BY <1>2
  <2>2. PICK l, h \in Nat : l = L[i] /\ h = H[i]
    BY DEF SumsOf
  <2>3. /\ s.dom[v].min = l /\ s.dom[v].max = h /\ l <= least /\ h <= most
        /\ h + least - l <= b /\ l + most - h >= a
    BY <1>1, <1>3, <2>1, <2>2 DEF SumsOf, SumFits
  <2>4. SumStepGives(SumOperand(s, v, r, least, most), s, v, l, h, least, most, a, b)
    <3>1. s.dom[r].min = a /\ s.dom[r].max = b
      BY <1>1, <1>3
    <3> QED BY <1>1, <1>4, <2>1, <2>3, <3>1, SumStepIs
  <2>5. SumOperand(s, v, r, least, most) = s
    BY <2>3, <2>4 DEF SumStepGives
  <2> QED BY <1>1, <2>1, <2>5 DEF StepSum
<1>6. SumFold(s, args, r, least, most) = s
  <2>1. PICK h \in [0 .. n -> PropState] : LeadsSum(h, n, s, args, r, least, most)
    <3>1. /\ s \in PropState /\ args \in Seq(Variable) /\ r \in Variable
          /\ least \in Int /\ most \in Int /\ n \in Nat /\ n = Len(args)
      BY <1>1, <1>2, <1>4
    <3> QED BY <3>1, SumSteps, Zenon
  <2> DEFINE T == {i \in 0 .. n : h[i] = s}
  <2>2. 0 \in T
    BY <2>1 DEF LeadsSum
  <2>3. ASSUME NEW i \in 1 .. n, i - 1 \in T PROVE i \in T
    <3>1. h[i] = StepSum(h[i - 1], args[i], r, least, most) /\ h[i - 1] = s
      BY <2>1, <2>3 DEF LeadsSum
    <3> QED BY <1>5, <3>1
  <2>4. n \in T
    <3>1. 0 .. n \subseteq T
      <4> HIDE DEF T
      <4> QED BY <2>2, <2>3, UpTo
    <3> QED BY <3>1
  <2> QED BY <2>1, <2>4 DEF LeadsSum
<1>7. LowerMax(RaiseMin(s, r, least), r, most) = s
  <2>1. RaiseMin(s, r, least) = s
    BY <1>1, <1>3, <1>4, Untouched
  <2>2. LowerMax(s, r, most) = s
    BY <1>1, <1>3, <1>4, Untouched
  <2> QED BY <2>1, <2>2
<1>8. ~ (least > b \/ most < a)
  BY <1>3, <1>4
<1>9. PropagateSum(c, dom) =
        IF least > b \/ most < a THEN Fail(s)
        ELSE SumFold(LowerMax(RaiseMin(s, r, least), r, most), args, r, least, most)
  BY <1>1, <1>2, <1>3, <1>4, SumIs
<1> QED BY <1>1, <1>6, <1>7, <1>8, <1>9

LEMMA SumSettled ==
  ASSUME NEW c, c.kind = "Sum", c.vars \in Seq(Variable), Len(c.vars) \in 1 .. 2^Bits,
         IsInjective(c.vars), NEW dom, Fine(Call(dom)),
         NEW t, t = PropagateSum(c, dom), Fine(t), t.ok
  PROVE  PropagateSum(c, t.dom) = Call(t.dom)
PROOF
<1>1. PICK s0 : s0 = Call(dom) /\ s0.ok /\ s0.dom = dom /\ Fine(s0) /\ s0 \in PropState
  BY DEF Call, Fine
<1>2. PICK n \in Nat, r \in Variable, args \in Seq(Variable) : Takes(c, n, r, args)
  <2>1. c.kind \in HasResult /\ Len(c.vars) >= 1
    BY Words DEF HasResult
  <2> QED BY <2>1, WithResult
<1>3. /\ r = Head(c.vars) /\ args = Tail(c.vars) /\ n = Len(args) /\ DOMAIN args = 1 .. n
      /\ r \notin ToSet(args)
      /\ \A i \in 1 .. n : args[i] \in Variable /\ args[i] \in ToSet(args)
      /\ \A i, j \in 1 .. n : args[i] = args[j] => i = j
      /\ n + 1 \in 1 .. 2^Bits
  <2>1. n = Len(c.vars) - 1
    BY <1>2 DEF Takes
  <2>2. PICK w \in Nat : w = 2^Bits
    BY Words
  <2>3. n + 1 \in 1 .. 2^Bits
    BY <2>1, <2>2
  <2> QED BY <1>2, <2>3 DEF Takes
<1>4. PICK lo, hi \in Nat : lo = s0.dom[r].min /\ hi = s0.dom[r].max /\ lo <= hi
  BY <1>1, DomainTyped DEF Fine
<1>5. PICK L, H, least, most : SumsOf(dom, n, args, L, H, least, most)
  BY <1>3, OperandSums
<1>6. /\ L \in [1 .. n -> Nat] /\ H \in [1 .. n -> Nat]
      /\ \A i \in 1 .. n : L[i] = dom[args[i]].min /\ H[i] = dom[args[i]].max /\ L[i] <= H[i]
      /\ least = LowSum(dom, args) /\ most = HighSum(dom, args)
      /\ AddsUpTo(n, L, least) /\ AddsUpTo(n, H, most)
      /\ least \in Nat /\ most \in Nat /\ least <= most
      /\ least < 2^Bits * 2^Bits /\ most < 2^Bits * 2^Bits
      /\ \A i \in 1 .. n : L[i] <= least /\ H[i] <= most
  BY <1>5 DEF SumsOf
<1>7. t = IF least > hi \/ most < lo THEN Fail(s0)
          ELSE SumFold(LowerMax(RaiseMin(s0, r, least), r, most), args, r, least, most)
  BY <1>1, <1>3, <1>4, <1>6, SumIs
<1>8. ~ (least > hi \/ most < lo)
  <2>1. ASSUME least > hi \/ most < lo PROVE FALSE
    <3>1. t = Fail(s0)
      BY <1>7, <2>1
    <3> QED BY <1>1, <3>1, FailIs
  <2> QED BY <2>1
\* The result, as it stays
<1>9. PICK s, a, b : /\ s = LowerMax(RaiseMin(s0, r, least), r, most)
                     /\ a = s.dom[r].min /\ b = s.dom[r].max
  OBVIOUS
<1>10. /\ Fine(s) /\ s.ok /\ s \in PropState
       /\ a \in Nat /\ b \in Nat /\ least <= a /\ a <= b /\ b <= most
       /\ \A w \in Variable : w # r => s.dom[w] = s0.dom[w]
  <2>1. PICK s1 : s1 = RaiseMin(s0, r, least)
    OBVIOUS
  <2>2. /\ Fine(s1) /\ s1.ok = s0.ok
        /\ s1.dom[r].max = hi
        /\ s1.dom[r].min = IF least > lo THEN least ELSE lo
        /\ \A w \in Variable : w # r => s1.dom[w] = s0.dom[w]
    <3>1. least \in Int /\ least <= s0.dom[r].max
      BY <1>4, <1>6, <1>8
    <3>2. Fine(s0) /\ r \in Variable /\ s0.dom[r].min = lo /\ s0.dom[r].max = hi
      BY <1>1, <1>4
    <3> QED BY <2>1, <3>1, <3>2, RaiseMinIs, SMTT(60)
  <2>3. /\ Fine(s) /\ s.ok = s1.ok
        /\ s.dom[r].min = s1.dom[r].min
        /\ s.dom[r].max = IF most < hi THEN most ELSE hi
        /\ \A w \in Variable : w # r => s.dom[w] = s1.dom[w]
    <3>1. most \in Int /\ most >= s1.dom[r].min
      BY <1>4, <1>6, <1>8, <2>2
    <3>2. s = LowerMax(s1, r, most)
      BY <1>9, <2>1
    <3> QED BY <2>2, <3>1, <3>2, LowerMaxIs
  <2>4. a = (IF least > lo THEN least ELSE lo) /\ b = IF most < hi THEN most ELSE hi
    BY <1>9, <2>2, <2>3
  <2>5. a \in Nat /\ b \in Nat /\ least <= a /\ a <= b /\ b <= most
    <3>1. least \in Nat /\ most \in Nat /\ least <= most
      BY <1>6
    <3>2. lo \in Nat /\ hi \in Nat /\ lo <= hi /\ least <= hi /\ lo <= most
      BY <1>4, <1>8, <3>1
    <3>3. a \in Nat /\ b \in Nat
      BY <2>4, <3>1, <3>2
    <3>4. least <= a /\ b <= most
      BY <2>4, <3>1, <3>2
    <3>5. a <= b
      BY <2>4, <3>1, <3>2
    <3> QED BY <3>3, <3>4, <3>5
  <2>6. \A w \in Variable : w # r => s.dom[w] = s0.dom[w]
    BY <2>2, <2>3
  <2>7. Fine(s) /\ s.ok
    <3>1. Fine(s) /\ s.ok = s1.ok
      BY <2>3
    <3>2. s1.ok = s0.ok
      BY <2>2
    <3> QED BY <1>1, <3>1, <3>2
  <2>8. s \in PropState
    BY <2>7 DEF Fine
  <2> QED BY <2>5, <2>6, <2>7, <2>8
\* The operands, one after the other
<1>11. PICK h \in [0 .. n -> PropState] :
         h[0] = s /\ h[n] = t /\ \A i \in 1 .. n : h[i] = StepSum(h[i - 1], args[i], r, least, most)
  <2>1. /\ s \in PropState /\ args \in Seq(Variable) /\ r \in Variable
        /\ least \in Int /\ most \in Int /\ n \in Nat /\ n = Len(args)
    BY <1>3, <1>6, <1>10
  <2>2. PICK h \in [0 .. n -> PropState] : LeadsSum(h, n, s, args, r, least, most)
    BY <2>1, SumSteps, Zenon
  <2>3. t = SumFold(s, args, r, least, most)
    BY <1>7, <1>8, <1>9
  <2> QED BY <2>2, <2>3 DEF LeadsSum
<1>12. PICK P, Q :
         /\ P = [i \in 1 .. n |-> IF a - (most - H[i]) > L[i] THEN a - (most - H[i]) ELSE L[i]]
         /\ Q = [i \in 1 .. n |-> IF b - (least - L[i]) < H[i] THEN b - (least - L[i]) ELSE H[i]]
  OBVIOUS
<1> DEFINE Still(i) == \A j \in 1 .. n : j > i => h[i].dom[args[j]] = s0.dom[args[j]]
           Bounded(i) == \A j \in 1 .. i : h[i].dom[args[j]].min = P[j] /\ h[i].dom[args[j]].max = Q[j]
           Kept(i) == Fine(h[i]) /\ h[i].dom[r] = s.dom[r] /\ Still(i) /\ Bounded(i)
           T == {i \in 0 .. n : h[i].ok => Kept(i)}
<1>13. 0 \in T
  <2>1. PICK z : z = 0
    OBVIOUS
  <2>2. h[z] = s /\ 1 .. z = {}
    BY <1>11, <2>1
  <2>3. Still(z)
    <3>1. ASSUME NEW j \in 1 .. n PROVE s.dom[args[j]] = s0.dom[args[j]]
      <4>1. PICK v \in Variable : v = args[j] /\ v # r
        BY <1>3
      <4> QED BY <1>10, <4>1
    <3> QED BY <2>2, <3>1
  <2>4. Bounded(z)
    BY <2>2
  <2>5. Fine(h[z]) /\ h[z].dom[r] = s.dom[r]
    BY <1>10, <2>2
  <2>6. Kept(z)
    <3> HIDE DEF Still, Bounded
    <3> QED BY <2>3, <2>4, <2>5
  <2> HIDE DEF Kept
  <2> QED BY <2>1, <2>6
<1>14. ASSUME NEW i \in 1 .. n, i - 1 \in T PROVE i \in T
  <2>0. PICK m \in 0 .. n : m = i - 1 /\ 1 .. i = (1 .. m) \cup {i}
    OBVIOUS
  <2>1. PICK p, u, v : p = h[m] /\ u = h[i] /\ v = args[i]
    OBVIOUS
  <2>2. v \in Variable /\ v # r /\ u = StepSum(p, v, r, least, most) /\ p \in PropState
    BY <1>3, <1>11, <2>0, <2>1
  <2>3. ASSUME u.ok PROVE Kept(i)
    <3>1. p.ok
      BY <2>2, <2>3 DEF StepSum
    <3>2. Kept(m)
      <4> HIDE DEF Kept
      <4> QED BY <1>14, <2>0, <2>1, <3>1
    <3>3. Fine(p) /\ p.dom[r] = s.dom[r] /\ Still(m) /\ Bounded(m)
      <4> HIDE DEF Still, Bounded
      <4> QED BY <2>1, <3>2
    <3>4. PICK l, k \in Nat : l = L[i] /\ k = H[i]
      BY <1>6
    <3>5. p.dom[v].min = l /\ p.dom[v].max = k
      <4>1. p.dom[args[i]] = s0.dom[args[i]]
        BY <2>0, <2>1, <3>3
      <4> QED BY <1>1, <1>6, <2>1, <3>4, <4>1, ZenonT(40)
    <3>6. SumStepGives(u, p, v, l, k, least, most, a, b)
      <4>1. l <= least /\ k <= most /\ p.dom[r].min = a /\ p.dom[r].max = b
        BY <1>6, <1>9, <3>3, <3>4
      <4>2. u = SumOperand(p, v, r, least, most)
        BY <2>2, <3>1 DEF StepSum
      <4>3. /\ Fine(p) /\ p.ok /\ v \in Variable /\ r \in Variable /\ v # r
            /\ least \in Nat /\ most \in Nat
            /\ least < 2^Bits * 2^Bits /\ most < 2^Bits * 2^Bits
            /\ l \in Nat /\ k \in Nat /\ a \in Nat /\ b \in Nat
            /\ p.dom[v].min = l /\ p.dom[v].max = k /\ p.dom[r].min = a /\ p.dom[r].max = b
            /\ l <= least /\ k <= most
        BY <1>6, <1>10, <2>2, <3>1, <3>3, <3>5, <4>1
      <4>4. SumStepGives(SumOperand(p, v, r, least, most), p, v, l, k, least, most, a, b)
        BY <4>3, SumStepIs, Zenon
      <4> QED BY <4>2, <4>4
    <3>7. Fine(u) /\ \A w \in Variable : w # v => u.dom[w] = p.dom[w]
      BY <3>6 DEF SumStepGives
    <3>8. u.dom[v].min = P[i] /\ u.dom[v].max = Q[i]
      <4>1. /\ u.dom[v].min = IF a - (most - k) > l THEN a - (most - k) ELSE l
            /\ u.dom[v].max = IF b - (least - l) < k THEN b - (least - l) ELSE k
        BY <2>3, <3>6 DEF SumStepGives
      <4>2. /\ P[i] = IF a - (most - k) > l THEN a - (most - k) ELSE l
            /\ Q[i] = IF b - (least - l) < k THEN b - (least - l) ELSE k
        BY <1>12, <3>4
      <4>3. PICK x, y : /\ x = IF a - (most - k) > l THEN a - (most - k) ELSE l
                        /\ y = IF b - (least - l) < k THEN b - (least - l) ELSE k
        OBVIOUS
      <4>4. u.dom[v].min = x /\ P[i] = x
        BY <4>1, <4>2, <4>3
      <4>5. u.dom[v].max = y /\ Q[i] = y
        BY <4>1, <4>2, <4>3
      <4> QED BY <4>4, <4>5
    <3>9. u.dom[r] = s.dom[r]
      BY <2>2, <3>3, <3>7
    <3>10. ASSUME NEW j \in 1 .. n, j > i PROVE u.dom[args[j]] = s0.dom[args[j]]
      <4>1. args[j] # v /\ args[j] \in Variable /\ j > m
        BY <1>3, <2>0, <2>1, <3>10
      <4>2. p.dom[args[j]] = s0.dom[args[j]]
        BY <2>1, <3>3, <4>1
      <4> QED BY <3>7, <4>1, <4>2
    <3>11. ASSUME NEW j \in 1 .. i PROVE u.dom[args[j]].min = P[j] /\ u.dom[args[j]].max = Q[j]
      <4>1. CASE j = i
        BY <2>1, <3>8, <4>1
      <4>2. CASE j # i
        <5>1. j \in 1 .. m /\ j \in 1 .. n
          BY <2>0, <4>2
        <5>2. args[j] # v /\ args[j] \in Variable
          BY <1>3, <2>1, <4>2, <5>1
        <5>3. p.dom[args[j]].min = P[j] /\ p.dom[args[j]].max = Q[j]
          BY <2>1, <3>3, <5>1
        <5> QED BY <3>7, <5>2, <5>3
      <4> QED BY <4>1, <4>2
    <3>12. Still(i) /\ Bounded(i)
      BY <2>1, <3>10, <3>11
    <3> HIDE DEF Still, Bounded
    <3> QED BY <2>1, <3>7, <3>9, <3>12
  <2> HIDE DEF Kept
  <2> QED BY <2>1, <2>3
<1>15. t.dom[r] = s.dom[r] /\ \A i \in 1 .. n : t.dom[args[i]].min = P[i] /\ t.dom[args[i]].max = Q[i]
  <2>1. 0 .. n \subseteq T
    <3> HIDE DEF T
    <3> QED BY <1>13, <1>14, UpTo
  <2>2. n \in T
    <3> HIDE DEF T
    <3> QED BY <2>1
  <2>3. Kept(n)
    <3> HIDE DEF Kept
    <3> QED BY <1>11, <2>2
  <2>4. t.dom[r] = s.dom[r] /\ Bounded(n)
    <3> HIDE DEF Bounded, Still
    <3> QED BY <1>11, <2>3
  <2> QED BY <1>11, <2>4
\* and what the next call makes of them
<1>16. PICK d : d = t.dom /\ Fine(Call(d))
  BY CalledAgain
<1>17. PICK A, B, F, G : SumsOf(d, n, args, A, B, F, G)
  BY <1>3, <1>16, OperandSums
<1>18. /\ A \in [1 .. n -> Nat] /\ B \in [1 .. n -> Nat]
       /\ \A i \in 1 .. n : A[i] = P[i] /\ B[i] = Q[i]
       /\ AddsUpTo(n, A, F) /\ AddsUpTo(n, B, G)
  BY <1>15, <1>16, <1>17 DEF SumsOf
<1>19. SumBounds(n, L, H, least, most, a, b, A, B)
  <2>1. \A i \in 1 .. n :
          /\ P[i] = IF a - (most - H[i]) > L[i] THEN a - (most - H[i]) ELSE L[i]
          /\ Q[i] = IF b - (least - L[i]) < H[i] THEN b - (least - L[i]) ELSE H[i]
    BY <1>12
  <2> QED BY <1>18, <2>1 DEF SumBounds
<1>20. /\ F <= a /\ b <= G
       /\ \A i \in 1 .. n : B[i] + F - A[i] <= b /\ A[i] + G - B[i] >= a
  <2>1. /\ n \in Nat /\ L \in [1 .. n -> Nat] /\ H \in [1 .. n -> Nat]
        /\ \A i \in 1 .. n : L[i] <= H[i]
        /\ AddsUpTo(n, L, least) /\ AddsUpTo(n, H, most)
        /\ a \in Nat /\ b \in Nat /\ least <= a /\ a <= b /\ b <= most
    BY <1>6, <1>10
  <2> QED BY <1>18, <1>19, <2>1, SumsFit, ZenonT(40)
<1>21. SumFits(n, A, B, F, G, d[r].min, d[r].max)
  <2>1. d[r].min = a /\ d[r].max = b
    BY <1>9, <1>15, <1>16
  <2> QED BY <1>20, <2>1 DEF SumFits
<1>22. PropagateSum(c, d) = Call(d)
  <2>1. Takes(c, n, r, args) /\ r \notin ToSet(args)
    BY <1>2, <1>3
  <2> QED BY <1>16, <1>17, <1>21, <2>1, SumRests, Zenon
<1> QED BY <1>16, <1>22

-----------------------------------------------------------------------------
(* Product: a pass that touches nothing leaves everything, and would       *)
(* leave it in the next call too.                                          *)

Moves(t, u) ==
  /\ u \in PropState
  /\ u.ok => t.ok /\ (u = t \/ Len(u.touched) > Len(t.touched))

LEMMA MovesTrans ==
  ASSUME NEW t \in PropState, NEW u, NEW s, Moves(t, u), Moves(u, s)
  PROVE  /\ Moves(t, s)
         /\ s.ok /\ s.touched = t.touched => u = t /\ s = u
PROOF
<1>1. u \in PropState /\ s \in PropState
  BY DEF Moves
<1>2. PICK a, b, c \in Nat : a = Len(t.touched) /\ b = Len(u.touched) /\ c = Len(s.touched)
  BY <1>1 DEF PropState
<1>3. ASSUME s.ok PROVE u.ok /\ t.ok /\ (u = t \/ b > a) /\ (s = u \/ c > b)
  BY <1>2, <1>3 DEF Moves
<1>4. ASSUME s.ok PROVE t.ok /\ (s = t \/ c > a)
  BY <1>2, <1>3, <1>4
<1>5. ASSUME s.ok, s.touched = t.touched PROVE u = t /\ s = u
  <2>1. c = a
    BY <1>2, <1>5
  <2>2. (u = t \/ b > a) /\ (s = u \/ c > b)
    BY <1>3, <1>5
  <2>3. u = t => b = a
    BY <1>2
  <2>4. s = u => c = b
    BY <1>2
  <2> QED BY <2>1, <2>2, <2>3, <2>4
<1> QED BY <1>1, <1>2, <1>4, <1>5 DEF Moves

LEMMA SetMoves ==
  ASSUME NEW t \in PropState, NEW v \in Variable, NEW n \in Nat
  PROVE  /\ n < t.dom[v].max =>
              Moves(t, SetMax(t, v, n)) /\ SetMax(t, v, n) # t
         /\ n > t.dom[v].min /\ n \in Word =>
              Moves(t, SetMin(t, v, n)) /\ SetMin(t, v, n) # t
PROOF
<1>1. ASSUME NEW d \in Domain, NEW u, u = SetDomain(t, v, d, n)
      PROVE  Moves(t, u) /\ u # t
  <2>1. u \in PropState /\ u.ok = t.ok /\ u.touched = Append(t.touched, v)
    BY <1>1, SetTyped
  <2>2. Len(u.touched) = Len(t.touched) + 1 /\ Len(t.touched) \in Nat
    BY <2>1 DEF PropState
  <2> QED BY <2>1, <2>2 DEF Moves
<1>2. /\ t.dom[v].min \in Nat /\ t.dom[v].max \in Nat
      /\ t.dom[v].min \in Word /\ t.dom[v].max \in Word
  BY DomainTyped
<1>3. ASSUME n < t.dom[v].max PROVE Moves(t, SetMax(t, v, n)) /\ SetMax(t, v, n) # t
  <2>1. n \in Word
    <3>1. PICK w \in Nat : Word = 0 .. w - 1
      BY Words
    <3> QED BY <1>2, <1>3, <3>1
  <2>2. [min |-> t.dom[v].min, max |-> n] \in Domain
    BY <1>2, <2>1 DEF Domain
  <2> QED BY <1>1, <2>2 DEF SetMax
<1>4. ASSUME n \in Word PROVE Moves(t, SetMin(t, v, n)) /\ SetMin(t, v, n) # t
  <2>1. [min |-> n, max |-> t.dom[v].max] \in Domain
    BY <1>2, <1>4 DEF Domain
  <2> QED BY <1>1, <2>1 DEF SetMin
<1> QED BY <1>3, <1>4

\* What leaves t as it is leaves a call that starts from t's domains.
LEMMA SameMoves ==
  ASSUME NEW t \in PropState
  PROVE  /\ Moves(t, t) /\ Moves(t, Fail(t)) /\ ~ Fail(t).ok
         /\ \A p \in BOOLEAN :
              /\ Checked(t, p) \in PropState /\ Checked(t, p).dom = t.dom
              /\ Checked(t, p).ok = t.ok /\ Checked(t, p).touched = t.touched
         /\ Call(t.dom) \in PropState /\ Call(t.dom).ok /\ Call(t.dom).dom = t.dom
PROOF
<1>1. t.ok \in BOOLEAN /\ Fail(t) \in PropState /\ ~ Fail(t).ok
  BY DEF Fail, PropState
<1>2. \A p \in BOOLEAN : /\ Checked(t, p) \in PropState /\ Checked(t, p).dom = t.dom
                         /\ Checked(t, p).ok = t.ok /\ Checked(t, p).touched = t.touched
  BY DEF Checked, PropState
<1>3. Call(t.dom) \in PropState /\ Call(t.dom).ok /\ Call(t.dom).dom = t.dom
  BY DEF Call, PropState
<1>4. Moves(t, t) /\ Moves(t, Fail(t))
  BY <1>1 DEF Moves
<1> QED BY <1>1, <1>2, <1>3, <1>4

LEMMA UpperMoves ==
  ASSUME NEW x \in Variable, NEW y \in Variable, NEW r \in Variable, NEW t \in PropState
  PROVE  /\ Moves(t, ProductUpper(t, x, y, r))
         /\ t.ok /\ ProductUpper(t, x, y, r) = t =>
              ProductUpper(Call(t.dom), x, y, r) = Call(t.dom)
PROOF
<1>1. PICK X, m, R, L \in Nat : X = t.dom[x].max /\ m = t.dom[y].min /\ R = t.dom[r].max /\ L = t.dom[x].min
  BY DomainTyped
<1>2. PICK n, k : n = R \div m /\ k = Checked(t, R \div m < X)
  OBVIOUS
<1>3. k \in PropState /\ k.dom = t.dom /\ k.ok = t.ok /\ k.touched = t.touched
  <2>1. (R \div m < X) \in BOOLEAN
    OBVIOUS
  <2> QED BY <1>2, <2>1, SameMoves, ZenonT(40)
<1>4. ProductUpper(t, x, y, r) =
        IF ~ t.ok \/ m = 0 \/ m * X <= R THEN t
        ELSE IF n < L THEN Fail(k) ELSE SetMax(k, x, n)
  BY <1>1, <1>2 DEF ProductUpper
<1>5. ASSUME NEW u, Moves(k, u) PROVE Moves(t, u) \/ u = k
  <2>1. u.ok => t.ok /\ (u = k \/ Len(u.touched) > Len(t.touched))
    BY <1>3, <1>5 DEF Moves
  <2> QED BY <1>5, <2>1 DEF Moves
<1>6. CASE ~ t.ok \/ m = 0 \/ m * X <= R
  <2>1. ProductUpper(t, x, y, r) = t
    BY <1>4, <1>6
  <2>2. ASSUME t.ok PROVE ProductUpper(Call(t.dom), x, y, r) = Call(t.dom)
    <3>1. PICK s : s = Call(t.dom) /\ s.ok /\ s.dom = t.dom
      BY SameMoves
    <3>2. m = 0 \/ m * X <= R
      BY <1>6, <2>2
    <3>3. s.dom[y].min = m /\ s.dom[x].max = X /\ s.dom[r].max = R
      BY <1>1, <3>1
    <3>4. ProductUpper(s, x, y, r) = s
      BY <3>2, <3>3 DEF ProductUpper
    <3> QED BY <3>1, <3>4
  <2> QED BY <2>1, <2>2, SameMoves
<1>7. CASE ~ (~ t.ok \/ m = 0 \/ m * X <= R)
  <2>1. m * X \in Nat /\ m \in Nat \ {0} /\ R < m * X
    <3>1. m * X \in Nat
      BY <1>1, Times
    <3> QED BY <1>1, <1>7, <3>1
  <2>2. n \in Nat /\ n < X
    <3>1. R \in Nat /\ m \in Nat \ {0}
      BY <1>1, <2>1
    <3>2. R \div m \in Nat
      BY <3>1, Quotient
    <3>3. \A a \in Nat : R < m * a => R \div m < a
      BY <3>1, UpperFactor
    <3> QED BY <1>1, <1>2, <2>1, <3>2, <3>3
  <2>3. CASE n < L
    <3>1. ProductUpper(t, x, y, r) = Fail(k)
      BY <1>4, <1>7, <2>3
    <3>2. Moves(k, Fail(k)) /\ ~ Fail(k).ok
      BY <1>3, SameMoves
    <3>3. Moves(t, Fail(k))
      BY <3>2 DEF Moves
    <3> QED BY <3>1, <3>2, <3>3
  <2>4. CASE ~ (n < L)
    <3>1. PICK u : u = SetMax(k, x, n) /\ ProductUpper(t, x, y, r) = u
      BY <1>4, <1>7, <2>4
    <3>2. k.dom[x].max = X
      BY <1>1, <1>3
    <3>3. Moves(k, u) /\ u # k
      BY <1>3, <2>2, <3>1, <3>2, SetMoves
    <3>4. Moves(t, u)
      BY <1>5, <3>3
    <3>5. ASSUME t.ok, u = t PROVE FALSE
      <4>1. u.ok => Len(u.touched) > Len(k.touched)
        BY <3>3 DEF Moves
      <4>2. Len(t.touched) > Len(t.touched) /\ Len(t.touched) \in Nat
        BY <1>3, <3>5, <4>1 DEF PropState
      <4> QED BY <4>2
    <3> QED BY <3>1, <3>4, <3>5
  <2> QED BY <2>3, <2>4
<1> QED BY <1>6, <1>7

LEMMA LowerMoves ==
  ASSUME NEW x \in Variable, NEW y \in Variable, NEW r \in Variable, NEW t \in PropState
  PROVE  /\ Moves(t, ProductLower(t, x, y, r))
         /\ t.ok /\ ProductLower(t, x, y, r) = t =>
              ProductLower(Call(t.dom), x, y, r) = Call(t.dom)
PROOF
<1>1. PICK low, m, L, X \in Nat : low = t.dom[r].min /\ m = t.dom[y].max /\ L = t.dom[x].min /\ X = t.dom[x].max
  BY DomainTyped
<1>2. PICK k : k = (low \div m) + (IF low % m # 0 THEN 1 ELSE 0)
  OBVIOUS
<1>3. PICK n : n = AsWord(k)
  OBVIOUS
<1>4. ProductLower(t, x, y, r) =
        IF ~ t.ok \/ m = 0 \/ m * L >= low \/ n <= L THEN t
        ELSE IF n > X THEN Fail(t) ELSE SetMin(t, x, n)
  BY <1>1, <1>2, <1>3 DEF ProductLower
<1>5. CASE ~ t.ok \/ m = 0 \/ m * L >= low \/ n <= L
  <2>1. ProductLower(t, x, y, r) = t
    BY <1>4, <1>5
  <2>2. ASSUME t.ok PROVE ProductLower(Call(t.dom), x, y, r) = Call(t.dom)
    <3>1. PICK s : s = Call(t.dom) /\ s.ok /\ s.dom = t.dom
      BY SameMoves
    <3>2. m = 0 \/ m * L >= low \/ n <= L
      BY <1>5, <2>2
    <3>3. s.dom[y].max = m /\ s.dom[x].min = L /\ s.dom[r].min = low
      BY <1>1, <3>1
    <3>4. ProductLower(s, x, y, r) = IF ~ s.ok \/ m = 0 \/ m * L >= low \/ n <= L THEN s
                                     ELSE IF n > s.dom[x].max THEN Fail(s) ELSE SetMin(s, x, n)
      BY <1>2, <1>3, <3>3 DEF ProductLower
    <3> QED BY <3>1, <3>2, <3>4
  <2> QED BY <2>1, <2>2, SameMoves
<1>6. CASE ~ (~ t.ok \/ m = 0 \/ m * L >= low \/ n <= L)
  <2>1. m \in Nat \ {0}
    BY <1>1, <1>6
  <2>2. k \in Nat /\ k <= low
    BY <1>1, <1>2, <2>1, LowerFactor
  <2>3. n \in Nat /\ n \in Word
    <3>1. low \in Word
      BY <1>1, DomainTyped
    <3>2. PICK w \in Nat : Word = 0 .. w - 1
      BY Words
    <3>3. k \in Word
      BY <2>2, <3>1, <3>2
    <3>4. AsWord(k) = k
      BY <3>3, Words
    <3> QED BY <1>3, <2>2, <3>3, <3>4
  <2>4. n > t.dom[x].min
    BY <1>1, <1>6, <2>3
  <2>5. Moves(t, SetMin(t, x, n)) /\ SetMin(t, x, n) # t
    BY <2>3, <2>4, SetMoves
  <2>6. Moves(t, Fail(t)) /\ ~ Fail(t).ok
    BY SameMoves
  <2>7. ProductLower(t, x, y, r) = IF n > X THEN Fail(t) ELSE SetMin(t, x, n)
    BY <1>4, <1>6
  <2>8. CASE n > X
    BY <2>6, <2>7, <2>8
  <2>9. CASE ~ (n > X)
    BY <2>5, <2>7, <2>9
  <2> QED BY <2>8, <2>9
<1> QED BY <1>5, <1>6

\* A pass that returns true and touches nothing
LEMMA ProductPassIdle ==
  ASSUME NEW t \in PropState, NEW x \in Variable, NEW y \in Variable, NEW r \in Variable
  PROVE  LET u == ProductPass(t, r, x, y)
         IN  u.ok /\ u.touched = t.touched =>
               u = t /\ ProductPass(Call(t.dom), r, x, y) = Call(t.dom)
PROOF
<1>0. ASSUME NEW v \in Variable PROVE t.dom[v].min \in Nat /\ t.dom[v].max \in Nat
  BY DomainTyped
<1>1. PICK lo, hi \in Nat : lo = AsBig(t.dom[x].min * t.dom[y].min) /\ hi = AsBig(t.dom[x].max * t.dom[y].max)
  <2>1. t.dom[x].min * t.dom[y].min \in Nat /\ t.dom[x].max * t.dom[y].max \in Nat
    BY <1>0, Times
  <2> QED BY <2>1, BigTyped
<1>2. PICK s0, s1, s2, s3, s4, s5 :
        /\ s0 = RaiseMin(t, r, lo) /\ s1 = LowerMax(s0, r, hi)
        /\ s2 = ProductUpper(s1, x, y, r) /\ s3 = ProductUpper(s2, y, x, r)
        /\ s4 = ProductLower(s3, x, y, r) /\ s5 = ProductLower(s4, y, x, r)
  OBVIOUS
<1>3. ProductPass(t, r, x, y) = IF lo > t.dom[r].max \/ hi < t.dom[r].min THEN Fail(t) ELSE s5
  BY <1>1, <1>2 DEF ProductPass
<1>4. PICK u : u = ProductPass(t, r, x, y)
  OBVIOUS
<1>5. SUFFICES ASSUME u.ok, u.touched = t.touched
               PROVE  u = t /\ ProductPass(Call(t.dom), r, x, y) = Call(t.dom)
  BY <1>4
<1>6. ~ (lo > t.dom[r].max \/ hi < t.dom[r].min) /\ u = s5
  <2>1. ASSUME lo > t.dom[r].max \/ hi < t.dom[r].min PROVE FALSE
    <3>1. u = Fail(t)
      BY <1>3, <1>4, <2>1
    <3> QED BY <1>5, <3>1, SameMoves
  <2> QED BY <1>3, <1>4, <2>1
<1>7. Moves(t, s0) /\ (s0 = t => ~ (lo > t.dom[r].min))
  <2>1. CASE lo > t.dom[r].min
    <3>1. lo \in Word
      <4>1. t.dom[r].max \in Word /\ t.dom[r].max \in Nat
        BY DomainTyped
      <4>2. PICK w \in Nat : Word = 0 .. w - 1
        BY Words
      <4> QED BY <1>6, <4>1, <4>2
    <3>2. s0 = SetMin(t, r, lo)
      BY <1>2, <2>1 DEF RaiseMin
    <3>3. Moves(t, SetMin(t, r, lo)) /\ SetMin(t, r, lo) # t
      BY <2>1, <3>1, SetMoves
    <3> QED BY <3>2, <3>3
  <2>2. CASE ~ (lo > t.dom[r].min)
    <3>1. s0 = t
      BY <1>2, <2>2 DEF RaiseMin
    <3> QED BY <2>2, <3>1, SameMoves
  <2> QED BY <2>1, <2>2
<1>8. s0 \in PropState
  BY <1>7 DEF Moves
<1>9. Moves(s0, s1) /\ (s1 = s0 => ~ (hi < s0.dom[r].max))
  <2>1. CASE hi < s0.dom[r].max
    <3>1. s1 = SetMax(s0, r, hi)
      BY <1>2, <2>1 DEF LowerMax
    <3>2. Moves(s0, SetMax(s0, r, hi)) /\ SetMax(s0, r, hi) # s0
      BY <1>8, <2>1, SetMoves
    <3> QED BY <3>1, <3>2
  <2>2. CASE ~ (hi < s0.dom[r].max)
    <3>1. s1 = s0
      BY <1>2, <2>2 DEF LowerMax
    <3> QED BY <1>8, <2>2, <3>1, SameMoves
  <2> QED BY <2>1, <2>2
<1>10. s1 \in PropState /\ Moves(s1, s2)
  <2>1. s1 \in PropState
    BY <1>9 DEF Moves
  <2>2. Moves(s1, ProductUpper(s1, x, y, r))
    BY <2>1, UpperMoves
  <2> QED BY <1>2, <2>1, <2>2
<1>11. s2 \in PropState /\ Moves(s2, s3)
  <2>1. s2 \in PropState
    BY <1>10 DEF Moves
  <2>2. Moves(s2, ProductUpper(s2, y, x, r))
    BY <2>1, UpperMoves
  <2> QED BY <1>2, <2>1, <2>2
<1>12. s3 \in PropState /\ Moves(s3, s4)
  <2>1. s3 \in PropState
    BY <1>11 DEF Moves
  <2>2. Moves(s3, ProductLower(s3, x, y, r))
    BY <2>1, LowerMoves
  <2> QED BY <1>2, <2>1, <2>2
<1>13. s4 \in PropState /\ Moves(s4, s5)
  <2>1. s4 \in PropState
    BY <1>12 DEF Moves
  <2>2. Moves(s4, ProductLower(s4, y, x, r))
    BY <2>1, LowerMoves
  <2> QED BY <1>2, <2>1, <2>2
\* Nothing moved
<1>14. s5 = s4 /\ s4 = t
  <2>1. Moves(t, s1)
    BY <1>7, <1>9, MovesTrans
  <2>2. Moves(t, s2)
    BY <1>10, <2>1, MovesTrans
  <2>3. Moves(t, s3)
    BY <1>11, <2>2, MovesTrans
  <2>4. Moves(t, s4)
    BY <1>12, <2>3, MovesTrans
  <2>5. s5.ok /\ s5.touched = t.touched
    BY <1>5, <1>6
  <2> QED BY <1>13, <2>4, <2>5, MovesTrans
<1>15. s3 = t /\ s2 = t /\ s1 = t /\ s0 = t
  <2>0. t.ok /\ s4 = t
    BY <1>5, <1>6, <1>14
  <2>1. Moves(t, s1)
    BY <1>7, <1>9, MovesTrans
  <2>2. Moves(t, s2)
    BY <1>10, <2>1, MovesTrans
  <2>3. Moves(t, s3)
    BY <1>11, <2>2, MovesTrans
  <2>4. s3 = t
    BY <1>12, <2>0, <2>3, MovesTrans
  <2>5. s2 = t
    BY <1>11, <2>0, <2>2, <2>4, MovesTrans
  <2>6. s1 = t
    BY <1>10, <2>0, <2>1, <2>5, MovesTrans
  <2>7. s0 = t
    BY <1>7, <1>9, <2>0, <2>6, MovesTrans
  <2> QED BY <2>4, <2>5, <2>6, <2>7
\* so nothing moves in a call from the domains as they are now
<1>16. PICK s : s = Call(t.dom) /\ s.ok /\ s.dom = t.dom /\ s \in PropState
  BY SameMoves
<1>17. RaiseMin(s, r, lo) = s /\ LowerMax(s, r, hi) = s
  <2>1. ~ (lo > s.dom[r].min) /\ ~ (hi < s.dom[r].max)
    BY <1>7, <1>9, <1>15, <1>16
  <2> QED BY <2>1 DEF RaiseMin, LowerMax
<1>18. /\ ProductUpper(s, x, y, r) = s /\ ProductUpper(s, y, x, r) = s
       /\ ProductLower(s, x, y, r) = s /\ ProductLower(s, y, x, r) = s
  <2>0. t.ok
    BY <1>5, <1>6, <1>14
  <2>1. ProductUpper(t, x, y, r) = t /\ ProductUpper(t, y, x, r) = t
    BY <1>2, <1>15
  <2>2. ProductLower(t, x, y, r) = t /\ ProductLower(t, y, x, r) = t
    BY <1>2, <1>14, <1>15
  <2>3. ProductUpper(s, x, y, r) = s /\ ProductUpper(s, y, x, r) = s
    BY <1>16, <2>0, <2>1, UpperMoves
  <2>4. ProductLower(s, x, y, r) = s /\ ProductLower(s, y, x, r) = s
    BY <1>16, <2>0, <2>2, LowerMoves
  <2> QED BY <2>3, <2>4
<1>19. ProductPass(s, r, x, y) = s
  <2>1. /\ lo = AsBig(s.dom[x].min * s.dom[y].min) /\ hi = AsBig(s.dom[x].max * s.dom[y].max)
        /\ ~ (lo > s.dom[r].max \/ hi < s.dom[r].min)
    BY <1>1, <1>6, <1>16
  <2> QED BY <1>17, <1>18, <2>1 DEF ProductPass
<1> QED BY <1>6, <1>14, <1>16, <1>19

\* Where a loop ends, its last pass asked for no other.
EndsIn(S, next, goes, P) == \A s \in S : ~ goes[s] => next[s] \in P

LEMMA LoopEnds ==
  ASSUME NEW S, NEW next \in [S -> S], NEW goes \in [S -> BOOLEAN],
         NEW rank \in [S -> Nat], NEW n \in Nat, Falls(S, next, goes, rank, n),
         NEW f, Repeats(f, S, next, goes), NEW P, EndsIn(S, next, goes, P)
  PROVE  Passes(f, S, P)
PROOF
<1> USE DEF Passes, EndsIn
<1> DEFINE T == {k \in 0 .. n + 1 : \A s \in S : rank[s] < k => f[s] \in P}
<1>1. 0 \in T
  <2>1. \A s \in S : ~ (rank[s] < 0)
    OBVIOUS
  <2> QED BY <2>1
<1>2. ASSUME NEW k \in 1 .. n + 1, k - 1 \in T PROVE k \in T
  <2>1. ASSUME NEW s \in S, rank[s] < k PROVE f[s] \in P
    <3>0. f[s] = IF goes[s] THEN f[next[s]] ELSE next[s]
      BY DEF Repeats
    <3>1. CASE goes[s]
      <4>1. PICK t \in S : t = next[s]
        OBVIOUS
      <4>2. rank[t] < rank[s] /\ rank[t] \in Nat /\ rank[s] \in Nat
        BY <3>1, <4>1 DEF Falls
      <4>3. rank[t] < k - 1
        BY <2>1, <4>2
      <4>4. f[t] \in P
        BY <1>2, <4>3
      <4> QED BY <3>0, <3>1, <4>1, <4>4
    <3>2. CASE ~ goes[s]
      BY <3>0, <3>2
    <3> QED BY <3>1, <3>2
  <2> QED BY <2>1
<1>3. 0 .. n + 1 \subseteq T
  <2> HIDE DEF T
  <2>1. n + 1 \in Nat
    OBVIOUS
  <2> QED BY <1>1, <1>2, <2>1, UpTo
<1>4. n + 1 \in T
  BY <1>3
<1>5. \A s \in S : rank[s] < n + 1
  BY DEF Falls
<1> QED BY <1>4, <1>5

LEMMA ProductSettled ==
  ASSUME NEW c, c.kind = "Product", c.vars \in Seq(Variable), Len(c.vars) = 3,
         NEW dom, Fine(Call(dom)), NEW t, t = PropagateProduct(c, dom), t.ok
  PROVE  PropagateProduct(c, t.dom) = Call(t.dom)
PROOF
<1>1. PICK x, y, r \in Variable : r = c.vars[1] /\ x = c.vars[2] /\ y = c.vars[3]
  <2>1. 1 \in 1 .. 3 /\ 2 \in 1 .. 3 /\ 3 \in 1 .. 3
    OBVIOUS
  <2>2. \A i \in 1 .. 3 : c.vars[i] \in Variable
    OBVIOUS
  <2> QED BY <2>1, <2>2
<1>2. PICK f, next, goes, rank, n :
        ProductLoop(f, next, goes, rank, n, x, y, r) /\ PropagateProduct(c, dom) = f[Call(dom)]
  BY <1>1, ProductLoops
<1>3. /\ next \in [PropState -> PropState] /\ goes \in [PropState -> BOOLEAN]
      /\ rank \in [PropState -> Nat] /\ n \in Nat
      /\ Falls(PropState, next, goes, rank, n) /\ Repeats(f, PropState, next, goes)
      /\ \A s \in PropState : /\ next[s] = ProductPass(s, r, x, y)
                              /\ (goes[s] <=> next[s].ok /\ next[s].touched # s.touched)
  BY <1>2 DEF ProductLoop
<1>4. PICK P : P = {u \in PropState : u.ok => ProductPass(Call(u.dom), r, x, y) = Call(u.dom)}
  OBVIOUS
<1>5. \A s \in PropState : ~ goes[s] => next[s] \in P
  <2>1. ASSUME NEW s \in PropState, ~ goes[s] PROVE next[s] \in P
    <3>1. PICK u : u = next[s] /\ u = ProductPass(s, r, x, y) /\ u \in PropState
      BY <1>3
    <3>2. u.ok => u.touched = s.touched
      BY <1>3, <2>1, <3>1
    <3>3. ASSUME u.ok PROVE ProductPass(Call(u.dom), r, x, y) = Call(u.dom)
      <4>1. u = s /\ ProductPass(Call(s.dom), r, x, y) = Call(s.dom)
        BY <3>1, <3>2, <3>3, ProductPassIdle
      <4> QED BY <4>1
    <3> QED BY <1>4, <3>1, <3>3
  <2> QED BY <2>1
<1>6. \A s \in PropState : f[s] \in P
  <2>1. /\ next \in [PropState -> PropState] /\ goes \in [PropState -> BOOLEAN]
        /\ rank \in [PropState -> Nat] /\ n \in Nat
        /\ Falls(PropState, next, goes, rank, n) /\ Repeats(f, PropState, next, goes)
        /\ EndsIn(PropState, next, goes, P)
    BY <1>3, <1>5 DEF EndsIn
  <2>2. Passes(f, PropState, P)
    BY <2>1, LoopEnds, Zenon
  <2> QED BY <2>2 DEF Passes
<1>7. t \in PropState /\ ProductPass(Call(t.dom), r, x, y) = Call(t.dom)
  <2>1. Call(dom) \in PropState
    BY DEF Fine
  <2>2. t \in P
    BY <1>2, <1>6, <2>1
  <2> QED BY <1>4, <2>2
\* The next call makes one pass.
<1>8. PICK s : s = Call(t.dom) /\ s \in PropState
  BY <1>7, SameMoves
<1>9. PICK g, next2, goes2, rank2, n2 :
        ProductLoop(g, next2, goes2, rank2, n2, x, y, r) /\ PropagateProduct(c, t.dom) = g[s]
  BY <1>1, <1>8, ProductLoops
<1>10. /\ Repeats(g, PropState, next2, goes2)
       /\ \A i \in PropState : /\ next2[i] = ProductPass(i, r, x, y)
                               /\ (goes2[i] <=> next2[i].ok /\ next2[i].touched # i.touched)
  BY <1>9 DEF ProductLoop
<1>11. g[s] = s
  <2>1. next2[s] = s
    BY <1>7, <1>8, <1>10
  <2>2. ~ goes2[s]
    BY <1>8, <1>10, <2>1
  <2> QED BY <1>8, <1>10, <2>1, <2>2 DEF Repeats
<1> QED BY <1>8, <1>9, <1>11

-----------------------------------------------------------------------------
(* Any constraint, and the second of two calls *)

\* From the domains that a successful call of any constraint leaves, a call
\* succeeds and changes nothing (Scheduler.cpp:57-60).
THEOREM DispatchSettled ==
  ASSUME CallsFit, NEW c \in Calls, NEW dom, Fine(Call(dom)),
         \A v \in Variable : Size(dom[v]) > 0,
         NEW t, t = Dispatch(c, dom), Fine(t), t.ok
  PROVE  Dispatch(c, t.dom) = Call(t.dom)
PROOF
<1>1. /\ c.vars \in Seq(Variable)
      /\ c.kind = "Product" \/ IsInjective(c.vars)
      /\ \/ c.kind = "Product" /\ Len(c.vars) = 3
         \/ c.kind = "Sum" /\ Len(c.vars) \in 1 .. 2^Bits
         \/ c.kind \in {"Max", "Min"} /\ Len(c.vars) >= 2
         \/ c.kind \in {"Less", "LessOrEqual"} /\ Len(c.vars) = 2
         \/ /\ c.kind = "Call" /\ Len(c.vars) >= 1
            /\ c.limit \in Word
            /\ \A values \in [1 .. Len(c.vars) - 1 -> Word] :
                 Apply(c.f, values) = {} \/ \E n \in Word : Apply(c.f, values) = {n}
  BY DEF CallsFit
<1>2. CASE c.kind = "Product"
  <2>1. \A d : Dispatch(c, d) = PropagateProduct(c, d)
    BY <1>2 DEF Dispatch
  <2>2. Len(c.vars) = 3
    BY <1>1, <1>2
  <2>3. PropagateProduct(c, t.dom) = Call(t.dom)
    BY <1>1, <1>2, <2>1, <2>2, ProductSettled
  <2> QED BY <2>1, <2>3
<1>3. CASE c.kind = "Sum"
  <2>1. \A d : Dispatch(c, d) = PropagateSum(c, d)
    BY <1>3 DEF Dispatch
  <2>2. Len(c.vars) \in 1 .. 2^Bits /\ IsInjective(c.vars)
    BY <1>1, <1>3
  <2>3. PropagateSum(c, t.dom) = Call(t.dom)
    BY <1>1, <1>3, <2>1, <2>2, SumSettled
  <2> QED BY <2>1, <2>3
<1>4. CASE c.kind = "Max"
  <2>1. \A d : Dispatch(c, d) = PropagateMax(c, d)
    BY <1>4 DEF Dispatch
  <2>2. Len(c.vars) >= 2 /\ IsInjective(c.vars)
    BY <1>1, <1>4
  <2>3. PropagateMax(c, t.dom) = Call(t.dom)
    BY <1>1, <1>4, <2>1, <2>2, MaxSettled
  <2> QED BY <2>1, <2>3
<1>5. CASE c.kind = "Min"
  <2>1. \A d : Dispatch(c, d) = PropagateMin(c, d)
    BY <1>5 DEF Dispatch
  <2>2. Len(c.vars) >= 2 /\ IsInjective(c.vars)
    BY <1>1, <1>5
  <2>3. PropagateMin(c, t.dom) = Call(t.dom)
    BY <1>1, <1>5, <2>1, <2>2, MinSettled
  <2> QED BY <2>1, <2>3
<1>6. CASE c.kind = "Less"
  <2>1. \A d : Dispatch(c, d) = PropagateLess(c, d)
    BY <1>6 DEF Dispatch
  <2>2. Len(c.vars) = 2 /\ IsInjective(c.vars)
    BY <1>1, <1>6
  <2>3. PropagateLess(c, t.dom) = Call(t.dom)
    BY <1>1, <1>6, <2>1, <2>2, LessSettled
  <2> QED BY <2>1, <2>3
<1>7. CASE c.kind = "LessOrEqual"
  <2>1. \A d : Dispatch(c, d) = PropagateLessOrEqual(c, d)
    BY <1>7 DEF Dispatch
  <2>2. Len(c.vars) = 2 /\ IsInjective(c.vars)
    BY <1>1, <1>7
  <2>3. PropagateLessOrEqual(c, t.dom) = Call(t.dom)
    BY <1>1, <1>7, <2>1, <2>2, LessOrEqualSettled
  <2> QED BY <2>1, <2>3
<1>8. CASE c.kind = "Call"
  <2>1. \A d : Dispatch(c, d) = PropagateCall(c, d)
    BY <1>8 DEF Dispatch
  <2>2. /\ Len(c.vars) >= 1 /\ IsInjective(c.vars) /\ c.limit \in Word
        /\ \A values \in [1 .. Len(c.vars) - 1 -> Word] :
             Apply(c.f, values) = {} \/ \E n \in Word : Apply(c.f, values) = {n}
    BY <1>1, <1>8
  <2>3. t = PropagateCall(c, dom)
    BY <2>1
  <2>4. PropagateCall(c, t.dom) = Call(t.dom)
    BY <1>1, <1>8, <2>2, <2>3, CallSettled
  <2> QED BY <2>1, <2>4
<1> QED BY <1>1, <1>2, <1>3, <1>4, <1>5, <1>6, <1>7, <1>8

\* Between the calls: what the first one left is a fixed point.
AnswerSettled ==
  calls \in {0, 1} /\ outcome.ok =>
    IF calls = 0 THEN outcome = Call(entry)
    ELSE Dispatch(constraint, outcome.dom) = Call(outcome.dom)

LEMMA FirstCallSettles ==
  ASSUME CallsFit, IInv, AnswerSettled, PropagateAgain
  PROVE  /\ AnswerSettled'
         /\ calls = 1 => outcome'.ok /\ outcome'.dom = outcome.dom /\ outcome'.touched = <<>>
PROOF
<1>1. PICK c, t, u : c = constraint /\ t = outcome /\ u = outcome'
  OBVIOUS
<1>2. /\ c \in Calls /\ Fine(t) /\ Fine(Call(entry)) /\ calls \in 0 .. MaxCalls
      /\ \A v \in Variable : Size(entry[v]) > 0
  BY <1>1 DEF IInv
<1>3. /\ u = Dispatch(c, t.dom) /\ t.ok /\ constraint' = c /\ calls' = calls + 1
      /\ calls \in {0, 1}
  BY <1>1, <1>2 DEF PropagateAgain, MaxCalls
<1>4. IInv' /\ Fine(u)
  <2>1. IInv'
    BY CallKeepsFine
  <2> QED BY <1>1, <2>1 DEF IInv
<1>5. CASE calls = 0
  <2>1. t = Call(entry) /\ t.dom = entry
    <3>1. t = Call(entry)
      BY <1>1, <1>3, <1>5 DEF AnswerSettled
    <3> QED BY <3>1 DEF Call
  <2>2. ASSUME u.ok PROVE Dispatch(c, u.dom) = Call(u.dom)
    <3>1. u = Dispatch(c, entry)
      BY <1>3, <2>1
    <3> QED BY <1>2, <1>4, <2>2, <3>1, DispatchSettled
  <2>3. calls' = 1
    BY <1>3, <1>5
  <2> QED BY <1>1, <1>3, <1>5, <2>2, <2>3 DEF AnswerSettled
<1>6. CASE calls = 1
  <2>1. Dispatch(c, t.dom) = Call(t.dom)
    BY <1>1, <1>3, <1>6 DEF AnswerSettled
  <2>2. u.ok /\ u.dom = t.dom /\ u.touched = <<>>
    BY <1>3, <2>1 DEF Call
  <2>3. calls' = 2
    BY <1>3, <1>6
  <2> QED BY <1>1, <2>2, <2>3 DEF AnswerSettled
<1> QED BY <1>3, <1>5, <1>6

\* "The propagate() method is responsible for computing the fixed point such that a
\* second call to propagate() immediately after would make no further changes"
\* (Scheduler.cpp:57-60): where a call of any constraint that Model builds succeeds,
\* from any domains, the call after it succeeds, narrows no domain and sets none.
THEOREM CallsReachFixedPoint == CallsFit /\ Spec => FixedPoint
PROOF
<1> DEFINE Still == calls = 1 => outcome'.ok /\ outcome'.dom = outcome.dom
                                 /\ outcome'.touched = <<>>
<1> SUFFICES ASSUME CallsFit PROVE Spec => FixedPoint
  OBVIOUS
<1>1. Spec => []IInv
  BY CallsStayFine
<1>2. Init => AnswerSettled
  BY DEF Init, AnswerSettled
<1>3. IInv /\ AnswerSettled /\ [Next]_vars => AnswerSettled'
  <2> SUFFICES ASSUME IInv, AnswerSettled, [Next]_vars PROVE AnswerSettled'
    OBVIOUS
  <2>1. CASE PropagateAgain
    BY <2>1, FirstCallSettles
  <2>2. CASE UNCHANGED vars
    BY <2>2 DEF AnswerSettled, vars
  <2> QED BY <2>1, <2>2 DEF Next
<1>4. IInv /\ AnswerSettled /\ [Next]_vars => [Still]_vars
  <2> SUFFICES ASSUME IInv, AnswerSettled, [Next]_vars PROVE [Still]_vars
    OBVIOUS
  <2>1. CASE PropagateAgain
    BY <2>1, FirstCallSettles
  <2>2. CASE UNCHANGED vars
    BY <2>2
  <2> QED BY <2>1, <2>2 DEF Next
<1>5. Spec => [][Still]_vars
  <2> HIDE DEF Still
  <2> QED BY <1>1, <1>2, <1>3, <1>4, PTL DEF Spec
<1> QED BY <1>5 DEF FixedPoint
=============================================================================
