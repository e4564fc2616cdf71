---------------------------- MODULE Constraints ----------------------------
(***************************************************************************)
(* The constraints of popsolver: bounds propagation over unsigned          *)
(* interval domains (lib/popsolver/Constraint.cpp).                        *)
(*                                                                         *)
(* One operator per Constraint::propagate override.  Each maps the state   *)
(* of the scheduler as one propagate() call sees it, a PropState, to the   *)
(* state at its return:                                                    *)
(*   ok       the value returned, FALSE when the constraint cannot be met  *)
(*   dom      the domains of all variables                                 *)
(*   touched  the variables passed to Scheduler::set, setMin and setMax,   *)
(*            in call order; each such call queues the constraints of the  *)
(*            variable it is given                                         *)
(*   fault    whether an assert of the code failed; the state goes on as   *)
(*            it does in a build with NDEBUG                               *)
(*                                                                         *)
(* A constraint is a record: kind names the class, vars is the class's     *)
(* vars member (the result first, where there is one).  A GenericAssignment*)
(* also has f, the name of the function it was given, and limit, the       *)
(* largest value of its argument type T.                                   *)
(***************************************************************************)
EXTENDS Integers, FiniteSetsExt, SequencesExt

CONSTANTS
  Variable,     \* the variables of the model
  Bits,         \* the width of DataType::UnderlyingType (64 in the code)
  Apply(_, _)   \* Apply(f, values): the call's result, {} for boost::none

ASSUME BitsAssumption ==
  /\ Bits \in Nat \ {0}
  /\ 2^Bits \in Nat /\ 2^Bits >= 2 /\ 2^(2 * Bits) = 2^Bits * 2^Bits

Word == 0 .. (2^Bits - 1)                       \* DataType
AsWord(n) == n % (2^Bits)                       \* unsigned wrap-around
AsBig(n) == n % (2^(2 * Bits))                  \* BigInteger, twice as wide

Domain == [min : Word, max : Word]
Domains == [Variable -> Domain]
Interval(d) == d.min .. d.max
Size(d) == AsWord(d.max - d.min + 1)            \* Domain::size wraps

Assignment == [Variable -> Word]
InDomains(a, dom) == \A v \in Variable : a[v] \in Interval(dom[v])

PropState == [ok : BOOLEAN, dom : Domains, touched : Seq(Variable),
              fault : BOOLEAN]

Call(dom) == [ok |-> TRUE, dom |-> dom, touched |-> <<>>, fault |-> FALSE]
Fail(s) == [s EXCEPT !.ok = FALSE]
Checked(s, p) == [s EXCEPT !.fault = @ \/ ~p]

-----------------------------------------------------------------------------
(* Scheduler::set, setMin and setMax as a propagate() calls them.  All     *)
(* three assert that the value lies in the present domain.                 *)

SetDomain(s, v, d, value) ==
  [Checked(s, value \in Interval(s.dom[v]))
     EXCEPT !.dom[v] = d, !.touched = Append(@, v)]

SetValue(s, v, value) ==
  SetDomain(s, v, [min |-> value, max |-> value], value)
SetMin(s, v, value) ==
  SetDomain(s, v, [min |-> value, max |-> s.dom[v].max], value)
SetMax(s, v, value) ==
  SetDomain(s, v, [min |-> s.dom[v].min, max |-> value], value)

\* The code calls setMin and setMax only where they tighten the domain.
RaiseMin(s, v, value) ==
  IF value > s.dom[v].min THEN SetMin(s, v, value) ELSE s
LowerMax(s, v, value) ==
  IF value < s.dom[v].max THEN SetMax(s, v, value) ELSE s

\* A loop over the operands that stops at the first "return false".
ForEach(Step(_, _), s, vars) ==
  FoldLeft(LAMBDA t, v : IF t.ok THEN Step(t, v) ELSE t, s, vars)

-----------------------------------------------------------------------------
(* Product::propagate: result = left * right *)

\* x.max * y.min <= result.max bounds x from above
ProductUpper(s, x, y, result) ==
  LET newMax == s.dom[result].max \div s.dom[y].min
      checked == Checked(s, newMax < s.dom[x].max)
  IN IF \/ ~ s.ok
        \/ s.dom[y].min = 0
        \/ s.dom[y].min * s.dom[x].max <= s.dom[result].max
     THEN s
     ELSE IF newMax < s.dom[x].min THEN Fail(checked)
          ELSE SetMax(checked, x, newMax)

\* x.min * y.max >= result.min bounds x from below
ProductLower(s, x, y, result) ==
  LET low == s.dom[result].min
      high == s.dom[y].max
      newMin == AsWord((low \div high) + (IF low % high # 0 THEN 1 ELSE 0))
  IN IF ~ s.ok \/ high = 0 \/ high * s.dom[x].min >= low \/ newMin <= s.dom[x].min
     THEN s
     ELSE IF newMin > s.dom[x].max THEN Fail(s) ELSE SetMin(s, x, newMin)

\* One iteration of the do-while loop.
ProductPass(s, result, left, right) ==
  LET minProduct == AsBig(s.dom[left].min * s.dom[right].min)
      maxProduct == AsBig(s.dom[left].max * s.dom[right].max)
      s1 == LowerMax(RaiseMin(s, result, minProduct), result, maxProduct)
      s2 == ProductUpper(s1, left, right, result)
      s3 == ProductUpper(s2, right, left, result)
      s4 == ProductLower(s3, left, right, result)
  IN IF minProduct > s.dom[result].max \/ maxProduct < s.dom[result].min
     THEN Fail(s)
     ELSE ProductLower(s4, right, left, result)

\* Mutant: no loop.
ProductOnce(c, dom) == ProductPass(Call(dom), c.vars[1], c.vars[2], c.vars[3])

PropagateProduct(c, dom) ==
  LET loop[s \in PropState] ==
        LET next == ProductPass(s, c.vars[1], c.vars[2], c.vars[3])
        IN IF next.ok /\ next.touched # s.touched THEN loop[next] ELSE next
  IN loop[Call(dom)]

-----------------------------------------------------------------------------
(* Sum::propagate: result = the sum of the operands.  minSum and maxSum    *)
(* are computed once, from the domains at the call; the operand loop reads *)
(* the domains as they are by then.                                        *)

\* Mutant: the operand's own bounds stay in the sums of the others.
SumOperandCountsItself(s, v, result, minSum, maxSum) ==
  LET newMax == s.dom[result].max - minSum
      lowered == LowerMax(s, v, newMax)
      newMin == lowered.dom[result].min - maxSum
  IN IF newMax < s.dom[v].min THEN Fail(s)
     ELSE IF newMin > lowered.dom[v].max THEN Fail(lowered)
     ELSE RaiseMin(lowered, v, newMin)

SumOperand(s, v, result, minSum, maxSum) ==
  LET minOtherVarsSum == AsBig(minSum - s.dom[v].min)
      newMax == s.dom[result].max - minOtherVarsSum
      lowered == LowerMax(s, v, newMax)
      maxOtherVarsSum == AsBig(maxSum - s.dom[v].max)
      newMin == lowered.dom[result].min - maxOtherVarsSum
  IN IF newMax < s.dom[v].min THEN Fail(s)
     ELSE IF newMin > lowered.dom[v].max THEN Fail(lowered)
     ELSE RaiseMin(lowered, v, newMin)

PropagateSum(c, dom) ==
  LET result == Head(c.vars)
      args == Tail(c.vars)
      minSum == FoldLeft(LAMBDA n, v : n + dom[v].min, 0, args)
      maxSum == FoldLeft(LAMBDA n, v : n + dom[v].max, 0, args)
      s == LowerMax(RaiseMin(Call(dom), result, minSum), result, maxSum)
  IN IF minSum > dom[result].max \/ maxSum < dom[result].min
     THEN Fail(Call(dom))
     ELSE ForEach(LAMBDA t, v : SumOperand(t, v, result, minSum, maxSum), s, args)

-----------------------------------------------------------------------------
(* Max::propagate and Min::propagate: result = the extremum of the operands *)

PropagateMax(c, dom) ==
  LET result == Head(c.vars)
      args == Tail(c.vars)
      upper == dom[result].max
      Clip(t, v) ==
        IF t.dom[v].min > upper THEN Fail(t) ELSE LowerMax(t, v, upper)
      s == ForEach(Clip, Call(dom), args)
      maxLower == Max({s.dom[v].min : v \in ToSet(args)})
      maxUpper == Max({s.dom[v].max : v \in ToSet(args)})
      checked == Checked(s, upper >= maxLower)
  IN IF ~ s.ok THEN s
     ELSE IF dom[result].min > maxUpper THEN Fail(checked)
     ELSE RaiseMin(LowerMax(checked, result, maxUpper), result, maxLower)

PropagateMin(c, dom) ==
  LET result == Head(c.vars)
      args == Tail(c.vars)
      lower == dom[result].min
      Clip(t, v) ==
        IF t.dom[v].max < lower THEN Fail(t) ELSE RaiseMin(t, v, lower)
      s == ForEach(Clip, Call(dom), args)
      minLower == Min({s.dom[v].min : v \in ToSet(args)})
      minUpper == Min({s.dom[v].max : v \in ToSet(args)})
      checked == Checked(s, lower <= minUpper)
  IN IF ~ s.ok THEN s
     ELSE IF dom[result].max < minLower THEN Fail(checked)
     ELSE RaiseMin(LowerMax(checked, result, minUpper), result, minLower)

-----------------------------------------------------------------------------
(* Less::propagate and LessOrEqual::propagate: vars is <<left, right>>.    *)
(* Both tests of Less come after left.min < right.max is known, so that    *)
(* neither the increment nor the decrement can wrap at the first one; the  *)
(* second reads the domains as the first left them.                        *)

PropagateLess(c, dom) ==
  LET left == c.vars[1]
      right == c.vars[2]
      s == RaiseMin(Call(dom), right, AsWord(dom[left].min + 1))
  IN IF dom[left].min >= dom[right].max THEN Fail(Call(dom))
     ELSE LowerMax(s, left, AsWord(s.dom[right].max - 1))

PropagateLessOrEqual(c, dom) ==
  LET left == c.vars[1]
      right == c.vars[2]
      s == RaiseMin(Call(dom), right, dom[left].min)
  IN IF dom[left].min > dom[right].max THEN Fail(Call(dom))
     ELSE LowerMax(s, left, s.dom[right].max)

-----------------------------------------------------------------------------
(* GenericAssignment<T>::propagate: result = f(operands).  Operands are    *)
(* clipped to the range of T; nothing else is deduced until they all have  *)
(* a value.                                                                *)

\* Mutant: a result that has a value is left alone.
CallUnlessKnown(c, dom) ==
  LET result == Head(c.vars)
      args == Tail(c.vars)
      Clip(t, v) ==
        IF t.dom[v].min > c.limit THEN Fail(t) ELSE LowerMax(t, v, c.limit)
      s == ForEach(Clip, Call(dom), args)
      x == Apply(c.f, [i \in DOMAIN args |-> s.dom[args[i]].min])
  IN IF ~ s.ok \/ \E v \in ToSet(c.vars) : (Size(s.dom[v]) > 1) = (v # result) THEN s
     ELSE IF x \intersect Interval(s.dom[result]) = {} THEN Fail(s)
     ELSE SetValue(s, result, CHOOSE n \in x : TRUE)

PropagateCall(c, dom) ==
  LET result == Head(c.vars)
      args == Tail(c.vars)
      Clip(t, v) ==
        IF t.dom[v].min > c.limit THEN Fail(t) ELSE LowerMax(t, v, c.limit)
      s == ForEach(Clip, Call(dom), args)
      assigned == \A v \in ToSet(args) : Size(s.dom[v]) <= 1
      values == [i \in DOMAIN args |-> s.dom[args[i]].min]
      checked == Checked(s, \A v \in ToSet(args) : s.dom[v].min = s.dom[v].max)
      x == Apply(c.f, values)
  IN IF ~ s.ok \/ ~ assigned THEN s
     ELSE IF x \intersect Interval(s.dom[result]) = {} THEN Fail(checked)
     ELSE IF \A n \in x : s.dom[result] = [min |-> n, max |-> n] THEN checked
     ELSE SetValue(checked, result, CHOOSE n \in x : TRUE)

-----------------------------------------------------------------------------
GetVariables(c) == ToSet(c.vars)                       \* Constraint::getVariables

Dispatch(c, dom) ==                            \* the virtual call
  CASE c.kind = "Product"     -> PropagateProduct(c, dom)
    [] c.kind = "Sum"         -> PropagateSum(c, dom)
    [] c.kind = "Max"         -> PropagateMax(c, dom)
    [] c.kind = "Min"         -> PropagateMin(c, dom)
    [] c.kind = "Less"        -> PropagateLess(c, dom)
    [] c.kind = "LessOrEqual" -> PropagateLessOrEqual(c, dom)
    [] c.kind = "Call"        -> PropagateCall(c, dom)

-----------------------------------------------------------------------------
(* What each constraint means: the relation Model.hpp states for the       *)
(* method that adds it, over the integers.                                 *)

\* the values a constraint that has a result allows it, one or none
Results(c, args) ==
  CASE c.kind = "Product" -> {args[1] * args[2]}
    [] c.kind = "Sum"     -> {FoldLeft(+, 0, args)}
    [] c.kind = "Max"     -> {Max(ToSet(args))}
    [] c.kind = "Min"     -> {Min(ToSet(args))}
    [] c.kind = "Call"    -> IF \A i \in DOMAIN args : args[i] <= c.limit
                             THEN Apply(c.f, args) ELSE {}

Meaning(c, a) ==
  LET value == [i \in DOMAIN c.vars |-> a[c.vars[i]]]
  IN CASE c.kind = "Less"        -> value[1] < value[2]
       [] c.kind = "LessOrEqual" -> value[1] <= value[2]
       [] OTHER                  -> Head(value) \in Results(c, Tail(value))

=============================================================================
