---------------------------- MODULE ModelBuilder ----------------------------
(***************************************************************************)
(* The methods of Model that add variables and constraints                 *)
(* (lib/popsolver/Model.cpp:105-335), called in any order by a planner.    *)
(*                                                                         *)
(* The solver knows seven kinds of constraint; division, remainder and the *)
(* like are built from them with variables the caller never sees.  The     *)
(* properties say that what is built means what was asked.                 *)
(*                                                                         *)
(* A variable is its place in initialDomains, counted from 1.  A method    *)
(* maps a Model to the Model after it and the variable it returns.         *)
(***************************************************************************)
EXTENDS Constraints

CONSTANTS
  InputDomains,    \* the domains of the variables the caller adds
  OperandLists,    \* the lists of operands it calls a method with, as places
                   \* in handles
  Function,        \* a function it passes to Model::call, of two operands
  MaxCalls,        \* bound on the number of calls
  MinDividend,     \* the caller divides with ceildivConstrainDivisor only what
                   \* is at least this
  Small            \* the values for which NothingRuledOut is claimed

VARIABLES
  model,      \* initialDomains, constants, priority and constraints
  handles,    \* the variables the caller has
  asked       \* the calls it has made, with the variable each returned

vars == <<model, handles, asked>>

-----------------------------------------------------------------------------
(* Variables *)

Empty == [domains |-> <<>>, constants |-> {}, priority |-> <<>>, constraints |-> <<>>]

\* A constant that is there already is returned instead of a new variable.
AddVariable(m, min, max) ==
  LET v == Len(m.domains) + 1
      known == {u \in m.constants : m.domains[u].min = min}
  IN IF min = max /\ known # {}
       THEN [model |-> m, var |-> CHOOSE u \in known : TRUE]
       ELSE [model |-> [m EXCEPT
                          !.domains = Append(@, [min |-> min, max |-> max]),
                          !.constants = IF min = max THEN @ \cup {v} ELSE @,
                          !.priority = Append(@, 0)],
             var |-> v]

AddConstant(m, value) == AddVariable(m, value, value)

\* the default domain, which leaves out the largest DataType
NewVariable(m) == AddVariable(m, 0, 2^Bits - 2)

AddConstraint(m, kind, operands) ==
  [m EXCEPT !.constraints = Append(@, [kind |-> kind, vars |-> operands])]

\* a new variable, the result of a constraint over operands
Define(m, kind, operands) ==
  LET r == NewVariable(m)
  IN [r EXCEPT !.model = AddConstraint(r.model, kind, <<r.var>> \o operands)]

-----------------------------------------------------------------------------
(* Methods *)

\* A product of many is a balanced tree of products of two.
Product(m, operands) ==
  LET tree[s \in [model : {m}, vars : Seq(Variable)]] ==
        LET mid == Len(s.vars) \div 2
            left == tree[[model |-> s.model, vars |-> SubSeq(s.vars, 1, mid)]]
            right == tree[[model |-> left.model,
                           vars |-> SubSeq(s.vars, mid + 1, Len(s.vars))]]
        IN IF Len(s.vars) = 1 THEN [model |-> s.model, var |-> s.vars[1]]
           ELSE Define(right.model, "Product", <<left.var, right.var>>)
  IN IF operands = <<>> THEN AddConstant(m, 1) ELSE tree[[model |-> m, vars |-> operands]]

Sum(m, operands) ==
  IF operands = <<>> THEN AddConstant(m, 0)
  ELSE IF Len(operands) = 1 THEN [model |-> m, var |-> operands[1]]
  ELSE Define(m, "Sum", operands)

\* Model::max and Model::min, by the kind of constraint they add
Extremum(m, kind, operands) ==
  IF Len(operands) = 1 THEN [model |-> m, var |-> operands[1]]
  ELSE Define(m, kind, operands)

\* left - right is what has to be added to right to give left
Sub(m, left, right) ==
  LET r == NewVariable(m)
  IN [r EXCEPT !.model = AddConstraint(r.model, "Sum", <<left, r.var, right>>)]

Less(m, left, right) == AddConstraint(m, "Less", <<left, right>>)
LessOrEqual(m, left, right) == AddConstraint(m, "LessOrEqual", <<left, right>>)
Equal(m, left, right) == AddConstraint(m, "Sum", <<left, right>>)

\* Mutant: the remainder may equal the divisor.
FloordivTooLow(m, left, right) ==
  LET result == NewVariable(m)
      times == Product(result.model, <<result.var, right>>)
      next == Sum(LessOrEqual(times.model, times.var, left), <<times.var, right>>)
  IN [model |-> LessOrEqual(next.model, left, next.var), var |-> result.var]

\* result * right <= left < result * right + right
Floordiv(m, left, right) ==
  LET result == NewVariable(m)
      times == Product(result.model, <<result.var, right>>)
      next == Sum(LessOrEqual(times.model, times.var, left), <<times.var, right>>)
  IN [model |-> Less(next.model, left, next.var), var |-> result.var]

\* left <= result * right < left + right
Ceildiv(m, left, right) ==
  LET result == NewVariable(m)
      times == Product(result.model, <<result.var, right>>)
      next == Sum(LessOrEqual(times.model, left, times.var), <<left, right>>)
  IN [model |-> Less(next.model, times.var, next.var), var |-> result.var]

\* and result * right < left + result
CeildivConstrainDivisor(m, left, right) ==
  LET result == Ceildiv(m, left, right)
      times == Product(result.model, <<result.var, right>>)
      total == Sum(times.model, <<left, result.var>>)
  IN [model |-> Less(total.model, times.var, total.var), var |-> result.var]

Mod(m, left, right) ==
  LET quotient == Floordiv(m, left, right)
      times == Product(quotient.model, <<quotient.var, right>>)
  IN Sub(times.model, left, times.var)

FactorOf(m, left, right) ==
  LET result == NewVariable(m)
      times == Product(result.model, <<result.var, right>>)
  IN Equal(times.model, left, times.var)

\* Model::call, which raises the priority of its operands
AddCall(m, operands) ==
  LET raised == [m EXCEPT !.priority =
                   [v \in DOMAIN @ |-> IF v \in ToSet(operands) THEN 1 ELSE @[v]]]
      r == NewVariable(raised)
      c == [kind |-> "Call", vars |-> <<r.var>> \o operands, f |-> Function,
            limit |-> 2^Bits - 1]
  IN [r EXCEPT !.model = [r.model EXCEPT !.constraints = Append(@, c)]]

-----------------------------------------------------------------------------
\* The caller adds two variables; it has one if both are the same constant.
Init ==
  /\ \E d, e \in InputDomains :
       LET first == AddVariable(Empty, d.min, d.max)
           second == AddVariable(first.model, e.min, e.max)
       IN /\ model = second.model
          /\ handles = <<first.var, second.var>>
  /\ asked = <<>>

Operands == {[i \in DOMAIN list |-> handles[list[i]]] :
               list \in {l \in OperandLists : ToSet(l) \subseteq DOMAIN handles}}
Pairs == {operands \in Operands : Len(operands) = 2}

\* a method that returns a variable
Ask(method, operands, r) ==
  /\ Len(asked) < MaxCalls
  /\ model' = r.model
  /\ handles' = Append(handles, r.var)
  /\ asked' = Append(asked, [method |-> method, args |-> operands, result |-> <<r.var>>])

\* a method that returns nothing
Constrain(method, operands, m) ==
  /\ Len(asked) < MaxCalls
  /\ model' = m
  /\ handles' = handles
  /\ asked' = Append(asked, [method |-> method, args |-> operands, result |-> <<>>])

AskProduct == \E o \in Operands : Ask("product", o, Product(model, o))
AskSum == \E o \in Operands : Ask("sum", o, Sum(model, o))
AskMax == \E o \in Operands \ {<<>>} : Ask("max", o, Extremum(model, "Max", o))
AskMin == \E o \in Operands \ {<<>>} : Ask("min", o, Extremum(model, "Min", o))
AskSub == \E p \in Pairs : Ask("sub", p, Sub(model, p[1], p[2]))
AskFloordiv == \E p \in Pairs : Ask("floordiv", p, Floordiv(model, p[1], p[2]))
AskCeildiv == \E p \in Pairs : Ask("ceildiv", p, Ceildiv(model, p[1], p[2]))
AskCeildivConstrainDivisor ==
  \E p \in Pairs :
    /\ model.domains[p[1]].min >= MinDividend
    /\ Ask("ceildivConstrainDivisor", p, CeildivConstrainDivisor(model, p[1], p[2]))
AskMod == \E p \in Pairs : Ask("mod", p, Mod(model, p[1], p[2]))
AskCall == \E p \in Pairs : Ask("call", p, AddCall(model, p))
ConstrainLess == \E p \in Pairs : Constrain("less", p, Less(model, p[1], p[2]))
ConstrainLessOrEqual ==
  \E p \in Pairs : Constrain("lessOrEqual", p, LessOrEqual(model, p[1], p[2]))
ConstrainEqual == \E p \in Pairs : Constrain("equal", p, Equal(model, p[1], p[2]))
ConstrainFactorOf == \E p \in Pairs : Constrain("factorOf", p, FactorOf(model, p[1], p[2]))

Next ==
  \/ AskProduct \/ AskSum \/ AskMax \/ AskMin \/ AskSub \/ AskFloordiv
  \/ AskCeildiv \/ AskCeildivConstrainDivisor \/ AskMod \/ AskCall
  \/ ConstrainLess \/ ConstrainLessOrEqual \/ ConstrainEqual \/ ConstrainFactorOf

Spec == Init /\ [][Next]_vars

-----------------------------------------------------------------------------
\* The vectors of a Model that are indexed by variables have one entry for each,
\* and every constraint is over variables that exist.
TypeOK ==
  /\ model.domains \in Seq(Domain)
  /\ model.priority \in [DOMAIN model.domains -> {0, 1}]
  /\ model.constants \subseteq DOMAIN model.domains
  /\ \A i \in DOMAIN model.constraints :
       GetVariables(model.constraints[i]) \subseteq DOMAIN model.domains
  /\ handles \in Seq(DOMAIN model.domains)
  /\ Len(asked) <= MaxCalls

\* What Model.hpp:274-334 says of each method, over the integers: the values of
\* its operands and, where it returns a variable, of that
CeilOf(n, d) == (n + d - 1) \div d

Intended(q, a) ==
  LET x == [i \in DOMAIN q.args |-> a[q.args[i]]]
      result == a[q.result[1]]
  IN CASE q.method = "product"     -> result = FoldLeft(LAMBDA m, n : m * n, 1, x)
       [] q.method = "sum"         -> result = FoldLeft(LAMBDA m, n : m + n, 0, x)
       [] q.method = "max"         -> result = Max(ToSet(x))
       [] q.method = "min"         -> result = Min(ToSet(x))
       [] q.method = "sub"         -> result = x[1] - x[2]
       [] q.method = "floordiv"    -> x[2] # 0 /\ result = x[1] \div x[2]
       [] q.method = "ceildiv"     -> x[2] # 0 /\ result = CeilOf(x[1], x[2])
       [] q.method = "ceildivConstrainDivisor" ->
            /\ x[2] # 0 /\ result = CeilOf(x[1], x[2])
            /\ \A smaller \in 1 .. x[2] - 1 : CeilOf(x[1], smaller) # result
       [] q.method = "mod"         -> x[2] # 0 /\ result = x[1] % x[2]
       [] q.method = "call"        -> Apply(Function, x) = {result}
       [] q.method = "less"        -> x[1] < x[2]
       [] q.method = "lessOrEqual" -> x[1] <= x[2]
       [] q.method = "equal"       -> x[1] = x[2]
       [] q.method = "factorOf"    -> \E k \in 0 .. x[1] : k * x[2] = x[1]

\* The solutions of the constraints, built up variable by variable: a constraint
\* is tested when its last variable has a value, and gives it where that is its
\* result.
Solutions(m) ==
  LET Ready(v) ==
        {c \in ToSet(m.constraints) : Max(GetVariables(c)) = v}
      Defining(v) ==
        {c \in Ready(v) : /\ c.kind \notin {"Less", "LessOrEqual"}
                          /\ Head(c.vars) = v /\ v \notin ToSet(Tail(c.vars))}
      Candidates(p, v) ==
        {n \in Interval(m.domains[v]) :
           \A c \in Defining(v) :
             n \in Results(c, [i \in DOMAIN Tail(c.vars) |-> p[Tail(c.vars)[i]]])}
      With(partial, v) ==
        {a \in UNION {{Append(p, n) : n \in Candidates(p, v)} : p \in partial} :
           \A c \in Ready(v) \ Defining(v) : Meaning(c, a)}
  IN FoldLeft(With, {<<>>}, [v \in DOMAIN m.domains |-> v])

\* Every solution of the constraints built has the values that were asked for:
\* a planner takes the quotients and remainders of minimize at their word.
MeansWhatWasAsked ==
  \A a \in Solutions(model) : \A i \in DOMAIN asked : Intended(asked[i], a)

\* Values that meet all that was asked are a solution, with some values of the
\* variables that the methods added for themselves.  Claimed for small values:
\* an intermediate product or sum past the default domain rules values out.
NothingRuledOut ==
  LET offered == {[v \in ToSet(handles) |-> s[v]] : s \in Solutions(model)}
  IN \A a \in [ToSet(handles) -> 0 .. Small] :
       /\ \A v \in ToSet(handles) : a[v] \in Interval(model.domains[v])
       /\ \A i \in DOMAIN asked : Intended(asked[i], a)
       => a \in offered

\* The solutions of what is built are what was asked for.
BuildsWhatWasAsked == TypeOK /\ MeansWhatWasAsked /\ NothingRuledOut
=============================================================================
