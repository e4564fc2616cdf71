----------------------------- MODULE BeamPlans -----------------------------
(* The calls of the beam search that are checked, and their plans. *)
EXTENDS CandidateSort

CONSTANTS Widths, Tiles, Options, Methods

ASSUME BeamAssumption == SortAssumption

\* Plans of which ranking writes every row of every group
AllRanked(p, w) ==
  p.method = "RANK" =>
    \A s \in DOMAIN p.groups :
      LET n == CandidatesAt(s, p.groups, NumClasses, w)
      IN \A g \in 0 .. p.groups[s] - 1 : \A r \in 0 .. p.rank[s] - 1 :
           LET from == GroupFrom(n, p.groups[s], g)
               to == GroupTo(n, p.groups[s], g)
           IN to - from >= w /\ ToRank(from, to, p.rank[s], r, n) # {}

PlansFor(w) == {Plan(NumClasses, w, tiles, option, method) :
                  tiles \in Tiles, option \in Options, method \in Methods}

CallsOf(w) ==
  [width : {w}, blank : 0 .. NumClasses - 1, dataLength : 1 .. MaxT, steps : {MaxT},
   plan : PlansFor(w)]

AutoPlans == UNION {CallsOf(w) : w \in Widths}

\* What a selection sort takes care of: there are always enough candidates that
\* have a probability.
MCPlans ==
  {c \in AutoPlans : AllRanked(c.plan, c.width) /\ (c.plan.method = "RANK" \/ c.width < NumClasses)}

\* Symbols that are alike, or one of which is more probable than all the others
MCRows ==
  {[x \in 0 .. NumClasses - 1 |-> IF x = likely THEN 3 ELSE 1] : likely \in {0, 1}}
    \cup {[x \in 0 .. NumClasses - 1 |-> x + 1]}
MCOptions == {<<>>, <<1>>, <<2, 1>>}
AutoOnly == {<<>>}
=============================================================================
