----------------------------- MODULE MCPlanner -----------------------------
(***************************************************************************)
(* The convolution planner: plans of single convolutions through the cache *)
(* (PlanCache), or of several that run at the same time (MultiPlan).  A    *)
(* behaviour is of one or of the other, as what they share is only that    *)
(* one calls the other for a plan.                                         *)
(***************************************************************************)
EXTENDS PlanCache, MultiPlan

VARIABLE planning   \* whose behaviour it is

\* What PlannerProofs assumes of the numbers of tiles and convolutions
ASSUME CountsAssumption == Enough

-----------------------------------------------------------------------------
(* Layers whose passes are planned in each of the ways createPlan has *)

C(units, temp) == [units |-> units, temp |-> temp]
Est(f, b, w) == [p \in Pass |-> CASE p = "FWD" -> f [] p = "BWD" -> b [] OTHER -> w]
L(available, narrow, joint, fwd, bwd, wu, estimate) ==
  [available |-> available, narrow |-> narrow, estimate |-> estimate,
   candidates |-> [p \in Problem |->
      CASE p = "joint" -> joint [] p = "FWD" -> fwd [] p = "BWD" -> bwd [] OTHER -> wu]]

One == Est(1, 1, 1)

\* All fit, and separately they are faster, by estimates that differ.
SeparateFaster(narrow) ==
  L(4, narrow, {C(9, 3), C(12, 2)}, {C(2, 4), C(3, 1)}, {C(1, 3)}, {C(1, 2), C(1, 4)},
    Est(1, 2, 3))
\* Separately faster but for one pass that does not fit.
JointFits(narrow) ==
  L(4, narrow, {C(9, 4)}, {C(1, 4)}, {C(1, 5)}, {C(1, 2)}, One)
\* Only the separate ones fit.
SeparateFits == L(4, FALSE, {C(2, 6)}, {C(3, 4)}, {C(3, 2)}, {C(2, 4)}, One)
\* Nothing fits; after the bound is doubled once, twice, or given up.
NothingFits ==
  L(2, TRUE, {C(5, 8)}, {C(1, 3)}, {C(1, 2)}, {C(1, 9), C(3, 7)}, One)
NothingNearFits ==
  L(1, FALSE, {C(5, 20), C(6, 19)}, {C(2, 1)}, {C(2, 20), C(3, 18)}, {C(2, 1)}, One)
\* No bound
Unbounded == L(0, FALSE, {C(5, 3)}, {C(2, 9), C(3, 2)}, {C(1, 1)}, {C(1, 1)}, One)
\* No joint plan, as for types that differ, and no plan for one pass
NoJointPlan == L(4, FALSE, {}, {C(1, 1)}, {}, {C(1, 5)}, One)

MCLayers ==
  {SeparateFaster(FALSE), SeparateFaster(TRUE), JointFits(FALSE), JointFits(TRUE),
   SeparateFits, NothingFits, NothingNearFits, Unbounded, NoJointPlan}

-----------------------------------------------------------------------------

\* Up to seven convolutions, on IPUs with a tile for each, just as many, or one
\* too few
MCTileCounts == {6, 8, 12}
MCConvCounts == 1 .. 7
MCPerConvOptions == {1, 2, 3, 50}

AnyOf(S) == CHOOSE x \in S : TRUE

BothInit ==
  \/ /\ planning = "one"
     /\ Init
     /\ InitWith(AnyOf(TileCounts), AnyOf(ConvCounts), AnyOf(PerConvOptions))
  \/ /\ planning = "several"
     /\ \E n \in TileCounts, c \in ConvCounts, option \in PerConvOptions :
          InitWith(n, c, option)
     /\ Init /\ layer = AnyOf(Layers)

Alone(A) == planning = "one" /\ A /\ UNCHANGED <<multiVars, planning>>
CacheNext == Alone(Next)
SeveralNext == planning = "several" /\ MultiNext /\ UNCHANGED <<vars, planning>>

allVars == <<vars, multiVars, planning>>

\* The fairness of PlanCache
BothSpec ==
  /\ BothInit /\ [][CacheNext \/ SeveralNext]_allVars
  /\ WF_allVars(Alone(FindPlan)) /\ WF_allVars(Alone(MissPlan))
  /\ WF_allVars(Alone(Commit)) /\ WF_allVars(Alone(Throw))
  /\ \A key \in Key : WF_allVars(Alone(key \in DOMAIN jobs /\ PlannerStep(key)))
=============================================================================
