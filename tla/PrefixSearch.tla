---------------------------- MODULE PrefixSearch ----------------------------
(***************************************************************************)
(* What a beam search of connectionist temporal classification promises:   *)
(* a fixed number of output sequences, with the probability of each of the *)
(* alignments found so far that give it.  A step of time takes every       *)
(* sequence that stays what it is or grows by one symbol, adds up what     *)
(* leads to it, and keeps the most probable.  Nothing is said of how a     *)
(* sequence is held, of candidates or of sorting: CTCBeamSearch implements *)
(* this with arrays of parents and last symbols.                           *)
(***************************************************************************)
EXTENDS Naturals, Sequences, FiniteSets

CONSTANTS
  NumClasses,                 \* symbols are 0 .. NumClasses - 1, one a blank
  Rows                        \* what a step of time may say of the symbols

VARIABLES
  width,                      \* how many sequences are kept
  blank,                      \* the symbol that is none
  paths                       \* sequence |-> its probability, and the part of it
                              \* whose alignments end in the last symbol itself

Symbols == (0 .. NumClasses - 1) \ {blank}

LastOf(s) == s[Len(s)]
AllButLast(s) == SubSeq(s, 1, Len(s) - 1)

\* The probability that s stays s by another blank, by its last symbol once more,
\* or becomes s when that symbol is new: after the same symbol only where there is
\* a blank between the two.
ByBlank(s, row) == IF s \in DOMAIN paths THEN paths[s].total * row[blank] ELSE 0
ByRepeat(s, row) ==
  IF s \in DOMAIN paths /\ s # <<>> THEN paths[s].nonBlank * row[LastOf(s)] ELSE 0
ByGrowth(s, row) ==
  IF s = <<>> \/ AllButLast(s) \notin DOMAIN paths THEN 0
  ELSE LET before == AllButLast(s)
           from == paths[before]
       IN row[LastOf(s)]
            * (IF before # <<>> /\ LastOf(before) = LastOf(s)
               THEN from.total - from.nonBlank ELSE from.total)

After(s, row) ==
  LET nonBlank == ByRepeat(s, row) + ByGrowth(s, row)
  IN [total |-> ByBlank(s, row) + nonBlank, nonBlank |-> nonBlank]

Reachable(row) ==
  LET sequences == DOMAIN paths \cup {Append(s, x) : s \in DOMAIN paths, x \in Symbols}
  IN {s \in sequences : After(s, row).total > 0}

SearchInit == paths = [s \in {<<>>} |-> [total |-> 1, nonBlank |-> 0]]

\* Of equally probable sequences any may be kept.
Keeps(reachable, row) ==
  LET all == Cardinality(reachable)
  IN /\ DOMAIN paths' \subseteq reachable
     /\ Cardinality(DOMAIN paths') = (IF all < width THEN all ELSE width)
     /\ \A s \in DOMAIN paths' :
          /\ paths'[s] = After(s, row)
          /\ \A other \in reachable \ DOMAIN paths' :
               After(other, row).total <= paths'[s].total

StepOfTime ==
  /\ \E row \in Rows : Keeps(Reachable(row), row)
  /\ UNCHANGED <<width, blank>>

SearchSpec == SearchInit /\ [][StepOfTime]_<<width, blank, paths>>
=============================================================================
