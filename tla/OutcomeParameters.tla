-------------------------- MODULE OutcomeParameters --------------------------
(***************************************************************************)
(* The parameters of the outcome feedback loop and what is assumed of them.*)
(***************************************************************************)
EXTENDS Integers, FiniteSets

CONSTANTS
    Calls,
    Candidates,
    NumDims,        \* scoring dimensions, stored in this order
    MinOutcomes,    \* min_outcomes_for_recalculation
    None

ASSUME FeedbackAssumption ==
    /\ IsFiniteSet(Calls)
    /\ None \notin Calls
    /\ NumDims \in Nat \ {0}
    /\ MinOutcomes \in Nat \ {0}
=============================================================================
