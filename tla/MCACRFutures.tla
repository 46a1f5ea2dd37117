---------------------------- MODULE MCACRFutures ----------------------------
(* Small instances of the futures venue for TLC.                           *)
EXTENDS ACRFutures, TLC

CONSTANTS mm, t1, t2, inf, policy, noPolicy, noAddress

MCAccounts == {mm, t1, t2}
MCTwoAccounts == {mm, t1}
MCMakers == {mm}
MCHeirs == {t1}
MCTakers == {t1, t2}
MCIndices == {inf}

\* Version 1 prints: a value and a timestamp are all that matters.
MarkAt(v, t) ==
    [indexId |-> inf, value |-> v, ciLo |-> v, ciHi |-> v, attackCostPerBp |-> 1,
     humanAdjustedBound |-> 0, policyHash |-> policy, windowStart |-> 0,
     windowEnd |-> t, timestamp |-> t]
MCPrintInputs == {MarkAt(v, t) : v \in {32, 40, 80}, t \in 0..2}
MCTwoMarks == {MarkAt(v, t) : v \in {32, 40}, t \in 0..2}
MCQuantities == {1, -1}

Symmetry == Permutations(MCTakers)
=============================================================================
