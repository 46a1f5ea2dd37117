---------------------------- MODULE MCACROracle ----------------------------
(* Small instances of the oracle for TLC.                                  *)
EXTENDS ACROracle, TLC

CONSTANTS press, relay, inf, policy, noPolicy, noAddress

MCAccounts == {press, relay}
MCIndices == {inf}

\* Prints that differ in what postPrint looks at: two values a bounded move
\* apart and one beyond it, every timestamp, a print outside its interval, a
\* window that is empty or too old, a human bound below the wallet bound.
SignedPrint(v, t) ==
    [indexId |-> inf, value |-> v, ciLo |-> v, ciHi |-> v + 1, attackCostPerBp |-> 2,
     humanAdjustedBound |-> 0, policyHash |-> policy, windowStart |-> 0,
     windowEnd |-> t, timestamp |-> t]

MCPrintInputs ==
    {SignedPrint(v, t) : v \in {4, 5, 9}, t \in 1..4}
      \cup {[SignedPrint(4, t) EXCEPT !.ciLo = 5] : t \in 1..4}
      \cup {[SignedPrint(5, t) EXCEPT !.windowEnd = 0] : t \in 1..4}
      \cup {[SignedPrint(5, t) EXCEPT !.humanAdjustedBound = 1] : t \in 1..4}
      \cup {[SignedPrint(5, t) EXCEPT !.policyHash = noPolicy] : t \in 1..4}
=============================================================================
