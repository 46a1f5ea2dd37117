----------------------------- MODULE MCOperator -----------------------------
(* Small instances of the operator for TLC.                                *)
EXTENDS Operator, TLC

CONSTANTS agent, boss, vendor, infra, nobody, q1, q2

MCBoth == {q1, q2}
MCOne == {q1}
MCAllEvidence == {"sound", "disputed", "cheaper"}
MCUsual == {"sound", "disputed"}
MCSound == {"sound"}

\* Bills of one unit are the agent's, or of one and two units.
MCBudgets == {[cap |-> 4, perTxLimit |-> 2, periodLength |-> 20],
              [cap |-> 4, perTxLimit |-> 3, periodLength |-> 20]}
MCNarrow == {[cap |-> 4, perTxLimit |-> 2, periodLength |-> 20]}
MCWide == {[cap |-> 4, perTxLimit |-> 4, periodLength |-> 20]}
\* The requests are interchangeable.
MCSame == Permutations(MCBoth)
=============================================================================
