--------------------------- MODULE MCPolicyWallet ---------------------------
(* Small instances of the policy wallet for TLC.                           *)
EXTENDS PolicyWallet, TLC

CONSTANTS alice, bob, d1, d2, shop, rent, noAddress, noDecision

MCAccounts == {alice, bob}
MCTwoDecisions == {d1, d2}
MCPayees == {shop}
MCOneCategory == {rent}

\* A cap that two payments can reach exactly, with a limit below it, and a
\* one-second budget whose limit equals its cap.
MCBudgetChoices == {[cap |-> 3, perTxLimit |-> 2, periodLength |-> 2],
                    [cap |-> 2, perTxLimit |-> 2, periodLength |-> 1]}

\* What is explored: the budgets of one account over time and both settings,
\* and the signatures of two accounts at the start of one budget.
OneAccount == signatures = {} /\ owner = alice /\ pendingOwner = noAddress
OneBudget ==
    /\ now <= 1
    /\ \A c \in Categories : \A n \in DOMAIN budgetLog[c] : n = 1 /\ budgetLog[c][n].cap = 3
    /\ \A s \in signatures : s.amount = 2
    /\ balance \in {0, 2, 4} /\ budgetLog # [c \in Categories |-> <<>>]
BudgetsOrApprovals == isAgent \subseteq {alice} /\ (OneAccount \/ OneBudget)

Symmetry == Permutations(Decisions)
=============================================================================
