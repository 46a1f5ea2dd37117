---------------------------- MODULE BudgetLedger ----------------------------
(***************************************************************************)
(* What a wallet with category budgets promises, without the mechanism:    *)
(* every category has a headroom that is refilled the instant its period   *)
(* ends, a payment lowers one category's headroom, and a decision is paid  *)
(* once.  contracts/src/PolicyWallet.sol keeps no clock that refills       *)
(* anything; it implements this by rolling periods lazily.                 *)
(***************************************************************************)
EXTENDS Integers

CONSTANTS Categories, Decisions, MaxTime

VARIABLES now,
          cap,      \* what each category may pay in one period
          length,   \* the length of its period, 0 before it has a budget
          left,     \* what remains of it in the current period
          ends,     \* when the current period ends
          paid      \* the decisions paid

ledger == <<now, cap, length, left, ends, paid>>

Init ==
    /\ now = 0 /\ paid = {}
    /\ cap = [c \in Categories |-> 0] /\ left = [c \in Categories |-> 0]
    /\ length = [c \in Categories |-> 0] /\ ends = [c \in Categories |-> 0]

\* A category gets a budget and a fresh period that starts now.
SetRule(c) ==
    /\ cap'[c] > 0 /\ length'[c] > 0
    /\ cap' = [cap EXCEPT ![c] = cap'[c]]
    /\ length' = [length EXCEPT ![c] = length'[c]]
    /\ left' = [left EXCEPT ![c] = cap'[c]]
    /\ ends' = [ends EXCEPT ![c] = now + length'[c]]
    /\ UNCHANGED <<now, paid>>

\* One decision is paid, out of one category, within its headroom.
PayDecision(c, d) ==
    /\ d \notin paid /\ paid' = paid \cup {d}
    /\ left'[c] >= 0 /\ left'[c] < left[c]
    /\ left' = [left EXCEPT ![c] = left'[c]]
    /\ UNCHANGED <<now, cap, length, ends>>

\* Time passes and every category whose period ends is refilled.
Pass ==
    /\ now' = now + 1
    /\ left' = [c \in Categories |->
                  IF length[c] > 0 /\ now' = ends[c] THEN cap[c] ELSE left[c]]
    /\ ends' = [c \in Categories |->
                  IF length[c] > 0 /\ now' = ends[c] THEN ends[c] + length[c]
                  ELSE ends[c]]
    /\ UNCHANGED <<cap, length, paid>>

Next == Pass \/ \E c \in Categories : SetRule(c) \/ \E d \in Decisions : PayDecision(c, d)

Spec == Init /\ [][Next]_ledger
=============================================================================
