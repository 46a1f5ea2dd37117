---------------------------- MODULE PolicyWallet ----------------------------
(***************************************************************************)
(* contracts/src/PolicyWallet.sol: the treasury a business gives its       *)
(* operator agent.  Money leaves by four doors: `spend` (the agent alone,  *)
(* below the per-transaction limit), `spendApproved` (an agent relaying an *)
(* owner signature), `spendAsOwner` (the owner's own transaction) and      *)
(* `withdraw` (the owner, unbudgeted).  The first three share `_spend`.    *)
(*                                                                         *)
(* Abstractions.  A transaction that reverts changes nothing, so only the  *)
(* calls that succeed are steps.  An EIP-712 signature is a record of the  *)
(* fields its digest covers and of the key that made it: `ecrecover`       *)
(* recovers exactly that key.  The token is the balance it keeps for this  *)
(* wallet.  block.timestamp is `now`; several transactions may share it.   *)
(*                                                                         *)
(* spentLog and budgetLog are the Spent and BudgetSet events: the contract *)
(* never reads them.                                                       *)
(***************************************************************************)
EXTENDS Integers, Sequences, FiniteSets, Functions

CONSTANTS Accounts,       \* addresses that can send a transaction
          Deployer,       \* the account that constructed the wallet
          Payees,         \* addresses a payment can go to
          Categories,     \* budget categories
          Decisions,      \* hashes of decision records
          Amounts,        \* amounts a caller tries, in USDC units
          BudgetChoices,  \* the settings an owner tries in setBudget
          Deadlines,      \* deadlines signers give their approvals
          NoAddress,      \* address(0)
          NoDecision,     \* bytes32(0) as a decision hash
          MaxTime,        \* bound on the clock
          MaxBudgetSets,  \* bound on setBudget calls per category
          MaxSignatures,  \* bound on signatures in circulation
          MaxBalance      \* bound on USDC deposited into the wallet

ASSUME WalletAssumption ==
    /\ Deployer \in Accounts /\ NoAddress \notin Accounts \cup Payees
    /\ NoDecision \notin Decisions
    /\ Amounts \subseteq Nat /\ Deadlines \subseteq Nat
    /\ BudgetChoices \subseteq [cap : Nat, perTxLimit : Nat, periodLength : Nat]
    /\ {MaxTime, MaxBudgetSets, MaxSignatures, MaxBalance} \subseteq Nat

VARIABLES now,            \* block.timestamp
          owner, pendingOwner, paused,
          isAgent,        \* the set of allowed agents
          approvalNonce,
          consumed,       \* consumedDecisionHashes, as a set
          budgets,
          balance,        \* usdc.balanceOf(wallet)
          signatures,     \* SpendApproval signatures that exist off chain
          spentLog,       \* Spent events
          budgetLog       \* BudgetSet events, per category

admin == <<owner, pendingOwner, paused, isAgent>>
vars == <<now, admin, approvalNonce, consumed, budgets, balance, signatures,
          spentLog, budgetLog>>

Budget == [cap : Nat, spent : Nat, perTxLimit : Nat, periodStart : Nat,
           periodLength : Nat, exists : BOOLEAN]

Approval == [signer : Accounts, category : Categories, to : Payees,
             amount : Nat, decision : Decisions, nonce : Nat, deadline : Nat]

\* `epoch` names the BudgetSet event in force; `nonce` is the approval nonce
\* the payment consumed and `payer` the owner of the wallet at the time.
Spent == [category : Categories, to : Payees, actor : Accounts, amount : Nat,
          decision : Decisions, path : {"agent", "approved", "owner"},
          spentInPeriod : Nat, periodStart : Nat, at : Nat, epoch : Nat,
          nonce : Nat, payer : Accounts]

BudgetSet == [cap : Nat, perTxLimit : Nat, periodLength : Nat, periodStart : Nat]

Init ==
    /\ now = 0
    /\ owner = Deployer /\ pendingOwner = NoAddress /\ paused = FALSE
    /\ isAgent = {}
    /\ approvalNonce = 0
    /\ consumed = {}
    /\ budgets = [c \in Categories |->
                    [cap |-> 0, spent |-> 0, perTxLimit |-> 0,
                     periodStart |-> 0, periodLength |-> 0, exists |-> FALSE]]
    /\ balance = 0
    /\ signatures = {}
    /\ spentLog = <<>>
    /\ budgetLog = [c \in Categories |-> <<>>]

-----------------------------------------------------------------------------
(* Administration.                                                         *)

SetAgent(sender, agent, allowed) ==
    /\ sender = owner
    /\ agent # NoAddress
    /\ isAgent' = IF allowed THEN isAgent \cup {agent} ELSE isAgent \ {agent}
    /\ UNCHANGED <<now, owner, pendingOwner, paused, approvalNonce, consumed,
                   budgets, balance, signatures, spentLog, budgetLog>>

SetBudget(sender, c, choice) ==
    /\ sender = owner
    /\ choice.cap > 0 /\ choice.perTxLimit > 0 /\ choice.periodLength > 0
    /\ choice.perTxLimit <= choice.cap
    /\ Len(budgetLog[c]) < MaxBudgetSets
    /\ budgets' = [budgets EXCEPT ![c] =
                     [cap |-> choice.cap, spent |-> 0,
                      perTxLimit |-> choice.perTxLimit, periodStart |-> now,
                      periodLength |-> choice.periodLength, exists |-> TRUE]]
    /\ budgetLog' = [budgetLog EXCEPT ![c] = Append(@,
                     [cap |-> choice.cap, perTxLimit |-> choice.perTxLimit,
                      periodLength |-> choice.periodLength, periodStart |-> now])]
    /\ UNCHANGED <<now, admin, approvalNonce, consumed, balance, signatures, spentLog>>

SetPaused(sender, value) ==
    /\ sender = owner
    /\ paused' = value
    /\ UNCHANGED <<now, owner, pendingOwner, isAgent, approvalNonce, consumed,
                   budgets, balance, signatures, spentLog, budgetLog>>

\* Mutant: the token pays more than the wallet holds.
WithdrawUnchecked(sender, amount) ==
    /\ sender = owner
    /\ amount > 0
    /\ balance' = balance - amount
    /\ UNCHANGED <<now, admin, approvalNonce, consumed, budgets, signatures,
                   spentLog, budgetLog>>

Withdraw(sender, amount) ==
    /\ sender = owner
    /\ amount > 0 /\ amount <= balance
    /\ balance' = balance - amount
    /\ UNCHANGED <<now, admin, approvalNonce, consumed, budgets, signatures,
                   spentLog, budgetLog>>

TransferOwnership(sender, to) ==
    /\ sender = owner
    /\ to # NoAddress
    /\ pendingOwner' = to
    /\ UNCHANGED <<now, owner, paused, isAgent, approvalNonce, consumed, budgets,
                   balance, signatures, spentLog, budgetLog>>

AcceptOwnership(sender) ==
    /\ sender = pendingOwner
    /\ owner' = pendingOwner
    /\ pendingOwner' = NoAddress
    /\ UNCHANGED <<now, paused, isAgent, approvalNonce, consumed, budgets,
                   balance, signatures, spentLog, budgetLog>>

-----------------------------------------------------------------------------
(* Views.  The period rolls lazily and by whole periods; reads and writes  *)
(* share Rolled.                                                           *)

PeriodOpen(b) == now < b.periodStart + b.periodLength

\* Mutant: a new period starts at the payment that finds the old one over.
DriftingStart(b) == IF PeriodOpen(b) THEN b.periodStart ELSE now

RolledStart(b) ==
    IF PeriodOpen(b) THEN b.periodStart
    ELSE b.periodStart + ((now - b.periodStart) \div b.periodLength) * b.periodLength

\* Mutant: a read that ignores the roll.
UnrolledSpent(b) == IF b.exists THEN b.spent ELSE 0

RolledSpent(b) == IF b.exists /\ PeriodOpen(b) THEN b.spent ELSE 0

Remaining(c) ==
    LET b == budgets[c]
    IN  IF b.exists /\ RolledSpent(b) < b.cap THEN b.cap - RolledSpent(b) ELSE 0

-----------------------------------------------------------------------------
(* Spending.                                                               *)

MayPay(sender, byOwner) == IF byOwner THEN sender = owner ELSE sender \in isAgent

\* Mutants: no record of paid decisions; a cap that bounds single payments.
AnyDecision(d) == d # NoDecision
PaymentWithinCap(b, amount) == amount <= b.cap

Fresh(d) == d \notin consumed
WithinCap(b, amount) == RolledSpent(b) + amount <= b.cap

\* Mutant: the roll is measured but the new period's start is not stored.
PayKeepsPeriod(sender, c, to, amount, d, path, nonce) ==
    LET b == budgets[c]
        spent == RolledSpent(b) + amount
    IN  /\ ~paused /\ MayPay(sender, path = "owner")
        /\ to # NoAddress /\ amount > 0 /\ d # NoDecision
        /\ Fresh(d) /\ WithinCap(b, amount) /\ amount <= balance
        /\ budgets' = [budgets EXCEPT ![c].spent = spent]
        /\ consumed' = consumed \cup {d}
        /\ balance' = balance - amount
        /\ spentLog' = Append(spentLog,
             [category |-> c, to |-> to, actor |-> sender, amount |-> amount,
              decision |-> d, path |-> path, spentInPeriod |-> spent,
              periodStart |-> RolledStart(b), at |-> now,
              epoch |-> Len(budgetLog[c]), nonce |-> nonce, payer |-> owner])
        /\ UNCHANGED <<now, admin, signatures, budgetLog>>

\* `_spend`: the one place money leaves under a budget.
Pay(sender, c, to, amount, d, path, nonce) ==
    LET b == budgets[c]
        spent == RolledSpent(b) + amount
    IN  /\ ~paused
        /\ MayPay(sender, path = "owner")
        /\ to # NoAddress /\ amount > 0 /\ d # NoDecision
        /\ Fresh(d)
        /\ WithinCap(b, amount)
        /\ amount <= balance
        /\ budgets' = [budgets EXCEPT ![c] =
                         [@ EXCEPT !.spent = spent, !.periodStart = RolledStart(b)]]
        /\ consumed' = consumed \cup {d}
        /\ balance' = balance - amount
        /\ spentLog' = Append(spentLog,
             [category |-> c, to |-> to, actor |-> sender, amount |-> amount,
              decision |-> d, path |-> path, spentInPeriod |-> spent,
              periodStart |-> RolledStart(b), at |-> now,
              epoch |-> Len(budgetLog[c]), nonce |-> nonce, payer |-> owner])
        /\ UNCHANGED <<now, admin, signatures, budgetLog>>

\* Mutant: a limit that is itself within the agent's authority.
SpendUpToLimit(sender, c, to, amount, d) ==
    /\ budgets[c].exists
    /\ amount <= budgets[c].perTxLimit
    /\ Pay(sender, c, to, amount, d, "agent", approvalNonce)
    /\ UNCHANGED approvalNonce

Spend(sender, c, to, amount, d) ==
    /\ budgets[c].exists
    /\ amount < budgets[c].perTxLimit
    /\ Pay(sender, c, to, amount, d, "agent", approvalNonce)
    /\ UNCHANGED approvalNonce

\* Mutant: a digest that does not cover the nonce.
ApprovalOfAnyNonce(sig) == now <= sig.deadline /\ sig.signer = owner

\* ecrecover over the digest of these arguments and the current nonce.
ApprovalValid(sig) ==
    /\ now <= sig.deadline
    /\ sig.nonce = approvalNonce
    /\ sig.signer = owner

SpendApproved(sender, sig) ==
    /\ budgets[sig.category].exists
    /\ ApprovalValid(sig)
    /\ approvalNonce' = approvalNonce + 1
    /\ Pay(sender, sig.category, sig.to, sig.amount, sig.decision, "approved",
           sig.nonce)

SpendAsOwner(sender, c, to, amount, d) ==
    /\ budgets[c].exists
    /\ Pay(sender, c, to, amount, d, "owner", approvalNonce)
    /\ UNCHANGED approvalNonce

-----------------------------------------------------------------------------
(* The world outside the contract.                                         *)

\* Anybody signs anything: for the nonce in force or the one after it, with a
\* deadline still to come.
Sign(sig) ==
    /\ now <= sig.deadline
    /\ sig.nonce \in {approvalNonce, approvalNonce + 1}
    /\ Cardinality(signatures) < MaxSignatures
    /\ signatures' = signatures \cup {sig}
    /\ UNCHANGED <<now, admin, approvalNonce, consumed, budgets, balance,
                   spentLog, budgetLog>>

Deposit(amount) ==
    /\ balance + amount <= MaxBalance
    /\ amount > 0
    /\ balance' = balance + amount
    /\ UNCHANGED <<now, admin, approvalNonce, consumed, budgets, signatures,
                   spentLog, budgetLog>>

Tick ==
    /\ now < MaxTime
    /\ now' = now + 1
    /\ UNCHANGED <<admin, approvalNonce, consumed, budgets, balance, signatures,
                   spentLog, budgetLog>>

-----------------------------------------------------------------------------

Administer(s) ==
    \/ \E agent \in Accounts, allowed \in BOOLEAN : SetAgent(s, agent, allowed)
    \/ \E c \in Categories, choice \in BudgetChoices : SetBudget(s, c, choice)
    \/ \E value \in BOOLEAN : SetPaused(s, value)
    \/ \E amount \in Amounts : Withdraw(s, amount)
    \/ \E to \in Accounts \cup {NoAddress} : TransferOwnership(s, to)
    \/ AcceptOwnership(s)

MakePayment(s) ==
    \/ \E c \in Categories, to \in Payees, amount \in Amounts,
          d \in Decisions \cup {NoDecision} :
          Spend(s, c, to, amount, d) \/ SpendAsOwner(s, c, to, amount, d)
    \/ \E sig \in signatures : SpendApproved(s, sig)

Outside ==
    \/ \E signer \in Accounts, c \in Categories, to \in Payees,
          amount \in Amounts, d \in Decisions, n \in 0..1, deadline \in Deadlines :
          Sign([signer |-> signer, category |-> c, to |-> to, amount |-> amount,
                decision |-> d, nonce |-> approvalNonce + n, deadline |-> deadline])
    \/ \E amount \in Amounts : Deposit(amount)
    \/ Tick

Next == (\E s \in Accounts : Administer(s) \/ MakePayment(s)) \/ Outside

Spec == Init /\ [][Next]_vars

-----------------------------------------------------------------------------
(* What the wallet promises, over the events it emits.                     *)

Events == DOMAIN spentLog
Paid == [i \in Events |-> spentLog[i].amount]
TotalOf(S) == SumFunctionOnSet(Paid, S)

\* The rule a payment was made under, and the number of whole periods between
\* the start of that rule and a moment t.
RuleOf(i) == budgetLog[spentLog[i].category][spentLog[i].epoch]
PeriodAt(rule, t) == (t - rule.periodStart) \div rule.periodLength
SamePeriod(i, j) ==
    /\ spentLog[i].category = spentLog[j].category
    /\ spentLog[i].epoch = spentLog[j].epoch
    /\ PeriodAt(RuleOf(i), spentLog[i].at) = PeriodAt(RuleOf(i), spentLog[j].at)

\* Every variable has its type; the bounded counters stay within their bounds.
TypeOK ==
    /\ now \in 0..MaxTime
    /\ owner \in Accounts /\ pendingOwner \in Accounts \cup {NoAddress}
    /\ paused \in BOOLEAN
    /\ isAgent \subseteq Accounts
    /\ approvalNonce \in Nat
    /\ consumed \subseteq Decisions
    /\ budgets \in [Categories -> Budget]
    /\ balance \in Nat
    /\ signatures \subseteq Approval
    /\ spentLog \in Seq(Spent)
    /\ budgetLog \in [Categories -> Seq(BudgetSet)]

\* "A committed decision may be paid only once, across all spending paths":
\* no two Spent events carry the same decision hash.
DecisionPaidOnce ==
    \A i, j \in Events : spentLog[i].decision = spentLog[j].decision => i = j

\* The cap binds on every path: whatever mix of agent, approved and owner
\* payments a calendar period of a budget sees, together they stay within it.
CapHoldsInEveryPeriod ==
    \A i \in Events : TotalOf({j \in Events : SamePeriod(i, j)}) <= RuleOf(i).cap

\* The view `remaining`, which rolls the period lazily, always answers what
\* the events say: the cap less what the current calendar period has paid.
RemainingIsTruth ==
    \A c \in Categories : budgets[c].exists =>
        LET rule == budgetLog[c][Len(budgetLog[c])]
            current == {i \in Events :
                          /\ spentLog[i].category = c
                          /\ spentLog[i].epoch = Len(budgetLog[c])
                          /\ PeriodAt(rule, spentLog[i].at) = PeriodAt(rule, now)}
        IN  Remaining(c) = rule.cap - TotalOf(current)

\* "so the subgraph can index [...] without replaying every prior event": the
\* total a Spent event carries is its amount on top of the total of the event
\* before it in the same period of the same budget, and is within the cap.
SameBudget(i, j) ==
    /\ spentLog[i].category = spentLog[j].category
    /\ spentLog[i].epoch = spentLog[j].epoch
    /\ spentLog[i].periodStart = spentLog[j].periodStart
Prior(i) == {j \in Events : j < i /\ SameBudget(i, j)}
RunningTotals ==
    \A i \in Events :
        /\ spentLog[i].spentInPeriod <= RuleOf(i).cap
        /\ \/ Prior(i) = {} /\ spentLog[i].spentInPeriod = spentLog[i].amount
           \/ \E j \in Prior(i) :
                /\ \A k \in Prior(i) : k <= j
                /\ spentLog[i].spentInPeriod
                     = spentLog[j].spentInPeriod + spentLog[i].amount

\* G5 and the approval path: a payment at or above the per-transaction limit
\* is either the owner's own transaction or one that a signature of the owner
\* at that time fixed, field by field and for that nonce.
LargePaymentsHaveTheOwner ==
    \A i \in Events :
        LET e == spentLog[i]
        IN  \/ e.amount < RuleOf(i).perTxLimit /\ e.path = "agent"
            \/ e.path = "owner" /\ e.actor = e.payer
            \/ /\ e.path = "approved"
               /\ \E sig \in signatures :
                    /\ sig.signer = e.payer /\ sig.nonce = e.nonce
                    /\ sig.category = e.category /\ sig.to = e.to
                    /\ sig.amount = e.amount /\ sig.decision = e.decision
                    /\ e.at <= sig.deadline

\* approvalNonce counts the approved payments and the n-th of them consumed
\* nonce n: however many signatures the owner gives for one nonce, only one
\* pays.
ApprovalsPayInNonceOrder ==
    LET approved == {i \in Events : spentLog[i].path = "approved"}
    IN  /\ approvalNonce = Cardinality(approved)
        /\ \A i \in approved :
              spentLog[i].nonce = Cardinality({j \in approved : j < i})

\* The wallet implements the abstract ledger, whose periods are refilled the
\* moment they end.
Ledger == INSTANCE BudgetLedger WITH
    cap <- [c \in Categories |-> budgets[c].cap],
    length <- [c \in Categories |-> budgets[c].periodLength],
    left <- [c \in Categories |-> Remaining(c)],
    ends <- [c \in Categories |->
               IF budgets[c].exists
               THEN RolledStart(budgets[c]) + budgets[c].periodLength ELSE 0],
    paid <- consumed

ImplementsLedger == Ledger!Spec
=============================================================================
