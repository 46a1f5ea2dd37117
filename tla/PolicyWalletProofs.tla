------------------------- MODULE PolicyWalletProofs -------------------------
(***************************************************************************)
(* Type correctness and the safety of the policy wallet's payments, for    *)
(* every set of accounts, categories, amounts and budgets.                 *)
(***************************************************************************)
EXTENDS PolicyWallet, CommonLemmas

USE WalletAssumption

-----------------------------------------------------------------------------
(* The inductive invariant.  The properties speak of events; what makes    *)
(* them inductive is how the stored budget relates to the events: the      *)
(* budget in force is the last BudgetSet, its period start is the latest   *)
(* any of its payments carries, and its `spent` is the running total of    *)
(* the last payment made since that start.                                 *)

\* The stored budget of a category is the last BudgetSet event.
BudgetIsLastRule ==
    \A c \in Categories :
        /\ ~budgets[c].exists => Len(budgetLog[c]) = 0
        /\ budgets[c].exists =>
             /\ Len(budgetLog[c]) > 0
             /\ budgets[c].cap = budgetLog[c][Len(budgetLog[c])].cap
             /\ budgets[c].periodLength > 0
             /\ budgets[c].periodStart <= now
             /\ budgets[c].spent <= budgets[c].cap

\* Events name rules that were set, and carry exactly the consumed decisions.
EventsAreOnRecord ==
    /\ \A i \in Events :
          spentLog[i].epoch \in 1..Len(budgetLog[spentLog[i].category])
    /\ \A i \in Events : spentLog[i].decision \in consumed

\* The payments of the budget in force, and those of its stored period.
OfBudget(c) == {i \in Events : /\ spentLog[i].category = c
                               /\ spentLog[i].epoch = Len(budgetLog[c])}
OfPeriod(c) == {i \in OfBudget(c) : spentLog[i].periodStart = budgets[c].periodStart}

SpentIsLastTotal ==
    \A c \in Categories :
        /\ \A i \in OfBudget(c) : spentLog[i].periodStart <= budgets[c].periodStart
        /\ \/ OfPeriod(c) = {} /\ budgets[c].spent = 0
           \/ \E j \in OfPeriod(c) :
                 /\ \A k \in OfPeriod(c) : k <= j
                 /\ budgets[c].spent = spentLog[j].spentInPeriod

IInv == /\ TypeOK
        /\ BudgetIsLastRule
        /\ EventsAreOnRecord
        /\ SpentIsLastTotal
        /\ DecisionPaidOnce
        /\ RunningTotals

-----------------------------------------------------------------------------
(* Three kinds of step matter to the invariant.                            *)

Untouched == UNCHANGED <<budgets, budgetLog, spentLog, consumed>>

\* A payment out of a category that has a budget, whichever door it takes.
Payment ==
    \E s \in Accounts, c \in Categories, to \in Payees, amount \in Nat,
       d \in Decisions, path \in {"agent", "approved", "owner"}, n \in Nat :
       budgets[c].exists /\ Pay(s, c, to, amount, d, path, n)

\* Every step sets a budget, pays, or leaves budgets and events alone.
LEMMA StepKinds ==
    ASSUME TypeOK, [Next]_vars
    PROVE  \/ \E s \in Accounts, c \in Categories, choice \in BudgetChoices :
                 SetBudget(s, c, choice)
           \/ Payment
           \/ Untouched /\ now' >= now
  <1> USE DEF TypeOK
  <1>1. CASE Outside
    BY <1>1 DEF Outside, Sign, Deposit, Tick, admin, Untouched
  <1>2. CASE \E s \in Accounts : Administer(s)
    BY <1>2 DEF Administer, SetAgent, SetPaused, Withdraw, TransferOwnership,
                AcceptOwnership, admin, Untouched
  <1>3. CASE \E s \in Accounts : MakePayment(s)
    <2>1. PICK s \in Accounts : MakePayment(s)
      BY <1>3
    <2>2. CASE \E sig \in signatures : SpendApproved(s, sig)
      <3>1. PICK sig \in signatures : SpendApproved(s, sig)
        BY <2>2
      <3>2. sig \in Approval
        BY DEF Approval
      <3> QED BY <3>1, <3>2 DEF SpendApproved, Payment, Approval
    <2>3. CASE ~ \E sig \in signatures : SpendApproved(s, sig)
      <3>1. PICK c \in Categories, to \in Payees, amount \in Amounts,
                 d \in Decisions \cup {NoDecision} :
                 Spend(s, c, to, amount, d) \/ SpendAsOwner(s, c, to, amount, d)
        BY <2>1, <2>3 DEF MakePayment
      <3>2. d \in Decisions /\ amount \in Nat
        BY <3>1 DEF Spend, SpendAsOwner, Pay
      <3> QED BY <3>1, <3>2 DEF Spend, SpendAsOwner, Payment
    <2> QED BY <2>2, <2>3
  <1>4. CASE UNCHANGED vars
    BY <1>4 DEF vars, Untouched
  <1> QED BY <1>1, <1>2, <1>3, <1>4 DEF Next

-----------------------------------------------------------------------------
(* Type correctness.                                                       *)

\* Where a payment finds a category's period.
LEMMA RolledStartInNow ==
    ASSUME TypeOK, BudgetIsLastRule, NEW c \in Categories, budgets[c].exists
    PROVE  LET b == budgets[c]
           IN  /\ b \in Budget
               /\ RolledStart(b) \in Nat
               /\ RolledStart(b) <= now
               /\ RolledStart(b) >= b.periodStart
               /\ ~PeriodOpen(b) => RolledStart(b) > b.periodStart
               /\ RolledSpent(b) \in Nat
               /\ PeriodOpen(b) => RolledStart(b) = b.periodStart /\ RolledSpent(b) = b.spent
               /\ ~PeriodOpen(b) => RolledSpent(b) = 0
  <1> DEFINE b == budgets[c]
  <1>1. /\ b \in Budget /\ now \in Nat /\ b.periodStart \in Nat
        /\ b.periodLength \in Nat /\ b.periodLength > 0 /\ b.periodStart <= now
        /\ b.spent \in Nat /\ b.exists
    BY DEF TypeOK, BudgetIsLastRule, Budget
  <1>2. LET rolled == b.periodStart
                        + ((now - b.periodStart) \div b.periodLength) * b.periodLength
        IN  /\ rolled \in Nat /\ rolled <= now
            /\ now >= b.periodStart + b.periodLength =>
                 rolled >= b.periodStart + b.periodLength
    <2> HIDE DEF b
    <2> QED BY <1>1, WholePeriods
  <1>3. CASE PeriodOpen(b)
    BY <1>1, <1>3 DEF RolledStart, RolledSpent
  <1>4. CASE ~PeriodOpen(b)
    <2>1. now >= b.periodStart + b.periodLength
      BY <1>1, <1>4 DEF PeriodOpen
    <2>2. RolledStart(b)
            = b.periodStart + ((now - b.periodStart) \div b.periodLength) * b.periodLength
      BY <1>4 DEF RolledStart
    <2>3. RolledStart(b) \in Nat /\ RolledStart(b) <= now /\ RolledStart(b) > b.periodStart
      BY <1>1, <1>2, <2>1, <2>2
    <2>4. RolledSpent(b) = 0
      BY <1>4 DEF RolledSpent
    <2> QED BY <1>1, <1>4, <2>3, <2>4
  <1> QED BY <1>3, <1>4

LEMMA TypePreserved ==
    ASSUME TypeOK, BudgetIsLastRule, [Next]_vars
    PROVE  TypeOK'
  <1> USE DEF TypeOK
  <1>1. CASE Outside
    <2>1. CASE \E amount \in Amounts : Deposit(amount)
      BY <2>1 DEF Deposit, admin
    <2>2. CASE Tick
      BY <2>2 DEF Tick, admin
    <2>3. ASSUME NEW sig \in Approval, Sign(sig) PROVE TypeOK'
      BY <2>3 DEF Sign, admin
    <2>4. ASSUME NEW signer \in Accounts, NEW c \in Categories, NEW to \in Payees,
                 NEW amount \in Amounts, NEW d \in Decisions, NEW n \in 0..1,
                 NEW deadline \in Deadlines
          PROVE  [signer |-> signer, category |-> c, to |-> to, amount |-> amount,
                  decision |-> d, nonce |-> approvalNonce + n,
                  deadline |-> deadline] \in Approval
      <3>1. amount \in Nat /\ deadline \in Nat /\ approvalNonce + n \in Nat
        OBVIOUS
      <3> QED BY <3>1 DEF Approval
    <2> QED BY <1>1, <2>1, <2>2, <2>3, <2>4 DEF Outside
  <1>2. CASE \E s \in Accounts : Administer(s)
    <2>1. PICK s \in Accounts : Administer(s)
      BY <1>2
    <2>2. ASSUME NEW agent \in Accounts, NEW allowed \in BOOLEAN,
                 SetAgent(s, agent, allowed)
          PROVE  TypeOK'
      BY <2>2 DEF SetAgent
    <2>3. ASSUME NEW c \in Categories, NEW choice \in BudgetChoices,
                 SetBudget(s, c, choice)
          PROVE  TypeOK'
      <3>1. choice \in [cap : Nat, perTxLimit : Nat, periodLength : Nat] /\ now \in Nat
        OBVIOUS
      <3>2. budgets' \in [Categories -> Budget]
        BY <2>3, <3>1 DEF SetBudget, Budget
      <3>3. [cap |-> choice.cap, perTxLimit |-> choice.perTxLimit,
             periodLength |-> choice.periodLength, periodStart |-> now] \in BudgetSet
        BY <3>1 DEF BudgetSet
      <3>4. budgetLog' \in [Categories -> Seq(BudgetSet)]
        BY <2>3, <3>3 DEF SetBudget
      <3> QED BY <2>3, <3>2, <3>4 DEF SetBudget, admin
    <2>4. ASSUME NEW value \in BOOLEAN, SetPaused(s, value)
          PROVE  TypeOK'
      BY <2>4 DEF SetPaused
    <2>5. ASSUME NEW amount \in Amounts, Withdraw(s, amount)
          PROVE  TypeOK'
      BY <2>5 DEF Withdraw, admin
    <2>6. ASSUME NEW to \in Accounts \cup {NoAddress}, TransferOwnership(s, to)
          PROVE  TypeOK'
      BY <2>6 DEF TransferOwnership
    <2>7. CASE AcceptOwnership(s)
      BY <2>7 DEF AcceptOwnership
    <2> QED BY <2>1, <2>2, <2>3, <2>4, <2>5, <2>6, <2>7 DEF Administer
  <1>3. CASE \E s \in Accounts : MakePayment(s)
    <2>1. ASSUME NEW s \in Accounts, NEW c \in Categories, NEW to \in Payees,
                 NEW amount \in Nat, NEW d \in Decisions,
                 NEW path \in {"agent", "approved", "owner"}, NEW n \in Nat,
                 budgets[c].exists, Pay(s, c, to, amount, d, path, n),
                 approvalNonce' \in Nat
          PROVE  TypeOK'
      <3> DEFINE b == budgets[c]
      <3>1. /\ b \in Budget /\ RolledStart(b) \in Nat /\ RolledSpent(b) \in Nat
        BY <2>1, RolledStartInNow
      <3>2. [b EXCEPT !.spent = RolledSpent(b) + amount,
                      !.periodStart = RolledStart(b)] \in Budget
        <4>1. RolledSpent(b) + amount \in Nat
          BY <3>1
        <4>2. ASSUME NEW r \in Budget, NEW x \in Nat, NEW y \in Nat
              PROVE  [r EXCEPT !.spent = x, !.periodStart = y] \in Budget
          BY DEF Budget
        <4> QED BY <3>1, <4>1, <4>2
      <3>3. budgets' \in [Categories -> Budget]
        BY <2>1, <3>2 DEF Pay
      <3>4. [category |-> c, to |-> to, actor |-> s, amount |-> amount,
             decision |-> d, path |-> path, spentInPeriod |-> RolledSpent(b) + amount,
             periodStart |-> RolledStart(b), at |-> now,
             epoch |-> Len(budgetLog[c]), nonce |-> n, payer |-> owner] \in Spent
        BY <3>1 DEF Spent
      <3>5. spentLog' \in Seq(Spent)
        BY <2>1, <3>4 DEF Pay
      <3> QED BY <2>1, <3>3, <3>5 DEF Pay, admin
    <2>2. PICK s \in Accounts : MakePayment(s)
      BY <1>3
    <2>3. CASE \E sig \in signatures : SpendApproved(s, sig)
      <3>1. PICK sig \in signatures : SpendApproved(s, sig)
        BY <2>3
      <3>2. sig \in Approval
        OBVIOUS
      <3>3. /\ sig.category \in Categories /\ sig.to \in Payees
            /\ sig.amount \in Nat /\ sig.decision \in Decisions /\ sig.nonce \in Nat
        BY <3>2 DEF Approval
      <3>4. /\ budgets[sig.category].exists /\ approvalNonce' \in Nat
            /\ Pay(s, sig.category, sig.to, sig.amount, sig.decision, "approved",
                   sig.nonce)
        BY <3>1 DEF SpendApproved
      <3> HIDE DEF TypeOK
      <3> QED BY <2>1, <3>3, <3>4
    <2>4. CASE ~ \E sig \in signatures : SpendApproved(s, sig)
      <3>1. PICK c \in Categories, to \in Payees, amount \in Amounts,
                 d \in Decisions \cup {NoDecision} :
                 Spend(s, c, to, amount, d) \/ SpendAsOwner(s, c, to, amount, d)
        BY <2>2, <2>4 DEF MakePayment
      <3>2. d \in Decisions /\ amount \in Nat
        BY <3>1 DEF Spend, SpendAsOwner, Pay
      <3> QED BY <2>1, <3>1, <3>2 DEF Spend, SpendAsOwner
    <2> QED BY <2>3, <2>4
  <1>4. CASE UNCHANGED vars
    BY <1>4 DEF vars, admin
  <1> QED BY <1>1, <1>2, <1>3, <1>4 DEF Next

-----------------------------------------------------------------------------
(* Safety of the payments.                                                 *)

Safety == /\ BudgetIsLastRule
          /\ EventsAreOnRecord
          /\ SpentIsLastTotal
          /\ DecisionPaidOnce
          /\ RunningTotals

LEMMA UntouchedPreserves ==
    ASSUME IInv, TypeOK', Untouched, now' >= now
    PROVE  Safety'
  <1>1. BudgetIsLastRule'
    <2>1. now \in Nat /\ now' \in Nat /\ budgets \in [Categories -> Budget]
      BY DEF IInv, TypeOK
    <2> QED BY <2>1 DEF IInv, BudgetIsLastRule, Untouched, Budget
  <1> QED
    BY <1>1 DEF IInv, Safety, Untouched, EventsAreOnRecord, SpentIsLastTotal, OfPeriod,
                OfBudget, DecisionPaidOnce, RunningTotals, Prior, SameBudget, RuleOf,
                Events

LEMMA EventTyped ==
    ASSUME TypeOK, NEW i \in Events
    PROVE  /\ spentLog[i] \in Spent
           /\ i \in 1..Len(spentLog) /\ Len(spentLog) \in Nat
           /\ spentLog[i].category \in Categories /\ spentLog[i].epoch \in Nat
           /\ spentLog[i].periodStart \in Nat /\ spentLog[i].amount \in Nat
           /\ spentLog[i].spentInPeriod \in Nat
  <1>1. spentLog \in Seq(Spent) /\ i \in 1..Len(spentLog) /\ Len(spentLog) \in Nat
    BY DEF TypeOK, Events
  <1>2. spentLog[i] \in Spent
    BY <1>1
  <1> QED BY <1>1, <1>2 DEF Spent

\* What setBudget leaves: a fresh budget under a rule of its own, which has
\* seen no payment yet; and every payment under the rule it was made under.
SetFacts(c, choice) ==
    /\ now' = now /\ spentLog' = spentLog /\ consumed' = consumed
    /\ budgets'[c] = [cap |-> choice.cap, spent |-> 0,
                      perTxLimit |-> choice.perTxLimit, periodStart |-> now,
                      periodLength |-> choice.periodLength, exists |-> TRUE]
    /\ choice.cap \in Nat /\ choice.periodLength \in Nat /\ choice.periodLength > 0
    /\ Len(budgetLog'[c]) = Len(budgetLog[c]) + 1 /\ Len(budgetLog[c]) \in Nat
    /\ budgetLog'[c][Len(budgetLog'[c])] =
         [cap |-> choice.cap, perTxLimit |-> choice.perTxLimit,
          periodLength |-> choice.periodLength, periodStart |-> now]
    /\ \A x \in Categories \ {c} : /\ budgetLog'[x] = budgetLog[x] /\ budgets'[x] = budgets[x]
                                  /\ OfBudget(x)' = OfBudget(x) /\ OfPeriod(x)' = OfPeriod(x)
    /\ OfPeriod(c)' = {} /\ OfBudget(c)' = {}
    /\ \A i \in Events : RuleOf(i)' = RuleOf(i)

LEMMA BudgetIsSet ==
    ASSUME IInv, NEW s \in Accounts, NEW c \in Categories,
           NEW choice \in BudgetChoices, SetBudget(s, c, choice)
    PROVE  SetFacts(c, choice)
  <1> DEFINE rule == [cap |-> choice.cap, perTxLimit |-> choice.perTxLimit,
                      periodLength |-> choice.periodLength, periodStart |-> now]
             fresh == [cap |-> choice.cap, spent |-> 0,
                       perTxLimit |-> choice.perTxLimit, periodStart |-> now,
                       periodLength |-> choice.periodLength, exists |-> TRUE]
  <1>1. /\ now' = now /\ spentLog' = spentLog /\ consumed' = consumed
        /\ budgets' = [budgets EXCEPT ![c] = fresh]
        /\ budgetLog' = [budgetLog EXCEPT ![c] = Append(@, rule)]
        /\ choice.periodLength > 0
    BY DEF SetBudget
  <1>2. /\ choice \in [cap : Nat, perTxLimit : Nat, periodLength : Nat]
        /\ now \in Nat /\ budgetLog \in [Categories -> Seq(BudgetSet)]
        /\ budgets \in [Categories -> Budget] /\ spentLog \in Seq(Spent)
        /\ rule \in BudgetSet
    BY DEF IInv, TypeOK, BudgetSet
  <1>3. /\ Len(budgetLog'[c]) = Len(budgetLog[c]) + 1
        /\ Len(budgetLog[c]) \in Nat
        /\ budgetLog'[c][Len(budgetLog'[c])] = rule
        /\ \A e \in 1..Len(budgetLog[c]) : budgetLog'[c][e] = budgetLog[c][e]
    BY <1>1, <1>2
  <1>4. \A x \in Categories \ {c} : budgetLog'[x] = budgetLog[x] /\ budgets'[x] = budgets[x]
    BY <1>1, <1>2
  <1>5. budgets'[c] = fresh
    BY <1>1, <1>2
  <1>6. ASSUME NEW x \in Categories \ {c}
        PROVE  OfBudget(x)' = OfBudget(x) /\ OfPeriod(x)' = OfPeriod(x)
    BY <1>1, <1>4 DEF OfBudget, OfPeriod, Events
  <1>7. OfBudget(c)' = {}
    <2>1. \A i \in Events : spentLog[i].category = c
                              => spentLog[i].epoch <= Len(budgetLog[c])
      BY <1>3 DEF IInv, EventsAreOnRecord
    <2>2. \A i \in Events : spentLog[i].epoch \in Nat
      BY EventTyped DEF IInv
    <2> QED BY <1>1, <1>3, <2>1, <2>2 DEF OfBudget, Events
  <1>8. OfPeriod(c)' = {}
    BY <1>7 DEF OfPeriod
  <1>9. ASSUME NEW i \in Events PROVE RuleOf(i)' = RuleOf(i)
    <2>1. spentLog[i].category \in Categories
              /\ spentLog[i].epoch \in 1..Len(budgetLog[spentLog[i].category])
      BY EventTyped DEF IInv, EventsAreOnRecord
    <2> QED BY <1>1, <1>3, <1>4, <2>1 DEF RuleOf
  <1> QED BY <1>1, <1>2, <1>3, <1>4, <1>5, <1>6, <1>7, <1>8, <1>9 DEF SetFacts

LEMMA SetBudgetPreserves ==
    ASSUME IInv, TypeOK', NEW s \in Accounts, NEW c \in Categories,
           NEW choice \in BudgetChoices, SetBudget(s, c, choice)
    PROVE  Safety'
  <1>0. now \in Nat
    BY DEF IInv, TypeOK
  <1>1. SetFacts(c, choice)
    BY BudgetIsSet
  <1>2. BudgetIsLastRule'
    <2>1. ASSUME NEW x \in Categories \ {c}
          PROVE  now' = now /\ budgetLog'[x] = budgetLog[x] /\ budgets'[x] = budgets[x]
      BY <1>1 DEF SetFacts
    <2>2. /\ now' = now /\ budgets'[c].exists /\ Len(budgetLog'[c]) > 0
          /\ budgets'[c].cap = budgetLog'[c][Len(budgetLog'[c])].cap
          /\ budgets'[c].periodLength > 0 /\ budgets'[c].periodStart <= now
          /\ budgets'[c].spent <= budgets'[c].cap
      BY <1>0, <1>1 DEF SetFacts
    <2> QED BY <2>1, <2>2 DEF IInv, BudgetIsLastRule
  <1>3. EventsAreOnRecord'
    <2>1. ASSUME NEW i \in Events
          PROVE  /\ spentLog[i].epoch \in 1..Len(budgetLog'[spentLog[i].category])
                 /\ spentLog[i].decision \in consumed
      <3>1. spentLog[i].category \in Categories
        BY EventTyped DEF IInv
      <3>2. /\ spentLog[i].epoch \in 1..Len(budgetLog[spentLog[i].category])
            /\ spentLog[i].decision \in consumed
        BY DEF IInv, EventsAreOnRecord
      <3>3. CASE spentLog[i].category = c
        BY <1>1, <3>2, <3>3 DEF SetFacts
      <3>4. CASE spentLog[i].category # c
        BY <1>1, <3>1, <3>2, <3>4 DEF SetFacts
      <3> QED BY <3>3, <3>4
    <2> QED BY <1>1, <2>1 DEF SetFacts, EventsAreOnRecord, Events
  <1>4. SpentIsLastTotal'
    <2>1. /\ spentLog' = spentLog /\ budgets'[c].spent = 0
          /\ OfPeriod(c)' = {} /\ OfBudget(c)' = {}
      BY <1>1 DEF SetFacts
    <2>2. \A x \in Categories \ {c} : /\ budgets'[x] = budgets[x]
                                      /\ OfBudget(x)' = OfBudget(x) /\ OfPeriod(x)' = OfPeriod(x)
      BY <1>1 DEF SetFacts
    <2>3. SpentIsLastTotal
      BY DEF IInv
    <2> QED BY ONLY <2>1, <2>2, <2>3 DEF SpentIsLastTotal
  <1>5. DecisionPaidOnce'
    BY <1>1 DEF SetFacts, IInv, DecisionPaidOnce, Events
  <1>6. RunningTotals'
    <2>1. \A i \in Events : RuleOf(i)' = RuleOf(i) /\ Prior(i)' = Prior(i)
      BY <1>1 DEF SetFacts, Prior, SameBudget, Events
    <2> QED BY <1>1, <2>1 DEF SetFacts, IInv, RunningTotals, Events
  <1> QED BY <1>2, <1>3, <1>4, <1>5, <1>6 DEF Safety

\* What a payment finds, what it adds to the log and what it leaves of the
\* budget: b before, and start and spent after it.
PaymentFacts(s, c, to, amount, d, path, n, last, b, start, spent) ==
    /\ now' = now /\ budgetLog' = budgetLog /\ consumed' = consumed \cup {d}
    /\ amount > 0 /\ d \notin consumed /\ spent <= b.cap
    /\ b \in Budget /\ start \in Nat /\ start <= now /\ start >= b.periodStart
    /\ ~PeriodOpen(b) => start > b.periodStart
    /\ RolledSpent(b) \in Nat /\ spent \in Nat
    /\ PeriodOpen(b) => start = b.periodStart /\ RolledSpent(b) = b.spent
    /\ ~PeriodOpen(b) => RolledSpent(b) = 0
    /\ Events' = Events \cup {last} /\ last \notin Events /\ last \in Nat
    /\ \A i \in Events : spentLog'[i] = spentLog[i] /\ i < last /\ i \in Nat
    /\ spentLog'[last] =
         [category |-> c, to |-> to, actor |-> s, amount |-> amount,
          decision |-> d, path |-> path, spentInPeriod |-> spent,
          periodStart |-> start, at |-> now, epoch |-> Len(budgetLog[c]),
          nonce |-> n, payer |-> owner]
    /\ budgets'[c] = [b EXCEPT !.spent = spent, !.periodStart = start]
    /\ \A x \in Categories \ {c} : budgets'[x] = budgets[x]
    /\ UNCHANGED signatures

LEMMA PaymentGrows ==
    ASSUME IInv, NEW s \in Accounts, NEW c \in Categories, NEW to \in Payees,
           NEW amount \in Nat, NEW d \in Decisions,
           NEW path \in {"agent", "approved", "owner"}, NEW n \in Nat,
           budgets[c].exists, Pay(s, c, to, amount, d, path, n),
           NEW last, last = Len(spentLog) + 1,
           NEW b, b = budgets[c], NEW start, start = RolledStart(b),
           NEW spent, spent = RolledSpent(b) + amount
    PROVE  PaymentFacts(s, c, to, amount, d, path, n, last, b, start, spent)
  <1> DEFINE e == [category |-> c, to |-> to, actor |-> s, amount |-> amount,
                   decision |-> d, path |-> path, spentInPeriod |-> spent,
                   periodStart |-> start, at |-> now, epoch |-> Len(budgetLog[c]),
                   nonce |-> n, payer |-> owner]
  <1>1. /\ now' = now /\ budgetLog' = budgetLog /\ consumed' = consumed \cup {d}
        /\ budgets' = [budgets EXCEPT ![c] =
                         [@ EXCEPT !.spent = spent, !.periodStart = start]]
        /\ spentLog' = Append(spentLog, e) /\ signatures' = signatures
        /\ amount > 0 /\ d \notin consumed /\ spent <= b.cap
    BY DEF Pay, Fresh, WithinCap
  <1>2. TypeOK /\ BudgetIsLastRule
    BY DEF IInv
  <1>3. /\ budgets \in [Categories -> Budget] /\ spentLog \in Seq(Spent)
        /\ Len(spentLog) \in Nat
    BY <1>2 DEF TypeOK
  <1>4. /\ b \in Budget /\ start \in Nat /\ start <= now /\ start >= b.periodStart
        /\ ~PeriodOpen(b) => start > b.periodStart
        /\ RolledSpent(b) \in Nat /\ spent \in Nat
        /\ PeriodOpen(b) => start = b.periodStart /\ RolledSpent(b) = b.spent
        /\ ~PeriodOpen(b) => RolledSpent(b) = 0
    BY <1>2, RolledStartInNow
  <1> HIDE DEF e
  <1>5. /\ Events' = Events \cup {last} /\ last \notin Events /\ last \in Nat
        /\ spentLog'[last] = e
        /\ \A i \in Events : spentLog'[i] = spentLog[i] /\ i < last /\ i \in Nat
    BY <1>1, <1>3 DEF Events
  <1>6. /\ budgets'[c] = [b EXCEPT !.spent = spent, !.periodStart = start]
        /\ \A x \in Categories \ {c} : budgets'[x] = budgets[x]
    BY <1>1, <1>3
  <1> QED BY <1>1, <1>4, <1>5, <1>6 DEF e, PaymentFacts

PaymentSets(c, last, b, start, spent) ==
    /\ budgets'[c].spent = spent /\ budgets'[c].periodStart = start
    /\ budgets'[c].cap = b.cap /\ budgets'[c].exists = b.exists
    /\ budgets'[c].perTxLimit = b.perTxLimit
    /\ budgets'[c].periodLength = b.periodLength
    /\ OfBudget(c)' = OfBudget(c) \cup {last}
    /\ OfPeriod(c)' = {last} \cup (IF PeriodOpen(b) THEN OfPeriod(c) ELSE {})

LEMMA PaymentSetsThem ==
    ASSUME IInv, NEW s, NEW c \in Categories, NEW to, NEW amount, NEW d, NEW path, NEW n,
           NEW last, NEW b, b = budgets[c], NEW start, NEW spent,
           PaymentFacts(s, c, to, amount, d, path, n, last, b, start, spent)
    PROVE  PaymentSets(c, last, b, start, spent)
  <1> DEFINE e == spentLog'[last]
  <1>1. /\ budgetLog' = budgetLog
        /\ b \in Budget /\ start \in Nat /\ start >= b.periodStart
        /\ ~PeriodOpen(b) => start > b.periodStart
        /\ PeriodOpen(b) => start = b.periodStart
        /\ spent \in Nat
        /\ Events' = Events \cup {last} /\ last \notin Events /\ last \in Nat
        /\ \A i \in Events : spentLog'[i] = spentLog[i] /\ i < last /\ i \in Nat
        /\ budgets'[c] = [b EXCEPT !.spent = spent, !.periodStart = start]
    BY DEF PaymentFacts
  <1>2. e.category = c /\ e.periodStart = start /\ e.epoch = Len(budgetLog[c])
    BY DEF PaymentFacts
  <1> HIDE DEF e
  <1>3. /\ budgets'[c].spent = spent /\ budgets'[c].periodStart = start
        /\ budgets'[c].cap = b.cap /\ budgets'[c].exists = b.exists
        /\ budgets'[c].perTxLimit = b.perTxLimit
        /\ budgets'[c].periodLength = b.periodLength
    BY <1>1 DEF Budget
  <1>4. OfBudget(c)' = OfBudget(c) \cup {last}
    BY <1>1, <1>2 DEF OfBudget, e
  <1>5. \A i \in OfBudget(c) : /\ spentLog[i].periodStart <= b.periodStart
                               /\ spentLog[i].periodStart \in Nat
                               /\ i \in Events
    BY EventTyped DEF IInv, SpentIsLastTotal, OfBudget
  <1>6. OfPeriod(c)' = {i \in OfBudget(c) \cup {last} : spentLog'[i].periodStart = start}
    BY <1>3, <1>4 DEF OfPeriod
  <1>7. OfPeriod(c)' = {last} \cup (IF PeriodOpen(b) THEN OfPeriod(c) ELSE {})
    <2>1. CASE PeriodOpen(b)
      <3>1. OfPeriod(c) = {i \in OfBudget(c) : spentLog[i].periodStart = start}
        BY <1>1, <2>1 DEF OfPeriod
      <3> QED BY <1>1, <1>2, <1>5, <1>6, <2>1, <3>1 DEF e
    <2>2. CASE ~PeriodOpen(b)
      <3>1. b.periodStart \in Nat
        BY <1>1 DEF Budget
      <3>2. \A i \in OfBudget(c) : spentLog'[i].periodStart # start
        BY <1>1, <1>5, <2>2, <3>1
      <3>3. spentLog'[last].periodStart = start
        BY <1>2 DEF e
      <3> QED BY <1>6, <2>2, <3>2, <3>3
    <2> QED BY <2>1, <2>2
  <1> QED BY <1>3, <1>4, <1>7 DEF PaymentSets

LEMMA PaymentPreserves ==
    ASSUME IInv, TypeOK', NEW s \in Accounts, NEW c \in Categories, NEW to \in Payees,
           NEW amount \in Nat, NEW d \in Decisions,
           NEW path \in {"agent", "approved", "owner"}, NEW n \in Nat,
           budgets[c].exists, Pay(s, c, to, amount, d, path, n)
    PROVE  Safety'
  <1> DEFINE b == budgets[c]
             start == RolledStart(b)
             spent == RolledSpent(b) + amount
  <1>0. PICK last \in Nat : last = Len(spentLog) + 1
    BY DEF IInv, TypeOK
  <1> DEFINE e == spentLog'[last]
  <1>f. PaymentFacts(s, c, to, amount, d, path, n, last, b, start, spent)
    <2> HIDE DEF b, start, spent
    <2> QED BY <1>0, PaymentGrows DEF b, start, spent
  <1>g. PaymentSets(c, last, b, start, spent)
    <2> HIDE DEF start, spent
    <2> QED BY <1>f, PaymentSetsThem
  <1> HIDE DEF start, spent
  <1>2. /\ TypeOK /\ BudgetIsLastRule /\ EventsAreOnRecord /\ SpentIsLastTotal
        /\ DecisionPaidOnce /\ RunningTotals
    BY DEF IInv
  <1>3. /\ now \in Nat /\ budgets \in [Categories -> Budget] /\ spentLog \in Seq(Spent)
        /\ Len(spentLog) \in Nat /\ Len(budgetLog[c]) \in Nat
    BY <1>2 DEF TypeOK
  <1>4. /\ b \in Budget /\ start \in Nat /\ start <= now /\ start >= b.periodStart
        /\ ~PeriodOpen(b) => start > b.periodStart
        /\ RolledSpent(b) \in Nat /\ spent \in Nat
        /\ PeriodOpen(b) => start = b.periodStart /\ RolledSpent(b) = b.spent
        /\ ~PeriodOpen(b) => RolledSpent(b) = 0
    BY <1>f DEF PaymentFacts
  <1>5. /\ Events' = Events \cup {last} /\ last \notin Events
        /\ spentLog'[last] = e
        /\ \A i \in Events : spentLog'[i] = spentLog[i] /\ i < last /\ i \in Nat
    BY <1>f DEF PaymentFacts
  <1>e. /\ e.category = c /\ e.amount = amount /\ e.decision = d
        /\ e.spentInPeriod = spent /\ e.periodStart = start
        /\ e.epoch = Len(budgetLog[c])
    BY <1>f DEF PaymentFacts
  <1>6. /\ budgets'[c].spent = spent /\ budgets'[c].periodStart = start
        /\ budgets'[c].cap = b.cap /\ budgets'[c].exists = b.exists
        /\ budgets'[c].periodLength = b.periodLength
        /\ \A x \in Categories \ {c} : budgets'[x] = budgets[x]
    BY <1>f, <1>g DEF PaymentFacts, PaymentSets
  <1>a. now' = now /\ budgetLog' = budgetLog /\ consumed' = consumed \cup {d}
    BY <1>f DEF PaymentFacts
  <1>b. d \notin consumed /\ spent <= b.cap
    BY <1>f DEF PaymentFacts
  <1>c. spent = RolledSpent(b) + amount
    BY DEF spent
  <1>11. /\ OfBudget(c)' = OfBudget(c) \cup {last}
         /\ OfPeriod(c)' = {last} \cup (IF PeriodOpen(b) THEN OfPeriod(c) ELSE {})
    BY <1>g DEF PaymentSets
  <1> HIDE DEF e
  <1>7. BudgetIsLastRule'
    <2>1. ASSUME NEW x \in Categories \ {c}
          PROVE  budgets'[x] = budgets[x] /\ budgetLog'[x] = budgetLog[x]
      BY <1>a, <1>6
    <2>2. /\ budgets'[c].exists = b.exists /\ budgets'[c].cap = b.cap
          /\ budgets'[c].periodLength = b.periodLength /\ budgets'[c].periodStart <= now'
          /\ budgets'[c].spent <= budgets'[c].cap /\ budgetLog'[c] = budgetLog[c]
      BY <1>a, <1>b, <1>4, <1>6
    <2> HIDE DEF b
    <2> QED BY <1>a, <1>2, <2>1, <2>2 DEF BudgetIsLastRule, b
  <1>8. Len(budgetLog[c]) > 0 /\ b.cap = budgetLog[c][Len(budgetLog[c])].cap
    BY <1>2 DEF BudgetIsLastRule
  <1>9. EventsAreOnRecord'
    <2>1. ASSUME NEW i \in Events'
          PROVE  /\ spentLog'[i].epoch \in 1..Len(budgetLog[spentLog'[i].category])
                 /\ spentLog'[i].decision \in consumed \cup {d}
      <3>1. CASE i \in Events
        BY <1>2, <1>5, <3>1 DEF EventsAreOnRecord
      <3>2. CASE i = last
        <4>1. spentLog'[i].category = c /\ spentLog'[i].decision = d
              /\ spentLog'[i].epoch = Len(budgetLog[c])
          BY <1>5, <1>e, <3>2
        <4> HIDE DEF b
        <4> QED BY ONLY <1>3, <1>8, <4>1
      <3> QED BY <1>5, <3>1, <3>2
    <2> QED BY <1>a, <2>1 DEF EventsAreOnRecord
  <1>10. DecisionPaidOnce'
    <2>1. \A i \in Events : spentLog'[i].decision # d
      BY <1>b, <1>2, <1>5 DEF EventsAreOnRecord
    <2>2. \A i, j \in Events : spentLog'[i].decision = spentLog'[j].decision => i = j
      BY <1>2, <1>5 DEF DecisionPaidOnce
    <2> QED BY <1>5, <1>e, <2>1, <2>2 DEF DecisionPaidOnce
  <1>12. \A i \in OfBudget(c) : /\ spentLog[i].periodStart <= b.periodStart
                                /\ spentLog[i].periodStart \in Nat
                                /\ i \in Events
    BY <1>2, EventTyped DEF SpentIsLastTotal, OfBudget
  <1>14. SpentIsLastTotal'
    <2>1. ASSUME NEW x \in Categories \ {c}
          PROVE  OfBudget(x)' = OfBudget(x) /\ OfPeriod(x)' = OfPeriod(x)
      BY <1>a, <1>5, <1>e, <1>6 DEF OfBudget, OfPeriod
    <2>2. ASSUME NEW x \in Categories \ {c}
          PROVE  /\ \A i \in OfBudget(x)' : spentLog'[i].periodStart <= budgets'[x].periodStart
                 /\ \/ OfPeriod(x)' = {} /\ budgets'[x].spent = 0
                    \/ \E j \in OfPeriod(x)' :
                          /\ \A k \in OfPeriod(x)' : k <= j
                          /\ budgets'[x].spent = spentLog'[j].spentInPeriod
      <3>1. \A i \in OfBudget(x) : i \in Events
        BY DEF OfBudget
      <3>2. \A i \in OfPeriod(x) : i \in OfBudget(x)
        BY DEF OfPeriod
      <3> QED BY <1>2, <1>5, <1>6, <2>1, <3>1, <3>2 DEF SpentIsLastTotal
    <2>3. \A i \in OfBudget(c)' : spentLog'[i].periodStart <= budgets'[c].periodStart
      <3>1. b.periodStart \in Nat
        BY <1>4 DEF Budget
      <3>2. \A i \in OfBudget(c) : spentLog'[i].periodStart <= start
        BY <1>4, <1>5, <1>12, <3>1
      <3>3. spentLog'[last].periodStart <= start
        BY <1>4, <1>5, <1>e
      <3> QED BY <1>6, <1>11, <3>2, <3>3
    <2>4. /\ last \in OfPeriod(c)' /\ \A k \in OfPeriod(c)' : k <= last
          /\ budgets'[c].spent = spentLog'[last].spentInPeriod
      <3>1. \A k \in OfPeriod(c) : k \in Events
        BY DEF OfPeriod, OfBudget
      <3> QED BY <1>3, <1>5, <1>e, <1>6, <1>11, <3>1
    <2> QED BY <2>2, <2>3, <2>4 DEF SpentIsLastTotal
  <1>15. RunningTotals'
    <2>1. ASSUME NEW i \in Events
          PROVE  RuleOf(i)' = RuleOf(i) /\ Prior(i)' = Prior(i)
      BY <1>a, <1>5 DEF RuleOf, Prior, SameBudget, Events
    <2>2. Prior(last)' = IF PeriodOpen(b) THEN OfPeriod(c) ELSE {}
      <3>1. Prior(last)' = {j \in OfBudget(c) : spentLog[j].periodStart = start}
        BY <1>a, <1>5, <1>e DEF Prior, SameBudget, OfBudget
      <3>2. CASE PeriodOpen(b)
        BY <1>4, <3>1, <3>2 DEF OfPeriod
      <3>3. CASE ~PeriodOpen(b)
        <4>1. b.periodStart \in Nat
          BY <1>4 DEF Budget
        <4> QED BY <1>4, <1>12, <3>1, <3>3, <4>1
      <3> QED BY <3>2, <3>3
    <2>3. ASSUME NEW i \in Events
          PROVE  /\ spentLog'[i].spentInPeriod <= RuleOf(i)'.cap
                 /\ \/ Prior(i)' = {} /\ spentLog'[i].spentInPeriod = spentLog'[i].amount
                    \/ \E j \in Prior(i)' :
                         /\ \A k \in Prior(i)' : k <= j
                         /\ spentLog'[i].spentInPeriod
                              = spentLog'[j].spentInPeriod + spentLog'[i].amount
      <3>1. \A j \in Prior(i) : j \in Events
        BY DEF Prior
      <3> QED BY <1>2, <1>5, <2>1, <3>1 DEF RunningTotals
    <2>4. RuleOf(last)' = budgetLog[c][Len(budgetLog[c])]
      BY <1>a, <1>5, <1>e DEF RuleOf
    <2>5. \/ Prior(last)' = {} /\ spentLog'[last].spentInPeriod = amount
          \/ \E j \in Prior(last)' :
                /\ \A k \in Prior(last)' : k <= j
                /\ spentLog'[last].spentInPeriod = spentLog'[j].spentInPeriod + amount
      <3>1. CASE PeriodOpen(b)
        <4>1. \/ OfPeriod(c) = {} /\ b.spent = 0
              \/ \E j \in OfPeriod(c) : /\ \A k \in OfPeriod(c) : k <= j
                                        /\ b.spent = spentLog[j].spentInPeriod
          BY <1>2 DEF SpentIsLastTotal
        <4>2. \A j \in OfPeriod(c) : spentLog'[j] = spentLog[j]
          BY <1>5 DEF OfPeriod, OfBudget
        <4>3. spentLog'[last].spentInPeriod = b.spent + amount
          BY <1>4, <1>5, <1>e, <1>c, <3>1
        <4> QED BY <2>2, <3>1, <4>1, <4>2, <4>3
      <3>2. CASE ~PeriodOpen(b)
        <4>1. spentLog'[last].spentInPeriod = amount
          BY <1>4, <1>5, <1>e, <1>c, <3>2
        <4> QED BY <2>2, <3>2, <4>1
      <3> QED BY <3>1, <3>2
    <2>6. spentLog'[last].spentInPeriod <= RuleOf(last)'.cap
      BY <1>b, <1>5, <1>e, <1>8, <2>4
    <2>7. spentLog'[last].amount = amount
      BY <1>5, <1>e
    <2> QED BY <1>5, <2>3, <2>5, <2>6, <2>7 DEF RunningTotals
  <1> QED BY <1>7, <1>9, <1>10, <1>14, <1>15 DEF Safety

-----------------------------------------------------------------------------

LEMMA InitIInv == Init => IInv
  <1> SUFFICES ASSUME Init PROVE IInv
    OBVIOUS
  <1>1. TypeOK
    <2>1. [cap |-> 0, spent |-> 0, perTxLimit |-> 0, periodStart |-> 0,
           periodLength |-> 0, exists |-> FALSE] \in Budget
      BY DEF Budget
    <2>2. budgets \in [Categories -> Budget]
      BY <2>1 DEF Init
    <2>3. now \in 0..MaxTime
      BY DEF Init
    <2>4. spentLog \in Seq(Spent) /\ budgetLog \in [Categories -> Seq(BudgetSet)]
      BY DEF Init
    <2>5. owner \in Accounts /\ signatures \subseteq Approval
      BY DEF Init
    <2> QED BY <2>2, <2>3, <2>4, <2>5 DEF Init, TypeOK
  <1>2. Events = {} /\ spentLog = <<>>
    BY DEF Init, Events
  <1> QED
    BY <1>1, <1>2 DEF Init, IInv, BudgetIsLastRule, EventsAreOnRecord,
                       SpentIsLastTotal, OfBudget, OfPeriod, DecisionPaidOnce,
                       RunningTotals

LEMMA StepIInv == IInv /\ [Next]_vars => IInv'
  <1> SUFFICES ASSUME IInv, [Next]_vars PROVE IInv'
    OBVIOUS
  <1>1. TypeOK'
    BY TypePreserved DEF IInv
  <1>2. Safety'
    <2>1. CASE \E s \in Accounts, c \in Categories, choice \in BudgetChoices :
                  SetBudget(s, c, choice)
      BY <1>1, <2>1, SetBudgetPreserves
    <2>2. CASE Payment
      BY <1>1, <2>2, PaymentPreserves DEF Payment
    <2>3. CASE Untouched /\ now' >= now
      BY <1>1, <2>3, UntouchedPreserves
    <2> QED BY <2>1, <2>2, <2>3, StepKinds DEF IInv
  <1> QED BY <1>1, <1>2 DEF IInv, Safety

LEMMA Invariance == Spec => []IInv
  BY InitIInv, StepIInv, PTL DEF Spec

\* Every reachable state of the wallet is well typed.
THEOREM TypeCorrect == Spec => []TypeOK
  <1>1. IInv => TypeOK
    BY DEF IInv
  <1> QED BY <1>1, Invariance, PTL

\* No decision record is paid twice, whichever doors are used, for any number
\* of agents, budgets, signatures and changes of owner.
THEOREM DecisionsArePaidOnce == Spec => []DecisionPaidOnce
  <1>1. IInv => DecisionPaidOnce
    BY DEF IInv
  <1> QED BY <1>1, Invariance, PTL

\* The totals the Spent events carry telescope within each period of each
\* budget and never exceed the cap: no period pays more than its cap.
THEOREM TotalsStayWithinCap == Spec => []RunningTotals
  <1>1. IInv => RunningTotals
    BY DEF IInv
  <1> QED BY <1>1, Invariance, PTL

-----------------------------------------------------------------------------
(* Periods and totals.  What the stored period starts are worth: every one *)
(* lies on the calendar of its rule, so "the same period" of the           *)
(* properties is "the same period start" of the code; and what the budget  *)
(* has spent is the sum of the payments of its stored period.              *)

CalendarStart(rule, t) == rule.periodStart + PeriodAt(rule, t) * rule.periodLength
RuleInForce(c) == budgetLog[c][Len(budgetLog[c])]

BudgetOnCalendar(c) ==
    /\ budgets[c].perTxLimit = RuleInForce(c).perTxLimit
    /\ budgets[c].periodLength = RuleInForce(c).periodLength
    /\ RuleInForce(c).periodStart <= budgets[c].periodStart
    /\ CalendarStart(RuleInForce(c), budgets[c].periodStart) = budgets[c].periodStart

EventOnCalendar(i) ==
    /\ RuleOf(i).periodLength > 0 /\ RuleOf(i).periodStart <= spentLog[i].at
    /\ spentLog[i].periodStart = CalendarStart(RuleOf(i), spentLog[i].at)

OnCalendar ==
    /\ \A c \in Categories : budgets[c].exists => BudgetOnCalendar(c)
    /\ \A i \in Events : EventOnCalendar(i)

PaymentsOf(log) == [i \in DOMAIN log |-> log[i].amount]
Total(log, S) == SumFunctionOnSet(PaymentsOf(log), S)
InPeriodOf(i) == {j \in Events : SameBudget(i, j)}

PeriodTotals ==
    /\ \A c \in Categories : budgets[c].exists => budgets[c].spent = Total(spentLog, OfPeriod(c))
    /\ \A i \in Events : Total(spentLog, InPeriodOf(i)) <= RuleOf(i).cap

TInv == IInv /\ OnCalendar /\ PeriodTotals

LEMMA RuleTyped ==
    ASSUME TypeOK, BudgetIsLastRule, NEW c \in Categories, budgets[c].exists
    PROVE  RuleInForce(c) \in BudgetSet /\ now \in Nat /\ budgets[c] \in Budget
  <1>1. budgetLog[c] \in Seq(BudgetSet) /\ Len(budgetLog[c]) > 0
    BY DEF TypeOK, BudgetIsLastRule
  <1>2. RuleInForce(c) \in BudgetSet
    BY <1>1 DEF RuleInForce
  <1> QED BY <1>2 DEF TypeOK

\* The calendar of a rule is made of its periods.
LEMMA CalendarIsPeriods ==
    ASSUME NEW rule \in BudgetSet, rule.periodLength > 0, NEW t \in Nat, rule.periodStart <= t
    PROVE  /\ CalendarStart(rule, t) \in Nat /\ CalendarStart(rule, t) <= t
           /\ t < CalendarStart(rule, t) + rule.periodLength
           /\ rule.periodStart <= CalendarStart(rule, t)
           /\ PeriodAt(rule, t) \in Nat
           /\ CalendarStart(rule, CalendarStart(rule, t)) = CalendarStart(rule, t)
  <1> DEFINE r == rule.periodStart
             l == rule.periodLength
             q == (t - r) \div l
  <1>1. r \in Nat /\ l \in Nat /\ l > 0 /\ r <= t
    BY DEF BudgetSet
  <1>2. CalendarStart(rule, t) = r + q * l /\ PeriodAt(rule, t) = q
    BY DEF CalendarStart, PeriodAt
  <1>c. \A x : CalendarStart(rule, x) = r + ((x - r) \div l) * l
    BY DEF CalendarStart, PeriodAt
  <1> HIDE DEF r, l
  <1>3. r + q * l \in Nat /\ r + q * l <= t /\ t < r + q * l + l
    BY <1>1, WholePeriods
  <1>4. q \in Nat /\ q * l \in Nat
    <2>1. q \in Int /\ t - r < l * q + l
      BY <1>1, SMT
    <2>2. q >= 0
      BY <1>1, <2>1, SMT
    <2> HIDE DEF q
    <2>3. q * l \in Nat
      BY <1>1, <2>1, <2>2, SMT
    <2> QED BY <2>1, <2>2, <2>3
  <1> HIDE DEF q
  <1>5. r + q * l - r = q * l
    BY <1>1, <1>4
  <1>6. (q * l) \div l = q
    BY <1>1, <1>4, QuotientIs
  <1>7. CalendarStart(rule, r + q * l) = r + q * l
    <2> DEFINE y == r + q * l
    <2>1. y - r = q * l
      BY <1>1, <1>4, <1>5
    <2> HIDE DEF y
    <2>2. CalendarStart(rule, y) = r + ((y - r) \div l) * l
      BY <1>c
    <2>3. CalendarStart(rule, y) = r + q * l
      BY <1>6, <2>1, <2>2
    <2> QED BY <2>3 DEF y
  <1>8. r <= r + q * l
    BY <1>1, <1>4
  <1> QED BY <1>2, <1>3, <1>4, <1>7, <1>8 DEF r, l

\* Rolling lands on the calendar of the rule in force.
LEMMA RolledOnCalendar ==
    ASSUME TypeOK, BudgetIsLastRule, NEW c \in Categories, budgets[c].exists,
           BudgetOnCalendar(c)
    PROVE  /\ RuleInForce(c) \in BudgetSet /\ RuleInForce(c).periodLength > 0
           /\ RuleInForce(c).periodStart <= now /\ now \in Nat
           /\ RolledStart(budgets[c]) = CalendarStart(RuleInForce(c), now)
  <1> DEFINE rule == RuleInForce(c)
             b == budgets[c]
             r == rule.periodStart
             l == rule.periodLength
             s == b.periodStart
             k == (s - r) \div l
  <1>1. /\ rule \in BudgetSet /\ b \in Budget /\ now \in Nat
        /\ l \in Nat /\ r \in Nat /\ s \in Nat
    BY RuleTyped DEF Budget, BudgetSet
  <1>2. b.periodLength = l /\ l > 0 /\ r <= s /\ s <= now
    BY DEF BudgetOnCalendar, BudgetIsLastRule
  <1>3. s = r + k * l
    BY DEF BudgetOnCalendar, CalendarStart, PeriodAt
  <1>4. k \in Int
    BY <1>1, <1>2, SMT
  <1>5. r <= now
    BY <1>1, <1>2
  <1>6. CalendarStart(rule, now) = r + ((now - r) \div l) * l
    BY DEF CalendarStart, PeriodAt
  <1>7. RolledStart(b) = IF now < s + l THEN s ELSE s + ((now - s) \div l) * l
    BY <1>2 DEF RolledStart, PeriodOpen
  <1>8. s + ((now - s) \div l) * l = r + ((now - r) \div l) * l
    <2> HIDE DEF k, s, l, r, rule, b
    <2> QED BY <1>1, <1>2, <1>3, <1>4, PeriodsAlign
  <1>9. now < s + l => s + ((now - s) \div l) * l = s
    <2> SUFFICES ASSUME now < s + l PROVE s + ((now - s) \div l) * l = s
      OBVIOUS
    <2> DEFINE x == now - s
    <2>1. x \in Nat /\ x < 0 * l + l /\ 0 * l <= x
      BY <1>1, <1>2
    <2> HIDE DEF x, s, l
    <2>2. x \div l = 0
      BY <1>1, <1>2, <2>1, QuotientIs
    <2> QED BY <1>1, <2>2 DEF x
  <1> HIDE DEF s, l, r, rule, b, k
  <1>10. RolledStart(b) = CalendarStart(rule, now)
    BY <1>6, <1>7, <1>8, <1>9
  <1> QED BY <1>1, <1>2, <1>5, <1>10 DEF rule, b, l, r

\* Adding a payment to the log adds its amount to the sums it is part of.
LEMMA TotalGrows ==
    ASSUME TypeOK, TypeOK', NEW last, Events' = Events \cup {last}, last \notin Events,
           \A i \in Events : spentLog'[i] = spentLog[i],
           NEW D, D \subseteq Events
    PROVE  /\ Total(spentLog, D) \in Int
           /\ Total(spentLog', D) = Total(spentLog, D)
           /\ Total(spentLog', D \cup {last}) = Total(spentLog, D) + spentLog'[last].amount
           /\ Total(spentLog', {last}) = spentLog'[last].amount
  <1> DEFINE f == PaymentsOf(spentLog)
             g == PaymentsOf(spentLog')
  <1>1. IsFiniteSet(D)
    <2>1. DOMAIN spentLog = 1..Len(spentLog) /\ Len(spentLog) \in Nat
      BY DEF TypeOK
    <2>2. IsFiniteSet(1..Len(spentLog))
      BY <2>1, FS_Interval
    <2> QED BY <2>1, <2>2, FS_Subset DEF Events
  <1>2. \A i \in Events : f[i] = spentLog[i].amount /\ f[i] \in Int
    <2>1. \A i \in Events : f[i] = spentLog[i].amount
      BY DEF PaymentsOf, Events
    <2>2. \A i \in Events : spentLog[i].amount \in Nat
      BY EventTyped
    <2> QED BY <2>1, <2>2
  <1>3. \A i \in Events' : g[i] = spentLog'[i].amount /\ g[i] \in Int
    <2>1. \A i \in Events' : g[i] = spentLog'[i].amount
      BY DEF PaymentsOf, Events
    <2>0. spentLog' \in Seq(Spent)
      BY DEF TypeOK
    <2>2. \A i \in Events' : spentLog'[i] \in Spent
      BY <2>0 DEF Events
    <2>3. \A i \in Events' : spentLog'[i].amount \in Nat
      BY <2>2 DEF Spent
    <2> QED BY <2>1, <2>3
  <1> HIDE DEF f, g
  <1>4. \A i \in D : f[i] = g[i] /\ f[i] \in Int
    BY <1>2, <1>3
  <1>5. SumFunctionOnSet(g, D) = SumFunctionOnSet(f, D) /\ SumFunctionOnSet(f, D) \in Int
    BY <1>1, <1>4, SumOfEqual, SumIsInt
  <1>6. last \notin D /\ (\A i \in D \cup {last} : g[i] \in Int) /\ g[last] = spentLog'[last].amount
    BY <1>3
  <1>7. SumFunctionOnSet(g, D \cup {last}) = SumFunctionOnSet(g, D) + g[last]
    <2>1. last \notin D
      BY <1>6
    <2>2. \A i \in D \cup {last} : g[i] \in Int
      BY <1>6
    <2> QED BY ONLY <1>1, <2>1, <2>2, SumAdds
  <1>8. SumFunctionOnSet(g, {last}) = g[last]
    <2>1. IsFiniteSet({}) /\ last \notin {} /\ (\A i \in {} \cup {last} : g[i] \in Int)
          /\ {} \cup {last} = {last}
      BY <1>6, FS_EmptySet
    <2>2. SumFunctionOnSet(g, {} \cup {last}) = SumFunctionOnSet(g, {}) + g[last]
      BY ONLY <2>1, SumAdds
    <2> QED BY <1>6, <2>1, <2>2, SumOfNothing
  <1> QED BY <1>5, <1>6, <1>7, <1>8 DEF Total, f, g


LEMMA UntouchedTotals ==
    ASSUME TInv, Untouched
    PROVE  OnCalendar' /\ PeriodTotals'
  <1>1. /\ budgets' = budgets /\ budgetLog' = budgetLog /\ spentLog' = spentLog
    BY DEF Untouched
  <1>2. OnCalendar'
    BY <1>1 DEF TInv, OnCalendar, BudgetOnCalendar, EventOnCalendar, RuleInForce, RuleOf,
                CalendarStart, PeriodAt, Events
  <1>3. PeriodTotals'
    <2>1. \A c \in Categories : OfPeriod(c)' = OfPeriod(c)
      BY <1>1 DEF OfPeriod, OfBudget, Events
    <2>2. \A i \in Events : InPeriodOf(i)' = InPeriodOf(i) /\ RuleOf(i)' = RuleOf(i)
      BY <1>1 DEF InPeriodOf, SameBudget, RuleOf, Events
    <2> QED BY <1>1, <2>1, <2>2 DEF TInv, PeriodTotals, Events
  <1> QED BY <1>2, <1>3

LEMMA SetBudgetTotals ==
    ASSUME TInv, NEW s \in Accounts, NEW c \in Categories,
           NEW choice \in BudgetChoices, SetBudget(s, c, choice)
    PROVE  OnCalendar' /\ PeriodTotals'
  <1>1. SetFacts(c, choice) /\ TypeOK
    BY BudgetIsSet DEF TInv, IInv
  <1> DEFINE rule == [cap |-> choice.cap, perTxLimit |-> choice.perTxLimit,
                      periodLength |-> choice.periodLength, periodStart |-> now]
  <1>2. /\ now \in Nat /\ choice.periodLength \in Nat /\ choice.periodLength > 0
    BY <1>1 DEF SetBudget, TypeOK
  <1>3. /\ now' = now /\ spentLog' = spentLog
        /\ budgets'[c] = [cap |-> choice.cap, spent |-> 0,
                          perTxLimit |-> choice.perTxLimit, periodStart |-> now,
                          periodLength |-> choice.periodLength, exists |-> TRUE]
        /\ RuleInForce(c)' = rule
        /\ \A x \in Categories \ {c} : budgetLog'[x] = budgetLog[x] /\ budgets'[x] = budgets[x]
        /\ \A x \in Categories \ {c} : OfPeriod(x)' = OfPeriod(x)
        /\ OfPeriod(c)' = {}
        /\ \A i \in Events : RuleOf(i)' = RuleOf(i)
    BY <1>1 DEF SetFacts, RuleInForce
  <1>4. BudgetOnCalendar(c)'
    <2>1. (now - now) \div choice.periodLength = 0
      BY <1>2, QuotientIs
    <2> QED BY <1>2, <1>3, <2>1 DEF BudgetOnCalendar, CalendarStart, PeriodAt
  <1>5. ASSUME NEW x \in Categories \ {c}, budgets'[x].exists PROVE BudgetOnCalendar(x)'
    <2>1. BudgetOnCalendar(x) /\ budgets'[x] = budgets[x] /\ RuleInForce(x)' = RuleInForce(x)
      BY <1>3, <1>5 DEF TInv, OnCalendar, RuleInForce
    <2> QED BY <2>1 DEF BudgetOnCalendar, CalendarStart, PeriodAt
  <1>6. ASSUME NEW i \in Events PROVE EventOnCalendar(i)'
    <2>1. EventOnCalendar(i) /\ spentLog' = spentLog /\ RuleOf(i)' = RuleOf(i)
      BY <1>3 DEF TInv, OnCalendar
    <2> QED BY <2>1 DEF EventOnCalendar, CalendarStart, PeriodAt
  <1>7. OnCalendar'
    BY <1>3, <1>4, <1>5, <1>6 DEF OnCalendar, Events
  <1>8. Total(spentLog', {}) = 0 /\ budgets'[c].spent = 0
    BY <1>3, SumOfNothing DEF Total
  <1>9. \A i \in Events : InPeriodOf(i)' = InPeriodOf(i)
    BY <1>3 DEF InPeriodOf, SameBudget, Events
  <1>10. PeriodTotals'
    BY <1>3, <1>8, <1>9 DEF TInv, PeriodTotals, Events
  <1> QED BY <1>7, <1>10

LEMMA PaymentTotals ==
    ASSUME TInv, TypeOK', NEW s \in Accounts, NEW c \in Categories, NEW to \in Payees,
           NEW amount \in Nat, NEW d \in Decisions,
           NEW path \in {"agent", "approved", "owner"}, NEW n \in Nat,
           budgets[c].exists, Pay(s, c, to, amount, d, path, n)
    PROVE  OnCalendar' /\ PeriodTotals'
  <1> DEFINE b == budgets[c]
             start == RolledStart(b)
             spent == RolledSpent(b) + amount
             rule == RuleInForce(c)
  <1>0. PICK last \in Nat : last = Len(spentLog) + 1
    BY DEF TInv, IInv, TypeOK
  <1> DEFINE e == spentLog'[last]
  <1>i. IInv
    BY DEF TInv
  <1>f. PaymentFacts(s, c, to, amount, d, path, n, last, b, start, spent)
    <2> HIDE DEF b, start, spent
    <2> QED BY <1>0, <1>i, PaymentGrows DEF b, start, spent
  <1>g. PaymentSets(c, last, b, start, spent)
    <2> HIDE DEF start, spent
    <2> QED BY <1>f, <1>i, PaymentSetsThem
  <1>1. /\ rule \in BudgetSet /\ rule.periodLength > 0 /\ rule.periodStart <= now /\ now \in Nat
        /\ start = CalendarStart(rule, now)
    BY <1>i, RolledOnCalendar DEF IInv, TInv, OnCalendar
  <1>2. /\ rule.periodStart <= start /\ CalendarStart(rule, start) = start
    <2> HIDE DEF rule, start
    <2> QED BY <1>1, CalendarIsPeriods
  <1> HIDE DEF start, spent
  <1>3. /\ Events' = Events \cup {last} /\ last \notin Events
        /\ \A i \in Events : spentLog'[i] = spentLog[i]
        /\ budgetLog' = budgetLog
        /\ spent <= b.cap
        /\ PeriodOpen(b) => RolledSpent(b) = b.spent
        /\ ~PeriodOpen(b) => RolledSpent(b) = 0
        /\ \A x \in Categories \ {c} : budgets'[x] = budgets[x]
    BY <1>f DEF PaymentFacts
  <1>e. /\ e.category = c /\ e.amount = amount /\ e.periodStart = start
        /\ e.epoch = Len(budgetLog[c]) /\ e.at = now
    BY <1>f DEF PaymentFacts
  <1>4. /\ budgets'[c].spent = spent /\ budgets'[c].periodStart = start
        /\ budgets'[c].perTxLimit = b.perTxLimit /\ budgets'[c].periodLength = b.periodLength
        /\ OfBudget(c)' = OfBudget(c) \cup {last}
        /\ OfPeriod(c)' = {last} \cup (IF PeriodOpen(b) THEN OfPeriod(c) ELSE {})
    BY <1>g DEF PaymentSets
  <1> HIDE DEF e
  <1>5. \A x : RuleInForce(x)' = RuleInForce(x)
    BY <1>3 DEF RuleInForce
  <1>6. ASSUME NEW i \in Events PROVE RuleOf(i)' = RuleOf(i)
    BY <1>3 DEF RuleOf
  <1>7. RuleOf(last)' = rule
    BY <1>3, <1>e DEF RuleOf, RuleInForce, e
  <1>8. BudgetOnCalendar(c)'
    <2>1. BudgetOnCalendar(c)
      BY DEF TInv, OnCalendar
    <2> QED BY <1>2, <1>4, <1>5, <2>1 DEF BudgetOnCalendar, CalendarStart, PeriodAt
  <1>9. ASSUME NEW x \in Categories \ {c}, budgets'[x].exists PROVE BudgetOnCalendar(x)'
    <2>1. BudgetOnCalendar(x) /\ budgets'[x] = budgets[x] /\ RuleInForce(x)' = RuleInForce(x)
      BY <1>3, <1>5, <1>9 DEF TInv, OnCalendar
    <2> QED BY <2>1 DEF BudgetOnCalendar, CalendarStart, PeriodAt
  <1>10. ASSUME NEW i \in Events PROVE EventOnCalendar(i)'
    <2>1. EventOnCalendar(i) /\ spentLog'[i] = spentLog[i] /\ RuleOf(i)' = RuleOf(i)
      BY <1>3, <1>6 DEF TInv, OnCalendar
    <2> QED BY <2>1 DEF EventOnCalendar, CalendarStart, PeriodAt
  <1>11. EventOnCalendar(last)'
    BY <1>1, <1>7, <1>e DEF EventOnCalendar, CalendarStart, PeriodAt, e
  <1>12. OnCalendar'
    BY <1>3, <1>8, <1>9, <1>10, <1>11 DEF OnCalendar
  <1>13. ASSUME NEW D, D \subseteq Events
         PROVE  /\ Total(spentLog, D) \in Int
                /\ Total(spentLog', D) = Total(spentLog, D)
                /\ Total(spentLog', D \cup {last}) = Total(spentLog, D) + amount
                /\ Total(spentLog', {last}) = amount
    <2>1. e.amount = amount
      BY <1>e
    <2> QED BY <1>3, <1>13, <1>i, <2>1, TotalGrows DEF IInv, e
  <1>14. OfPeriod(c) \subseteq Events /\ \A x : OfPeriod(x) \subseteq Events
    BY DEF OfPeriod, OfBudget
  <1>15. Total(spentLog', OfPeriod(c)') = spent
    <2>1. CASE PeriodOpen(b)
      <3>1. OfPeriod(c)' = OfPeriod(c) \cup {last}
        BY <1>4, <2>1
      <3>2. b.spent = Total(spentLog, OfPeriod(c))
        BY DEF TInv, PeriodTotals
      <3> QED BY <1>3, <1>13, <1>14, <2>1, <3>1, <3>2 DEF spent
    <2>2. CASE ~PeriodOpen(b)
      <3>1. OfPeriod(c)' = {last}
        BY <1>4, <2>2
      <3>2. Total(spentLog', {last}) = amount
        BY <1>13, <1>14
      <3> QED BY <1>3, <2>2, <3>1, <3>2 DEF spent
    <2> QED BY <2>1, <2>2
  <1>16. ASSUME NEW x \in Categories \ {c}
         PROVE  OfPeriod(x)' = OfPeriod(x)
    BY <1>3, <1>e DEF OfBudget, OfPeriod, e
  <1>17. ASSUME NEW x \in Categories, budgets'[x].exists
         PROVE  budgets'[x].spent = Total(spentLog', OfPeriod(x)')
    <2>1. CASE x = c
      BY <1>4, <1>15, <2>1
    <2>2. CASE x # c
      <3>1. budgets[x].spent = Total(spentLog, OfPeriod(x))
        BY <1>3, <1>17, <2>2 DEF TInv, PeriodTotals
      <3>2. Total(spentLog', OfPeriod(x)) = Total(spentLog, OfPeriod(x))
        BY <1>13, <1>14
      <3>3. OfPeriod(x)' = OfPeriod(x) /\ budgets'[x] = budgets[x]
        BY <1>3, <1>16, <2>2
      <3> QED BY <3>1, <3>2, <3>3
    <2> QED BY <2>1, <2>2
  <1>18. ASSUME NEW i \in Events'
         PROVE  Total(spentLog', InPeriodOf(i)') <= RuleOf(i)'.cap
    <2> DEFINE f == spentLog'[i]
    <2>1. CASE f.category = c /\ f.epoch = Len(budgetLog[c]) /\ f.periodStart = start
      <3>1. InPeriodOf(i)' = OfPeriod(c)'
        BY <1>3, <1>4, <2>1 DEF InPeriodOf, SameBudget, OfPeriod, OfBudget
      <3>2. RuleOf(i)' = rule
        BY <1>3, <2>1 DEF RuleOf, RuleInForce
      <3>3. rule.cap = b.cap
        BY <1>i DEF IInv, BudgetIsLastRule, RuleInForce
      <3> QED BY <1>3, <1>15, <3>1, <3>2, <3>3
    <2>2. CASE ~(f.category = c /\ f.epoch = Len(budgetLog[c]) /\ f.periodStart = start)
      <3>1. i \in Events
        BY <1>3, <1>e, <2>2 DEF e
      <3>2. InPeriodOf(i)' = InPeriodOf(i)
        <4>1. f = spentLog[i]
          BY <1>3, <3>1
        <4>2. ~SameBudget(i, last)'
          BY <1>e, <2>2 DEF SameBudget, e
        <4>3. \A j \in Events : SameBudget(i, j)' <=> SameBudget(i, j)
          BY <1>3, <4>1 DEF SameBudget
        <4> QED BY <1>3, <4>2, <4>3 DEF InPeriodOf
      <3>3. Total(spentLog, InPeriodOf(i)) <= RuleOf(i).cap
        BY <3>1 DEF TInv, PeriodTotals
      <3>4. InPeriodOf(i) \subseteq Events
        BY DEF InPeriodOf
      <3>5. Total(spentLog', InPeriodOf(i)) = Total(spentLog, InPeriodOf(i))
        BY <1>13, <3>4
      <3> QED BY <1>6, <3>1, <3>2, <3>3, <3>5
    <2> QED BY <2>1, <2>2
  <1> QED BY <1>12, <1>17, <1>18 DEF PeriodTotals

LEMMA StepTInv == TInv /\ [Next]_vars => TInv'
  <1> SUFFICES ASSUME TInv, [Next]_vars PROVE TInv'
    OBVIOUS
  <1>1. IInv /\ IInv'
    BY StepIInv DEF TInv
  <1>2. TypeOK /\ TypeOK'
    BY <1>1 DEF IInv
  <1>3. OnCalendar' /\ PeriodTotals'
    <2>1. CASE \E s \in Accounts, c \in Categories, choice \in BudgetChoices :
                  SetBudget(s, c, choice)
      BY <2>1, SetBudgetTotals
    <2>2. CASE Payment
      BY <1>2, <2>2, PaymentTotals DEF Payment
    <2>3. CASE Untouched
      BY <2>3, UntouchedTotals
    <2> QED BY <1>2, <2>1, <2>2, <2>3, StepKinds
  <1> QED BY <1>1, <1>3 DEF TInv

LEMMA InitTInv == Init => TInv
  <1> SUFFICES ASSUME Init PROVE TInv
    OBVIOUS
  <1>1. Events = {} /\ (\A c \in Categories : ~budgets[c].exists)
    BY DEF Init, Events
  <1> QED BY <1>1, InitIInv DEF TInv, OnCalendar, PeriodTotals

LEMMA TotalsInvariance == Spec => []TInv
  BY InitTInv, StepTInv, PTL DEF Spec


\* Two moments of one rule are in the same period exactly when their periods
\* start at the same time.
LEMMA SameStartSamePeriod ==
    ASSUME NEW rule \in BudgetSet, rule.periodLength > 0,
           NEW t \in Nat, NEW u \in Nat, rule.periodStart <= t, rule.periodStart <= u
    PROVE  PeriodAt(rule, t) = PeriodAt(rule, u) <=> CalendarStart(rule, t) = CalendarStart(rule, u)
  <1> DEFINE p == PeriodAt(rule, t)
             q == PeriodAt(rule, u)
             r == rule.periodStart
             l == rule.periodLength
  <1>1. p \in Int /\ q \in Int /\ r \in Nat /\ l \in Nat /\ l > 0
    <2>1. p \in Nat /\ q \in Nat
      BY CalendarIsPeriods
    <2> QED BY <2>1 DEF BudgetSet
  <1>2. CalendarStart(rule, t) = r + p * l /\ CalendarStart(rule, u) = r + q * l
    BY DEF CalendarStart
  <1> HIDE DEF p, q, r, l
  <1>3. p * l \in Int /\ q * l \in Int
    BY <1>1
  <1>4. p * l = q * l <=> p = q
    BY <1>1, SameMultiple
  <1>5. r + p * l = r + q * l <=> p * l = q * l
    BY <1>1, <1>3
  <1> QED BY <1>2, <1>4, <1>5 DEF p, q

LEMMA EventRule ==
    ASSUME IInv, OnCalendar, NEW i \in Events
    PROVE  /\ RuleOf(i) \in BudgetSet /\ RuleOf(i).periodLength > 0
           /\ RuleOf(i).periodStart <= spentLog[i].at /\ spentLog[i].at \in Nat
           /\ spentLog[i].periodStart = CalendarStart(RuleOf(i), spentLog[i].at)
  <1>1. /\ spentLog[i].category \in Categories /\ spentLog[i].at \in Nat
        /\ spentLog[i].epoch \in 1..Len(budgetLog[spentLog[i].category])
    BY EventTyped DEF IInv, EventsAreOnRecord, Spent, TypeOK, Events
  <1>2. budgetLog[spentLog[i].category] \in Seq(BudgetSet)
    BY <1>1 DEF IInv, TypeOK
  <1>3. RuleOf(i) \in BudgetSet
    BY <1>1, <1>2 DEF RuleOf
  <1>4. EventOnCalendar(i)
    BY DEF OnCalendar
  <1> QED BY <1>1, <1>3, <1>4 DEF EventOnCalendar

LEMMA CapFromTotals == TInv => CapHoldsInEveryPeriod
  <1> SUFFICES ASSUME TInv, NEW i \in Events
               PROVE  TotalOf({j \in Events : SamePeriod(i, j)}) <= RuleOf(i).cap
    BY DEF CapHoldsInEveryPeriod
  <1>1. ASSUME NEW j \in Events PROVE SamePeriod(i, j) <=> SameBudget(i, j)
    <2>1. CASE spentLog[i].category = spentLog[j].category /\ spentLog[i].epoch = spentLog[j].epoch
      <3>1. RuleOf(j) = RuleOf(i)
        BY <2>1 DEF RuleOf
      <3> DEFINE rule == RuleOf(i)
                 t == spentLog[i].at
                 u == spentLog[j].at
      <3>2. /\ rule \in BudgetSet /\ rule.periodLength > 0 /\ t \in Nat /\ u \in Nat
            /\ rule.periodStart <= t /\ rule.periodStart <= u
            /\ spentLog[i].periodStart = CalendarStart(rule, t)
            /\ spentLog[j].periodStart = CalendarStart(rule, u)
        BY <3>1, EventRule DEF TInv
      <3> HIDE DEF rule, t, u
      <3>3. PeriodAt(rule, t) = PeriodAt(rule, u) <=> CalendarStart(rule, t) = CalendarStart(rule, u)
        BY <3>2, SameStartSamePeriod
      <3> QED BY <2>1, <3>2, <3>3 DEF SamePeriod, SameBudget, rule, t, u
    <2>2. CASE ~(spentLog[i].category = spentLog[j].category /\ spentLog[i].epoch = spentLog[j].epoch)
      BY <2>2 DEF SamePeriod, SameBudget
    <2> QED BY <2>1, <2>2
  <1>2. {j \in Events : SamePeriod(i, j)} = InPeriodOf(i)
    BY <1>1 DEF InPeriodOf
  <1>3. Paid = PaymentsOf(spentLog)
    BY DEF Paid, PaymentsOf, Events
  <1> QED BY <1>2, <1>3 DEF TInv, PeriodTotals, TotalOf, Total

LEMMA RemainingFromTotals == TInv => RemainingIsTruth
  <1> SUFFICES ASSUME TInv, NEW c \in Categories, budgets[c].exists
               PROVE  LET rule == RuleInForce(c)
                          current == {i \in Events :
                                        /\ spentLog[i].category = c
                                        /\ spentLog[i].epoch = Len(budgetLog[c])
                                        /\ PeriodAt(rule, spentLog[i].at) = PeriodAt(rule, now)}
                      IN  Remaining(c) = rule.cap - TotalOf(current)
    BY DEF RemainingIsTruth, RuleInForce
  <1> DEFINE b == budgets[c]
             rule == RuleInForce(c)
             current == {i \in Events :
                           /\ spentLog[i].category = c
                           /\ spentLog[i].epoch = Len(budgetLog[c])
                           /\ PeriodAt(rule, spentLog[i].at) = PeriodAt(rule, now)}
  <1>0. IInv /\ TypeOK /\ BudgetIsLastRule /\ OnCalendar /\ BudgetOnCalendar(c)
    BY DEF TInv, IInv, OnCalendar
  <1>1. /\ rule \in BudgetSet /\ rule.periodLength > 0 /\ rule.periodStart <= now /\ now \in Nat
        /\ RolledStart(b) = CalendarStart(rule, now)
    BY <1>0, RolledOnCalendar
  <1>2. /\ b \in Budget /\ RolledStart(b) \in Nat
        /\ ~PeriodOpen(b) => RolledStart(b) > b.periodStart
        /\ PeriodOpen(b) => RolledStart(b) = b.periodStart /\ RolledSpent(b) = b.spent
        /\ ~PeriodOpen(b) => RolledSpent(b) = 0
    BY <1>0, RolledStartInNow
  <1>3. /\ b.spent = Total(spentLog, OfPeriod(c)) /\ b.spent <= b.cap
        /\ rule.cap = b.cap /\ b.exists
    BY <1>0 DEF TInv, PeriodTotals, BudgetIsLastRule, RuleInForce
  <1>4. ASSUME NEW i \in OfBudget(c)
        PROVE  PeriodAt(rule, spentLog[i].at) = PeriodAt(rule, now)
                 <=> spentLog[i].periodStart = RolledStart(b)
    <2>1. i \in Events /\ RuleOf(i) = rule
      BY DEF OfBudget, RuleOf, RuleInForce
    <2> DEFINE t == spentLog[i].at
    <2>2. t \in Nat /\ rule.periodStart <= t /\ spentLog[i].periodStart = CalendarStart(rule, t)
      BY <1>0, <2>1, EventRule
    <2> HIDE DEF t, rule
    <2>3. PeriodAt(rule, t) = PeriodAt(rule, now) <=> CalendarStart(rule, t) = CalendarStart(rule, now)
      BY <1>1, <2>2, SameStartSamePeriod
    <2> QED BY <1>1, <2>2, <2>3 DEF t
  <1>5. current = {i \in OfBudget(c) : spentLog[i].periodStart = RolledStart(b)}
    BY <1>4 DEF OfBudget
  <1>6. TotalOf(current) = Total(spentLog, current)
    BY DEF TotalOf, Total, Paid, PaymentsOf, Events
  <1>7. b.cap \in Nat /\ b.spent \in Nat /\ b.periodStart \in Nat
    BY <1>2 DEF Budget
  <1>r. Remaining(c) = IF RolledSpent(b) < b.cap THEN b.cap - RolledSpent(b) ELSE 0
    BY <1>3 DEF Remaining
  <1> HIDE DEF b, rule, current
  <1>8. CASE PeriodOpen(b)
    <2>1. current = OfPeriod(c)
      BY <1>2, <1>5, <1>8 DEF OfPeriod, b
    <2>2. Remaining(c) = rule.cap - TotalOf(current)
      BY <1>2, <1>3, <1>6, <1>7, <1>8, <1>r, <2>1
    <2> QED BY <2>2 DEF rule, current
  <1>9. CASE ~PeriodOpen(b)
    <2>1. \A i \in OfBudget(c) : spentLog[i].periodStart <= b.periodStart
      BY <1>0 DEF IInv, SpentIsLastTotal, b
    <2>2. \A i \in OfBudget(c) : spentLog[i].periodStart \in Nat
      BY <1>0, EventTyped DEF OfBudget
    <2>3. current = {}
      BY <1>2, <1>5, <1>7, <1>9, <2>1, <2>2
    <2>4. Total(spentLog, current) = 0
      BY <2>3, SumOfNothing DEF Total
    <2> QED BY <1>2, <1>3, <1>6, <1>7, <1>9, <1>r, <2>4 DEF rule, current
  <1> QED BY <1>8, <1>9

\* The cap binds in every calendar period of every budget, for payments by any
\* mix of doors and any sequence of budget changes.
THEOREM CapHolds == Spec => []CapHoldsInEveryPeriod
  BY TotalsInvariance, CapFromTotals, PTL

\* The view `remaining` is the cap less what the events of the current
\* calendar period say was paid.
THEOREM RemainingHolds == Spec => []RemainingIsTruth
  BY TotalsInvariance, RemainingFromTotals, PTL


-----------------------------------------------------------------------------
(* Doors.  Each payment went through the door its event names: the two     *)
(* invariants below are inductive once a step is split by door.            *)

SpendFacts(s, c, to, amount, d) ==
    /\ s \in Accounts /\ c \in Categories /\ to \in Payees /\ amount \in Nat /\ d \in Decisions
    /\ budgets[c].exists /\ UNCHANGED approvalNonce
    /\ \/ /\ Pay(s, c, to, amount, d, "agent", approvalNonce)
          /\ amount < budgets[c].perTxLimit
       \/ Pay(s, c, to, amount, d, "owner", approvalNonce)

ApprovedFacts(s, sig) ==
    /\ s \in Accounts /\ sig \in signatures /\ sig \in Approval
    /\ budgets[sig.category].exists /\ ApprovalValid(sig)
    /\ approvalNonce' = approvalNonce + 1
    /\ Pay(s, sig.category, sig.to, sig.amount, sig.decision, "approved", sig.nonce)

NoDoor == /\ spentLog' = spentLog /\ approvalNonce' = approvalNonce
          /\ signatures \subseteq signatures'

LEMMA StepDoors ==
    ASSUME TypeOK, [Next]_vars
    PROVE  \/ \E s \in Accounts, c \in Categories, choice \in BudgetChoices :
                 SetBudget(s, c, choice) /\ NoDoor
           \/ \E s, c, to, amount, d : SpendFacts(s, c, to, amount, d)
           \/ \E s, sig : ApprovedFacts(s, sig)
           \/ Untouched /\ NoDoor /\ (now' = now \/ now' = now + 1)
  <1> USE DEF TypeOK
  <1>1. CASE Outside
    BY <1>1 DEF Outside, Sign, Deposit, Tick, admin, Untouched, NoDoor
  <1>2. CASE \E s \in Accounts : Administer(s)
    <2>1. PICK s \in Accounts : Administer(s)
      BY <1>2
    <2>2. ASSUME NEW c \in Categories, NEW choice \in BudgetChoices, SetBudget(s, c, choice)
          PROVE  NoDoor
      BY <2>2 DEF SetBudget, NoDoor, admin
    <2>3. CASE \E c \in Categories, choice \in BudgetChoices : SetBudget(s, c, choice)
      BY <2>2, <2>3
    <2>4. CASE ~ \E c \in Categories, choice \in BudgetChoices : SetBudget(s, c, choice)
      <3>1. Untouched /\ NoDoor /\ now' = now
        BY <2>1, <2>4 DEF Administer, SetAgent, SetPaused, Withdraw, TransferOwnership,
                          AcceptOwnership, admin, Untouched, NoDoor
      <3> QED BY <3>1
    <2> QED BY <2>3, <2>4
  <1>3. CASE \E s \in Accounts : MakePayment(s)
    <2>1. PICK s \in Accounts : MakePayment(s)
      BY <1>3
    <2>2. CASE \E sig \in signatures : SpendApproved(s, sig)
      <3>1. PICK sig \in signatures : SpendApproved(s, sig)
        BY <2>2
      <3>2. ApprovedFacts(s, sig)
        BY <3>1 DEF SpendApproved, ApprovedFacts
      <3> QED BY <3>2
    <2>3. CASE ~ \E sig \in signatures : SpendApproved(s, sig)
      <3>1. PICK c \in Categories, to \in Payees, amount \in Amounts,
                 d \in Decisions \cup {NoDecision} :
                 Spend(s, c, to, amount, d) \/ SpendAsOwner(s, c, to, amount, d)
        BY <2>1, <2>3 DEF MakePayment
      <3>2. d \in Decisions /\ amount \in Nat
        BY <3>1 DEF Spend, SpendAsOwner, Pay
      <3>3. SpendFacts(s, c, to, amount, d)
        BY <3>1, <3>2 DEF Spend, SpendAsOwner, SpendFacts
      <3> QED BY <3>3
    <2> QED BY <2>2, <2>3
  <1>4. CASE UNCHANGED vars
    BY <1>4 DEF vars, Untouched, NoDoor
  <1> QED BY <1>1, <1>2, <1>3, <1>4 DEF Next

\* Event i went through its door.
HasItsDoor(i) ==
    LET e == spentLog[i]
    IN  \/ e.amount < RuleOf(i).perTxLimit /\ e.path = "agent"
        \/ e.path = "owner" /\ e.actor = e.payer
        \/ /\ e.path = "approved"
           /\ \E sig \in signatures :
                /\ sig.signer = e.payer /\ sig.nonce = e.nonce
                /\ sig.category = e.category /\ sig.to = e.to
                /\ sig.amount = e.amount /\ sig.decision = e.decision
                /\ e.at <= sig.deadline

ApprovedEvents == {i \in Events : spentLog[i].path = "approved"}

DoorInv == TInv /\ LargePaymentsHaveTheOwner /\ ApprovalsPayInNonceOrder

\* An event keeps its door: its rule is fixed and signatures are never lost.
LEMMA DoorIsKept ==
    ASSUME NEW i, HasItsDoor(i), spentLog'[i] = spentLog[i], RuleOf(i)' = RuleOf(i),
           signatures \subseteq signatures'
    PROVE  HasItsDoor(i)'
  BY DEF HasItsDoor

\* What a payment through any door does to the log.
LoggedFacts(s, c, to, amount, d, path, n, last) ==
    /\ Events' = Events \cup {last} /\ last \notin Events /\ signatures' = signatures
    /\ \A i \in Events : /\ spentLog'[i] = spentLog[i] /\ i < last /\ i \in Nat
                         /\ RuleOf(i)' = RuleOf(i)
    /\ last \in Nat /\ RuleOf(last)' = RuleInForce(c)
    /\ spentLog'[last].category = c /\ spentLog'[last].to = to /\ spentLog'[last].actor = s
    /\ spentLog'[last].amount = amount /\ spentLog'[last].decision = d
    /\ spentLog'[last].path = path /\ spentLog'[last].nonce = n
    /\ spentLog'[last].payer = owner /\ spentLog'[last].at = now

LEMMA PaymentIsLogged ==
    ASSUME IInv, NEW s \in Accounts, NEW c \in Categories, NEW to \in Payees,
           NEW amount \in Nat, NEW d \in Decisions,
           NEW path \in {"agent", "approved", "owner"}, NEW n \in Nat,
           budgets[c].exists, Pay(s, c, to, amount, d, path, n)
    PROVE  \E last : LoggedFacts(s, c, to, amount, d, path, n, last)
  <1> DEFINE b == budgets[c]
             start == RolledStart(b)
             spent == RolledSpent(b) + amount
  <1>1. PICK last \in Nat : last = Len(spentLog) + 1
    BY DEF IInv, TypeOK
  <1>2. PaymentFacts(s, c, to, amount, d, path, n, last, b, start, spent)
    <2> HIDE DEF b, start, spent
    <2> QED BY <1>1, PaymentGrows DEF b, start, spent
  <1> HIDE DEF b, start, spent
  <1>3. /\ Events' = Events \cup {last} /\ last \notin Events /\ last \in Nat
        /\ \A i \in Events : spentLog'[i] = spentLog[i] /\ i < last /\ i \in Nat
        /\ budgetLog' = budgetLog /\ signatures' = signatures
    BY <1>2 DEF PaymentFacts
  <1>4. /\ spentLog'[last].category = c /\ spentLog'[last].to = to /\ spentLog'[last].actor = s
        /\ spentLog'[last].amount = amount /\ spentLog'[last].decision = d
        /\ spentLog'[last].path = path /\ spentLog'[last].nonce = n
        /\ spentLog'[last].payer = owner /\ spentLog'[last].at = now
        /\ spentLog'[last].epoch = Len(budgetLog[c])
    BY <1>2 DEF PaymentFacts
  <1>5. \A i \in Events : RuleOf(i)' = RuleOf(i)
    BY <1>3 DEF RuleOf
  <1>6. RuleOf(last)' = RuleInForce(c)
    BY <1>3, <1>4 DEF RuleOf, RuleInForce
  <1>7. LoggedFacts(s, c, to, amount, d, path, n, last)
    BY <1>3, <1>4, <1>5, <1>6 DEF LoggedFacts
  <1> QED BY <1>7

LEMMA ApprovedAreFinite ==
    ASSUME TypeOK
    PROVE  IsFiniteSet(ApprovedEvents)
  <1>1. DOMAIN spentLog = 1..Len(spentLog) /\ Len(spentLog) \in Nat
    BY DEF TypeOK
  <1>2. IsFiniteSet(1..Len(spentLog))
    BY <1>1, FS_Interval
  <1> QED BY <1>1, <1>2, FS_Subset DEF ApprovedEvents, Events

\* A payment through the first or third door.
LEMMA SpendKeepsDoors ==
    ASSUME DoorInv, NEW s, NEW c, NEW to, NEW amount, NEW d, SpendFacts(s, c, to, amount, d)
    PROVE  LargePaymentsHaveTheOwner' /\ ApprovalsPayInNonceOrder'
  <1>1. IInv /\ TypeOK /\ OnCalendar /\ approvalNonce \in Nat
    BY DEF DoorInv, TInv, IInv, TypeOK
  <1>2. PICK path \in {"agent", "owner"} :
             /\ Pay(s, c, to, amount, d, path, approvalNonce)
             /\ path = "agent" => amount < budgets[c].perTxLimit
    BY DEF SpendFacts
  <1>3. /\ s \in Accounts /\ c \in Categories /\ to \in Payees /\ amount \in Nat
        /\ d \in Decisions /\ budgets[c].exists /\ approvalNonce' = approvalNonce
    BY DEF SpendFacts
  <1>4. PICK last : LoggedFacts(s, c, to, amount, d, path, approvalNonce, last)
    BY <1>1, <1>2, <1>3, PaymentIsLogged
  <1>5. /\ Events' = Events \cup {last} /\ last \notin Events /\ signatures' = signatures
        /\ \A i \in Events : /\ spentLog'[i] = spentLog[i] /\ i < last /\ i \in Nat
                             /\ RuleOf(i)' = RuleOf(i)
        /\ RuleOf(last)' = RuleInForce(c)
        /\ spentLog'[last].actor = s /\ spentLog'[last].amount = amount
        /\ spentLog'[last].path = path /\ spentLog'[last].payer = owner
    BY <1>4 DEF LoggedFacts
  <1>6. LargePaymentsHaveTheOwner'
    <2>1. HasItsDoor(last)'
      <3>1. CASE path = "agent"
        <4>1. amount < RuleInForce(c).perTxLimit
          BY <1>1, <1>2, <1>3, <3>1 DEF OnCalendar, BudgetOnCalendar
        <4> QED BY <1>5, <3>1, <4>1 DEF HasItsDoor
      <3>2. CASE path = "owner"
        <4>1. s = owner
          BY <1>2, <3>2 DEF Pay, MayPay
        <4> QED BY <1>5, <3>2, <4>1 DEF HasItsDoor
      <3> QED BY <3>1, <3>2
    <2>2. ASSUME NEW i \in Events PROVE HasItsDoor(i)'
      <3>1. HasItsDoor(i)
        BY DEF DoorInv, LargePaymentsHaveTheOwner, HasItsDoor
      <3> QED BY <1>5, <3>1, DoorIsKept
    <2> QED BY <1>5, <2>1, <2>2 DEF LargePaymentsHaveTheOwner, HasItsDoor
  <1>7. ApprovedEvents' = ApprovedEvents
    BY <1>5 DEF ApprovedEvents
  <1>8. ApprovalsPayInNonceOrder'
    BY <1>3, <1>5, <1>7 DEF DoorInv, ApprovalsPayInNonceOrder, ApprovedEvents
  <1> QED BY <1>6, <1>8

\* A payment through the second door.
LEMMA ApprovalKeepsDoors ==
    ASSUME DoorInv, NEW s, NEW sig, ApprovedFacts(s, sig)
    PROVE  LargePaymentsHaveTheOwner' /\ ApprovalsPayInNonceOrder'
  <1>1. IInv /\ TypeOK /\ approvalNonce \in Nat
    BY DEF DoorInv, TInv, IInv, TypeOK
  <1>2. /\ s \in Accounts /\ sig \in signatures /\ sig \in Approval
        /\ budgets[sig.category].exists /\ approvalNonce' = approvalNonce + 1
        /\ now <= sig.deadline /\ sig.nonce = approvalNonce /\ sig.signer = owner
        /\ Pay(s, sig.category, sig.to, sig.amount, sig.decision, "approved", sig.nonce)
    BY DEF ApprovedFacts, ApprovalValid
  <1>3. /\ sig.category \in Categories /\ sig.to \in Payees /\ sig.amount \in Nat
        /\ sig.decision \in Decisions /\ sig.nonce \in Nat
    BY <1>2 DEF Approval
  <1>4. PICK last : LoggedFacts(s, sig.category, sig.to, sig.amount, sig.decision, "approved",
                                sig.nonce, last)
    BY <1>1, <1>2, <1>3, PaymentIsLogged
  <1>5. /\ Events' = Events \cup {last} /\ last \notin Events /\ signatures' = signatures
        /\ \A i \in Events : /\ spentLog'[i] = spentLog[i] /\ i < last /\ i \in Nat
                             /\ RuleOf(i)' = RuleOf(i)
        /\ last \in Nat
        /\ spentLog'[last].path = "approved" /\ spentLog'[last].nonce = sig.nonce
    BY <1>4 DEF LoggedFacts
  <1>6. LargePaymentsHaveTheOwner'
    <2>1. HasItsDoor(last)'
      BY <1>2, <1>4 DEF LoggedFacts, HasItsDoor
    <2>2. ASSUME NEW i \in Events PROVE HasItsDoor(i)'
      <3>1. HasItsDoor(i)
        BY DEF DoorInv, LargePaymentsHaveTheOwner, HasItsDoor
      <3> QED BY <1>5, <3>1, DoorIsKept
    <2> QED BY <1>5, <2>1, <2>2 DEF LargePaymentsHaveTheOwner, HasItsDoor
  <1>7. ApprovedEvents' = ApprovedEvents \cup {last} /\ last \notin ApprovedEvents
    BY <1>5 DEF ApprovedEvents
  <1>8. /\ approvalNonce = Cardinality(ApprovedEvents)
        /\ \A i \in ApprovedEvents :
              spentLog[i].nonce = Cardinality({j \in ApprovedEvents : j < i})
    BY DEF DoorInv, ApprovalsPayInNonceOrder, ApprovedEvents
  <1>9. Cardinality(ApprovedEvents') = Cardinality(ApprovedEvents) + 1
    BY <1>1, <1>7, ApprovedAreFinite, FS_AddElement
  <1>10. {j \in ApprovedEvents' : j < last} = ApprovedEvents
    BY <1>5, <1>7 DEF ApprovedEvents
  <1>11. ASSUME NEW i \in ApprovedEvents
         PROVE  {j \in ApprovedEvents' : j < i} = {j \in ApprovedEvents : j < i}
    <2>1. i \in Nat /\ i < last /\ ~(last < i)
      BY <1>5 DEF ApprovedEvents
    <2> QED BY <1>7, <2>1
  <1>12. \A i \in ApprovedEvents' :
            spentLog'[i].nonce = Cardinality({j \in ApprovedEvents' : j < i})
    <2>1. spentLog'[last].nonce = Cardinality({j \in ApprovedEvents' : j < last})
      BY <1>2, <1>5, <1>8, <1>10
    <2>2. ASSUME NEW i \in ApprovedEvents
          PROVE  spentLog'[i].nonce = Cardinality({j \in ApprovedEvents' : j < i})
      <3>1. spentLog'[i] = spentLog[i]
        BY <1>5 DEF ApprovedEvents
      <3> QED BY <1>8, <1>11, <3>1
    <2> QED BY <1>7, <2>1, <2>2
  <1>13. ApprovalsPayInNonceOrder'
    BY <1>2, <1>8, <1>9, <1>12 DEF ApprovalsPayInNonceOrder, ApprovedEvents
  <1> QED BY <1>6, <1>13

LEMMA NoDoorKeepsDoors ==
    ASSUME DoorInv, NoDoor, \A i \in Events : RuleOf(i)' = RuleOf(i)
    PROVE  LargePaymentsHaveTheOwner' /\ ApprovalsPayInNonceOrder'
  <1>1. /\ spentLog' = spentLog /\ approvalNonce' = approvalNonce
        /\ signatures \subseteq signatures' /\ Events' = Events
    BY DEF NoDoor, Events
  <1>2. ASSUME NEW i \in Events PROVE HasItsDoor(i)'
    <2>1. HasItsDoor(i)
      BY DEF DoorInv, LargePaymentsHaveTheOwner, HasItsDoor
    <2> QED BY <1>1, <2>1, DoorIsKept
  <1>3. LargePaymentsHaveTheOwner'
    BY <1>1, <1>2 DEF LargePaymentsHaveTheOwner, HasItsDoor
  <1>4. ApprovalsPayInNonceOrder'
    BY <1>1 DEF DoorInv, ApprovalsPayInNonceOrder
  <1> QED BY <1>3, <1>4

LEMMA StepDoorInv == DoorInv /\ [Next]_vars => DoorInv'
  <1> SUFFICES ASSUME DoorInv, [Next]_vars PROVE DoorInv'
    OBVIOUS
  <1>1. TInv /\ TInv' /\ IInv /\ TypeOK
    BY StepTInv DEF DoorInv, TInv, IInv
  <1>2. LargePaymentsHaveTheOwner' /\ ApprovalsPayInNonceOrder'
    <2>1. CASE \E s \in Accounts, c \in Categories, choice \in BudgetChoices :
                  SetBudget(s, c, choice) /\ NoDoor
      <3>1. PICK s \in Accounts, c \in Categories, choice \in BudgetChoices :
                  SetBudget(s, c, choice) /\ NoDoor
        BY <2>1
      <3>2. \A i \in Events : RuleOf(i)' = RuleOf(i)
        BY <1>1, <3>1, BudgetIsSet DEF SetFacts
      <3> QED BY <3>1, <3>2, NoDoorKeepsDoors
    <2>2. CASE \E s, c, to, amount, d : SpendFacts(s, c, to, amount, d)
      BY <2>2, SpendKeepsDoors
    <2>3. CASE \E s, sig : ApprovedFacts(s, sig)
      BY <2>3, ApprovalKeepsDoors
    <2>4. CASE Untouched /\ NoDoor
      <3>1. \A i \in Events : RuleOf(i)' = RuleOf(i)
        BY <2>4 DEF Untouched, RuleOf
      <3> QED BY <2>4, <3>1, NoDoorKeepsDoors
    <2> QED BY <1>1, <2>1, <2>2, <2>3, <2>4, StepDoors
  <1> QED BY <1>1, <1>2 DEF DoorInv

LEMMA InitDoorInv == Init => DoorInv
  <1> SUFFICES ASSUME Init PROVE DoorInv
    OBVIOUS
  <1>1. Events = {} /\ approvalNonce = 0
    BY DEF Init, Events
  <1>2. Cardinality({}) = 0
    BY FS_EmptySet
  <1>3. {i \in Events : spentLog[i].path = "approved"} = {}
    BY <1>1
  <1> QED BY <1>1, <1>2, <1>3, InitTInv
          DEF DoorInv, LargePaymentsHaveTheOwner, ApprovalsPayInNonceOrder

LEMMA DoorInvariance == Spec => []DoorInv
  BY InitDoorInv, StepDoorInv, PTL DEF Spec

\* A payment of the per-transaction limit or more is the owner's own or one
\* that an owner's signature fixed, however many owners the wallet has had.
THEOREM LargePaymentsAreOwned == Spec => []LargePaymentsHaveTheOwner
  <1>1. DoorInv => LargePaymentsHaveTheOwner
    BY DEF DoorInv
  <1> QED BY <1>1, DoorInvariance, PTL

\* The n-th approved payment consumed nonce n, for any number of signatures.
THEOREM NoncesAreInOrder == Spec => []ApprovalsPayInNonceOrder
  <1>1. DoorInv => ApprovalsPayInNonceOrder
    BY DEF DoorInv
  <1> QED BY <1>1, DoorInvariance, PTL


-----------------------------------------------------------------------------
(* The wallet implements the ledger whose periods are refilled on time.    *)

\* A category without a budget reads as empty.
Blank == \A c \in Categories : ~budgets[c].exists
                                 => budgets[c].cap = 0 /\ budgets[c].periodLength = 0

LedgerInv == TInv /\ Blank

LeftOf(c) == Remaining(c)
EndsOf(c) == IF budgets[c].exists THEN RolledStart(budgets[c]) + budgets[c].periodLength ELSE 0
CapOf(c) == budgets[c].cap
LengthOf(c) == budgets[c].periodLength

\* What the ledger sees of category c is what it saw before.
SameView(c) == /\ LeftOf(c)' = LeftOf(c) /\ EndsOf(c)' = EndsOf(c)
               /\ CapOf(c)' = CapOf(c) /\ LengthOf(c)' = LengthOf(c)

\* What a budget is worth at now: its period holds the present, its headroom is
\* the cap less what the period has spent.
BudgetView(c) ==
    LET b == budgets[c]
    IN  /\ b.exists /\ now \in Nat /\ b.cap \in Nat /\ b.spent \in Nat /\ b.spent <= b.cap
        /\ b.periodStart \in Nat /\ b.periodLength \in Nat /\ b.periodLength > 0
        /\ b.periodStart <= now
        /\ RolledStart(b) \in Nat /\ b.periodStart <= RolledStart(b) /\ RolledStart(b) <= now
        /\ now < RolledStart(b) + b.periodLength
        /\ RolledStart(b) = b.periodStart + ((now - b.periodStart) \div b.periodLength) * b.periodLength
        /\ PeriodOpen(b) <=> RolledStart(b) = b.periodStart
        /\ RolledSpent(b) = IF PeriodOpen(b) THEN b.spent ELSE 0
        /\ LeftOf(c) = b.cap - RolledSpent(b)

LEMMA BudgetIsViewed ==
    ASSUME TypeOK, BudgetIsLastRule, NEW c \in Categories, budgets[c].exists
    PROVE  BudgetView(c)
  <1> DEFINE b == budgets[c]
             s == b.periodStart
             l == b.periodLength
  <1>1. /\ b \in Budget /\ now \in Nat /\ b.cap \in Nat /\ b.spent \in Nat /\ s \in Nat
        /\ l \in Nat /\ l > 0 /\ s <= now /\ b.spent <= b.cap /\ b.exists
    BY DEF TypeOK, BudgetIsLastRule, Budget
  <1>2. /\ RolledStart(b) \in Nat /\ RolledStart(b) <= now
        /\ ~PeriodOpen(b) => RolledStart(b) > s
        /\ PeriodOpen(b) => RolledStart(b) = s
    BY RolledStartInNow
  <1>3. RolledStart(b) = s + ((now - s) \div l) * l
    <2>1. CASE PeriodOpen(b)
      <3>1. now < s + l
        BY <2>1 DEF PeriodOpen
      <3> DEFINE x == now - s
      <3>2. x \in Nat /\ x < 0 * l + l /\ 0 * l <= x
        BY <1>1, <3>1
      <3> HIDE DEF x, s, l
      <3>3. x \div l = 0
        BY <1>1, <3>2, QuotientIs
      <3> QED BY <1>1, <1>2, <2>1, <3>3 DEF x
    <2>2. CASE ~PeriodOpen(b)
      BY <2>2 DEF RolledStart
    <2> QED BY <2>1, <2>2
  <1>4. now < RolledStart(b) + l
    <2> HIDE DEF b, s, l
    <2> QED BY <1>1, <1>3, WholePeriods
  <1>5. PeriodOpen(b) <=> RolledStart(b) = s
    BY <1>1, <1>2
  <1>6. RolledSpent(b) = IF PeriodOpen(b) THEN b.spent ELSE 0
    BY <1>1 DEF RolledSpent
  <1>7. LeftOf(c) = b.cap - RolledSpent(b)
    <2>1. LeftOf(c) = IF RolledSpent(b) < b.cap THEN b.cap - RolledSpent(b) ELSE 0
      BY <1>1 DEF LeftOf, Remaining
    <2>2. RolledSpent(b) \in Nat /\ RolledSpent(b) <= b.cap
      BY <1>1, <1>6
    <2> HIDE DEF b
    <2> QED BY <1>1, <2>1, <2>2
  <1> QED BY <1>1, <1>2, <1>3, <1>4, <1>5, <1>6, <1>7 DEF BudgetView

\* A category without a budget has no headroom and no period.
LEMMA NoBudgetIsViewed ==
    ASSUME NEW c, ~budgets[c].exists
    PROVE  LeftOf(c) = 0 /\ EndsOf(c) = 0
  BY DEF LeftOf, Remaining, EndsOf

LEMMA ViewIsKept ==
    ASSUME NEW c, budgets'[c] = budgets[c], now' = now
    PROVE  SameView(c)
  BY DEF SameView, LeftOf, EndsOf, CapOf, LengthOf, Remaining, RolledStart, RolledSpent,
         PeriodOpen

\* One second later the period of a budget is the same, or over and refilled.
LEMMA PeriodPasses ==
    ASSUME NEW c, BudgetView(c), BudgetView(c)', budgets'[c] = budgets[c], now' = now + 1
    PROVE  /\ LeftOf(c)' = IF now' = EndsOf(c) THEN CapOf(c) ELSE LeftOf(c)
           /\ EndsOf(c)' = IF now' = EndsOf(c) THEN EndsOf(c) + LengthOf(c) ELSE EndsOf(c)
  <1> DEFINE b == budgets[c]
             s == b.periodStart
             l == b.periodLength
             start == RolledStart(b)
             later == RolledStart(budgets[c])'
  <1>2. /\ now \in Nat /\ b.cap \in Nat /\ b.spent \in Nat /\ b.exists
        /\ s \in Nat /\ l \in Nat /\ l > 0 /\ s <= now
        /\ start \in Nat /\ s <= start /\ start <= now /\ now < start + l
        /\ start = s + ((now - s) \div l) * l
        /\ PeriodOpen(b) <=> start = s
        /\ RolledSpent(b) = IF PeriodOpen(b) THEN b.spent ELSE 0
        /\ LeftOf(c) = b.cap - RolledSpent(b)
    BY DEF BudgetView
  <1>3. /\ later \in Nat /\ later <= now + 1 /\ now + 1 < later + l
        /\ later = s + (((now + 1) - s) \div l) * l
        /\ PeriodOpen(budgets[c])' <=> later = s
        /\ RolledSpent(budgets[c])' = IF PeriodOpen(budgets[c])' THEN b.spent ELSE 0
        /\ LeftOf(c)' = b.cap - RolledSpent(budgets[c])'
    <2>1. /\ later \in Nat /\ later <= now' /\ now' < later + budgets'[c].periodLength
          /\ PeriodOpen(budgets[c])' <=> later = budgets'[c].periodStart
          /\ RolledSpent(budgets[c])'
               = IF PeriodOpen(budgets[c])' THEN budgets'[c].spent ELSE 0
          /\ LeftOf(c)' = budgets'[c].cap - RolledSpent(budgets[c])'
      BY DEF BudgetView
    <2>2. later = s + (((now + 1) - s) \div l) * l
      <3>1. later = budgets'[c].periodStart
                      + ((now' - budgets'[c].periodStart) \div budgets'[c].periodLength)
                        * budgets'[c].periodLength
        BY DEF BudgetView
      <3>2. budgets'[c] = b /\ now' = now + 1
        OBVIOUS
      <3> HIDE DEF later, b
      <3> QED BY ONLY <3>1, <3>2
    <2> HIDE DEF later
    <2> QED BY <2>1, <2>2
  <1>4. EndsOf(c) = start + l /\ EndsOf(c)' = later + l /\ CapOf(c) = b.cap /\ LengthOf(c) = l
    BY <1>2 DEF EndsOf, CapOf, LengthOf
  <1> HIDE DEF b, s, l, start, later
  <1>5. CASE now + 1 = start + l
    <2>1. later = start + l
      <3> DEFINE q == (now - s) \div l
                 x == (now + 1) - s
      <3>1. q \in Int
        BY <1>2, SMT
      <3>2. start = s + q * l
        BY <1>2
      <3> HIDE DEF q
      <3>3. (q + 1) * l = q * l + l /\ q * l \in Int
        BY <1>2, <3>1, SMT
      <3>4. x \in Nat /\ x = q * l + l /\ q + 1 \in Int
        BY <1>2, <1>5, <3>1, <3>2, <3>3
      <3>5. later = s + (x \div l) * l
        BY <1>3
      <3> HIDE DEF x
      <3>6. x \div l = q + 1
        BY <1>2, <3>3, <3>4, QuotientIs
      <3> QED BY <1>2, <3>2, <3>3, <3>5, <3>6
    <2>2. later # s
      BY <1>2, <2>1
    <2> QED BY <1>2, <1>3, <1>4, <1>5, <2>1, <2>2
  <1>6. CASE now + 1 # start + l
    <2>1. later = start
      <3> DEFINE q == (now - s) \div l
                 x == (now + 1) - s
      <3>1. q \in Int
        BY <1>2, SMT
      <3>2. start = s + q * l
        BY <1>2
      <3> HIDE DEF q
      <3>3. q * l \in Int
        BY <1>2, <3>1, SMT
      <3>4. x \in Nat /\ q * l <= x /\ x < q * l + l
        <4>1. PICK m \in Int : m = q * l
          BY <3>3
        <4>2. start = s + m
          BY <3>2, <4>1
        <4>3. (now + 1) - s \in Nat /\ m <= (now + 1) - s /\ (now + 1) - s < m + l
          BY ONLY <1>2, <1>6, <4>1, <4>2
        <4> QED BY <4>1, <4>3
      <3>5. later = s + (x \div l) * l
        BY <1>3
      <3> HIDE DEF x
      <3>6. x \div l = q
        BY <1>2, <3>1, <3>4, QuotientIs
      <3> QED BY <1>2, <3>2, <3>5, <3>6
    <2> QED BY <1>2, <1>3, <1>4, <1>6, <2>1
  <1> QED BY <1>5, <1>6


\* Setting a budget gives its category a full headroom and a period from now.
LEMMA SetIsViewed ==
    ASSUME IInv, NEW s \in Accounts, NEW c \in Categories,
           NEW choice \in BudgetChoices, SetBudget(s, c, choice)
    PROVE  /\ \A x \in Categories \ {c} : SameView(x)
           /\ CapOf(c)' = choice.cap /\ CapOf(c)' > 0
           /\ LengthOf(c)' = choice.periodLength /\ LengthOf(c)' > 0
           /\ LeftOf(c)' = CapOf(c)' /\ EndsOf(c)' = now + LengthOf(c)'
           /\ now' = now /\ consumed' = consumed
  <1>1. /\ now' = now /\ consumed' = consumed
        /\ budgets'[c] = [cap |-> choice.cap, spent |-> 0, perTxLimit |-> choice.perTxLimit,
                          periodStart |-> now, periodLength |-> choice.periodLength,
                          exists |-> TRUE]
        /\ \A x \in Categories \ {c} : budgets'[x] = budgets[x]
    <2>1. SetFacts(c, choice)
      BY BudgetIsSet
    <2> QED BY ONLY <2>1 DEF SetFacts
  <1>2. /\ choice \in [cap : Nat, perTxLimit : Nat, periodLength : Nat]
        /\ choice.cap > 0 /\ choice.periodLength > 0 /\ now \in Nat
    BY DEF SetBudget, IInv, TypeOK
  <1>3. \A x \in Categories \ {c} : SameView(x)
    BY <1>1, ViewIsKept
  <1>4. /\ budgets'[c].cap = choice.cap /\ budgets'[c].spent = 0
        /\ budgets'[c].periodStart = now /\ budgets'[c].exists
        /\ budgets'[c].periodLength = choice.periodLength
    BY <1>1
  <1>5. /\ PeriodOpen(budgets[c])' /\ RolledStart(budgets[c])' = now
        /\ RolledSpent(budgets[c])' = 0
    <2>1. PeriodOpen(budgets[c])'
      BY <1>1, <1>2, <1>4 DEF PeriodOpen
    <2> QED BY <1>4, <2>1 DEF RolledStart, RolledSpent
  <1>6. Remaining(c)' = choice.cap
    <2>1. Remaining(c)' = IF 0 < choice.cap THEN choice.cap - 0 ELSE 0
      BY <1>4, <1>5 DEF Remaining
    <2> QED BY <1>2, <2>1
  <1>7. CapOf(c)' = choice.cap /\ LengthOf(c)' = choice.periodLength
    BY <1>4 DEF CapOf, LengthOf
  <1>8. EndsOf(c)' = now + choice.periodLength
    BY <1>4, <1>5 DEF EndsOf
  <1> QED BY <1>1, <1>2, <1>3, <1>6, <1>7, <1>8 DEF LeftOf

\* A payment lowers the headroom of its category and no other, and moves no end
\* of a period.
LEMMA PaymentIsViewed ==
    ASSUME IInv, NEW s \in Accounts, NEW c \in Categories, NEW to \in Payees,
           NEW amount \in Nat, NEW d \in Decisions,
           NEW path \in {"agent", "approved", "owner"}, NEW n \in Nat,
           budgets[c].exists, Pay(s, c, to, amount, d, path, n)
    PROVE  /\ \A x \in Categories \ {c} : SameView(x)
           /\ CapOf(c)' = CapOf(c) /\ LengthOf(c)' = LengthOf(c) /\ EndsOf(c)' = EndsOf(c)
           /\ LeftOf(c)' >= 0 /\ LeftOf(c)' < LeftOf(c)
           /\ d \notin consumed /\ consumed' = consumed \cup {d} /\ now' = now
  <1> DEFINE b == budgets[c]
             start == RolledStart(b)
             spent == RolledSpent(b) + amount
  <1>0. PICK last \in Nat : last = Len(spentLog) + 1
    BY DEF IInv, TypeOK
  <1>f. PaymentFacts(s, c, to, amount, d, path, n, last, b, start, spent)
    <2> HIDE DEF b, start, spent
    <2> QED BY <1>0, PaymentGrows DEF b, start, spent
  <1>g. PaymentSets(c, last, b, start, spent)
    <2> HIDE DEF start, spent
    <2> QED BY <1>f, PaymentSetsThem
  <1>v. BudgetView(c)
    BY BudgetIsViewed DEF IInv
  <1>1. /\ b.exists /\ now \in Nat /\ b.cap \in Nat /\ b.spent \in Nat
        /\ b.periodLength \in Nat /\ start \in Nat /\ now < start + b.periodLength
        /\ LeftOf(c) = b.cap - RolledSpent(b)
    BY <1>v DEF BudgetView
  <1> HIDE DEF start, spent
  <1>2. /\ now' = now /\ consumed' = consumed \cup {d} /\ d \notin consumed
        /\ amount > 0 /\ spent <= b.cap /\ spent \in Nat /\ RolledSpent(b) \in Nat
        /\ \A x \in Categories \ {c} : budgets'[x] = budgets[x]
    BY <1>f DEF PaymentFacts
  <1>3. /\ budgets'[c].spent = spent /\ budgets'[c].periodStart = start
        /\ budgets'[c].cap = b.cap /\ budgets'[c].periodLength = b.periodLength
        /\ budgets'[c].exists
    BY <1>1, <1>g DEF PaymentSets
  <1>4. spent = RolledSpent(b) + amount
    BY DEF spent
  <1>5. /\ PeriodOpen(budgets[c])' /\ RolledStart(budgets[c])' = start
        /\ RolledSpent(budgets[c])' = spent
    <2>1. PeriodOpen(budgets[c])'
      BY <1>1, <1>2, <1>3 DEF PeriodOpen
    <2> QED BY <1>3, <2>1 DEF RolledStart, RolledSpent
  <1>6. Remaining(c)' = IF spent < b.cap THEN b.cap - spent ELSE 0
    BY <1>3, <1>5 DEF Remaining
  <1>7. LeftOf(c)' >= 0 /\ LeftOf(c)' < LeftOf(c)
    <2>1. LeftOf(c)' = b.cap - spent
      BY <1>1, <1>2, <1>6 DEF LeftOf
    <2> HIDE DEF b
    <2> QED BY <1>1, <1>2, <1>4, <2>1
  <1>8. EndsOf(c)' = EndsOf(c) /\ CapOf(c)' = CapOf(c) /\ LengthOf(c)' = LengthOf(c)
    BY <1>1, <1>3, <1>5 DEF EndsOf, CapOf, LengthOf, start
  <1>9. \A x \in Categories \ {c} : SameView(x)
    BY <1>2, ViewIsKept
  <1> QED BY <1>2, <1>7, <1>8, <1>9

BudgetViews == \A c \in Categories : budgets[c].exists => BudgetView(c)

Shown == /\ Ledger!ledger = <<now, [c \in Categories |-> CapOf(c)],
                              [c \in Categories |-> LengthOf(c)],
                              [c \in Categories |-> LeftOf(c)],
                              [c \in Categories |-> EndsOf(c)], consumed>>

LEMMA LedgerIsShown == Shown
  BY DEF Shown, Ledger!ledger, CapOf, LengthOf, LeftOf, EndsOf

\* Every step of the wallet is a step of the ledger, or shows it nothing.
LEMMA StepLedger ==
    ASSUME IInv, LedgerInv, BudgetViews, BudgetViews', [Next]_vars
    PROVE  [Ledger!Next]_(Ledger!ledger)
  <1> USE DEF CapOf, LengthOf, LeftOf, EndsOf
  <1>t. TypeOK
    BY DEF IInv
  <1>1. CASE \E s \in Accounts, c \in Categories, choice \in BudgetChoices :
                SetBudget(s, c, choice)
    <2>1. PICK s \in Accounts, c \in Categories, choice \in BudgetChoices :
                SetBudget(s, c, choice)
      BY <1>1
    <2> HIDE DEF CapOf, LengthOf, LeftOf, EndsOf
    <2>2. /\ \A x \in Categories \ {c} : SameView(x)
          /\ CapOf(c)' > 0 /\ LengthOf(c)' > 0
          /\ LeftOf(c)' = CapOf(c)' /\ EndsOf(c)' = now + LengthOf(c)'
          /\ now' = now /\ consumed' = consumed
      BY <2>1, SetIsViewed
    <2>3. /\ [x \in Categories |-> CapOf(x)]'
               = [[x \in Categories |-> CapOf(x)] EXCEPT ![c] = CapOf(c)']
          /\ [x \in Categories |-> LengthOf(x)]'
               = [[x \in Categories |-> LengthOf(x)] EXCEPT ![c] = LengthOf(c)']
          /\ [x \in Categories |-> LeftOf(x)]'
               = [[x \in Categories |-> LeftOf(x)] EXCEPT ![c] = CapOf(c)']
          /\ [x \in Categories |-> EndsOf(x)]'
               = [[x \in Categories |-> EndsOf(x)] EXCEPT ![c] = now + LengthOf(c)']
      BY <2>2 DEF SameView
    <2>4. Ledger!SetRule(c)
      BY <2>2, <2>3 DEF Ledger!SetRule, CapOf, LengthOf, LeftOf, EndsOf
    <2> QED BY <2>4 DEF Ledger!Next
  <1>2. CASE Payment
    <2>1. PICK s \in Accounts, c \in Categories, to \in Payees, amount \in Nat,
               d \in Decisions, path \in {"agent", "approved", "owner"}, n \in Nat :
               budgets[c].exists /\ Pay(s, c, to, amount, d, path, n)
      BY <1>2 DEF Payment
    <2> HIDE DEF CapOf, LengthOf, LeftOf, EndsOf
    <2>2. /\ \A x \in Categories \ {c} : SameView(x)
          /\ CapOf(c)' = CapOf(c) /\ LengthOf(c)' = LengthOf(c) /\ EndsOf(c)' = EndsOf(c)
          /\ LeftOf(c)' >= 0 /\ LeftOf(c)' < LeftOf(c)
          /\ d \notin consumed /\ consumed' = consumed \cup {d} /\ now' = now
      BY <2>1, PaymentIsViewed
    <2>3. /\ [x \in Categories |-> CapOf(x)]' = [x \in Categories |-> CapOf(x)]
          /\ [x \in Categories |-> LengthOf(x)]' = [x \in Categories |-> LengthOf(x)]
          /\ [x \in Categories |-> EndsOf(x)]' = [x \in Categories |-> EndsOf(x)]
          /\ [x \in Categories |-> LeftOf(x)]'
               = [[x \in Categories |-> LeftOf(x)] EXCEPT ![c] = LeftOf(c)']
      BY <2>2 DEF SameView
    <2>4. Ledger!PayDecision(c, d)
      BY <2>2, <2>3 DEF Ledger!PayDecision, CapOf, LengthOf, LeftOf, EndsOf
    <2> QED BY <2>4 DEF Ledger!Next
  <1>3. CASE Untouched /\ now' = now
    <2>1. budgets' = budgets /\ consumed' = consumed /\ now' = now
      BY <1>3 DEF Untouched
    <2> HIDE DEF CapOf, LengthOf, LeftOf, EndsOf
    <2>2. \A x \in Categories : SameView(x)
      BY <2>1, ViewIsKept
    <2>3. UNCHANGED Ledger!ledger
      BY <2>1, <2>2 DEF SameView, Ledger!ledger, CapOf, LengthOf, LeftOf, EndsOf
    <2> QED BY <2>3
  <1>4. CASE Untouched /\ now' = now + 1
    <2>1. budgets' = budgets /\ consumed' = consumed /\ now' = now + 1
      BY <1>4 DEF Untouched
    <2> HIDE DEF CapOf, LengthOf, LeftOf, EndsOf
    <2>2. ASSUME NEW x \in Categories
          PROVE  /\ CapOf(x)' = CapOf(x) /\ LengthOf(x)' = LengthOf(x)
                 /\ LeftOf(x)' = IF LengthOf(x) > 0 /\ now' = EndsOf(x)
                                 THEN CapOf(x) ELSE LeftOf(x)
                 /\ EndsOf(x)' = IF LengthOf(x) > 0 /\ now' = EndsOf(x)
                                 THEN EndsOf(x) + LengthOf(x) ELSE EndsOf(x)
      <3>1. CapOf(x)' = CapOf(x) /\ LengthOf(x)' = LengthOf(x)
        BY <2>1 DEF CapOf, LengthOf
      <3>2. CASE budgets[x].exists
        <4>1. BudgetView(x) /\ BudgetView(x)'
          BY <2>1, <3>2 DEF BudgetViews
        <4>2. LengthOf(x) > 0
          BY <4>1 DEF BudgetView, LengthOf
        <4>3. /\ LeftOf(x)' = IF now' = EndsOf(x) THEN CapOf(x) ELSE LeftOf(x)
              /\ EndsOf(x)' = IF now' = EndsOf(x) THEN EndsOf(x) + LengthOf(x) ELSE EndsOf(x)
          BY <2>1, <4>1, PeriodPasses
        <4> QED BY <3>1, <4>2, <4>3
      <3>3. CASE ~budgets[x].exists
        <4>1. LengthOf(x) = 0
          BY <3>3 DEF LedgerInv, Blank, LengthOf
        <4>2. LeftOf(x) = 0 /\ EndsOf(x) = 0
          BY <3>3, NoBudgetIsViewed
        <4>3. LeftOf(x)' = 0 /\ EndsOf(x)' = 0
          BY <2>1, <3>3 DEF LeftOf, Remaining, EndsOf
        <4> QED BY <3>1, <4>1, <4>2, <4>3
      <3> QED BY <3>2, <3>3
    <2>3. Ledger!Pass
      BY <2>1, <2>2 DEF Ledger!Pass, CapOf, LengthOf, LeftOf, EndsOf
    <2> QED BY <2>3 DEF Ledger!Next
  <1>5. \/ \E s \in Accounts, c \in Categories, choice \in BudgetChoices :
              SetBudget(s, c, choice)
        \/ Payment
        \/ Untouched
    BY <1>t, StepKinds
  <1>6. Untouched => \/ \E s \in Accounts, c \in Categories, choice \in BudgetChoices :
                           SetBudget(s, c, choice)
                    \/ Payment
                    \/ now' = now \/ now' = now + 1
    <2>1. \A s, sig : ApprovedFacts(s, sig) => now' = now
      BY DEF ApprovedFacts, Pay
    <2>2. \A s, c, to, amount, d : SpendFacts(s, c, to, amount, d) => now' = now
      BY DEF SpendFacts, Pay
    <2> QED BY <1>t, <2>1, <2>2, StepDoors
  <1> HIDE DEF CapOf, LengthOf, LeftOf, EndsOf
  <1> QED BY <1>1, <1>2, <1>3, <1>4, <1>5, <1>6

LEMMA StepLedgerInv == LedgerInv /\ [Next]_vars => LedgerInv'
  <1> SUFFICES ASSUME LedgerInv, [Next]_vars PROVE LedgerInv'
    OBVIOUS
  <1>1. TInv' /\ TypeOK /\ IInv
    BY StepTInv DEF LedgerInv, TInv, IInv
  <1>2. Blank'
    <2>1. CASE \E s \in Accounts, c \in Categories, choice \in BudgetChoices :
                  SetBudget(s, c, choice)
      <3>1. PICK s \in Accounts, c \in Categories, choice \in BudgetChoices :
                  SetBudget(s, c, choice)
        BY <2>1
      <3>2. budgets'[c].exists /\ \A x \in Categories \ {c} : budgets'[x] = budgets[x]
        <4>1. SetFacts(c, choice)
          BY <1>1, <3>1, BudgetIsSet
        <4> QED BY <4>1 DEF SetFacts
      <3> QED BY <3>2 DEF LedgerInv, Blank
    <2>2. CASE Payment
      <3>1. PICK s \in Accounts, c \in Categories, to \in Payees, amount \in Nat,
                 d \in Decisions, path \in {"agent", "approved", "owner"}, n \in Nat :
                 budgets[c].exists /\ Pay(s, c, to, amount, d, path, n)
        BY <2>2 DEF Payment
      <3>2. budgets \in [Categories -> Budget]
        BY <1>1 DEF TypeOK
      <3>3. budgets'[c].exists /\ \A x \in Categories \ {c} : budgets'[x] = budgets[x]
        BY <3>1, <3>2 DEF Pay, Budget
      <3> QED BY <3>3 DEF LedgerInv, Blank
    <2>3. CASE Untouched
      BY <2>3 DEF Untouched, LedgerInv, Blank
    <2> QED BY <1>1, <2>1, <2>2, <2>3, StepKinds
  <1> QED BY <1>1, <1>2 DEF LedgerInv

LEMMA InitLedger == Init => LedgerInv /\ Ledger!Init
  <1> SUFFICES ASSUME Init PROVE LedgerInv /\ Ledger!Init
    OBVIOUS
  <1>1. \A c \in Categories : /\ ~budgets[c].exists /\ budgets[c].cap = 0
                              /\ budgets[c].periodLength = 0
    BY DEF Init
  <1>2. \A c \in Categories : Remaining(c) = 0
    BY <1>1 DEF Remaining
  <1> QED BY <1>1, <1>2, InitTInv DEF Init, LedgerInv, Blank, Ledger!Init

\* The wallet, which keeps no clock and rolls its periods when it is used,
\* behaves like the ledger that refills every category the moment its period
\* ends and pays each decision once.
THEOREM WalletImplementsLedger == Spec => ImplementsLedger
  <1>1. LedgerInv => IInv /\ BudgetViews
    BY BudgetIsViewed DEF LedgerInv, TInv, IInv, BudgetViews
  <1> QED BY <1>1, InitLedger, StepLedgerInv, StepLedger, PTL
          DEF Spec, ImplementsLedger, Ledger!Spec
=============================================================================
