--------------------------- MODULE OperatorProofs ---------------------------
(***************************************************************************)
(* The spend operator and its console: what the log says of payments and   *)
(* what the owner pays for, under timeouts, restarts and a full disk; and  *)
(* that the keeper, alone and answered, pays everything once.              *)
(***************************************************************************)
EXTENDS Operator, CommonLemmas

\* What is proved of the wallet, for the operator's wallet.
Paying == INSTANCE PolicyWalletProofs WITH
    Accounts <- {Agent, Owner}, Deployer <- Owner, Payees <- {Vendor},
    Categories <- {Category}, Decisions <- 1..MaxTime, Amounts <- 1..MaxTape,
    BudgetChoices <- Budgets, Deadlines <- {}, NoAddress <- Nobody, NoDecision <- 0,
    MaxSignatures <- 0, MaxBalance <- Funded

LEMMA BoundsAreNatural ==
    /\ Funded \in Nat /\ ReadLimit \in Nat /\ MaxTape \in Nat /\ MaxBudgetSets \in Nat
    /\ MaxTime \in Nat /\ MaxTime > 0
  BY OperatorAssumption

USE BoundsAreNatural

\* A moment is in a second that is not after it.
LEMMA SecondsAreNatural ==
    ASSUME NEW t \in Nat
    PROVE  SecondOf(t) \in 0..t
  <1>1. Second \in Nat /\ Second > 0
    BY OperatorAssumption
  <1> QED BY <1>1, SMT DEF SecondOf

-----------------------------------------------------------------------------
(* Types.                                                                  *)

Moments == 1..MaxTime
Seconds == 0..MaxTime
Bill == [id : Seconds, units : 1..MaxTape, first : Moments, last : Moments]
Row == [id : Seconds, units : 1..MaxTape, first : 0..MaxTime, last : 0..MaxTime,
        held : Nat, limit : Nat, at : Moments,
        intent : {"pay", "reroute", "escalate", "refuse"},
        rule : {"no budget", "duplicate", "evidence", "price", "limit", "budget",
                "cash", "sound", "owner"},
        actor : {"agent", "owner"}, paid : Nat, tx : 0..MaxTime]
Passes == {Idle}
    \cup [pc : {"judging"}, bill : Bill, refs : SUBSET Seconds, held : Nat]
    \cup [pc : {"sending", "waiting", "recording"}, row : Row]
Approvals == {Idle} \cup [pc : {"waiting"}, row : Row]
Transactions == [by : Requests \cup {"keeper"}, decision : Moments,
                 units : 1..MaxTape, state : {"pending", "mined", "reverted"}]

OperatorTyped ==
    /\ now > 0
    /\ bought \subseteq 1..(now - 1) /\ Cardinality(bought) <= MaxTape
    /\ tape \subseteq bought
    /\ log \in Seq(Row)
    /\ keeper \in Passes
    /\ desk \in [Requests -> Approvals]
    /\ txs \subseteq Transactions
    /\ judged \subseteq [decision : Moments, first : Moments, last : Moments]

-----------------------------------------------------------------------------
(* The inductive invariant of the log, the desk and the transactions.      *)

HasRow == keeper.pc \in {"sending", "waiting", "recording"}

\* Every record has a moment of its own.
RecordsAreDated ==
    /\ \A n \in DOMAIN log : log[n].at < now
    /\ \A m, n \in DOMAIN log : log[m].at = log[n].at => m = n
    /\ HasRow => keeper.row.at < now /\ \A n \in DOMAIN log : log[n].at # keeper.row.at

\* The keeper's record of a payment: made when the payment was seen.
KeeperRowIsSound ==
    HasRow =>
        /\ keeper.row.actor = "agent"
        /\ keeper.pc # "recording" => keeper.row.intent = "pay" /\ keeper.row.paid = 0
        /\ keeper.row.paid > 0 =>
             /\ keeper.row.intent = "pay" /\ keeper.row.tx = keeper.row.at
             /\ keeper.row.paid = keeper.row.units
        /\ keeper.row.paid = 0 => keeper.row.intent # "pay" \/ keeper.pc # "recording"

\* A row that says paid names its own record, or the escalation it settles.
PaidRowsNameTheirRecord ==
    \A n \in DOMAIN log : log[n].paid > 0 =>
        /\ log[n].intent = "pay" /\ log[n].paid = log[n].units
        /\ \/ log[n].actor = "agent" /\ log[n].tx = log[n].at
           \/ /\ log[n].actor = "owner"
              /\ \E m \in DOMAIN log :
                    /\ m < n /\ log[m].at = log[n].tx /\ log[m].id = log[n].id
                    /\ log[m].intent = "escalate"

IsPaid(decision, units, byOwner) ==
    \E i \in Payments :
       /\ spentLog[i].decision = decision /\ spentLog[i].amount = units
       /\ (spentLog[i].path = "owner") = byOwner

\* What says that money moved: mined transactions, and records of them.
MinedIsPaid ==
    \A tx \in txs : tx.state = "mined" => IsPaid(tx.decision, tx.units, tx.by # "keeper")
MinedOnce ==
    \A tx, other \in txs :
        tx.state = "mined" /\ other.state = "mined" /\ tx.decision = other.decision =>
            tx = other
RecordedIsPaid ==
    /\ \A n \in DOMAIN log : log[n].paid > 0 =>
          IsPaid(log[n].tx, log[n].paid, log[n].actor = "owner")
    /\ HasRow /\ keeper.row.paid > 0 => IsPaid(keeper.row.at, keeper.row.units, FALSE)

\* The owner's transactions are of escalations.
EscalatedAs(decision, units) ==
    \E n \in DOMAIN log : /\ log[n].intent = "escalate" /\ log[n].at = decision
                          /\ log[n].units = units
OwnersSendEscalations ==
    \A tx \in txs : tx.by # "keeper" => EscalatedAs(tx.decision, tx.units)

\* What an approval in progress pays is an escalation in the log; once paid,
\* it is the approval that will say so: no row says so yet.
DeskWaitsForEscalations ==
    \A q \in Requests : desk[q].pc = "waiting" =>
        /\ \E n \in DOMAIN log : log[n] = desk[q].row /\ log[n].intent = "escalate"
        /\ Mined(q, desk[q].row) \in txs =>
             \A n \in DOMAIN log : log[n].paid > 0 => log[n].tx # desk[q].row.at

CInv == /\ Paying!IInv
        /\ OperatorTyped
        /\ RecordsAreDated
        /\ KeeperRowIsSound
        /\ PaidRowsNameTheirRecord
        /\ MinedIsPaid
        /\ MinedOnce
        /\ RecordedIsPaid
        /\ OwnersSendEscalations
        /\ DeskWaitsForEscalations
        /\ PaidRowsHaveTheirPayment
        /\ OwnerPaysEscalationsOnly

-----------------------------------------------------------------------------
(* The keeper alone: no console, receipts that arrive, writes that land,   *)
(* and a log shorter than what a reader takes.                             *)

Alone == /\ Requests = {} /\ ~SendTimesOut /\ ~PressCrashes /\ ~LogFails
         /\ MaxTime <= ReadLimit

Pays(row) == row.intent = "pay"
RecordIn(row) == [decision |-> row.at, first |-> row.first, last |-> row.last]

\* The log is no longer than time.
LogIsShort == /\ Len(log) < now
              /\ HasRow => Len(log) < keeper.row.at

\* Rows that pay are whole, are judged, and have been paid; their bills follow
\* one another, and end in seconds of their own.
PayRowsAreWhole ==
    /\ \A n \in DOMAIN log : Pays(log[n]) =>
          /\ log[n].paid > 0 /\ log[n].actor = "agent"
          /\ log[n].first <= log[n].last /\ log[n].id = SecondOf(log[n].last)
          /\ log[n].first > 0 /\ log[n].last < now /\ RecordIn(log[n]) \in judged
    /\ \A m, n \in DOMAIN log :
          m < n /\ Pays(log[m]) /\ Pays(log[n]) =>
              log[m].last < log[n].first /\ log[m].id # log[n].id

\* Up to the last row that pays, all that is on the tape is in one that pays.
InTheLog(t) ==
    \E n \in DOMAIN log : Pays(log[n]) /\ log[n].first <= t /\ t <= log[n].last
LogCoversTheTape ==
    \A t \in tape, n \in DOMAIN log : Pays(log[n]) /\ t <= log[n].last => InTheLog(t)

\* The bill of the pass starts after all that is in the log, and leaves out
\* nothing that is on the tape since; the references the pass read are those of
\* all the rows that pay, and what it pays is under none of them.
BillStartsAfter(first, last) ==
    /\ 0 < first /\ first <= last /\ last < now
    /\ \A n \in DOMAIN log : Pays(log[n]) => log[n].last < first
    /\ \A t \in tape : t < first => InTheLog(t)
PassIsNext ==
    /\ keeper.pc = "judging" =>
          /\ BillStartsAfter(keeper.bill.first, keeper.bill.last)
          /\ keeper.bill.id = SecondOf(keeper.bill.last)
          /\ \A n \in DOMAIN log : Pays(log[n]) => log[n].id \in keeper.refs
    /\ HasRow /\ Pays(keeper.row) =>
          /\ BillStartsAfter(keeper.row.first, keeper.row.last)
          /\ keeper.row.id = SecondOf(keeper.row.last)
          /\ \A n \in DOMAIN log : Pays(log[n]) => log[n].id # keeper.row.id
          /\ RecordIn(keeper.row) \in judged

\* Decisions are judged once; a transaction belongs to the pass or is over.
JudgedOnce ==
    /\ \A r \in judged : r.decision < now
    /\ \A r, s \in judged : r.decision = s.decision => r = s
TransactionsAreThePasses ==
    /\ \A tx \in txs : tx.decision < now
    /\ \A tx, other \in txs : tx.decision = other.decision => tx = other
    /\ keeper.pc = "sending" => \A tx \in txs : tx.decision # keeper.row.at
    /\ \A tx \in txs : tx.state = "pending" =>
          keeper.pc = "waiting" /\ tx.decision = keeper.row.at
PaymentsAreKnown ==
    \A i \in Payments :
        /\ \E tx \in txs : tx.state = "mined" /\ tx.decision = spentLog[i].decision
        /\ \/ \E n \in DOMAIN log : Pays(log[n]) /\ log[n].at = spentLog[i].decision
           \/ /\ keeper.pc \in {"waiting", "recording"} /\ Pays(keeper.row)
              /\ keeper.row.at = spentLog[i].decision

KInv == /\ CInv
        /\ LogIsShort
        /\ PayRowsAreWhole
        /\ PassIsNext
        /\ JudgedOnce
        /\ TransactionsAreThePasses
        /\ PaymentsAreKnown
        /\ LogCoversTheTape

-----------------------------------------------------------------------------
(* The wallet under the operator: every step of the operator is a step of  *)
(* the wallet or leaves it alone, so its invariant holds here too.         *)

LEMMA WalletIsAssumed == Paying!WalletAssumption
  BY OperatorAssumption DEF Paying!WalletAssumption

LEMMA BudgetsAreTyped == \A b \in Budgets : b \in [cap : Nat, perTxLimit : Nat, periodLength : Nat]
  BY OperatorAssumption

LEMMA WalletStarts == Init => Paying!IInv
  <1> USE OperatorAssumption
  <1> SUFFICES ASSUME Init PROVE Paying!IInv
    OBVIOUS
  <1>1. PICK b \in Budgets \cup {NoBudget} :
           /\ budgets[Category] = [cap |-> b.cap, spent |-> 0, perTxLimit |-> b.perTxLimit,
                                   periodStart |-> 0, periodLength |-> b.periodLength,
                                   exists |-> Budgeted]
           /\ ~Budgeted => b = NoBudget
           /\ Budgeted => b \in Budgets
           /\ budgets \in [{Category} -> {budgets[Category]}]
           /\ budgetLog \in [{Category} -> {budgetLog[Category]}]
           /\ budgetLog[Category] =
                IF Budgeted THEN <<[cap |-> b.cap, perTxLimit |-> b.perTxLimit,
                                    periodLength |-> b.periodLength, periodStart |-> 0]>>
                ELSE <<>>
    <2>1. CASE Budgeted
      BY <2>1 DEF Init
    <2>2. CASE ~Budgeted
      BY <2>2 DEF Init, NoBudget
    <2> QED BY <2>1, <2>2
  <1>2. /\ b.cap \in Nat /\ b.perTxLimit \in Nat /\ b.periodLength \in Nat
        /\ Budgeted => b.periodLength > 0
    BY <1>1 DEF NoBudget
  <1>3. budgets[Category] \in Paying!Budget
    BY <1>1, <1>2 DEF Paying!Budget
  <1> DEFINE rule == [cap |-> b.cap, perTxLimit |-> b.perTxLimit,
                      periodLength |-> b.periodLength, periodStart |-> 0]
  <1>4. budgetLog[Category] \in Seq(Paying!BudgetSet)
    <2>1. rule \in Paying!BudgetSet
      BY <1>2 DEF Paying!BudgetSet
    <2> HIDE DEF rule
    <2>2. <<>> \in Seq(Paying!BudgetSet) /\ <<rule>> \in Seq(Paying!BudgetSet)
      BY <2>1
    <2>3. budgetLog[Category] = IF Budgeted THEN <<rule>> ELSE <<>>
      BY <1>1 DEF rule
    <2> QED BY <2>2, <2>3
  <1>5. budgets \in [{Category} -> Paying!Budget]
    BY <1>1, <1>3
  <1>6. budgetLog \in [{Category} -> Seq(Paying!BudgetSet)]
    BY <1>1, <1>4
  <1>7. Paying!TypeOK
    <2>1. /\ now = 1 /\ owner = Owner /\ pendingOwner = Nobody /\ paused = FALSE
          /\ isAgent = {Agent} /\ approvalNonce = 0 /\ consumed = {}
          /\ balance = Funded /\ signatures = {} /\ spentLog = <<>>
      BY DEF Init
    <2>2. 1 \in 0..MaxTime
      OBVIOUS
    <2>3. <<>> \in Seq(Paying!Spent) /\ Funded \in Nat
      OBVIOUS
    <2> QED BY <1>5, <1>6, <2>1, <2>2, <2>3 DEF Paying!TypeOK
  <1>8. Paying!Events = {} /\ spentLog = <<>>
    BY DEF Init, Paying!Events
  <1>9. Paying!BudgetIsLastRule
    <2>1. budgetLog[Category] = IF Budgeted THEN <<rule>> ELSE <<>>
      BY <1>1
    <2>2. /\ budgets[Category].exists = Budgeted /\ budgets[Category].cap = b.cap
          /\ budgets[Category].spent = 0 /\ budgets[Category].periodStart = 0
          /\ budgets[Category].periodLength = b.periodLength
      BY <1>1
    <2>3. rule.cap = b.cap /\ now = 1
      BY DEF Init
    <2> HIDE DEF rule
    <2>4. CASE Budgeted
      <3>1. budgetLog[Category] = <<rule>>
        BY <2>1, <2>4
      <3>2. Len(budgetLog[Category]) = 1 /\ budgetLog[Category][1].cap = b.cap
        BY <2>3, <3>1
      <3>3. /\ Len(budgetLog[Category]) > 0
            /\ budgets[Category].cap = budgetLog[Category][Len(budgetLog[Category])].cap
            /\ budgets[Category].periodLength > 0
            /\ budgets[Category].periodStart <= now
            /\ budgets[Category].spent <= budgets[Category].cap
        BY <1>2, <2>2, <2>3, <2>4, <3>2
      <3>4. budgets[Category].exists
        BY <2>2, <2>4
      <3> QED BY ONLY <3>3, <3>4 DEF Paying!BudgetIsLastRule
    <2>5. CASE ~Budgeted
      <3>1. Len(budgetLog[Category]) = 0
        BY <2>1, <2>5
      <3> QED BY <2>2, <2>5, <3>1 DEF Paying!BudgetIsLastRule
    <2> QED BY <2>4, <2>5
  <1> QED
    BY <1>1, <1>7, <1>8, <1>9
    DEF Paying!IInv, Paying!EventsAreOnRecord, Paying!SpentIsLastTotal, Paying!OfBudget,
        Paying!OfPeriod, Paying!DecisionPaidOnce, Paying!RunningTotals

LEMMA WalletTicks == Wallet!Tick => Paying!Next /\ now' = now + 1
  BY DEF Wallet!Tick, Wallet!admin, Paying!Next, Paying!Outside, Paying!Tick, Paying!admin

LEMMA WalletPays ==
    ASSUME NEW s, NEW c, NEW to, NEW amount, NEW d, NEW path, NEW n,
           Wallet!Pay(s, c, to, amount, d, path, n)
    PROVE  Paying!Pay(s, c, to, amount, d, path, n)
  <1>1. Wallet!RolledSpent(budgets[c]) = Paying!RolledSpent(budgets[c])
    BY DEF Wallet!RolledSpent, Wallet!PeriodOpen, Paying!RolledSpent, Paying!PeriodOpen
  <1>2. Wallet!RolledStart(budgets[c]) = Paying!RolledStart(budgets[c])
    BY DEF Wallet!RolledStart, Wallet!PeriodOpen, Paying!RolledStart, Paying!PeriodOpen
  <1> QED BY <1>1, <1>2
    DEF Wallet!Pay, Wallet!MayPay, Wallet!Fresh, Wallet!WithinCap, Wallet!admin,
        Paying!Pay, Paying!MayPay, Paying!Fresh, Paying!WithinCap, Paying!admin

LEMMA WalletSteps ==
    ASSUME OperatorTyped, [Next]_vars
    PROVE  [Paying!Next]_Paying!vars
  <1>1. CASE UNCHANGED walletVars
    BY <1>1 DEF walletVars, Paying!vars, Paying!admin
  <1>2. CASE Wallet!Tick
    BY <1>2, WalletTicks
  <1>3. CASE Chain
    <2>1. PICK tx \in txs : Execute(tx)
      BY <1>3 DEF Chain
    <2>2. tx.units \in 1..MaxTape /\ tx.decision \in 1..MaxTime
      BY DEF OperatorTyped, Transactions, Moments
    <2>3. CASE Wallet!Spend(Agent, Category, Vendor, tx.units, tx.decision)
      BY <2>2, <2>3, WalletPays
      DEF Wallet!Spend, Paying!Next, Paying!MakePayment, Paying!Spend
    <2>4. CASE Wallet!SpendAsOwner(Owner, Category, Vendor, tx.units, tx.decision)
      BY <2>2, <2>4, WalletPays
      DEF Wallet!SpendAsOwner, Paying!Next, Paying!MakePayment, Paying!SpendAsOwner
    <2> QED BY <2>1, <2>3, <2>4, <1>1 DEF Execute
  <1>4. CASE ChangeBudget
    BY <1>4 DEF ChangeBudget, Wallet!SetBudget, Wallet!admin, Paying!Next, Paying!Administer,
                Paying!SetBudget, Paying!admin
  <1>5. CASE Consume
    BY <1>2, <1>5 DEF Consume
  <1>9. CASE OthersConsume
    BY <1>1, <1>9 DEF OthersConsume
  <1>6. CASE Keeper
    BY <1>1, <1>2, <1>6 DEF Keeper, StartPass, Judge, Send, Confirm, GiveUp, Record
  <1>7. CASE Console
    BY <1>1, <1>2, <1>7 DEF Console, Reject, Approve, Approved, NotApproved, Settle
  <1>8. CASE Crash
    BY <1>1, <1>8 DEF Crash
  <1> QED BY <1>1, <1>3, <1>4, <1>5, <1>6, <1>7, <1>8, <1>9 DEF Next, vars

LEMMA WalletIsKept ==
    ASSUME Paying!IInv, OperatorTyped, [Next]_vars
    PROVE  Paying!IInv'
  BY WalletSteps, WalletIsAssumed, Paying!StepIInv


-----------------------------------------------------------------------------
(* Bills, verdicts and what the log says of them.                          *)

LEMMA MinIsLeast ==
    ASSUME NEW S, S \subseteq Nat, S # {}
    PROVE  Min(S) \in S /\ \A y \in S : Min(S) <= y
  <1>1. PICK x \in S : \A y \in S : ~(y < x)
    BY LeastNatural
  <1>2. \A y \in S : x <= y
    BY <1>1
  <1> QED BY <1>2 DEF Min

LEMMA MaxIsGreatest ==
    ASSUME NEW n \in Nat, NEW S, S \subseteq 0..n, S # {}
    PROVE  Max(S) \in S /\ \A y \in S : Max(S) >= y
  <1> DEFINE W == {n - x : x \in S}
  <1>1. W \subseteq Nat /\ W # {}
    <2>1. \A x \in S : n - x \in Nat
      OBVIOUS
    <2> QED BY <2>1
  <1>2. PICK d \in W : \A e \in W : ~(e < d)
    <2> HIDE DEF W
    <2> QED BY <1>1, LeastNatural
  <1>3. PICK x \in S : d = n - x
    BY <1>2
  <1>4. ASSUME NEW y \in S PROVE x >= y
    <2>1. n - y \in W /\ x \in 0..n /\ y \in 0..n
      OBVIOUS
    <2>2. ~(n - y < n - x)
      BY <1>2, <1>3, <2>1
    <2> HIDE DEF W
    <2> QED BY <2>1, <2>2
  <1> QED BY <1>4 DEF Max

\* A bill is of what the tape holds.
LEMMA BillIsOfTheTape ==
    ASSUME OperatorTyped, now \in Moments, NEW S, S \subseteq tape, S # {}
    PROVE  /\ BillFor(S) \in Bill
           /\ BillFor(S).first \in S /\ BillFor(S).last \in S
           /\ BillFor(S).id = SecondOf(BillFor(S).last)
           /\ \A t \in S : BillFor(S).first <= t /\ t <= BillFor(S).last
  <1>1. /\ now \in Nat /\ S \subseteq 0..now /\ S \subseteq Nat /\ S \subseteq Moments
        /\ bought \subseteq 1..now /\ S \subseteq bought
    BY DEF OperatorTyped, Moments
  <1>2. Max(S) \in S /\ \A y \in S : Max(S) >= y
    BY <1>1, MaxIsGreatest
  <1>3. Min(S) \in S /\ \A y \in S : Min(S) <= y
    BY <1>1, MinIsLeast
  <1>4. IsFiniteSet(bought)
    <2>1. IsFiniteSet(1..now)
      BY <1>1, FS_Interval
    <2> QED BY <1>1, <2>1, FS_Subset
  <1>5. /\ IsFiniteSet(S) /\ Cardinality(S) <= Cardinality(bought)
        /\ Cardinality(S) \in Nat /\ Cardinality(bought) \in Nat /\ Cardinality(S) # 0
    BY <1>1, <1>4, FS_Subset, FS_CardinalityType, FS_EmptySet
  <1>6. Cardinality(S) \in 1..MaxTape
    BY <1>5 DEF OperatorTyped
  <1>7. SecondOf(Max(S)) \in Seconds
    <2>1. Max(S) \in Nat /\ Max(S) \in 1..MaxTime
      BY <1>1, <1>2 DEF Moments
    <2> QED BY <2>1, SecondsAreNatural DEF Seconds
  <1> QED BY <1>1, <1>2, <1>3, <1>6, <1>7 DEF BillFor, Bill

\* The ladder answers with one of its rungs; it pays on the last one alone, and
\* so never under a reference it was given.
LEMMA VerdictIsARung ==
    ASSUME NEW bill, NEW refs, NEW held, NEW evidence
    PROVE  LET v == Verdict(bill, refs, held, evidence)
           IN  /\ v.says \in {"pay", "reroute", "escalate", "refuse"}
               /\ v.rule \in {"no budget", "duplicate", "evidence", "price", "limit",
                              "budget", "cash", "sound"}
               /\ v.says = "pay" => v.rule = "sound" /\ bill.id \notin refs
  <1> DEFINE rungs == Ladder(bill, refs, held, evidence)
             I == {i \in 1..Len(rungs) : rungs[i].stops}
  <1>1. Len(rungs) = 8 /\ rungs[8].stops = TRUE
    BY DEF Ladder
  <1>2. 8 \in I /\ I \subseteq Nat
    BY <1>1
  <1>3. Min(I) \in I /\ \A i \in I : Min(I) <= i
    <2> HIDE DEF I
    <2> QED BY <1>2, MinIsLeast
  <1>4. Verdict(bill, refs, held, evidence) = rungs[Min(I)]
    BY <1>2 DEF Verdict, SelectInSeq
  <1>5. Min(I) \in 1..8
    BY <1>1, <1>3
  <1>6. \A i \in 1..8 :
           /\ rungs[i].says \in {"pay", "reroute", "escalate", "refuse"}
           /\ rungs[i].rule \in {"no budget", "duplicate", "evidence", "price", "limit",
                                 "budget", "cash", "sound"}
           /\ rungs[i].says = "pay" => rungs[i].rule = "sound" /\ i = 8
    <2>1. \A i \in 1..8 : \/ i = 1 \/ i = 2 \/ i = 3 \/ i = 4
                          \/ i = 5 \/ i = 6 \/ i = 7 \/ i = 8
      OBVIOUS
    <2>2. /\ rungs[1].says = "escalate" /\ rungs[1].rule = "no budget"
          /\ rungs[2].says = "refuse" /\ rungs[2].rule = "duplicate"
          /\ rungs[3].says = "escalate" /\ rungs[3].rule = "evidence"
          /\ rungs[4].says = "reroute" /\ rungs[4].rule = "price"
      BY DEF Ladder
    <2>3. /\ rungs[5].says = "escalate" /\ rungs[5].rule = "limit"
          /\ rungs[6].says = "escalate" /\ rungs[6].rule = "budget"
          /\ rungs[7].says = "escalate" /\ rungs[7].rule = "cash"
          /\ rungs[8].says = "pay" /\ rungs[8].rule = "sound"
      BY DEF Ladder
    <2> HIDE DEF rungs
    <2> QED BY <2>1, <2>2, <2>3
  <1>7. Min(I) = 8 => bill.id \notin refs
    <2>1. rungs[2].stops = (bill.id \in refs) /\ 2 \in 1..Len(rungs)
      BY <1>1 DEF Ladder
    <2>2. bill.id \in refs => 2 \in I
      BY <2>1
    <2>3. ~(8 <= 2)
      OBVIOUS
    <2> HIDE DEF rungs, I
    <2> QED BY ONLY <1>3, <2>2, <2>3
  <1> QED
    <2> HIDE DEF rungs, I
    <2> QED BY <1>4, <1>5, <1>6, <1>7


LEMMA PassesAre ==
    ASSUME keeper \in Passes
    PROVE  /\ keeper.pc \in {"idle", "judging", "sending", "waiting", "recording"}
           /\ HasRow => keeper = [pc |-> keeper.pc, row |-> keeper.row] /\ keeper.row \in Row
           /\ keeper.pc = "judging" => /\ keeper.bill \in Bill /\ keeper.held \in Nat
                                       /\ keeper.refs \subseteq Seconds
           /\ keeper.pc = "idle" => keeper = Idle
  <1>1. CASE keeper = Idle
    BY <1>1 DEF Idle, HasRow
  <1>2. CASE keeper \in [pc : {"judging"}, bill : Bill, refs : SUBSET Seconds, held : Nat]
    BY <1>2 DEF HasRow
  <1>3. CASE keeper \in [pc : {"sending", "waiting", "recording"}, row : Row]
    BY <1>3 DEF HasRow
  <1> QED BY <1>1, <1>2, <1>3 DEF Passes

LEMMA ApprovalsAre ==
    ASSUME desk \in [Requests -> Approvals], NEW q \in Requests
    PROVE  /\ desk[q].pc \in {"idle", "waiting"}
           /\ desk[q].pc = "waiting" => desk[q].row \in Row
  <1>1. CASE desk[q] = Idle
    BY <1>1 DEF Idle
  <1>2. CASE desk[q] \in [pc : {"waiting"}, row : Row]
    BY <1>2
  <1> QED BY <1>1, <1>2 DEF Approvals

\* What LogDecision does, if it does something: a row at the end.
Grows(row) ==
    /\ Len(log') = Len(log) + 1 /\ DOMAIN log' = 1..(Len(log) + 1)
    /\ \A n \in DOMAIN log : log'[n] = log[n]
    /\ log'[Len(log) + 1] = row

LEMMA LogGrows ==
    ASSUME log \in Seq(Row), NEW row \in Row, LogDecision(row)
    PROVE  /\ log' \in Seq(Row)
           /\ log' = log \/ Grows(row)
  <1>1. CASE log' = log
    BY <1>1
  <1>2. CASE log' = Append(log, row)
    BY <1>2 DEF Grows
  <1> QED BY <1>1, <1>2 DEF LogDecision

LEMMA LogDomain ==
    ASSUME log \in Seq(Row)
    PROVE  /\ Len(log) \in Nat /\ DOMAIN log = 1..Len(log)
           /\ \A n \in DOMAIN log : log[n] \in Row
  OBVIOUS

Settled(row, intent, paid, tx) ==
    [row EXCEPT !.at = now, !.intent = intent, !.rule = "owner", !.actor = "owner",
                !.held = 0, !.limit = 0, !.paid = paid, !.tx = tx]

LEMMA SettledIsTyped ==
    ASSUME now \in Moments, NEW row \in Row, NEW intent \in {"pay", "refuse"},
           NEW paid \in Nat, NEW tx \in 0..MaxTime
    PROVE  LET s == Settled(row, intent, paid, tx)
           IN  /\ s \in Row /\ s.at = now /\ s.intent = intent /\ s.actor = "owner"
               /\ s.paid = paid /\ s.tx = tx /\ s.id = row.id /\ s.units = row.units
  BY DEF Settled, Row

\* What the keeper's confirmation makes of its record.
Confirmed(row) == [row EXCEPT !.paid = row.units, !.tx = row.at]

LEMMA ConfirmedIsTyped ==
    ASSUME NEW row \in Row
    PROVE  LET c == Confirmed(row)
           IN  /\ c \in Row /\ c.paid = row.units /\ c.tx = row.at /\ c.at = row.at
               /\ c.intent = row.intent /\ c.actor = row.actor /\ c.units = row.units
               /\ c.id = row.id /\ c.first = row.first /\ c.last = row.last
  <1>1. row.units \in Nat /\ row.at \in 0..MaxTime
    <2>1. row.units \in 1..MaxTape /\ row.at \in Moments
      BY DEF Row
    <2>2. \A n \in 1..MaxTape : n \in Nat
      OBVIOUS
    <2>3. \A n \in 1..MaxTime : n \in 0..MaxTime
      OBVIOUS
    <2> QED BY ONLY <2>1, <2>2, <2>3 DEF Moments
  <1> QED BY <1>1 DEF Confirmed, Row

LEMMA ConfirmationIs ==
    ASSUME keeper \in Passes, Confirm
    PROVE  keeper' = [pc |-> "recording", row |-> Confirmed(keeper.row)]
  <1>1. keeper = [pc |-> keeper.pc, row |-> keeper.row]
    BY PassesAre DEF Confirm, HasRow
  <1> QED BY <1>1 DEF Confirm, Confirmed

LEMMA SendingIs ==
    ASSUME keeper \in Passes, Send
    PROVE  keeper' = [pc |-> "waiting", row |-> keeper.row]
  <1>1. keeper = [pc |-> keeper.pc, row |-> keeper.row]
    BY PassesAre DEF Send, HasRow
  <1> QED BY <1>1 DEF Send

\* A judgment makes a record of now, which pays only what is sound.
RowMade(row) ==
    /\ row \in Row /\ row.at = now /\ row.paid = 0 /\ row.tx = 0 /\ row.actor = "agent"
    /\ row.id = keeper.bill.id /\ row.units = keeper.bill.units
    /\ row.intent = "pay" => /\ row.first = keeper.bill.first /\ row.last = keeper.bill.last
                             /\ row.id \notin keeper.refs
    /\ keeper' = [pc |-> IF row.intent = "pay" THEN "sending" ELSE "recording", row |-> row]

LEMMA JudgmentMakes ==
    ASSUME Paying!IInv, OperatorTyped, Judge
    PROVE  \E row : RowMade(row)
  <1>1. /\ now \in Moments /\ budgets[Category].perTxLimit \in Nat
    <2>1. budgets \in [{Category} -> Paying!Budget] /\ now \in 0..MaxTime
      BY DEF Paying!IInv, Paying!TypeOK
    <2> QED BY <2>1 DEF Paying!Budget, OperatorTyped, Moments
  <1>2. keeper.bill \in Bill /\ keeper.held \in Nat
    BY PassesAre DEF Judge, OperatorTyped
  <1>3. PICK evidence \in Evidence :
           LET row == RowFor(keeper.bill,
                             Verdict(keeper.bill, keeper.refs, keeper.held, evidence),
                             keeper.held)
           IN  keeper' = [pc |-> IF row.intent = "pay" THEN "sending" ELSE "recording",
                          row |-> row]
    BY DEF Judge
  <1> DEFINE v == Verdict(keeper.bill, keeper.refs, keeper.held, evidence)
             row == RowFor(keeper.bill, v, keeper.held)
  <1>4. /\ v.says \in {"pay", "reroute", "escalate", "refuse"}
        /\ v.rule \in {"no budget", "duplicate", "evidence", "price", "limit",
                       "budget", "cash", "sound"}
        /\ v.says = "pay" => v.rule = "sound" /\ keeper.bill.id \notin keeper.refs
    BY VerdictIsARung
  <1>5. keeper' = [pc |-> IF row.intent = "pay" THEN "sending" ELSE "recording", row |-> row]
    BY <1>3
  <1> HIDE DEF v
  <1>6. row \in Row
    <2> DEFINE whole == v.rule # "no budget"
               first == IF whole THEN keeper.bill.first ELSE 0
               last == IF whole THEN keeper.bill.last ELSE 0
               held == IF whole THEN keeper.held ELSE 0
               limit == IF whole THEN budgets[Category].perTxLimit ELSE 0
    <2>1. /\ keeper.bill.first \in Moments /\ keeper.bill.last \in Moments
          /\ keeper.bill.id \in Seconds /\ keeper.bill.units \in 1..MaxTape
      BY <1>2 DEF Bill
    <2>2. /\ first \in 0..MaxTime /\ last \in 0..MaxTime /\ held \in Nat /\ limit \in Nat
      <3>1. \A n \in 1..MaxTime : n \in 0..MaxTime
        OBVIOUS
      <3>2. 0 \in Nat /\ 0 \in 0..MaxTime
        OBVIOUS
      <3> QED BY ONLY <1>1, <1>2, <2>1, <3>1, <3>2 DEF Moments
    <2>3. row = [id |-> keeper.bill.id, units |-> keeper.bill.units, first |-> first,
                 last |-> last, held |-> held, limit |-> limit, at |-> now,
                 intent |-> v.says, rule |-> v.rule, actor |-> "agent", paid |-> 0, tx |-> 0]
      BY DEF RowFor
    <2> HIDE DEF row, first, last, held, limit
    <2>4. 0 \in Nat /\ 0 \in 0..MaxTime
      OBVIOUS
    <2> QED BY <1>1, <1>4, <2>1, <2>2, <2>3, <2>4 DEF Row
  <1>7. /\ row.at = now /\ row.paid = 0 /\ row.tx = 0 /\ row.actor = "agent"
        /\ row.id = keeper.bill.id /\ row.units = keeper.bill.units /\ row.intent = v.says
        /\ v.rule # "no budget" => row.first = keeper.bill.first /\ row.last = keeper.bill.last
    BY DEF RowFor
  <1> HIDE DEF row
  <1>8. RowMade(row)
    BY <1>4, <1>5, <1>6, <1>7 DEF RowMade
  <1> QED BY <1>8


-----------------------------------------------------------------------------
(* Type correctness of the operator.                                       *)

LEMMA TransactionIsTyped ==
    ASSUME NEW by \in Requests \cup {"keeper"}, NEW row \in Row
    PROVE  /\ Tx(by, row) \in Transactions /\ Tx(by, row).state = "pending"
           /\ Tx(by, row).by = by /\ Tx(by, row).decision = row.at
           /\ Tx(by, row).units = row.units
           /\ Mined(by, row).by = by /\ Mined(by, row).decision = row.at
           /\ Mined(by, row).units = row.units /\ Mined(by, row).state = "mined"
           /\ Reverted(by, row).state = "reverted" /\ Reverted(by, row).decision = row.at
  <1>1. row.at \in Moments /\ row.units \in 1..MaxTape
    BY DEF Row
  <1> QED BY <1>1 DEF Tx, Mined, Reverted, Transactions

\* What one block does to the transactions.
Over(tx, state) == [tx EXCEPT !.state = state]
Block(tx, state) ==
    /\ tx \in txs /\ tx.state = "pending" /\ state \in {"mined", "reverted"}
    /\ Over(tx, state) \in Transactions /\ Over(tx, state).state = state
    /\ Over(tx, state).by = tx.by /\ Over(tx, state).decision = tx.decision
    /\ Over(tx, state).units = tx.units
    /\ txs' = (txs \ {tx}) \cup {Over(tx, state)}
    /\ UNCHANGED <<bought, tape, log, keeper, desk, judged>>

LEMMA BlockIs ==
    ASSUME OperatorTyped, NEW tx \in txs, Execute(tx)
    PROVE  \E state \in {"mined", "reverted"} :
              /\ Block(tx, state)
              /\ state = "reverted" => UNCHANGED walletVars
              /\ state = "mined" =>
                   /\ Accepted(tx)
                   /\ IF tx.by = "keeper"
                      THEN Wallet!Spend(Agent, Category, Vendor, tx.units, tx.decision)
                      ELSE Wallet!SpendAsOwner(Owner, Category, Vendor, tx.units, tx.decision)
  <1>1. tx \in Transactions
    BY DEF OperatorTyped
  <1>2. \A state \in {"mined", "reverted"} :
           /\ Over(tx, state) \in Transactions /\ Over(tx, state).state = state
           /\ Over(tx, state).by = tx.by /\ Over(tx, state).decision = tx.decision
           /\ Over(tx, state).units = tx.units
    BY <1>1 DEF Transactions, Over
  <1>3. CASE Accepted(tx) /\ txs' = (txs \ {tx}) \cup {[tx EXCEPT !.state = "mined"]}
    BY <1>2, <1>3 DEF Execute, Block, Over
  <1>4. CASE ~Accepted(tx) /\ txs' = (txs \ {tx}) \cup {[tx EXCEPT !.state = "reverted"]}
    BY <1>2, <1>4 DEF Execute, Block, Over
  <1> QED BY <1>3, <1>4 DEF Execute

LEMMA NowIsAMoment ==
    ASSUME Paying!IInv, OperatorTyped
    PROVE  now \in Moments
  BY DEF Paying!IInv, Paying!TypeOK, OperatorTyped, Moments

\* The state an approval reads from is the log's.
LEMMA LogHoldsWhatIsRead ==
    ASSUME log \in Seq(Row)
    PROVE  /\ \A row \in Recent : row \in Row /\ \E n \in DOMAIN log : log[n] = row
           /\ Pending \subseteq Escalated /\ Escalated \subseteq Recent
           /\ \A row \in Pending : row.intent = "escalate"
           /\ PaidRows \subseteq Recent
  BY LogDomain DEF Recent, Pending, Escalated, PaidRows

LEMMA TypesStart == Init => OperatorTyped
  <1> SUFFICES ASSUME Init PROVE OperatorTyped
    OBVIOUS
  <1>1. Cardinality(bought) = 0
    BY FS_EmptySet DEF Init
  <1>2. desk \in [Requests -> Approvals]
    BY DEF Init, Approvals
  <1> QED BY <1>1, <1>2 DEF Init, OperatorTyped, Passes

LEMMA TypesAreKept ==
    ASSUME Paying!IInv, OperatorTyped, [Next]_vars
    PROVE  OperatorTyped'
  <1>1. now \in Moments /\ now \in Nat
    BY NowIsAMoment DEF Moments
  <1> DEFINE Elsewhere == UNCHANGED <<bought, tape, log, keeper, desk, txs, judged>>
  <1>2. CASE now' \in {now, now + 1} /\ Elsewhere
    <2>1. CASE now' = now
      BY <1>2, <2>1 DEF OperatorTyped
    <2>2. CASE now' = now + 1
      <3>1. bought \subseteq 1..(now - 1)
        BY DEF OperatorTyped
      <3>2. \A t \in 1..(now - 1) : t \in 1..now
        BY <1>1
      <3>3. now' - 1 = now /\ now' > 0
        BY <1>1, <2>2
      <3>4. bought \subseteq 1..(now' - 1)
        BY <3>1, <3>2, <3>3
      <3> QED BY <1>2, <3>3, <3>4 DEF OperatorTyped
    <2> QED BY <1>2, <2>1, <2>2
  <1>3. CASE UNCHANGED vars
    BY <1>2, <1>3 DEF vars, walletVars
  <1>4. CASE Consume
    <2>1. now' = now + 1 /\ bought' = bought \cup {now} /\ Cardinality(bought) < MaxTape
      BY <1>4, WalletTicks DEF Consume
    <2>2. bought \subseteq 1..(now - 1) /\ IsFiniteSet(bought)
      <3>1. IsFiniteSet(1..(now - 1))
        BY <1>1, FS_Interval
      <3> QED BY <3>1, FS_Subset DEF OperatorTyped
    <2>3. Cardinality(bought') = Cardinality(bought) + 1 /\ Cardinality(bought) \in Nat
      <3>1. now \notin bought
        BY <1>1, <2>2
      <3> QED BY <2>1, <2>2, <3>1, FS_AddElement, FS_CardinalityType
    <2>4. bought' \subseteq 1..(now' - 1) /\ now' > 0 /\ Cardinality(bought') <= MaxTape
      <3>1. \A t \in 1..(now - 1) : t \in 1..now
        BY <1>1
      <3>2. now' - 1 = now /\ now \in 1..now /\ now' > 0
        BY <1>1, <2>1 DEF OperatorTyped
      <3>3. bought' \subseteq 1..(now' - 1)
        BY <2>1, <2>2, <3>1, <3>2
      <3> QED BY <2>1, <2>3, <3>2, <3>3
    <2>5. tape' \subseteq bought'
      BY <1>4, <2>1 DEF Consume, Kept, OperatorTyped
    <2> QED BY <1>4, <2>4, <2>5 DEF Consume, OperatorTyped
  <1>19. CASE OthersConsume
    BY <1>19 DEF OthersConsume, walletVars, OperatorTyped
  <1>5. CASE Chain
    <2>1. PICK tx \in txs : Execute(tx)
      BY <1>5 DEF Chain
    <2>2. PICK state \in {"mined", "reverted"} : Block(tx, state)
      BY <2>1, BlockIs
    <2>3. now' = now
      BY <2>1 DEF Execute, walletVars, Wallet!Spend, Wallet!SpendAsOwner, Wallet!Pay
    <2>4. txs' \subseteq Transactions
      BY <2>2 DEF Block, OperatorTyped
    <2> QED BY <2>2, <2>3, <2>4 DEF Block, OperatorTyped
  <1>6. CASE ChangeBudget
    BY <1>2, <1>6 DEF ChangeBudget, Wallet!SetBudget
  <1>7. CASE StartPass
    <2>1. Unpaid(Through) \subseteq tape /\ Unpaid(Through) # {}
      BY <1>7 DEF Unpaid, StartPass
    <2>2. BillFor(Unpaid(Through)) \in Bill
      BY <1>1, <2>1, BillIsOfTheTape
    <2>3. SettledRefs \subseteq Seconds
      <3>1. \A row \in PaidRows : row \in Row
        BY LogHoldsWhatIsRead DEF OperatorTyped
      <3>2. \A row \in Row : row.id \in Seconds
        BY DEF Row
      <3> QED BY <3>1, <3>2 DEF SettledRefs
    <2>4. balance \in Nat
      BY DEF Paying!IInv, Paying!TypeOK
    <2>5. keeper' \in Passes
      BY <1>7, <2>2, <2>3, <2>4 DEF StartPass, Passes
    <2> QED BY <1>7, <2>5 DEF StartPass, walletVars, OperatorTyped
  <1>8. CASE Judge
    <2>1. PICK row : RowMade(row)
      BY <1>8, JudgmentMakes
    <2>2. keeper' \in Passes
      BY <2>1 DEF RowMade, Passes
    <2>3. keeper.bill.first \in Moments /\ keeper.bill.last \in Moments
      BY <1>8, PassesAre DEF Judge, OperatorTyped, Bill
    <2>4. judged' \subseteq [decision : Moments, first : Moments, last : Moments]
      BY <1>1, <1>8, <2>3 DEF Judge, OperatorTyped
    <2>5. now' = now + 1 /\ bought' \subseteq 1..(now' - 1) /\ now' > 0
      BY <1>1, <1>8, WalletTicks DEF Judge, OperatorTyped
    <2> QED BY <1>8, <2>2, <2>4, <2>5 DEF Judge, OperatorTyped
  <1>9. CASE Send
    <2>1. keeper' = [pc |-> "waiting", row |-> keeper.row] /\ keeper.row \in Row
      BY <1>9, SendingIs, PassesAre DEF OperatorTyped, Send, HasRow
    <2>2. keeper' \in Passes
      BY <2>1 DEF Passes
    <2>3. txs' \subseteq Transactions
      <3>1. Tx("keeper", keeper.row) \in Transactions
        BY <2>1, TransactionIsTyped
      <3> QED BY <1>9, <3>1 DEF Send, OperatorTyped
    <2> QED BY <1>9, <2>2, <2>3 DEF Send, walletVars, OperatorTyped
  <1>10. CASE Confirm
    <2>1. keeper' = [pc |-> "recording", row |-> Confirmed(keeper.row)] /\ keeper.row \in Row
      BY <1>10, ConfirmationIs, PassesAre DEF OperatorTyped, Confirm, HasRow
    <2>2. keeper' \in Passes
      BY <2>1, ConfirmedIsTyped DEF Passes
    <2> QED BY <1>10, <2>2 DEF Confirm, walletVars, OperatorTyped
  <1>11. CASE GiveUp
    BY <1>11 DEF GiveUp, walletVars, OperatorTyped, Passes
  <1>12. CASE Record
    <2>1. keeper.row \in Row
      BY <1>12, PassesAre DEF OperatorTyped, Record, HasRow
    <2>2. log' \in Seq(Row)
      BY <1>12, <2>1, LogGrows DEF Record, OperatorTyped
    <2> QED BY <1>12, <2>2 DEF Record, walletVars, OperatorTyped, Passes
  <1>13. CASE \E q \in Requests : Approve(q)
    <2>1. PICK q \in Requests : Approve(q)
      BY <1>13
    <2>2. PICK row \in Pending :
             /\ desk' = [desk EXCEPT ![q] = [pc |-> "waiting", row |-> row]]
             /\ txs' = txs \cup {Tx(q, row)}
      BY <2>1 DEF Approve
    <2>3. row \in Row
      BY LogHoldsWhatIsRead DEF OperatorTyped
    <2>4. desk' \in [Requests -> Approvals]
      BY <2>2, <2>3 DEF OperatorTyped, Approvals
    <2>5. txs' \subseteq Transactions
      BY <2>2, <2>3, TransactionIsTyped DEF OperatorTyped
    <2> QED BY <2>1, <2>4, <2>5 DEF Approve, walletVars, OperatorTyped
  <1>14. CASE \E q \in Requests : NotApproved(q)
    BY <1>14 DEF NotApproved, walletVars, OperatorTyped, Approvals
  <1>15. ASSUME NEW row \in Row, NEW intent \in {"pay", "refuse"}, NEW paid \in Nat,
                NEW tx \in 0..MaxTime, Settle(row, intent, paid, tx)
         PROVE  /\ log' \in Seq(Row) /\ now' = now + 1 /\ bought \subseteq 1..(now' - 1)
                /\ now' > 0
    <2>1. Settled(row, intent, paid, tx) \in Row
      BY <1>1, SettledIsTyped
    <2>2. log' \in Seq(Row)
      BY <1>15, <2>1, LogGrows DEF Settle, Settled, OperatorTyped
    <2> QED BY <1>1, <1>15, <2>2, WalletTicks DEF Settle, OperatorTyped
  <1>16. CASE \E q \in Requests : Approved(q)
    <2>1. PICK q \in Requests : Approved(q)
      BY <1>16
    <2>2. desk[q].row \in Row
      BY <2>1, ApprovalsAre DEF Approved, OperatorTyped
    <2>3. desk[q].row.units \in Nat /\ desk[q].row.at \in 0..MaxTime
      BY <2>2, ConfirmedIsTyped DEF Row
    <2>4. /\ log' \in Seq(Row) /\ now' = now + 1 /\ bought \subseteq 1..(now' - 1) /\ now' > 0
      BY <1>15, <2>1, <2>2, <2>3 DEF Approved
    <2> QED BY <2>1, <2>4 DEF Approved, OperatorTyped, Approvals
  <1>17. CASE Reject
    <2>1. PICK row \in Pending : Settle(row, "refuse", 0, 0)
      BY <1>17 DEF Reject
    <2>2. row \in Row
      BY LogHoldsWhatIsRead DEF OperatorTyped
    <2>3. /\ log' \in Seq(Row) /\ now' = now + 1 /\ bought \subseteq 1..(now' - 1) /\ now' > 0
      BY <1>15, <2>1, <2>2
    <2> QED BY <1>17, <2>3 DEF Reject, OperatorTyped
  <1>18. CASE Crash
    BY <1>18 DEF Crash, Kept, walletVars, OperatorTyped, Passes, Approvals
  <1> QED
    BY <1>3, <1>4, <1>5, <1>6, <1>7, <1>8, <1>9, <1>10, <1>11, <1>12, <1>13, <1>14,
       <1>16, <1>17, <1>18, <1>19
    DEF Next, Keeper, Console


-----------------------------------------------------------------------------
(* What a step does to the log, the pass, the desk, the transactions and   *)
(* the payments.                                                           *)

\* Nothing is written or sent; a pass may start or end, an approval may end.
Drops ==
    /\ UNCHANGED <<log, txs, spentLog>> /\ now' >= now
    /\ keeper' = keeper \/ keeper'.pc \in {"idle", "judging"}
    /\ \A q \in Requests : desk'[q] = desk[q] \/ desk'[q] = Idle

\* A block: the transaction is over, and it has paid if it was mined.
PaysFor(tx) ==
    /\ Len(spentLog') = Len(spentLog) + 1
    /\ \A i \in Payments : spentLog'[i] = spentLog[i]
    /\ spentLog'[Len(spentLog) + 1].decision = tx.decision
    /\ spentLog'[Len(spentLog) + 1].amount = tx.units
    /\ (spentLog'[Len(spentLog) + 1].path = "owner") = (tx.by # "keeper")
    /\ tx.decision \notin consumed
Blocks(tx, state) ==
    /\ Block(tx, state) /\ now' = now
    /\ state = "mined" => PaysFor(tx)
    /\ state = "reverted" => spentLog' = spentLog

Judges(row) == RowMade(row) /\ now' = now + 1 /\ UNCHANGED <<log, desk, txs, spentLog>>
Sends ==
    /\ keeper.pc = "sending" /\ keeper' = [pc |-> "waiting", row |-> keeper.row]
    /\ txs' = txs \cup {Tx("keeper", keeper.row)}
    /\ UNCHANGED <<log, desk, spentLog, now>>
Confirms ==
    /\ keeper.pc = "waiting" /\ Mined("keeper", keeper.row) \in txs
    /\ keeper' = [pc |-> "recording", row |-> Confirmed(keeper.row)]
    /\ UNCHANGED <<log, desk, txs, spentLog, now>>
Records ==
    /\ keeper.pc = "recording" /\ keeper' = Idle
    /\ log' = log \/ Grows(keeper.row)
    /\ UNCHANGED <<desk, txs, spentLog, now>>
Asks(q, row) ==
    /\ row \in Pending /\ desk' = [desk EXCEPT ![q] = [pc |-> "waiting", row |-> row]]
    /\ txs' = txs \cup {Tx(q, row)}
    /\ UNCHANGED <<log, keeper, spentLog, now>>
Settles(q) ==
    /\ desk[q].pc = "waiting" /\ Mined(q, desk[q].row) \in txs
    /\ desk' = [desk EXCEPT ![q] = Idle] /\ now' = now + 1
    /\ \/ log' = log
       \/ Grows(Settled(desk[q].row, "pay", desk[q].row.units, desk[q].row.at))
    /\ UNCHANGED <<keeper, txs, spentLog>>
Rejects(row) ==
    /\ row \in Pending /\ now' = now + 1
    /\ log' = log \/ Grows(Settled(row, "refuse", 0, 0))
    /\ UNCHANGED <<keeper, desk, txs, spentLog>>

LEMMA TransactionPays ==
    ASSUME Paying!IInv, OperatorTyped, NEW tx \in txs,
           IF tx.by = "keeper"
           THEN Wallet!Spend(Agent, Category, Vendor, tx.units, tx.decision)
           ELSE Wallet!SpendAsOwner(Owner, Category, Vendor, tx.units, tx.decision)
    PROVE  PaysFor(tx) /\ now' = now
  <1>1. spentLog \in Seq(Paying!Spent)
    BY DEF Paying!IInv, Paying!TypeOK
  <1>2. ASSUME NEW s, NEW path, NEW n,
               Wallet!Pay(s, Category, Vendor, tx.units, tx.decision, path, n),
               (path = "owner") = (tx.by # "keeper")
        PROVE  PaysFor(tx) /\ now' = now
    <2>1. PICK e : /\ spentLog' = Append(spentLog, e) /\ e.decision = tx.decision
                   /\ e.amount = tx.units /\ e.path = path
      BY <1>2 DEF Wallet!Pay
    <2>2. tx.decision \notin consumed /\ now' = now
      BY <1>2 DEF Wallet!Pay, Wallet!Fresh
    <2>3. /\ Len(spentLog') = Len(spentLog) + 1 /\ spentLog'[Len(spentLog) + 1] = e
          /\ \A i \in Payments : spentLog'[i] = spentLog[i]
      BY <1>1, <2>1 DEF Payments
    <2> QED BY <1>2, <2>1, <2>2, <2>3 DEF PaysFor
  <1>3. CASE tx.by = "keeper"
    <2>1. Wallet!Pay(Agent, Category, Vendor, tx.units, tx.decision, "agent", approvalNonce)
      BY <1>3 DEF Wallet!Spend
    <2> QED BY <1>2, <1>3, <2>1
  <1>4. CASE tx.by # "keeper"
    <2>1. Wallet!Pay(Owner, Category, Vendor, tx.units, tx.decision, "owner", approvalNonce)
      BY <1>4 DEF Wallet!SpendAsOwner
    <2> QED BY <1>2, <1>4, <2>1
  <1> QED BY <1>3, <1>4

LEMMA StepMoves ==
    ASSUME Paying!IInv, OperatorTyped, [Next]_vars
    PROVE  \/ Drops
           \/ \E tx \in txs, state \in {"mined", "reverted"} : Blocks(tx, state)
           \/ \E row : Judges(row)
           \/ Sends \/ Confirms \/ Records
           \/ \E q \in Requests, row \in Pending : Asks(q, row)
           \/ \E q \in Requests : Settles(q)
           \/ \E row \in Pending : Rejects(row)
  <1>1. now \in Moments /\ now \in Nat
    BY NowIsAMoment DEF Moments
  <1>2. CASE UNCHANGED vars
    BY <1>1, <1>2 DEF vars, walletVars, Drops
  <1>3. CASE Consume
    <2>1. spentLog' = spentLog /\ now' = now + 1
      BY <1>3 DEF Consume, Wallet!Tick
    <2> QED BY <1>1, <1>3, <2>1 DEF Consume, Drops
  <1>18. CASE OthersConsume
    BY <1>1, <1>18 DEF OthersConsume, walletVars, Drops
  <1>4. CASE Chain
    <2>1. PICK tx \in txs : Execute(tx)
      BY <1>4 DEF Chain
    <2>2. PICK state \in {"mined", "reverted"} :
              /\ Block(tx, state)
              /\ state = "reverted" => UNCHANGED walletVars
              /\ state = "mined" =>
                   IF tx.by = "keeper"
                   THEN Wallet!Spend(Agent, Category, Vendor, tx.units, tx.decision)
                   ELSE Wallet!SpendAsOwner(Owner, Category, Vendor, tx.units, tx.decision)
      BY <2>1, BlockIs
    <2>3. CASE state = "mined"
      BY <2>2, <2>3, TransactionPays DEF Blocks
    <2>4. CASE state = "reverted"
      BY <2>2, <2>4 DEF Blocks, walletVars
    <2> QED BY <2>3, <2>4
  <1>5. CASE ChangeBudget
    BY <1>1, <1>5 DEF ChangeBudget, Wallet!SetBudget, Drops
  <1>6. CASE StartPass
    BY <1>1, <1>6 DEF StartPass, walletVars, Drops
  <1>7. CASE Judge
    <2>1. PICK row : RowMade(row)
      BY <1>7, JudgmentMakes
    <2>2. UNCHANGED <<log, desk, txs, spentLog>> /\ now' = now + 1
      BY <1>7 DEF Judge, Wallet!Tick
    <2> QED BY <2>1, <2>2 DEF Judges
  <1>8. CASE Send
    BY <1>8, SendingIs DEF Send, Sends, walletVars, OperatorTyped
  <1>9. CASE Confirm
    BY <1>9, ConfirmationIs DEF Confirm, Confirms, walletVars, OperatorTyped
  <1>10. CASE GiveUp
    BY <1>1, <1>10 DEF GiveUp, Idle, Drops, walletVars
  <1>11. CASE Record
    <2>1. keeper.row \in Row
      BY <1>11, PassesAre DEF Record, HasRow, OperatorTyped
    <2>2. log' = log \/ Grows(keeper.row)
      BY <1>11, <2>1, LogGrows DEF Record, OperatorTyped
    <2> QED BY <1>11, <2>2 DEF Record, Records, walletVars
  <1>12. CASE \E q \in Requests : Approve(q)
    BY <1>12 DEF Approve, Asks, walletVars
  <1>13. CASE \E q \in Requests : NotApproved(q)
    <2>1. PICK q \in Requests : NotApproved(q)
      BY <1>13
    <2>2. \A p \in Requests : desk'[p] = desk[p] \/ desk'[p] = Idle
      BY <2>1 DEF NotApproved, OperatorTyped
    <2> QED BY <1>1, <2>1, <2>2 DEF NotApproved, Drops, walletVars
  <1>14. ASSUME NEW row \in Row, NEW intent \in {"pay", "refuse"}, NEW paid \in Nat,
                NEW tx \in 0..MaxTime, Settle(row, intent, paid, tx)
         PROVE  /\ log' = log \/ Grows(Settled(row, intent, paid, tx))
                /\ now' = now + 1 /\ spentLog' = spentLog
    <2>1. Settled(row, intent, paid, tx) \in Row
      BY <1>1, SettledIsTyped
    <2>2. log' = log \/ Grows(Settled(row, intent, paid, tx))
      BY <1>14, <2>1, LogGrows DEF Settle, Settled, OperatorTyped
    <2> QED BY <1>14, <2>2 DEF Settle, Wallet!Tick
  <1>15. CASE \E q \in Requests : Approved(q)
    <2>1. PICK q \in Requests : Approved(q)
      BY <1>15
    <2>2. desk[q].row \in Row
      BY <2>1, ApprovalsAre DEF Approved, OperatorTyped
    <2>3. desk[q].row.units \in Nat /\ desk[q].row.at \in 0..MaxTime
      BY <2>2, ConfirmedIsTyped DEF Row
    <2>4. /\ log' = log \/ Grows(Settled(desk[q].row, "pay", desk[q].row.units, desk[q].row.at))
          /\ now' = now + 1 /\ spentLog' = spentLog
      BY <1>14, <2>1, <2>2, <2>3 DEF Approved
    <2> QED BY <2>1, <2>4 DEF Approved, Settles
  <1>16. CASE Reject
    <2>1. PICK row \in Pending : Settle(row, "refuse", 0, 0)
      BY <1>16 DEF Reject
    <2>2. row \in Row
      BY LogHoldsWhatIsRead DEF OperatorTyped
    <2>3. /\ log' = log \/ Grows(Settled(row, "refuse", 0, 0))
          /\ now' = now + 1 /\ spentLog' = spentLog
      BY <1>14, <2>1, <2>2
    <2> QED BY <1>16, <2>1, <2>3 DEF Reject, Rejects
  <1>17. CASE Crash
    BY <1>1, <1>17 DEF Crash, Idle, Drops, walletVars
  <1> QED
    BY <1>2, <1>3, <1>4, <1>5, <1>6, <1>7, <1>8, <1>9, <1>10, <1>11, <1>12, <1>13,
       <1>15, <1>16, <1>17, <1>18
    DEF Next, Keeper, Console


-----------------------------------------------------------------------------
(* The invariant of the log, part by part.                                 *)

LEMMA LogIsTyped ==
    ASSUME CInv
    PROVE  /\ Paying!IInv /\ OperatorTyped /\ now \in Moments /\ now \in Nat
           /\ Len(log) \in Nat /\ DOMAIN log = 1..Len(log)
           /\ \A n \in DOMAIN log : log[n] \in Row
           /\ \A row \in Row : /\ row.at \in Nat /\ row.units \in Nat /\ row.units > 0
                               /\ row.at \in 0..MaxTime /\ row.paid \in Nat
           /\ keeper.pc \in {"idle", "judging", "sending", "waiting", "recording"}
           /\ HasRow => keeper.row \in Row
           /\ \A q \in Requests : desk[q].pc = "waiting" => desk[q].row \in Row
           /\ \A row \in Pending : row \in Row /\ row.intent = "escalate"
           /\ \A row \in Pending : \E n \in DOMAIN log : log[n] = row
  <1>1. Paying!IInv /\ OperatorTyped /\ now \in Moments /\ now \in Nat
    BY NowIsAMoment DEF CInv, Moments
  <1>2. \A row \in Row : /\ row.at \in Nat /\ row.units \in Nat /\ row.units > 0
                         /\ row.at \in 0..MaxTime /\ row.paid \in Nat
    <2> SUFFICES ASSUME NEW row \in Row
                 PROVE  /\ row.at \in Nat /\ row.units \in Nat /\ row.units > 0
                        /\ row.at \in 0..MaxTime /\ row.paid \in Nat
      OBVIOUS
    <2>1. row.units \in 1..MaxTape /\ row.at \in Moments /\ row.paid \in Nat
      BY DEF Row
    <2>2. \A n \in 1..MaxTape : n \in Nat /\ n > 0
      OBVIOUS
    <2>3. \A n \in 1..MaxTime : n \in Nat /\ n \in 0..MaxTime
      OBVIOUS
    <2> QED BY ONLY <2>1, <2>2, <2>3 DEF Moments
  <1>3. /\ Len(log) \in Nat /\ DOMAIN log = 1..Len(log)
        /\ \A n \in DOMAIN log : log[n] \in Row
    BY <1>1 DEF OperatorTyped
  <1>4. /\ keeper.pc \in {"idle", "judging", "sending", "waiting", "recording"}
        /\ HasRow => keeper.row \in Row
    BY <1>1, PassesAre DEF OperatorTyped
  <1>5. \A q \in Requests : desk[q].pc = "waiting" => desk[q].row \in Row
    BY <1>1, ApprovalsAre DEF OperatorTyped
  <1>6. /\ \A row \in Pending : row \in Row /\ row.intent = "escalate"
        /\ \A row \in Pending : \E n \in DOMAIN log : log[n] = row
    BY <1>1, LogHoldsWhatIsRead DEF OperatorTyped
  <1> QED BY <1>1, <1>2, <1>3, <1>4, <1>5, <1>6

\* What an approval writes when it is seen paid.
LEMMA SettlementIs ==
    ASSUME CInv, NEW q \in Requests, Settles(q)
    PROVE  LET row == desk[q].row
               s == Settled(row, "pay", row.units, row.at)
           IN  /\ row \in Row /\ s \in Row /\ s.at = now /\ s.intent = "pay"
               /\ s.actor = "owner" /\ s.paid = row.units /\ s.tx = row.at
               /\ s.id = row.id /\ s.units = row.units
  <1>1. desk[q].row \in Row /\ now \in Moments
    BY LogIsTyped DEF Settles
  <1>2. PICK row \in Row : row = desk[q].row
    BY <1>1
  <1>3. row.units \in Nat /\ row.at \in 0..MaxTime
    BY LogIsTyped
  <1>4. \A paid \in Nat, tx \in 0..MaxTime :
           LET s == Settled(row, "pay", paid, tx)
           IN  /\ s \in Row /\ s.at = now /\ s.intent = "pay" /\ s.actor = "owner"
               /\ s.paid = paid /\ s.tx = tx /\ s.id = row.id /\ s.units = row.units
    BY <1>1, SettledIsTyped
  <1> QED BY <1>2, <1>3, <1>4

\* A row added to the log, and the rows that were in it.
LEMMA GrownLog ==
    ASSUME CInv, NEW row, Grows(row)
    PROVE  /\ DOMAIN log' = DOMAIN log \cup {Len(log) + 1} /\ Len(log) + 1 \notin DOMAIN log
           /\ \A n \in DOMAIN log : log'[n] = log[n] /\ n < Len(log) + 1 /\ n \in Nat
           /\ log'[Len(log) + 1] = row
  <1>1. Len(log) \in Nat /\ DOMAIN log = 1..Len(log) /\ DOMAIN log' = 1..(Len(log) + 1)
    BY LogIsTyped DEF Grows
  <1> QED BY <1>1 DEF Grows

LogIsDated ==
    /\ \A n \in DOMAIN log : log[n].at < now
    /\ \A m, n \in DOMAIN log : log[m].at = log[n].at => m = n

LEMMA GrownIsDated ==
    ASSUME CInv, NEW row, Grows(row), row.at \in Nat, now' \in Nat, now' >= now,
           row.at < now', \A n \in DOMAIN log : log[n].at # row.at
    PROVE  LogIsDated'
  <1>1. LogIsDated /\ \A n \in DOMAIN log : log[n].at \in Nat
    BY LogIsTyped DEF CInv, RecordsAreDated, LogIsDated
  <1>2. \A n \in DOMAIN log' : log'[n].at < now'
    BY <1>1, LogIsTyped, GrownLog DEF LogIsDated
  <1>3. \A m, n \in DOMAIN log' : log'[m].at = log'[n].at => m = n
    BY <1>1, GrownLog DEF LogIsDated
  <1> QED BY <1>2, <1>3 DEF LogIsDated

LEMMA RecordsStayDated ==
    ASSUME CInv, [Next]_vars
    PROVE  RecordsAreDated'
  <1>1. /\ LogIsDated /\ now \in Nat /\ \A n \in DOMAIN log : log[n].at \in Nat
        /\ HasRow => keeper.row.at \in Nat /\ keeper.row.at < now
        /\ HasRow => \A n \in DOMAIN log : log[n].at # keeper.row.at
    BY LogIsTyped DEF CInv, RecordsAreDated, LogIsDated
  <1>2. RecordsAreDated' <=> /\ LogIsDated'
                             /\ HasRow' => /\ keeper'.row.at < now'
                                           /\ \A n \in DOMAIN log' : log'[n].at # keeper'.row.at
    BY DEF RecordsAreDated, LogIsDated
  <1>3. ASSUME log' = log, now' \in Nat, now' >= now PROVE LogIsDated'
    BY <1>1, <1>3 DEF LogIsDated
  <1>4. now' \in Nat
    BY LogIsTyped, TypesAreKept, WalletIsKept, <1>1, StepMoves
    DEF Drops, Blocks, Judges, Sends, Confirms, Records, Asks, Settles, Rejects, Paying!IInv, Paying!TypeOK
  <1>5. CASE Drops
    <2>1. keeper' = keeper \/ ~HasRow'
      BY <1>5 DEF Drops, HasRow
    <2> QED BY <1>1, <1>2, <1>3, <1>4, <1>5, <2>1 DEF Drops, HasRow
  <1>6. CASE \E tx \in txs, state \in {"mined", "reverted"} : Blocks(tx, state)
    BY <1>1, <1>2, <1>3, <1>4, <1>6 DEF Blocks, Block, HasRow
  <1>7. CASE \E row : Judges(row)
    BY <1>1, <1>2, <1>3, <1>4, <1>7 DEF Judges, RowMade, LogIsDated
  <1>8. CASE Sends
    BY <1>1, <1>2, <1>3, <1>4, <1>8 DEF Sends, HasRow
  <1>9. CASE Confirms
    <2>1. Confirmed(keeper.row).at = keeper.row.at
      BY <1>9, LogIsTyped, ConfirmedIsTyped DEF Confirms, HasRow
    <2> QED BY <1>1, <1>2, <1>3, <1>4, <1>9, <2>1 DEF Confirms, HasRow
  <1>10. CASE Records
    <2>1. ~HasRow'
      BY <1>10 DEF Records, HasRow, Idle
    <2>2. LogIsDated'
      BY <1>1, <1>3, <1>4, <1>10, GrownIsDated DEF Records, HasRow
    <2> QED BY <1>2, <2>1, <2>2
  <1>11. CASE \E q \in Requests, row \in Pending : Asks(q, row)
    BY <1>1, <1>2, <1>3, <1>4, <1>11 DEF Asks, HasRow
  <1>12. ASSUME NEW row, row.at = now, log' = log \/ Grows(row), now' = now + 1,
                keeper' = keeper
         PROVE  RecordsAreDated'
    <2>1. \A n \in DOMAIN log : log[n].at # now
      BY <1>1 DEF LogIsDated
    <2>2. LogIsDated'
      BY <1>1, <1>3, <1>4, <1>12, <2>1, GrownIsDated
    <2>3. ASSUME HasRow' PROVE \A n \in DOMAIN log' : log'[n].at # keeper'.row.at
      BY <1>1, <1>12, <2>3, GrownLog DEF HasRow
    <2> QED BY <1>1, <1>2, <1>12, <2>2, <2>3 DEF HasRow
  <1>13. CASE \E q \in Requests : Settles(q)
    <2>1. PICK q \in Requests : Settles(q)
      BY <1>13
    <2> DEFINE row == Settled(desk[q].row, "pay", desk[q].row.units, desk[q].row.at)
    <2>2. row.at = now
      BY <2>1, SettlementIs
    <2>3. (log' = log \/ Grows(row)) /\ now' = now + 1 /\ keeper' = keeper
      BY <2>1 DEF Settles
    <2> HIDE DEF row
    <2> QED BY <1>12, <2>2, <2>3
  <1>14. CASE \E row \in Pending : Rejects(row)
    <2>1. PICK r \in Pending : Rejects(r)
      BY <1>14
    <2> DEFINE row == Settled(r, "refuse", 0, 0)
    <2>2. row.at = now
      BY LogIsTyped, SettledIsTyped
    <2>3. (log' = log \/ Grows(row)) /\ now' = now + 1 /\ keeper' = keeper
      BY <2>1 DEF Rejects
    <2> HIDE DEF row
    <2> QED BY <1>12, <2>2, <2>3
  <1> QED BY <1>5, <1>6, <1>7, <1>8, <1>9, <1>10, <1>11, <1>13, <1>14, StepMoves, LogIsTyped


LEMMA KeeperRowStaysSound ==
    ASSUME CInv, [Next]_vars
    PROVE  KeeperRowIsSound'
  <1>1. KeeperRowIsSound
    BY DEF CInv
  <1>2. CASE keeper' = keeper \/ keeper'.pc \in {"idle", "judging"}
    BY <1>1, <1>2 DEF KeeperRowIsSound, HasRow
  <1>3. CASE \E row : Judges(row)
    BY <1>3 DEF Judges, RowMade, KeeperRowIsSound, HasRow
  <1>4. CASE Sends
    BY <1>1, <1>4 DEF Sends, KeeperRowIsSound, HasRow
  <1>5. CASE Confirms
    <2>1. keeper.row \in Row /\ keeper.row.units > 0
      BY <1>5, LogIsTyped DEF Confirms, HasRow
    <2> DEFINE c == Confirmed(keeper.row)
    <2>2. /\ c.paid = keeper.row.units /\ c.tx = keeper.row.at /\ c.at = keeper.row.at
          /\ c.intent = keeper.row.intent /\ c.actor = keeper.row.actor
          /\ c.units = keeper.row.units
      BY <2>1, ConfirmedIsTyped
    <2>3. keeper.row.actor = "agent" /\ keeper.row.intent = "pay"
      BY <1>1, <1>5 DEF Confirms, KeeperRowIsSound, HasRow
    <2>4. keeper'.pc = "recording" /\ keeper'.row = c
      BY <1>5 DEF Confirms
    <2> HIDE DEF c
    <2>5. c.paid # 0
      BY <2>1, <2>2, LogIsTyped
    <2> QED BY <2>2, <2>3, <2>4, <2>5 DEF KeeperRowIsSound
  <1>6. keeper' = keeper \/ keeper'.pc \in {"idle", "judging"} \/ (\E row : Judges(row))
          \/ Sends \/ Confirms
    BY StepMoves, LogIsTyped
    DEF Drops, Blocks, Block, Records, Idle, Asks, Settles, Rejects
  <1> QED BY <1>2, <1>3, <1>4, <1>5, <1>6

\* The row a step may add to the log: the keeper's, or the owner's outcome.
Adds(row) ==
    \/ keeper.pc = "recording" /\ row = keeper.row
    \/ \E q \in Requests : /\ Settles(q)
                           /\ row = Settled(desk[q].row, "pay", desk[q].row.units, desk[q].row.at)
    \/ \E r \in Pending : row = Settled(r, "refuse", 0, 0)

LEMMA LogStaysOrAdds ==
    ASSUME CInv, [Next]_vars
    PROVE  log' = log \/ \E row : Grows(row) /\ Adds(row)
  <1>1. CASE Records
    BY <1>1 DEF Records, Adds
  <1>2. CASE \E q \in Requests : Settles(q)
    BY <1>2 DEF Settles, Adds
  <1>3. CASE \E row \in Pending : Rejects(row)
    BY <1>3 DEF Rejects, Adds
  <1>4. CASE log' = log
    BY <1>4
  <1> QED
    BY <1>1, <1>2, <1>3, <1>4, StepMoves, LogIsTyped
    DEF Drops, Blocks, Block, Judges, Sends, Confirms, Asks

\* What was in the log and among the payments stays there.
LEMMA RecordsStay ==
    ASSUME CInv, [Next]_vars
    PROVE  /\ \A n \in DOMAIN log : n \in DOMAIN log' /\ log'[n] = log[n]
           /\ \A i \in Payments : i \in Payments' /\ spentLog'[i] = spentLog[i]
  <1>1. \A n \in DOMAIN log : n \in DOMAIN log' /\ log'[n] = log[n]
    BY LogStaysOrAdds, GrownLog
  <1>2. CASE spentLog' = spentLog
    BY <1>1, <1>2 DEF Payments
  <1>3. CASE \E tx \in txs : PaysFor(tx)
    <2>1. /\ Len(spentLog') = Len(spentLog) + 1
          /\ \A i \in Payments : spentLog'[i] = spentLog[i]
      BY <1>3 DEF PaysFor
    <2>2. spentLog \in Seq(Paying!Spent) /\ spentLog' \in Seq(Paying!Spent')
      BY LogIsTyped, WalletIsKept DEF Paying!IInv, Paying!TypeOK
    <2>3. \A i \in Payments : i \in Payments'
      BY <2>1, <2>2 DEF Payments
    <2> QED BY <1>1, <2>1, <2>3
  <1>4. spentLog' = spentLog \/ \E tx \in txs : PaysFor(tx)
    BY StepMoves, LogIsTyped
    DEF Drops, Blocks, Judges, Sends, Confirms, Records, Asks, Settles, Rejects
  <1> QED BY <1>2, <1>3, <1>4

LEMMA PaidStaysPaid ==
    ASSUME CInv, [Next]_vars, NEW decision, NEW units, NEW byOwner,
           IsPaid(decision, units, byOwner)
    PROVE  IsPaid(decision, units, byOwner)'
  <1>1. PICK i \in Payments : /\ spentLog[i].decision = decision /\ spentLog[i].amount = units
                              /\ (spentLog[i].path = "owner") = byOwner
    BY DEF IsPaid
  <1>2. i \in Payments' /\ spentLog'[i] = spentLog[i]
    BY RecordsStay
  <1> QED BY <1>1, <1>2 DEF IsPaid

LEMMA EscalatedStaysEscalated ==
    ASSUME CInv, [Next]_vars, NEW decision, NEW units, EscalatedAs(decision, units)
    PROVE  EscalatedAs(decision, units)'
  BY RecordsStay DEF EscalatedAs


\* What is paid for is on the wallet's record.
LEMMA PaidIsConsumed ==
    ASSUME CInv, NEW decision, NEW units, NEW byOwner, IsPaid(decision, units, byOwner)
    PROVE  decision \in consumed
  BY DEF CInv, Paying!IInv, Paying!EventsAreOnRecord, Paying!Events, IsPaid, Payments

LEMMA PaysForIsPaid ==
    ASSUME CInv, [Next]_vars, NEW tx \in txs, PaysFor(tx)
    PROVE  /\ Payments' = Payments \cup {Len(spentLog) + 1}
           /\ IsPaid(tx.decision, tx.units, tx.by # "keeper")'
  <1>1. /\ spentLog \in Seq(Paying!Spent) /\ spentLog' \in Seq(Paying!Spent')
    BY LogIsTyped, WalletIsKept DEF Paying!IInv, Paying!TypeOK
  <1>2. Len(spentLog) \in Nat /\ DOMAIN spentLog = 1..Len(spentLog)
    BY <1>1
  <1>3. DOMAIN spentLog' = 1..(Len(spentLog) + 1)
    BY <1>1 DEF PaysFor
  <1>4. Payments' = Payments \cup {Len(spentLog) + 1}
    BY <1>2, <1>3 DEF Payments
  <1> DEFINE k == Len(spentLog) + 1
  <1>5. /\ k \in Payments' /\ spentLog'[k].decision = tx.decision
        /\ spentLog'[k].amount = tx.units
        /\ (spentLog'[k].path = "owner") = (tx.by # "keeper")
    BY <1>4 DEF PaysFor
  <1> HIDE DEF k
  <1>6. IsPaid(tx.decision, tx.units, tx.by # "keeper")'
    BY <1>5 DEF IsPaid
  <1> QED BY <1>4, <1>6

\* Where a transaction comes from.
SentAs(tx) ==
    \/ tx.by = "keeper" /\ keeper.pc = "sending" /\ tx.decision = keeper.row.at
    \/ \E row \in Pending : tx.decision = row.at /\ tx.units = row.units

LEMMA TransactionsCome ==
    ASSUME CInv, [Next]_vars, NEW new \in txs'
    PROVE  \/ new \in txs
           \/ new.state = "pending" /\ SentAs(new)
           \/ \E tx \in txs, state \in {"mined", "reverted"} :
                 Blocks(tx, state) /\ new = Over(tx, state)
  <1>1. CASE Sends
    <2>1. keeper.row \in Row
      BY <1>1, LogIsTyped DEF Sends, HasRow
    <2> QED BY <1>1, <2>1, TransactionIsTyped DEF Sends, SentAs
  <1>2. CASE \E q \in Requests, row \in Pending : Asks(q, row)
    <2>1. PICK q \in Requests, row \in Pending : Asks(q, row)
      BY <1>2
    <2>2. row \in Row
      BY LogIsTyped
    <2> QED BY <2>1, <2>2, TransactionIsTyped DEF Asks, SentAs
  <1>3. CASE \E tx \in txs, state \in {"mined", "reverted"} : Blocks(tx, state)
    BY <1>3 DEF Blocks, Block
  <1>4. CASE txs' = txs
    BY <1>4
  <1> QED
    BY <1>1, <1>2, <1>3, <1>4, StepMoves, LogIsTyped
    DEF Drops, Judges, Confirms, Records, Settles, Rejects

LEMMA TransactionsStayTrue ==
    ASSUME CInv, [Next]_vars
    PROVE  MinedIsPaid' /\ MinedOnce' /\ OwnersSendEscalations'
  <1>1. MinedIsPaid /\ MinedOnce /\ OwnersSendEscalations
    BY DEF CInv
  <1>2. ASSUME NEW new \in txs', new.state = "mined", new \notin txs
        PROVE  \E tx \in txs : /\ Blocks(tx, "mined") /\ new = Over(tx, "mined")
                               /\ PaysFor(tx) /\ new.decision = tx.decision
                               /\ new.units = tx.units /\ new.by = tx.by
    BY <1>2, TransactionsCome DEF Blocks, Block
  <1>3. ASSUME NEW new \in txs', new.state = "mined"
        PROVE  IsPaid(new.decision, new.units, new.by # "keeper")'
    <2>1. CASE new \in txs
      BY <1>1, <1>3, <2>1, PaidStaysPaid DEF MinedIsPaid
    <2>2. CASE new \notin txs
      BY <1>2, <1>3, <2>2, PaysForIsPaid
    <2> QED BY <2>1, <2>2
  <1>4. ASSUME NEW new \in txs', NEW other \in txs', new.state = "mined",
               other.state = "mined", new.decision = other.decision, new \notin txs
        PROVE  new = other
    <2>1. PICK tx \in txs : /\ Blocks(tx, "mined") /\ new = Over(tx, "mined") /\ PaysFor(tx)
                            /\ new.decision = tx.decision
      BY <1>2, <1>4
    <2>2. txs' = (txs \ {tx}) \cup {new}
      BY <2>1 DEF Blocks, Block
    <2>3. new.decision \notin consumed
      BY <2>1 DEF PaysFor
    <2>4. ASSUME other \in txs PROVE FALSE
      <3>1. IsPaid(other.decision, other.units, other.by # "keeper")
        BY <1>1, <1>4, <2>4 DEF MinedIsPaid
      <3> QED BY <1>4, <2>3, <3>1, PaidIsConsumed
    <2> QED BY <2>2, <2>4
  <1>5. MinedOnce'
    BY <1>1, <1>4 DEF MinedOnce
  <1>6. ASSUME NEW new \in txs', new.by # "keeper"
        PROVE  EscalatedAs(new.decision, new.units)'
    <2>1. CASE new \in txs
      BY <1>1, <1>6, <2>1, EscalatedStaysEscalated DEF OwnersSendEscalations
    <2>2. CASE SentAs(new)
      <3>1. PICK row \in Pending : new.decision = row.at /\ new.units = row.units
        BY <1>6, <2>2 DEF SentAs
      <3>2. EscalatedAs(new.decision, new.units)
        BY <3>1, LogIsTyped DEF EscalatedAs
      <3> QED BY <3>2, EscalatedStaysEscalated
    <2>3. CASE \E tx \in txs, state \in {"mined", "reverted"} :
                  Blocks(tx, state) /\ new = Over(tx, state)
      <3>1. PICK tx \in txs : /\ new.by = tx.by /\ new.decision = tx.decision
                              /\ new.units = tx.units
        BY <2>3 DEF Blocks, Block
      <3>2. EscalatedAs(new.decision, new.units)
        BY <1>1, <1>6, <3>1 DEF OwnersSendEscalations
      <3> QED BY <3>2, EscalatedStaysEscalated
    <2> QED BY <2>1, <2>2, <2>3, TransactionsCome
  <1> QED BY <1>3, <1>5, <1>6 DEF MinedIsPaid, OwnersSendEscalations

LEMMA OwnersPaymentsStayEscalated ==
    ASSUME CInv, [Next]_vars
    PROVE  OwnerPaysEscalationsOnly'
  <1> DEFINE Right(i) == spentLog[i].path = "owner" =>
                            EscalatedAs(spentLog[i].decision, spentLog[i].amount)
  <1>1. OwnerPaysEscalationsOnly <=> \A i \in Payments : Right(i)
    BY DEF OwnerPaysEscalationsOnly, EscalatedAs
  <1>2. OwnerPaysEscalationsOnly' <=> \A i \in Payments' : Right(i)'
    BY DEF OwnerPaysEscalationsOnly, EscalatedAs
  <1>3. ASSUME NEW i, NEW d, NEW u, spentLog'[i].decision = d, spentLog'[i].amount = u,
               spentLog'[i].path = "owner" => EscalatedAs(d, u)
        PROVE  Right(i)'
    <2>1. spentLog'[i].path = "owner" => EscalatedAs(d, u)'
      BY <1>3, EscalatedStaysEscalated
    <2> QED BY <1>3, <2>1
  <1>4. ASSUME NEW i \in Payments PROVE Right(i)'
    <2>1. spentLog'[i] = spentLog[i] /\ Right(i)
      BY <1>1, RecordsStay DEF CInv
    <2>2. PICK d, u : d = spentLog[i].decision /\ u = spentLog[i].amount
      OBVIOUS
    <2>3. spentLog[i].path = "owner" => EscalatedAs(d, u)
      BY <2>1, <2>2
    <2> HIDE DEF Right
    <2> QED BY <1>3, <2>1, <2>2, <2>3
  <1>5. ASSUME NEW tx \in txs, PaysFor(tx), NEW k, k = Len(spentLog) + 1 PROVE Right(k)'
    <2>1. tx.by # "keeper" => EscalatedAs(tx.decision, tx.units)
      BY DEF CInv, OwnersSendEscalations
    <2>3. /\ spentLog'[k].decision = tx.decision /\ spentLog'[k].amount = tx.units
          /\ spentLog'[k].path = "owner" => EscalatedAs(tx.decision, tx.units)
      BY <1>5, <2>1 DEF PaysFor
    <2> HIDE DEF Right
    <2> QED BY <1>3, <2>3
  <1>6. CASE spentLog' = spentLog
    <2>1. Payments' = Payments
      BY <1>6 DEF Payments
    <2> HIDE DEF Right
    <2> QED BY <1>2, <1>4, <2>1
  <1>7. CASE \E tx \in txs : PaysFor(tx)
    <2> HIDE DEF Right
    <2>1. Payments' = Payments \cup {Len(spentLog) + 1}
      BY <1>7, PaysForIsPaid
    <2> QED BY <1>2, <1>4, <1>5, <1>7, <2>1
  <1>8. spentLog' = spentLog \/ \E tx \in txs : PaysFor(tx)
    BY StepMoves, LogIsTyped
    DEF Drops, Blocks, Judges, Sends, Confirms, Records, Asks, Settles, Rejects
  <1> QED BY <1>6, <1>7, <1>8


LEMMA ConfirmedIsPaid ==
    ASSUME CInv, Confirms
    PROVE  /\ keeper.row \in Row /\ keeper.row.actor = "agent" /\ keeper.row.intent = "pay"
           /\ IsPaid(keeper.row.at, keeper.row.units, FALSE)
  <1>1. keeper.row \in Row /\ keeper.row.actor = "agent" /\ keeper.row.intent = "pay"
    BY LogIsTyped DEF CInv, KeeperRowIsSound, Confirms, HasRow
  <1>2. LET m == Mined("keeper", keeper.row)
        IN  /\ m \in txs /\ m.state = "mined" /\ m.by = "keeper"
            /\ m.decision = keeper.row.at /\ m.units = keeper.row.units
    BY <1>1, TransactionIsTyped DEF Confirms
  <1>3. PICK m \in txs : /\ m.state = "mined" /\ m.by = "keeper"
                         /\ m.decision = keeper.row.at /\ m.units = keeper.row.units
    BY <1>2
  <1>4. IsPaid(m.decision, m.units, m.by # "keeper")
    BY <1>3 DEF CInv, MinedIsPaid
  <1>5. (m.by # "keeper") = FALSE
    BY <1>3
  <1> QED BY <1>1, <1>3, <1>4, <1>5

LEMMA SettledIsPaidByOwner ==
    ASSUME CInv, NEW q \in Requests, Settles(q)
    PROVE  /\ Mined(q, desk[q].row) \in txs
           /\ IsPaid(desk[q].row.at, desk[q].row.units, TRUE)
  <1>1. desk[q].row \in Row
    BY SettlementIs
  <1>2. LET m == Mined(q, desk[q].row)
        IN  /\ m \in txs /\ m.state = "mined" /\ m.by = q
            /\ m.decision = desk[q].row.at /\ m.units = desk[q].row.units
    BY <1>1, TransactionIsTyped DEF Settles
  <1>3. PICK m \in txs : /\ m.state = "mined" /\ m.by = q
                         /\ m.decision = desk[q].row.at /\ m.units = desk[q].row.units
    BY <1>2
  <1>4. IsPaid(m.decision, m.units, m.by # "keeper")
    BY <1>3 DEF CInv, MinedIsPaid
  <1>5. (m.by # "keeper") = TRUE
    BY <1>3, OperatorAssumption
  <1> QED BY <1>2, <1>3, <1>4, <1>5

\* A row a step adds, if it says paid: a payment the keeper or an approval saw.
PaidByKeeper(row) ==
    /\ row.actor = "agent" /\ row.tx = row.at /\ IsPaid(row.tx, row.paid, FALSE)
    /\ \A n \in DOMAIN log : log[n].at # row.tx
PaidByOwner(row) ==
    /\ row.actor = "owner" /\ IsPaid(row.tx, row.paid, TRUE)
    /\ \E n \in DOMAIN log : /\ log[n].at = row.tx /\ log[n].id = row.id
                             /\ log[n].intent = "escalate"
    /\ \A n \in DOMAIN log : log[n].paid > 0 => log[n].tx # row.tx
Backed(row) ==
    /\ row \in Row
    /\ row.paid > 0 => /\ row.intent = "pay" /\ row.paid = row.units
                       /\ PaidByKeeper(row) \/ PaidByOwner(row)

LEMMA AddedIsBacked ==
    ASSUME CInv, NEW row, Adds(row)
    PROVE  Backed(row)
  <1>1. CASE keeper.pc = "recording" /\ row = keeper.row
    <2>1. HasRow
      BY <1>1 DEF HasRow
    <2>2. row \in Row
      BY <1>1, <2>1, LogIsTyped
    <2>3. ASSUME row.paid > 0
          PROVE  /\ row.intent = "pay" /\ row.paid = row.units /\ row.actor = "agent"
                 /\ row.tx = row.at /\ IsPaid(row.at, row.units, FALSE)
                 /\ \A n \in DOMAIN log : log[n].at # row.at
      BY <1>1, <2>1, <2>3 DEF CInv, KeeperRowIsSound, RecordedIsPaid, RecordsAreDated
    <2> QED BY <2>2, <2>3 DEF Backed, PaidByKeeper
  <1>2. ASSUME NEW q \in Requests, Settles(q),
               row = Settled(desk[q].row, "pay", desk[q].row.units, desk[q].row.at)
        PROVE  Backed(row)
    <2>1. /\ row \in Row /\ row.intent = "pay" /\ row.actor = "owner"
          /\ row.paid = desk[q].row.units /\ row.tx = desk[q].row.at
          /\ row.id = desk[q].row.id /\ row.units = desk[q].row.units
      BY <1>2, SettlementIs
    <2>2. desk[q].pc = "waiting"
      BY <1>2 DEF Settles
    <2>3. IsPaid(row.tx, row.paid, TRUE) /\ Mined(q, desk[q].row) \in txs
      BY <1>2, <2>1, SettledIsPaidByOwner
    <2>4. /\ \E n \in DOMAIN log : log[n] = desk[q].row /\ log[n].intent = "escalate"
          /\ \A n \in DOMAIN log : log[n].paid > 0 => log[n].tx # desk[q].row.at
      BY <2>2, <2>3 DEF CInv, DeskWaitsForEscalations
    <2> QED BY <2>1, <2>3, <2>4 DEF Backed, PaidByOwner
  <1>3. ASSUME NEW r \in Pending, row = Settled(r, "refuse", 0, 0)
        PROVE  Backed(row)
    <2>1. r \in Row /\ now \in Moments
      BY LogIsTyped
    <2>2. "refuse" \in {"pay", "refuse"} /\ 0 \in Nat /\ 0 \in 0..MaxTime
      OBVIOUS
    <2>3. row \in Row /\ row.paid = 0
      BY <1>3, <2>1, <2>2, SettledIsTyped
    <2> QED BY <2>3 DEF Backed
  <1> QED BY <1>1, <1>2, <1>3 DEF Adds


LEMMA PaidRowsStayNamed ==
    ASSUME CInv, [Next]_vars
    PROVE  PaidRowsNameTheirRecord'
  <1> DEFINE Named(n) ==
        log[n].paid > 0 =>
            /\ log[n].intent = "pay" /\ log[n].paid = log[n].units
            /\ \/ log[n].actor = "agent" /\ log[n].tx = log[n].at
               \/ /\ log[n].actor = "owner"
                  /\ \E m \in DOMAIN log :
                        /\ m < n /\ log[m].at = log[n].tx /\ log[m].id = log[n].id
                        /\ log[m].intent = "escalate"
  <1>1. /\ PaidRowsNameTheirRecord <=> \A n \in DOMAIN log : Named(n)
        /\ PaidRowsNameTheirRecord' <=> \A n \in DOMAIN log' : Named(n)'
    BY DEF PaidRowsNameTheirRecord
  <1>2. ASSUME NEW n \in DOMAIN log PROVE Named(n)'
    <2>1. Named(n)
      BY <1>1 DEF CInv
    <2> QED BY <2>1, RecordsStay
  <1>3. ASSUME NEW row, Grows(row), Adds(row), NEW k, k = Len(log) + 1 PROVE Named(k)'
    <2>1. Backed(row) /\ log'[k] = row
      BY <1>3, AddedIsBacked DEF Grows
    <2>2. ASSUME row.paid > 0, PaidByOwner(row)
          PROVE  /\ row.actor = "owner"
                 /\ \E m \in DOMAIN log' :
                        /\ m < k /\ log'[m].at = row.tx /\ log'[m].id = row.id
                        /\ log'[m].intent = "escalate"
      <3>1. PICK m \in DOMAIN log : /\ log[m].at = row.tx /\ log[m].id = row.id
                                    /\ log[m].intent = "escalate"
        BY <2>2 DEF PaidByOwner
      <3>2. m \in DOMAIN log' /\ log'[m] = log[m] /\ m < k
        BY <1>3, GrownLog
      <3> QED BY <2>2, <3>1, <3>2 DEF PaidByOwner
    <2>3. row.paid > 0 /\ PaidByKeeper(row) => row.actor = "agent" /\ row.tx = row.at
      BY DEF PaidByKeeper
    <2> QED BY <2>1, <2>2, <2>3 DEF Backed
  <1>4. \A n \in DOMAIN log' : Named(n)'
    <2> HIDE DEF Named
    <2>1. CASE log' = log
      BY <1>2, <2>1
    <2>2. CASE \E row : Grows(row) /\ Adds(row)
      <3>1. DOMAIN log' = DOMAIN log \cup {Len(log) + 1}
        BY <2>2, GrownLog
      <3> QED BY <1>2, <1>3, <2>2, <3>1
    <2> QED BY <2>1, <2>2, LogStaysOrAdds
  <1> QED
    <2> HIDE DEF Named
    <2> QED BY <1>1, <1>4

LEMMA PaidRowsStayPaid ==
    ASSUME CInv, [Next]_vars
    PROVE  RecordedIsPaid'
  <1>1. RecordedIsPaid
    BY DEF CInv
  <1>2. ASSUME NEW row, row.paid > 0 => IsPaid(row.tx, row.paid, row.actor = "owner")
        PROVE  row.paid > 0 => IsPaid(row.tx, row.paid, row.actor = "owner")'
    BY <1>2, PaidStaysPaid
  <1>3. ASSUME NEW n \in DOMAIN log', log'[n].paid > 0
        PROVE  \E row : row = log'[n] /\ IsPaid(row.tx, row.paid, row.actor = "owner")'
    <2>1. PICK row : row = log'[n]
      OBVIOUS
    <2>2. CASE n \in DOMAIN log
      <3>1. row = log[n]
        BY <2>1, <2>2, RecordsStay
      <3>2. row.paid > 0 => IsPaid(row.tx, row.paid, row.actor = "owner")
        BY <1>1, <2>2, <3>1 DEF RecordedIsPaid
      <3> QED BY <1>2, <1>3, <2>1, <3>2
    <2>3. CASE n \notin DOMAIN log
      <3>1. Backed(row)
        <4>1. log' # log
          BY <2>3
        <4>2. PICK r : Grows(r) /\ Adds(r)
          BY <4>1, LogStaysOrAdds
        <4>3. r = row
          BY <2>1, <2>3, <4>2, GrownLog
        <4> QED BY <4>2, <4>3, AddedIsBacked
      <3>2. row.paid > 0
        BY <1>3, <2>1
      <3>3. CASE PaidByKeeper(row)
        <4>1. (row.actor = "owner") = FALSE
          BY <3>3 DEF PaidByKeeper
        <4>2. IsPaid(row.tx, row.paid, row.actor = "owner")
          BY <3>3, <4>1 DEF PaidByKeeper
        <4> QED BY <1>2, <2>1, <3>2, <4>2
      <3>4. CASE PaidByOwner(row)
        <4>1. (row.actor = "owner") = TRUE
          BY <3>4 DEF PaidByOwner
        <4>2. IsPaid(row.tx, row.paid, row.actor = "owner")
          BY <3>4, <4>1 DEF PaidByOwner
        <4> QED BY <1>2, <2>1, <3>2, <4>2
      <3> QED BY <3>1, <3>2, <3>3, <3>4 DEF Backed
    <2> QED BY <2>2, <2>3
  <1>4. ASSUME HasRow', keeper'.row.paid > 0
        PROVE  \E row : row = keeper'.row /\ IsPaid(row.at, row.units, FALSE)'
    <2>1. CASE keeper' = keeper \/ Sends
      <3>1. PICK row : row = keeper'.row
        OBVIOUS
      <3>2. HasRow /\ keeper'.row = keeper.row
        BY <1>4, <2>1 DEF HasRow, Sends
      <3>3. IsPaid(row.at, row.units, FALSE)
        BY <1>1, <1>4, <3>1, <3>2 DEF RecordedIsPaid
      <3> QED BY <3>1, <3>3, PaidStaysPaid
    <2>2. CASE Confirms
      <3>1. PICK row : row = keeper'.row
        OBVIOUS
      <3>2. IsPaid(keeper.row.at, keeper.row.units, FALSE) /\ keeper.row \in Row
        BY <2>2, ConfirmedIsPaid
      <3>3. row.at = keeper.row.at /\ row.units = keeper.row.units
        BY <2>2, <3>1, <3>2, ConfirmedIsTyped DEF Confirms
      <3>4. IsPaid(row.at, row.units, FALSE)
        BY <3>2, <3>3
      <3> QED BY <3>1, <3>4, PaidStaysPaid
    <2>3. CASE \E row : Judges(row)
      BY <1>4, <2>3 DEF Judges, RowMade
    <2>4. keeper' = keeper \/ Sends \/ Confirms \/ (\E row : Judges(row))
      BY <1>4, StepMoves, LogIsTyped
      DEF Drops, Blocks, Block, Records, Asks, Settles, Rejects, Idle, HasRow
    <2> QED BY <2>1, <2>2, <2>3, <2>4
  <1>5. \A n \in DOMAIN log' : log'[n].paid > 0 =>
            IsPaid(log[n].tx, log[n].paid, log[n].actor = "owner")'
    BY <1>3 DEF IsPaid
  <1>6. HasRow' /\ keeper'.row.paid > 0 => IsPaid(keeper.row.at, keeper.row.units, FALSE)'
    BY <1>4 DEF IsPaid
  <1> QED BY <1>5, <1>6 DEF RecordedIsPaid


\* A row that says paid cites a record no other row cites.
LEMMA AddedIsNew ==
    ASSUME CInv, NEW row, Adds(row), row.paid > 0, NEW n \in DOMAIN log, log[n].paid > 0
    PROVE  log[n].tx # row.tx
  <1>1. PaidByKeeper(row) \/ PaidByOwner(row)
    BY AddedIsBacked DEF Backed
  <1>2. \/ log[n].tx = log[n].at
        \/ \E m \in DOMAIN log : log[m].at = log[n].tx
    BY DEF CInv, PaidRowsNameTheirRecord
  <1> QED BY <1>1, <1>2 DEF PaidByKeeper, PaidByOwner

LEMMA PaymentsStayBehindRows ==
    ASSUME CInv, [Next]_vars
    PROVE  PaidRowsHaveTheirPayment'
  <1> DEFINE Cited == \A m, n \in DOMAIN log :
                         log[m].paid > 0 /\ log[n].paid > 0 /\ log[m].tx = log[n].tx => m = n
  <1>1. Cited
    BY DEF CInv, PaidRowsHaveTheirPayment
  <1>2. Cited'
    <2>1. CASE log' = log
      BY <1>1, <2>1
    <2>2. CASE \E row : Grows(row) /\ Adds(row)
      <3>1. PICK row : Grows(row) /\ Adds(row)
        BY <2>2
      <3>2. /\ DOMAIN log' = DOMAIN log \cup {Len(log) + 1}
            /\ \A n \in DOMAIN log : log'[n] = log[n]
            /\ log'[Len(log) + 1] = row
        BY <3>1, GrownLog
      <3>3. \A n \in DOMAIN log : row.paid > 0 /\ log[n].paid > 0 => log[n].tx # row.tx
        BY <3>1, AddedIsNew
      <3>4. PICK k : k = Len(log) + 1
        OBVIOUS
      <3>5. /\ DOMAIN log' = DOMAIN log \cup {k} /\ log'[k] = row
            /\ \A n \in DOMAIN log : log'[n] = log[n]
        BY <3>2, <3>4
      <3> QED BY <1>1, <3>3, <3>5
    <2> QED BY <2>1, <2>2, LogStaysOrAdds
  <1>3. RecordedIsPaid'
    BY PaidRowsStayPaid
  <1>4. PaidRowsHaveTheirPayment' <=>
           /\ \A n \in DOMAIN log' : log'[n].paid > 0 =>
                 IsPaid(log[n].tx, log[n].paid, log[n].actor = "owner")'
           /\ Cited'
    BY DEF PaidRowsHaveTheirPayment, IsPaid
  <1> QED
    <2> HIDE DEF Cited
    <2> QED BY <1>2, <1>3, <1>4 DEF RecordedIsPaid

\* An escalation that is pending has no row that says it was paid.
LEMMA PendingIsUnpaid ==
    ASSUME CInv, NEW row \in Pending, NEW n \in DOMAIN log, log[n].paid > 0
    PROVE  log[n].tx # row.at
  <1> SUFFICES ASSUME log[n].tx = row.at PROVE FALSE
    OBVIOUS
  <1>1. /\ Len(log) \in Nat /\ DOMAIN log = 1..Len(log)
        /\ \A i, j \in DOMAIN log : log[i].at = log[j].at => i = j
    BY LogIsTyped DEF CInv, RecordsAreDated
  <1>2. PICK p \in DOMAIN log : log[p] = row /\ p > Len(log) - ReadLimit
    BY DEF Pending, Escalated, Recent
  <1>3. row.intent = "escalate" /\ row.id \notin Resolved
    BY DEF Pending, Escalated
  <1>4. log[n].intent = "pay"
    BY DEF CInv, PaidRowsNameTheirRecord
  <1>5. CASE log[n].tx = log[n].at
    BY <1>1, <1>2, <1>3, <1>4, <1>5
  <1>6. CASE \E m \in DOMAIN log : m < n /\ log[m].at = log[n].tx /\ log[m].id = log[n].id
    <2>1. p < n /\ log[n].id = row.id
      BY <1>1, <1>2, <1>6
    <2>2. n > Len(log) - ReadLimit
      BY <1>1, <1>2, <2>1
    <2>3. log[n] \in Recent
      BY <2>2 DEF Recent
    <2> QED BY <1>3, <1>4, <2>1, <2>3 DEF Resolved
  <1> QED BY <1>5, <1>6 DEF CInv, PaidRowsNameTheirRecord

\* No other step writes that a mined approval in progress was paid.
LEMMA AddedIsAnothers ==
    ASSUME CInv, NEW row, Adds(row), row.paid > 0,
           NEW q \in Requests, desk[q].pc = "waiting", Mined(q, desk[q].row) \in txs,
           ~Settles(q)
    PROVE  row.tx # desk[q].row.at
  <1>1. PICK n \in DOMAIN log : log[n] = desk[q].row
    BY DEF CInv, DeskWaitsForEscalations
  <1>2. desk[q].row \in Row
    BY LogIsTyped
  <1>3. CASE PaidByKeeper(row)
    BY <1>1, <1>3 DEF PaidByKeeper
  <1>4. CASE \E p \in Requests :
                /\ Settles(p)
                /\ row = Settled(desk[p].row, "pay", desk[p].row.units, desk[p].row.at)
    <2>1. PICK p \in Requests :
                /\ Settles(p)
                /\ row = Settled(desk[p].row, "pay", desk[p].row.units, desk[p].row.at)
      BY <1>4
    <2>2. row.tx = desk[p].row.at /\ desk[p].row \in Row
      BY <2>1, SettlementIs
    <2>3. Mined(p, desk[p].row) \in txs
      BY <2>1 DEF Settles
    <2>4. PICK a \in txs : /\ a.state = "mined" /\ a.by = p /\ a.decision = desk[p].row.at
      BY <2>2, <2>3, TransactionIsTyped
    <2>5. PICK b \in txs : /\ b.state = "mined" /\ b.by = q /\ b.decision = desk[q].row.at
      BY <1>2, TransactionIsTyped
    <2>6. p # q
      BY <2>1
    <2> QED BY <2>2, <2>4, <2>5, <2>6 DEF CInv, MinedOnce
  <1>5. CASE keeper.pc = "recording" /\ row = keeper.row
    <2>1. HasRow
      BY <1>5 DEF HasRow
    <2>2. row.tx = row.at /\ \A m \in DOMAIN log : log[m].at # row.at
      BY <1>5, <2>1 DEF CInv, KeeperRowIsSound, RecordsAreDated
    <2> QED BY <1>1, <2>2
  <1>6. CASE \E r \in Pending : row = Settled(r, "refuse", 0, 0)
    <2>1. PICK r \in Pending : row = Settled(r, "refuse", 0, 0)
      BY <1>6
    <2>2. r \in Row /\ now \in Moments
      BY LogIsTyped
    <2>3. "refuse" \in {"pay", "refuse"} /\ 0 \in Nat /\ 0 \in 0..MaxTime
      OBVIOUS
    <2>4. row.paid = 0
      BY <2>1, <2>2, <2>3, SettledIsTyped
    <2> QED BY <2>4
  <1> QED BY <1>4, <1>5, <1>6 DEF Adds

LEMMA DeskStillWaits ==
    ASSUME CInv, [Next]_vars
    PROVE  DeskWaitsForEscalations'
  <1>1. DeskWaitsForEscalations
    BY DEF CInv
  <1>2. ASSUME NEW q \in Requests, desk'[q].pc = "waiting"
        PROVE  \/ desk'[q] = desk[q] /\ ~Settles(q)
               \/ /\ \E row \in Pending : desk'[q] = [pc |-> "waiting", row |-> row]
                  /\ log' = log
    <2>0. desk \in [Requests -> Approvals]
      BY LogIsTyped DEF OperatorTyped
    <2>1. CASE Drops
      <3>1. Settles(q) => desk'[q] = Idle
        BY <2>0 DEF Settles
      <3>2. desk'[q] # Idle
        BY <1>2 DEF Idle
      <3> QED BY <2>1, <3>1, <3>2 DEF Drops
    <2>2. CASE \E p \in Requests, row \in Pending : Asks(p, row)
      <3>1. PICK p \in Requests, row \in Pending : Asks(p, row)
        BY <2>2
      <3>2. now' = now /\ log' = log
        BY <3>1 DEF Asks
      <3>3. ~Settles(q)
        BY <3>2, LogIsTyped DEF Settles
      <3> QED BY <2>0, <3>1, <3>2, <3>3 DEF Asks
    <2>3. CASE \E p \in Requests : Settles(p)
      <3>1. PICK p \in Requests : Settles(p)
        BY <2>3
      <3>2. \A r \in Requests : Settles(r) => desk'[r] = Idle
        BY <2>0 DEF Settles
      <3>3. q # p /\ ~Settles(q)
        BY <1>2, <3>1, <3>2 DEF Idle
      <3> QED BY <2>0, <3>1, <3>3 DEF Settles
    <2>4. CASE desk' = desk
      <3>1. Settles(q) => desk'[q] = Idle
        BY <2>0 DEF Settles
      <3> QED BY <1>2, <2>4, <3>1 DEF Idle
    <2> QED
      BY <2>1, <2>2, <2>3, <2>4, StepMoves, LogIsTyped
      DEF Blocks, Block, Judges, Sends, Confirms, Records, Rejects
  <1>3. ASSUME NEW q \in Requests, NEW row, row \in Row, Mined(q, row) \in txs',
               Mined(q, row) \notin txs
        PROVE  /\ log' = log
               /\ \A n \in DOMAIN log : log[n].paid > 0 => log[n].tx # row.at
    <2>1. Mined(q, row).state = "mined" /\ Mined(q, row).decision = row.at
      BY <1>3, TransactionIsTyped
    <2>2. PICK tx \in txs : Blocks(tx, "mined") /\ Mined(q, row) = Over(tx, "mined")
      BY <1>3, <2>1, TransactionsCome DEF Blocks, Block
    <2>3. log' = log /\ row.at \notin consumed
      BY <2>1, <2>2 DEF Blocks, Block, PaysFor
    <2>4. \A n \in DOMAIN log : log[n].paid > 0 => log[n].tx \in consumed
      BY PaidIsConsumed DEF CInv, RecordedIsPaid
    <2> QED BY <2>3, <2>4
  <1>4. ASSUME NEW q \in Requests, desk'[q].pc = "waiting",
               desk'[q] = desk[q], ~Settles(q)
        PROVE  /\ \E n \in DOMAIN log' : log'[n] = desk'[q].row /\ log'[n].intent = "escalate"
               /\ Mined(q, desk'[q].row) \in txs' =>
                     \A n \in DOMAIN log' : log'[n].paid > 0 => log'[n].tx # desk'[q].row.at
    <2>1. PICK n \in DOMAIN log : log[n] = desk[q].row /\ log[n].intent = "escalate"
      BY <1>1, <1>4 DEF DeskWaitsForEscalations
    <2>2. n \in DOMAIN log' /\ log'[n] = log[n]
      BY RecordsStay
    <2>3. desk[q].row \in Row
      BY <1>4, LogIsTyped
    <2>4. CASE Mined(q, desk[q].row) \in txs
      <3>1. \A m \in DOMAIN log : log[m].paid > 0 => log[m].tx # desk[q].row.at
        BY <1>1, <1>4, <2>4 DEF DeskWaitsForEscalations
      <3>2. CASE log' = log
        BY <1>4, <2>1, <2>2, <3>1, <3>2
      <3>3. CASE \E row : Grows(row) /\ Adds(row)
        <4>1. PICK row : Grows(row) /\ Adds(row)
          BY <3>3
        <4>2. row.paid > 0 => row.tx # desk[q].row.at
          BY <1>4, <2>4, <4>1, AddedIsAnothers
        <4>3. /\ DOMAIN log' = DOMAIN log \cup {Len(log) + 1}
              /\ \A m \in DOMAIN log : log'[m] = log[m]
              /\ log'[Len(log) + 1] = row
          BY <4>1, GrownLog
        <4>4. \A m \in DOMAIN log' : log'[m].paid > 0 => log'[m].tx # desk[q].row.at
          BY <3>1, <4>2, <4>3
        <4> QED BY <1>4, <2>1, <2>2, <4>4
      <3> QED BY <3>2, <3>3, LogStaysOrAdds
    <2>5. CASE Mined(q, desk[q].row) \notin txs
      <3>1. PICK row \in Row : row = desk[q].row
        BY <2>3
      <3>2. Mined(q, row) \in txs' =>
               /\ log' = log
               /\ \A m \in DOMAIN log : log[m].paid > 0 => log[m].tx # row.at
        BY <1>3, <2>5, <3>1
      <3> QED BY <1>4, <2>1, <2>2, <3>1, <3>2
    <2> QED BY <2>4, <2>5
  <1>5. ASSUME NEW q \in Requests, NEW row \in Pending, log' = log,
               desk'[q] = [pc |-> "waiting", row |-> row]
        PROVE  /\ \E n \in DOMAIN log' : log'[n] = desk'[q].row /\ log'[n].intent = "escalate"
               /\ \A n \in DOMAIN log' : log'[n].paid > 0 => log'[n].tx # desk'[q].row.at
    BY <1>5, LogIsTyped, PendingIsUnpaid
  <1>6. DeskWaitsForEscalations' <=>
          \A q \in Requests : desk'[q].pc = "waiting" =>
            /\ \E n \in DOMAIN log' : log'[n] = desk'[q].row /\ log'[n].intent = "escalate"
            /\ Mined(q, desk[q].row)' \in txs' =>
                  \A n \in DOMAIN log' : log'[n].paid > 0 => log'[n].tx # desk'[q].row.at
    BY DEF DeskWaitsForEscalations
  <1>7. \A q \in Requests : Mined(q, desk[q].row)' = Mined(q, desk'[q].row)
    BY DEF Mined, Tx
  <1> QED BY <1>2, <1>4, <1>5, <1>6, <1>7

-----------------------------------------------------------------------------

LEMMA InitCInv == Init => CInv
  <1> SUFFICES ASSUME Init PROVE CInv
    OBVIOUS
  <1>1. Paying!IInv /\ OperatorTyped
    BY WalletStarts, TypesStart
  <1>2. DOMAIN log = {} /\ txs = {} /\ Payments = {} /\ ~HasRow
    BY DEF Init, HasRow, Idle, Payments
  <1>3. \A q \in Requests : desk[q].pc # "waiting"
    BY DEF Init, Idle
  <1> QED
    BY <1>1, <1>2, <1>3
    DEF CInv, RecordsAreDated, KeeperRowIsSound, PaidRowsNameTheirRecord, MinedIsPaid,
        MinedOnce, RecordedIsPaid, OwnersSendEscalations, DeskWaitsForEscalations,
        PaidRowsHaveTheirPayment, OwnerPaysEscalationsOnly

LEMMA StepCInv == CInv /\ [Next]_vars => CInv'
  <1> SUFFICES ASSUME CInv, [Next]_vars PROVE CInv'
    OBVIOUS
  <1>1. Paying!IInv' /\ OperatorTyped'
    BY WalletIsKept, TypesAreKept DEF CInv
  <1> QED
    BY <1>1, RecordsStayDated, KeeperRowStaysSound, PaidRowsStayNamed, TransactionsStayTrue,
       PaidRowsStayPaid, DeskStillWaits, PaymentsStayBehindRows, OwnersPaymentsStayEscalated
    DEF CInv

LEMMA ConsoleInvariance == Spec => []CInv
  BY InitCInv, StepCInv, PTL DEF Spec

\* A row that says money moved is backed by a payment that no other row claims,
\* whatever times out, restarts or cannot be written, for any number of
\* approvals at a time and any reach of the log's readers.
THEOREM RowsArePaid == Spec => []PaidRowsHaveTheirPayment
  <1>1. CInv => PaidRowsHaveTheirPayment
    BY DEF CInv
  <1> QED BY <1>1, ConsoleInvariance, PTL

\* The owner's payments are of escalations the agent wrote down.
THEOREM OwnerPaysEscalations == Spec => []OwnerPaysEscalationsOnly
  <1>1. CInv => OwnerPaysEscalationsOnly
    BY DEF CInv
  <1> QED BY <1>1, ConsoleInvariance, PTL


-----------------------------------------------------------------------------
(* The keeper alone.                                                       *)

\* The records a step leaves alone, and what it may do to the tape.
Undisturbed ==
    /\ UNCHANGED <<log, keeper, txs, spentLog, judged>> /\ now' >= now
    /\ tape' \subseteq tape \cup {now}

BlockMade ==
    \E tx \in txs, state \in {"mined", "reverted"} :
        Blocks(tx, state) /\ UNCHANGED <<tape, log, keeper, judged>>
PassStarts == StartPass /\ UNCHANGED <<tape, log, txs, spentLog, judged, now>>
PassJudges ==
    /\ keeper.pc = "judging" /\ \E row : Judges(row)
    /\ judged' = judged \cup {[decision |-> now, first |-> keeper.bill.first,
                               last |-> keeper.bill.last]}
    /\ UNCHANGED tape
PassSends == Sends /\ UNCHANGED <<tape, judged>>
PassConfirms == Confirms /\ UNCHANGED <<tape, judged>>
PassGivesUp ==
    /\ keeper.pc = "waiting" /\ Reverted("keeper", keeper.row) \in txs
    /\ keeper' = Idle /\ UNCHANGED <<tape, log, txs, spentLog, judged, now>>
PassRecords ==
    /\ keeper.pc = "recording" /\ keeper' = Idle
    /\ IF Restates(keeper.row) THEN log' = log ELSE Grows(keeper.row)
    /\ UNCHANGED <<tape, txs, spentLog, judged, now>>

LEMMA AloneMoves ==
    ASSUME Alone, CInv, [Next]_vars
    PROVE  \/ Undisturbed \/ BlockMade \/ PassStarts \/ PassJudges \/ PassSends
           \/ PassConfirms \/ PassGivesUp \/ PassRecords
  <1>1. /\ Paying!IInv /\ OperatorTyped /\ now \in Nat
    BY LogIsTyped
  <1>2. CASE UNCHANGED vars
    BY <1>1, <1>2 DEF vars, walletVars, Undisturbed
  <1>3. CASE Consume
    <2>1. spentLog' = spentLog /\ now' = now + 1
      BY <1>3 DEF Consume, Wallet!Tick
    <2> QED BY <1>1, <1>3, <2>1 DEF Consume, Kept, Undisturbed
  <1>13. CASE OthersConsume
    BY <1>1, <1>13 DEF OthersConsume, walletVars, Undisturbed
  <1>4. CASE Chain
    <2>1. PICK tx \in txs : Execute(tx)
      BY <1>4 DEF Chain
    <2>2. PICK state \in {"mined", "reverted"} :
              /\ Block(tx, state)
              /\ state = "reverted" => UNCHANGED walletVars
              /\ state = "mined" =>
                   IF tx.by = "keeper"
                   THEN Wallet!Spend(Agent, Category, Vendor, tx.units, tx.decision)
                   ELSE Wallet!SpendAsOwner(Owner, Category, Vendor, tx.units, tx.decision)
      BY <1>1, <2>1, BlockIs
    <2>3. Blocks(tx, state)
      <3>1. CASE state = "mined"
        BY <1>1, <2>2, <3>1, TransactionPays DEF Blocks
      <3>2. CASE state = "reverted"
        BY <2>2, <3>2 DEF Blocks, walletVars
      <3> QED BY <3>1, <3>2
    <2> QED BY <2>2, <2>3 DEF Block, BlockMade
  <1>5. CASE ChangeBudget
    BY <1>1, <1>5 DEF ChangeBudget, Wallet!SetBudget, Undisturbed
  <1>6. CASE StartPass
    BY <1>6 DEF StartPass, walletVars, PassStarts
  <1>7. CASE Judge
    <2>1. PICK row : RowMade(row)
      BY <1>1, <1>7, JudgmentMakes
    <2>2. UNCHANGED <<log, desk, txs, spentLog, tape>> /\ now' = now + 1
      BY <1>7 DEF Judge, Wallet!Tick
    <2>3. Judges(row)
      BY <2>1, <2>2 DEF Judges
    <2> QED BY <1>7, <2>2, <2>3 DEF Judge, PassJudges
  <1>8. CASE Send
    <2>1. keeper' = [pc |-> "waiting", row |-> keeper.row]
      BY <1>1, <1>8, SendingIs DEF OperatorTyped
    <2> QED BY <1>8, <2>1 DEF Send, Sends, PassSends, walletVars
  <1>9. CASE Confirm
    <2>1. keeper' = [pc |-> "recording", row |-> Confirmed(keeper.row)]
      BY <1>1, <1>9, ConfirmationIs DEF OperatorTyped
    <2> QED BY <1>9, <2>1 DEF Confirm, Confirms, PassConfirms, walletVars
  <1>10. CASE GiveUp
    BY <1>10 DEF GiveUp, Alone, PassGivesUp, walletVars
  <1>11. CASE Record
    <2>1. log \in Seq(Row) /\ keeper.row \in Row
      BY <1>1, <1>11, PassesAre DEF Record, HasRow, OperatorTyped
    <2>2. CASE Restates(keeper.row)
      BY <1>11, <2>2 DEF Record, LogDecision, Alone, PassRecords, walletVars
    <2>3. CASE ~Restates(keeper.row)
      <3>1. log' = Append(log, keeper.row)
        BY <1>11, <2>3 DEF Record, LogDecision, Alone
      <3>2. Grows(keeper.row)
        BY <2>1, <3>1 DEF Grows
      <3> QED BY <1>11, <2>3, <3>2 DEF Record, PassRecords, walletVars
    <2> QED BY <2>2, <2>3
  <1>12. ~Console /\ ~Crash
    BY DEF Console, Crash, Reject, Alone
  <1> QED
    BY <1>2, <1>3, <1>4, <1>5, <1>6, <1>7, <1>8, <1>9, <1>10, <1>11, <1>12, <1>13
    DEF Next, Keeper

\* What is written down of numbers.
LEMMA KeeperIsTyped ==
    ASSUME KInv
    PROVE  /\ CInv /\ now \in Nat /\ Len(log) \in Nat /\ DOMAIN log = 1..Len(log)
           /\ \A n \in DOMAIN log : /\ log[n].first \in Nat /\ log[n].last \in Nat
                                    /\ log[n].at \in Nat /\ log[n].id \in Nat
                                    /\ log[n].paid \in Nat
           /\ \A t \in tape : t \in Nat /\ t > 0 /\ t < now
           /\ HasRow => /\ keeper.row.first \in Nat /\ keeper.row.last \in Nat
                        /\ keeper.row.at \in Nat /\ keeper.row.at < now
                        /\ keeper.row.id \in Nat /\ keeper.row \in Row
           /\ keeper.pc = "judging" => /\ keeper.bill.first \in Nat /\ keeper.bill.last \in Nat
                                       /\ keeper.bill.id \in Nat
  <1>1. /\ CInv /\ OperatorTyped /\ now \in Nat /\ Len(log) \in Nat /\ DOMAIN log = 1..Len(log)
        /\ \A n \in DOMAIN log : log[n] \in Row
        /\ HasRow => keeper.row \in Row
    BY LogIsTyped DEF KInv
  <1>2. /\ \A n \in 0..MaxTime : n \in Nat
        /\ \A n \in 1..MaxTime : n \in Nat
    OBVIOUS
  <1>3. \A row \in Row : /\ row.first \in Nat /\ row.last \in Nat /\ row.at \in Nat
                         /\ row.id \in Nat /\ row.paid \in Nat
    BY <1>2 DEF Row, Moments, Seconds
  <1>4. \A t \in tape : t \in Nat /\ t > 0 /\ t < now
    <2>1. tape \subseteq 1..(now - 1)
      BY <1>1 DEF OperatorTyped
    <2>2. \A t \in 1..(now - 1) : t \in Nat /\ t > 0 /\ t < now
      BY <1>1
    <2> QED BY <2>1, <2>2
  <1>5. keeper.pc = "judging" => /\ keeper.bill.first \in Nat /\ keeper.bill.last \in Nat
                                 /\ keeper.bill.id \in Nat
    <2>1. keeper.pc = "judging" => keeper.bill \in Bill
      BY <1>1, PassesAre DEF OperatorTyped
    <2> QED BY <1>2, <2>1 DEF Bill, Moments, Seconds
  <1>6. HasRow => keeper.row.at < now
    BY <1>1 DEF CInv, RecordsAreDated
  <1> QED BY <1>1, <1>3, <1>4, <1>5, <1>6

\* A reader takes the whole log: the boundary is the end of the last row that
\* pays, and the references are those of all of them.
LEMMA BoundaryIsTheLast ==
    ASSUME Alone, KInv
    PROVE  /\ Through \in Nat
           /\ \A n \in DOMAIN log : Pays(log[n]) => log[n].last <= Through
           /\ Through = 0 \/ \E n \in DOMAIN log : Pays(log[n]) /\ Through = log[n].last
           /\ \A n \in DOMAIN log : Pays(log[n]) => log[n].id \in SettledRefs
  <1>1. /\ Len(log) \in Nat /\ DOMAIN log = 1..Len(log) /\ now \in Moments /\ now \in Nat
        /\ Len(log) < now
    BY KeeperIsTyped, LogIsTyped DEF KInv, LogIsShort
  <1>2. Len(log) <= ReadLimit
    BY <1>1 DEF Alone, Moments
  <1>3. \A row : row \in Recent <=> \E n \in DOMAIN log : row = log[n]
    BY <1>1, <1>2 DEF Recent
  <1>4. \A n \in DOMAIN log : Pays(log[n]) <=> log[n] \in PaidRows
    BY <1>3 DEF PaidRows, Pays, KInv, PayRowsAreWhole
  <1>5. \A n \in DOMAIN log : Pays(log[n]) => CoveredTo(log[n]) = log[n].last /\ log[n].last < now
    BY KeeperIsTyped DEF CoveredTo, KInv, PayRowsAreWhole
  <1>6. \A row \in PaidRows : \E n \in DOMAIN log : row = log[n] /\ Pays(log[n])
    BY <1>3, <1>4 DEF PaidRows
  <1>9. \A n \in DOMAIN log : Pays(log[n]) => log[n].id \in SettledRefs
    BY <1>4 DEF SettledRefs
  <1> DEFINE Ends == {CoveredTo(r) : r \in PaidRows}
  <1>7. CASE PaidRows = {}
    BY <1>4, <1>7 DEF Through
  <1>8. CASE PaidRows # {}
    <2>1. Ends # {} /\ Ends \subseteq 0..now
      <3>1. ASSUME NEW row \in PaidRows PROVE CoveredTo(row) \in 0..now
        BY <1>1, <1>5, <1>6, KeeperIsTyped
      <3> QED BY <1>8, <3>1
    <2>2. Through = Max(Ends)
      BY <1>8 DEF Through
    <2>3. Max(Ends) \in Ends /\ \A y \in Ends : Max(Ends) >= y
      <3> HIDE DEF Ends
      <3> QED BY <1>1, <2>1, MaxIsGreatest
    <2>4. \A n \in DOMAIN log : Pays(log[n]) => log[n].last \in Ends
      BY <1>4, <1>5
    <2>5. \E n \in DOMAIN log : Pays(log[n]) /\ Through = log[n].last
      <3>1. PICK row \in PaidRows : Through = CoveredTo(row)
        BY <2>2, <2>3
      <3>2. PICK n \in DOMAIN log : row = log[n] /\ Pays(log[n])
        BY <1>6
      <3> QED BY <1>5, <3>1, <3>2
    <2>6. Through \in Nat
      BY <2>5, KeeperIsTyped
    <2>7. \A n \in DOMAIN log : Pays(log[n]) => log[n].last <= Through
      <3> HIDE DEF Ends
      <3> QED BY <2>2, <2>3, <2>4, <2>6, KeeperIsTyped
    <2> QED BY <1>9, <2>5, <2>6, <2>7
  <1> QED BY <1>7, <1>8, <1>9

\* A bill that is paid for is written down: no row before it says the same.
LEMMA PaidBillIsNew ==
    ASSUME KInv, HasRow, Pays(keeper.row)
    PROVE  ~Restates(keeper.row)
  <1> DEFINE about == {n \in DOMAIN log : log[n].id = keeper.row.id}
  <1> SUFFICES ASSUME Restates(keeper.row) PROVE FALSE
    OBVIOUS
  <1>1. /\ about # {}
        /\ [log[Max(about)] EXCEPT !.at = 0, !.tx = 0, !.paid = 0]
             = [keeper.row EXCEPT !.at = 0, !.tx = 0, !.paid = 0]
    BY DEF Restates
  <1>2. Len(log) \in Nat /\ about \subseteq 0..Len(log)
    BY KeeperIsTyped
  <1>3. Max(about) \in about
    <2> HIDE DEF about
    <2> QED BY <1>1, <1>2, MaxIsGreatest
  <1>4. PICK k \in DOMAIN log : k = Max(about) /\ log[k].id = keeper.row.id
    BY <1>3
  <1> HIDE DEF about
  <1>5. log[k] \in Row /\ keeper.row \in Row
    BY KeeperIsTyped, LogIsTyped
  <1>6. Pays(log[k])
    <2>1. [log[k] EXCEPT !.at = 0, !.tx = 0, !.paid = 0].intent
             = [keeper.row EXCEPT !.at = 0, !.tx = 0, !.paid = 0].intent
      BY <1>1, <1>4
    <2> QED BY <1>5, <2>1 DEF Pays, Row
  <1> QED BY <1>4, <1>6 DEF KInv, PassIsNext


\* What a row that pays adds to the log.
LogsPayment(row) ==
    /\ HasRow /\ row = keeper.row /\ Pays(row) /\ Grows(row) /\ row.paid > 0

LEMMA RecordWrites ==
    ASSUME KInv, keeper.pc = "recording",
           IF Restates(keeper.row) THEN log' = log ELSE Grows(keeper.row)
    PROVE  /\ HasRow
           /\ Pays(keeper.row) => LogsPayment(keeper.row)
           /\ ~Pays(keeper.row) => log' = log \/ Grows(keeper.row)
  <1>1. HasRow
    BY DEF HasRow
  <1>2. Pays(keeper.row) => keeper.row.paid > 0
    <2>1. Pays(keeper.row) => keeper.row.paid # 0
      BY <1>1 DEF KInv, CInv, KeeperRowIsSound, Pays
    <2>2. keeper.row.paid \in Nat
      BY <1>1, KeeperIsTyped DEF Row
    <2> QED BY <2>1, <2>2
  <1> QED BY <1>1, <1>2, PaidBillIsNew DEF LogsPayment

\* Time goes on; what was judged and bought stays; the log grows by the pass'
\* record, as the pass ends.
Written ==
    /\ keeper.pc = "recording" /\ HasRow /\ keeper' = Idle
    /\ Pays(keeper.row) => LogsPayment(keeper.row)
    /\ log' = log \/ Grows(keeper.row)
    /\ UNCHANGED <<tape, txs, spentLog, judged, now>>

LEMMA AloneGoesOn ==
    ASSUME Alone, KInv, [Next]_vars
    PROVE  /\ now' \in Nat /\ now' >= now /\ judged \subseteq judged'
           /\ tape' \subseteq tape \cup {now}
           /\ log' = log \/ (Written /\ Grows(keeper.row))
           /\ PassRecords => Written
  <1>1. CInv /\ now \in Nat
    BY KeeperIsTyped
  <1>2. now' \in Nat
    BY <1>1, LogIsTyped, WalletIsKept DEF Paying!IInv, Paying!TypeOK
  <1>3. CASE PassRecords
    <2>1. Written
      BY <1>3, RecordWrites DEF PassRecords, Written
    <2>2. log' = log \/ Grows(keeper.row)
      BY <2>1 DEF Written
    <2>3. UNCHANGED <<tape, judged, now>>
      BY <1>3 DEF PassRecords
    <2> QED BY <1>1, <1>2, <2>1, <2>2, <2>3
  <1>4. CASE ~PassRecords
    <2>1. log' = log /\ now' >= now
      BY <1>1, <1>4, AloneMoves
      DEF Undisturbed, BlockMade, Blocks, PassStarts, PassJudges, Judges, PassSends, Sends,
          PassConfirms, Confirms, PassGivesUp
    <2>2. judged \subseteq judged' /\ tape' \subseteq tape \cup {now}
      BY <1>1, <1>4, AloneMoves
      DEF Undisturbed, BlockMade, PassStarts, PassJudges, PassSends, PassConfirms, PassGivesUp
    <2> QED BY <1>2, <1>4, <2>1, <2>2
  <1> QED BY <1>3, <1>4

LEMMA LogStaysShort ==
    ASSUME Alone, KInv, [Next]_vars
    PROVE  LogIsShort'
  <1>1. /\ LogIsShort /\ CInv /\ now \in Nat /\ Len(log) \in Nat
        /\ HasRow => keeper.row.at \in Nat /\ keeper.row.at < now
    BY KeeperIsTyped DEF KInv
  <1>2. now' \in Nat /\ now' >= now
    BY AloneGoesOn
  <1>3. CASE log' = log /\ keeper' = keeper
    BY <1>1, <1>2, <1>3 DEF LogIsShort, HasRow
  <1>4. ASSUME log' = log, keeper'.pc \in {"idle", "judging"}
        PROVE  LogIsShort'
    BY <1>1, <1>2, <1>4 DEF LogIsShort, HasRow
  <1>5. ASSUME NEW row, Judges(row)
        PROVE  LogIsShort'
    BY <1>1, <1>5 DEF Judges, RowMade, LogIsShort
  <1>6. CASE Sends
    BY <1>1, <1>6 DEF Sends, LogIsShort, HasRow
  <1>7. CASE Confirms
    <2>1. HasRow /\ keeper'.row.at = keeper.row.at
      BY <1>7, KeeperIsTyped, ConfirmedIsTyped DEF Confirms, HasRow
    <2> QED BY <1>1, <1>7, <2>1 DEF Confirms, LogIsShort
  <1>8. CASE Written /\ Grows(keeper.row)
    <2>1. Len(log') = Len(log) + 1 /\ Len(log) < keeper.row.at /\ HasRow /\ now' = now
      BY <1>1, <1>8 DEF Written, Grows, LogIsShort
    <2>2. Len(log') < now'
      BY <1>1, <2>1
    <2> QED BY <1>8, <2>2 DEF Written, LogIsShort, HasRow, Idle
  <1> QED
    BY <1>1, <1>3, <1>4, <1>5, <1>6, <1>7, <1>8, AloneMoves, AloneGoesOn
    DEF Undisturbed, BlockMade, PassStarts, StartPass, PassJudges, PassSends, PassConfirms,
        PassGivesUp, PassRecords, Idle

\* The record a pass makes, and the pass' own bill.
LEMMA PassKeeps ==
    ASSUME KInv, NEW first, NEW last, BillStartsAfter(first, last),
           log' = log, now \in Nat, now' \in Nat, now' >= now, first \in Nat, last \in Nat,
           tape' \subseteq tape \cup {now}
    PROVE  BillStartsAfter(first, last)'
  <1>1. /\ 0 < first /\ first <= last /\ last < now
        /\ \A n \in DOMAIN log : Pays(log[n]) => log[n].last < first
        /\ \A t \in tape : t < first => InTheLog(t)
    BY DEF BillStartsAfter
  <1>2. \A t : InTheLog(t) => InTheLog(t)'
    BY DEF InTheLog
  <1>3. last < now' /\ ~(now < first)
    BY <1>1
  <1>4. \A t \in tape' : t < first => InTheLog(t)'
    BY <1>1, <1>2, <1>3
  <1> QED BY <1>1, <1>3, <1>4 DEF BillStartsAfter

LEMMA PassStaysNext ==
    ASSUME Alone, KInv, [Next]_vars
    PROVE  PassIsNext'
  <1>1. /\ PassIsNext /\ now \in Nat /\ CInv
    BY KeeperIsTyped DEF KInv
  <1>2. now' \in Nat /\ now' >= now
    BY AloneGoesOn
  <1>3. ASSUME keeper' = keeper, log' = log, judged' = judged,
               tape' \subseteq tape \cup {now}
        PROVE  PassIsNext'
    <2>1. keeper.pc = "judging" => BillStartsAfter(keeper.bill.first, keeper.bill.last)'
      <3> SUFFICES ASSUME keeper.pc = "judging"
                   PROVE  BillStartsAfter(keeper.bill.first, keeper.bill.last)'
        OBVIOUS
      <3>1. PICK f \in Nat, l \in Nat : f = keeper.bill.first /\ l = keeper.bill.last
        BY KeeperIsTyped
      <3>2. BillStartsAfter(f, l)
        BY <1>1, <3>1 DEF PassIsNext
      <3>3. BillStartsAfter(f, l)'
        BY <1>1, <1>2, <1>3, <3>2, PassKeeps
      <3> QED BY <1>3, <3>1, <3>3 DEF BillStartsAfter
    <2>2. HasRow /\ Pays(keeper.row) => BillStartsAfter(keeper.row.first, keeper.row.last)'
      <3> SUFFICES ASSUME HasRow /\ Pays(keeper.row)
                   PROVE  BillStartsAfter(keeper.row.first, keeper.row.last)'
        OBVIOUS
      <3>1. PICK f \in Nat, l \in Nat : f = keeper.row.first /\ l = keeper.row.last
        BY KeeperIsTyped
      <3>2. BillStartsAfter(f, l)
        BY <1>1, <3>1 DEF PassIsNext
      <3>3. BillStartsAfter(f, l)'
        BY <1>1, <1>2, <1>3, <3>2, PassKeeps
      <3> QED BY <1>3, <3>1, <3>3 DEF BillStartsAfter
    <2> QED BY <1>1, <1>3, <2>1, <2>2 DEF PassIsNext, HasRow, RecordIn, Pays
  <1>4. ASSUME NEW f \in Nat, NEW l \in Nat, BillStartsAfter(f, l), log' = log, tape' = tape,
               keeper'.pc \in {"sending", "waiting", "recording"},
               Pays(keeper'.row) => /\ keeper'.row.first = f /\ keeper'.row.last = l
                                    /\ keeper'.row.id = SecondOf(l)
                                    /\ \A n \in DOMAIN log : Pays(log[n]) => log[n].id # keeper'.row.id
                                    /\ [decision |-> keeper'.row.at, first |-> f, last |-> l]
                                         \in judged'
        PROVE  PassIsNext'
    <2>1. BillStartsAfter(f, l)'
      BY <1>1, <1>2, <1>4, PassKeeps
    <2>2. Pays(keeper'.row) => BillStartsAfter(keeper.row.first, keeper.row.last)'
      BY <1>4, <2>1 DEF BillStartsAfter
    <2> QED BY <1>4, <2>2 DEF PassIsNext, RecordIn, Pays
  <1>5. CASE PassJudges
    <2>1. PICK row : Judges(row) /\ keeper.pc = "judging"
      BY <1>5 DEF PassJudges
    <2>2. PICK f \in Nat, l \in Nat : f = keeper.bill.first /\ l = keeper.bill.last
      BY <2>1, KeeperIsTyped
    <2>3. /\ BillStartsAfter(f, l) /\ keeper.bill.id = SecondOf(l)
          /\ \A n \in DOMAIN log : Pays(log[n]) => log[n].id \in keeper.refs
      BY <1>1, <2>1, <2>2 DEF PassIsNext
    <2>4. /\ keeper'.pc \in {"sending", "waiting", "recording"} /\ keeper'.row = row
          /\ log' = log /\ row.at = now
          /\ Pays(row) => row.first = f /\ row.last = l /\ row.id = SecondOf(l)
          /\ Pays(row) => \A n \in DOMAIN log : Pays(log[n]) => log[n].id # row.id
      BY <2>1, <2>2, <2>3 DEF Judges, RowMade, Pays
    <2>5. /\ tape' = tape
          /\ judged' = judged \cup {[decision |-> now, first |-> f, last |-> l]}
      BY <1>5, <2>2 DEF PassJudges
    <2> QED BY <1>4, <2>3, <2>4, <2>5
  <1>6. CASE PassSends \/ PassConfirms
    <2>a. (Sends \/ Confirms) /\ tape' = tape /\ judged' = judged
      BY <1>6 DEF PassSends, PassConfirms
    <2>1. HasRow /\ Pays(keeper.row) /\ keeper.row \in Row
      BY <1>1, <2>a, LogIsTyped DEF Sends, Confirms, HasRow, Pays, CInv, KeeperRowIsSound
    <2>2. PICK f \in Nat, l \in Nat : f = keeper.row.first /\ l = keeper.row.last
      BY <2>1, KeeperIsTyped
    <2>3. /\ BillStartsAfter(f, l) /\ keeper.row.id = SecondOf(l)
          /\ \A n \in DOMAIN log : Pays(log[n]) => log[n].id # keeper.row.id
          /\ [decision |-> keeper.row.at, first |-> f, last |-> l] \in judged
      BY <1>1, <2>1, <2>2 DEF PassIsNext, RecordIn
    <2>4. /\ keeper'.pc \in {"sending", "waiting", "recording"} /\ log' = log
          /\ keeper'.row.first = f /\ keeper'.row.last = l
          /\ keeper'.row.id = keeper.row.id /\ keeper'.row.at = keeper.row.at
      BY <2>a, <2>1, <2>2, <2>3, ConfirmedIsTyped DEF Sends, Confirms
    <2> QED BY <1>4, <2>a, <2>3, <2>4
  <1>7. CASE PassStarts
    <2> DEFINE S == Unpaid(Through)
               bill == BillFor(S)
    <2>1. S \subseteq tape /\ S # {} /\ \A t \in S : t > Through
      BY <1>7 DEF PassStarts, StartPass, Unpaid
    <2>2. OperatorTyped /\ now \in Moments
      BY <1>1, LogIsTyped
    <2>3. /\ bill.first \in S /\ bill.last \in S /\ bill.id = SecondOf(bill.last)
          /\ \A t \in S : bill.first <= t /\ t <= bill.last
      <3> HIDE DEF S
      <3> QED BY <2>1, <2>2, BillIsOfTheTape
    <2>4. /\ keeper'.pc = "judging" /\ keeper'.bill = bill /\ keeper'.refs = SettledRefs
          /\ log' = log
      BY <1>7 DEF PassStarts, StartPass
    <2> HIDE DEF bill, S
    <2>5. PICK f \in Nat, l \in Nat : f = bill.first /\ l = bill.last
      BY <2>1, <2>3, KeeperIsTyped
    <2>6. /\ Through \in Nat
          /\ \A n \in DOMAIN log : Pays(log[n]) => log[n].last <= Through
          /\ Through = 0 \/ \E n \in DOMAIN log : Pays(log[n]) /\ Through = log[n].last
          /\ \A n \in DOMAIN log : Pays(log[n]) => log[n].id \in SettledRefs
      BY BoundaryIsTheLast
    <2>7. 0 < f /\ f <= l /\ l < now /\ f > Through
      BY <2>1, <2>3, <2>5, KeeperIsTyped
    <2>8. \A n \in DOMAIN log : Pays(log[n]) => log[n].last < f
      BY <2>6, <2>7, KeeperIsTyped
    <2>9. ASSUME NEW t \in tape, t < f PROVE InTheLog(t)
      <3>1. t \in Nat /\ t > 0
        BY KeeperIsTyped
      <3>2. t \notin S
        BY <2>3, <2>5, <2>9, <3>1
      <3>3. ~(t > Through)
        BY <3>2 DEF S, Unpaid
      <3>4. t <= Through /\ Through # 0
        BY <2>6, <3>1, <3>3
      <3> QED BY <2>6, <3>4 DEF KInv, LogCoversTheTape
    <2>10. BillStartsAfter(f, l)
      BY <2>7, <2>8, <2>9 DEF BillStartsAfter
    <2>11. BillStartsAfter(f, l)'
      BY <1>1, <1>2, <1>7, <2>10, PassKeeps DEF PassStarts
    <2>12. BillStartsAfter(keeper.bill.first, keeper.bill.last)'
      BY <2>4, <2>5, <2>11 DEF BillStartsAfter
    <2> QED BY <2>3, <2>4, <2>6, <2>12 DEF PassIsNext, HasRow, Pays
  <1>8. CASE PassGivesUp \/ PassRecords
    BY <1>8 DEF PassGivesUp, PassRecords, Idle, PassIsNext, HasRow
  <1>9. CASE Undisturbed \/ BlockMade
    BY <1>3, <1>9 DEF Undisturbed, BlockMade
  <1> QED BY <1>1, <1>5, <1>6, <1>7, <1>8, <1>9, AloneMoves

\* A row that pays, added to the log, is whole and follows the others.
LEMMA PayRowsStayWhole ==
    ASSUME Alone, KInv, [Next]_vars
    PROVE  PayRowsAreWhole'
  <1>1. PayRowsAreWhole /\ PassIsNext /\ now \in Nat /\ CInv
    BY KeeperIsTyped DEF KInv
  <1>2. now' \in Nat /\ now' >= now /\ judged \subseteq judged'
    BY AloneGoesOn
  <1>3. \A n \in DOMAIN log : log[n].last \in Nat /\ log[n].first \in Nat /\ n \in Nat
    BY KeeperIsTyped
  <1>4. CASE log' = log
    <2>1. \A n \in DOMAIN log : Pays(log[n]) => log[n].last < now' /\ RecordIn(log[n]) \in judged'
      BY <1>1, <1>2, <1>3 DEF PayRowsAreWhole
    <2> QED BY <1>1, <1>4, <2>1 DEF PayRowsAreWhole, Pays, RecordIn
  <1>5. CASE Written /\ Grows(keeper.row)
    <2> DEFINE k == Len(log) + 1
    <2>1. PICK row \in Row : row = keeper.row /\ HasRow
      BY <1>5, KeeperIsTyped DEF Written
    <2>2. /\ DOMAIN log' = DOMAIN log \cup {k} /\ k \notin DOMAIN log
          /\ \A n \in DOMAIN log : log'[n] = log[n] /\ n < k /\ n \in Nat
          /\ log'[k] = row /\ k \in Nat
      <3>1. Grows(row) /\ Len(log) \in Nat
        BY <1>5, <2>1, KeeperIsTyped
      <3>2. /\ DOMAIN log' = DOMAIN log \cup {Len(log) + 1} /\ Len(log) + 1 \notin DOMAIN log
            /\ \A n \in DOMAIN log : log'[n] = log[n] /\ n < Len(log) + 1 /\ n \in Nat
            /\ log'[Len(log) + 1] = row
        BY <1>1, <3>1, GrownLog
      <3>3. Len(log) + 1 \in Nat
        BY <3>1
      <3> QED BY ONLY <3>2, <3>3
    <2> HIDE DEF k
    <2>3. judged' = judged /\ now' = now
      BY <1>5 DEF Written
    <2>4. Pays(row) =>
            /\ row.paid > 0 /\ row.actor = "agent" /\ row.first <= row.last
            /\ row.id = SecondOf(row.last)
            /\ row.first > 0 /\ row.last < now /\ RecordIn(row) \in judged
            /\ \A n \in DOMAIN log : Pays(log[n]) => log[n].last < row.first /\ log[n].id # row.id
      <3>1. Pays(row) => row.paid > 0
        BY <1>5, <2>1 DEF Written, LogsPayment
      <3>2. row.actor = "agent"
        BY <1>1, <2>1 DEF CInv, KeeperRowIsSound
      <3>3. row.first \in Nat /\ row.last \in Nat
        BY <2>1, KeeperIsTyped
      <3> QED BY <1>1, <2>1, <3>1, <3>2, <3>3 DEF PassIsNext, BillStartsAfter
    <2>5. \A n \in DOMAIN log : Pays(log[n]) =>
            /\ log[n].paid > 0 /\ log[n].actor = "agent"
            /\ log[n].first <= log[n].last /\ log[n].id = SecondOf(log[n].last) /\ log[n].first > 0
            /\ log[n].last < now /\ RecordIn(log[n]) \in judged
      BY <1>1 DEF PayRowsAreWhole
    <2>6. \A m, n \in DOMAIN log :
            m < n /\ Pays(log[m]) /\ Pays(log[n]) =>
                log[m].last < log[n].first /\ log[m].id # log[n].id
      BY <1>1 DEF PayRowsAreWhole
    <2>7. \A n \in DOMAIN log' : Pays(log'[n]) =>
            /\ log'[n].paid > 0 /\ log'[n].actor = "agent"
            /\ log'[n].first <= log'[n].last /\ log'[n].id = SecondOf(log'[n].last) /\ log'[n].first > 0
            /\ log'[n].last < now /\ RecordIn(log'[n]) \in judged
      BY <2>2, <2>4, <2>5
    <2>8. \A m, n \in DOMAIN log' :
            m < n /\ Pays(log'[m]) /\ Pays(log'[n]) =>
                log'[m].last < log'[n].first /\ log'[m].id # log'[n].id
      BY <2>2, <2>4, <2>6
    <2> QED BY <2>3, <2>7, <2>8 DEF PayRowsAreWhole, Pays, RecordIn
  <1> QED BY <1>4, <1>5, AloneGoesOn

\* All that was bought before a payment's end is in the rows that pay.
LEMMA LogStillCoversTheTape ==
    ASSUME Alone, KInv, [Next]_vars
    PROVE  LogCoversTheTape'
  <1>1. LogCoversTheTape /\ PassIsNext /\ PayRowsAreWhole /\ now \in Nat /\ CInv
    BY KeeperIsTyped DEF KInv
  <1>2. \A n \in DOMAIN log : log[n].last \in Nat /\ log[n].first \in Nat /\ n \in Nat
    BY KeeperIsTyped
  <1>3. \A n \in DOMAIN log : n \in DOMAIN log' /\ log'[n] = log[n]
    BY <1>1, RecordsStay
  <1>4. ASSUME NEW t, InTheLog(t) PROVE InTheLog(t)'
    BY <1>3, <1>4 DEF InTheLog
  <1>5. ASSUME NEW t \in tape', NEW n \in DOMAIN log, Pays(log[n]), t <= log[n].last
        PROVE  InTheLog(t)
    <2>1. log[n].last < now
      BY <1>1, <1>5 DEF PayRowsAreWhole
    <2>2. t # now
      BY <1>1, <1>2, <1>5, <2>1
    <2>3. t \in tape
      BY <2>2, <1>5, AloneGoesOn
    <2> QED BY <1>1, <1>5, <2>3 DEF LogCoversTheTape
  <1>6. CASE log' = log
    <2>1. \A t \in tape', n \in DOMAIN log' : Pays(log'[n]) /\ t <= log'[n].last => InTheLog(t)'
      BY <1>4, <1>5, <1>6
    <2> QED BY <2>1 DEF LogCoversTheTape, Pays
  <1>7. CASE Written /\ Grows(keeper.row)
    <2> DEFINE k == Len(log) + 1
    <2>1. PICK row \in Row : row = keeper.row /\ HasRow
      BY <1>7, KeeperIsTyped DEF Written
    <2>2. /\ DOMAIN log' = DOMAIN log \cup {k} /\ log'[k] = row
      BY <1>1, <1>7, <2>1, GrownLog
    <2> HIDE DEF k
    <2>3. tape' = tape
      BY <1>7 DEF Written
    <2>4. ASSUME NEW t \in tape, Pays(row), t <= row.last PROVE InTheLog(t)'
      <3>1. t \in Nat /\ row.first \in Nat
        BY <2>1, KeeperIsTyped
      <3>2. CASE t < row.first
        BY <1>1, <1>4, <2>1, <2>4, <3>2 DEF PassIsNext, BillStartsAfter
      <3>3. CASE row.first <= t
        BY <2>2, <2>4, <3>3 DEF InTheLog, Pays
      <3> QED BY <3>1, <3>2, <3>3
    <2>5. \A t \in tape', n \in DOMAIN log' : Pays(log'[n]) /\ t <= log'[n].last => InTheLog(t)'
      BY <1>3, <1>4, <1>5, <2>2, <2>3, <2>4
    <2> QED BY <2>5 DEF LogCoversTheTape, Pays
  <1> QED BY <1>6, <1>7, AloneGoesOn

\* A decision is judged at a moment of its own.
LEMMA DecisionsAreJudgedOnce ==
    ASSUME Alone, KInv, [Next]_vars
    PROVE  JudgedOnce'
  <1>1. JudgedOnce /\ now \in Nat /\ CInv
    BY KeeperIsTyped DEF KInv
  <1>2. now' \in Nat /\ now' >= now
    BY AloneGoesOn
  <1>3. \A r \in judged : r.decision \in Nat
    <2>1. judged \subseteq [decision : Moments, first : Moments, last : Moments]
      BY <1>1, LogIsTyped DEF OperatorTyped
    <2>2. \A n \in 1..MaxTime : n \in Nat
      OBVIOUS
    <2> QED BY <2>1, <2>2 DEF Moments
  <1>4. ASSUME judged' = judged PROVE JudgedOnce'
    BY <1>1, <1>2, <1>3, <1>4 DEF JudgedOnce
  <1>5. CASE PassJudges
    <2>1. PICK new : new.decision = now /\ judged' = judged \cup {new}
      BY <1>5 DEF PassJudges
    <2>2. now' = now + 1
      BY <1>5 DEF PassJudges, Judges
    <2> QED BY <1>1, <1>3, <2>1, <2>2 DEF JudgedOnce
  <1> QED
    BY <1>1, <1>4, <1>5, AloneMoves
    DEF Undisturbed, BlockMade, PassStarts, PassSends, PassConfirms, PassGivesUp, PassRecords

\* What a transaction in flight is: the pass' payment.
LEMMA TransactionsAreTyped ==
    ASSUME KInv
    PROVE  /\ \A tx \in txs : tx.decision \in Nat /\ tx.decision < now
           /\ keeper.pc # "waiting" => \A tx \in txs : tx.state # "pending"
           /\ \A state : \A tx, over \in txs :
                keeper.pc = "waiting" /\ over.decision = keeper.row.at /\ over.state = state
                  /\ state # "pending" => tx.state # "pending"
  <1>1. txs \subseteq Transactions
    BY KeeperIsTyped, LogIsTyped DEF OperatorTyped
  <1>2. \A n \in 1..MaxTime : n \in Nat
    OBVIOUS
  <1>3. \A tx \in txs : tx.decision \in Nat
    BY <1>1, <1>2 DEF Transactions, Moments
  <1> QED BY <1>3 DEF KInv, TransactionsAreThePasses

LEMMA TransactionsStayThePasses ==
    ASSUME Alone, KInv, [Next]_vars
    PROVE  TransactionsAreThePasses'
  <1>1. TransactionsAreThePasses /\ now \in Nat /\ CInv
    BY KeeperIsTyped DEF KInv
  <1>2. now' \in Nat /\ now' >= now
    BY AloneGoesOn
  <1>3. \A tx \in txs : tx.decision \in Nat /\ tx.decision < now'
    BY <1>1, <1>2, TransactionsAreTyped
  <1>4. CASE Undisturbed
    BY <1>1, <1>3, <1>4 DEF TransactionsAreThePasses, Undisturbed
  <1>5. ASSUME txs' = txs, \A tx \in txs : tx.state # "pending",
               keeper'.pc = "sending" => \A tx \in txs : tx.decision # keeper'.row.at
        PROVE  TransactionsAreThePasses'
    BY <1>1, <1>3, <1>5 DEF TransactionsAreThePasses
  <1>6. CASE BlockMade
    <2>1. PICK tx \in txs, state \in {"mined", "reverted"} :
              Blocks(tx, state) /\ keeper' = keeper
      BY <1>6 DEF BlockMade
    <2>2. PICK over : /\ txs' = (txs \ {tx}) \cup {over} /\ over.decision = tx.decision
                      /\ over.state # "pending" /\ tx.state = "pending"
      BY <2>1 DEF Blocks, Block
    <2>3. keeper.pc # "sending"
      BY <1>1, <2>2 DEF TransactionsAreThePasses
    <2> QED BY <1>1, <1>3, <2>1, <2>2, <2>3 DEF TransactionsAreThePasses
  <1>7. CASE PassJudges
    <2>1. PICK row : Judges(row) /\ keeper.pc = "judging"
      BY <1>7 DEF PassJudges
    <2>2. keeper'.row.at = now /\ txs' = txs
      BY <2>1 DEF Judges, RowMade
    <2>3. \A tx \in txs : tx.decision # now
      BY <1>1, TransactionsAreTyped
    <2> QED BY <1>5, <2>1, <2>2, <2>3, TransactionsAreTyped
  <1>8. CASE PassSends
    <2> DEFINE new == Tx("keeper", keeper.row)
    <2>1. HasRow /\ keeper.pc = "sending" /\ keeper.row \in Row
      BY <1>8, KeeperIsTyped DEF PassSends, Sends, HasRow
    <2>2. new.decision = keeper.row.at /\ new.state = "pending"
      BY <2>1, TransactionIsTyped
    <2>3. keeper.row.at < now'
      BY <1>1, <1>2, <2>1, KeeperIsTyped
    <2>4. txs' = txs \cup {new} /\ keeper'.pc = "waiting" /\ keeper'.row = keeper.row
      BY <1>8 DEF PassSends, Sends
    <2> HIDE DEF new
    <2>5. /\ \A tx \in txs : tx.decision # new.decision
          /\ \A tx \in txs : tx.state # "pending"
      BY <1>1, <2>1, <2>2, TransactionsAreTyped DEF TransactionsAreThePasses
    <2> QED BY <1>1, <1>3, <2>2, <2>3, <2>4, <2>5 DEF TransactionsAreThePasses
  <1>9. CASE PassConfirms
    <2>1. keeper.row \in Row /\ keeper.pc = "waiting" /\ Mined("keeper", keeper.row) \in txs
      BY <1>9, KeeperIsTyped DEF PassConfirms, Confirms, HasRow
    <2>2. /\ Mined("keeper", keeper.row).decision = keeper.row.at
          /\ Mined("keeper", keeper.row).state = "mined"
      BY <2>1, TransactionIsTyped
    <2>3. \A tx \in txs : tx.state # "pending"
      BY <2>1, <2>2, TransactionsAreTyped
    <2> QED BY <1>5, <1>9, <2>3 DEF PassConfirms, Confirms
  <1>10. CASE PassGivesUp
    <2>1. keeper.row \in Row
      BY <1>10, KeeperIsTyped DEF PassGivesUp, HasRow
    <2>2. /\ Reverted("keeper", keeper.row).decision = keeper.row.at
          /\ Reverted("keeper", keeper.row).state = "reverted"
      BY <2>1, TransactionIsTyped
    <2>3. \A tx \in txs : tx.state # "pending"
      BY <1>10, <2>1, <2>2, TransactionsAreTyped DEF PassGivesUp
    <2> QED BY <1>5, <1>10, <2>3 DEF PassGivesUp, Idle
  <1>11. CASE PassStarts \/ PassRecords
    <2>1. keeper.pc # "waiting" /\ keeper'.pc \in {"idle", "judging"} /\ txs' = txs
      BY <1>11 DEF PassStarts, StartPass, PassRecords, Idle
    <2> QED BY <1>5, <2>1, TransactionsAreTyped
  <1> QED BY <1>1, <1>4, <1>6, <1>7, <1>8, <1>9, <1>10, <1>11, AloneMoves

\* Every payment is of a mined transaction, and in the log or about to be.
KnownIn(d) ==
    \/ \E n \in DOMAIN log : Pays(log[n]) /\ log[n].at = d
    \/ keeper.pc \in {"waiting", "recording"} /\ Pays(keeper.row) /\ keeper.row.at = d
MinedFor(d) == \E tx \in txs : tx.state = "mined" /\ tx.decision = d

LEMMA PaymentsStayKnown ==
    ASSUME Alone, KInv, [Next]_vars
    PROVE  PaymentsAreKnown'
  <1>1. now \in Nat /\ CInv /\ TransactionsAreThePasses
    BY KeeperIsTyped DEF KInv
  <1>2. \A i \in Payments : MinedFor(spentLog[i].decision) /\ KnownIn(spentLog[i].decision)
    BY DEF KInv, PaymentsAreKnown, MinedFor, KnownIn
  <1>3. \A n \in DOMAIN log : n \in DOMAIN log' /\ log'[n] = log[n]
    BY <1>1, RecordsStay
  <1>4. ASSUME NEW d, MinedFor(d), \A tx \in txs : tx \in txs' \/ tx.state # "mined"
        PROVE  MinedFor(d)'
    BY <1>4 DEF MinedFor
  <1>5. ASSUME NEW d, KnownIn(d),
               \/ keeper' = keeper
               \/ ~(keeper.pc \in {"waiting", "recording"} /\ Pays(keeper.row) /\ keeper.row.at = d)
               \/ /\ keeper'.pc = "recording" /\ keeper'.row.at = keeper.row.at
                  /\ keeper'.row.intent = keeper.row.intent
               \/ LogsPayment(keeper.row)
        PROVE  KnownIn(d)'
    <2>1. CASE \E n \in DOMAIN log : Pays(log[n]) /\ log[n].at = d
      BY <1>3, <2>1 DEF KnownIn, Pays
    <2>2. CASE LogsPayment(keeper.row) /\ keeper.row.at = d
      <3>1. /\ DOMAIN log' = DOMAIN log \cup {Len(log) + 1}
            /\ log'[Len(log) + 1] = keeper.row /\ Pays(keeper.row)
        BY <1>1, <2>2, GrownLog DEF LogsPayment
      <3> QED BY <2>2, <3>1 DEF KnownIn, Pays
    <2>3. CASE keeper.pc \in {"waiting", "recording"} /\ Pays(keeper.row) /\ keeper.row.at = d
      BY <1>5, <2>2, <2>3 DEF KnownIn, Pays
    <2> QED BY <1>5, <2>1, <2>3 DEF KnownIn
  <1>6. ASSUME spentLog' = spentLog,
               \A i \in Payments : MinedFor(spentLog[i].decision)' /\ KnownIn(spentLog[i].decision)'
        PROVE  PaymentsAreKnown'
    BY <1>6 DEF PaymentsAreKnown, MinedFor, KnownIn, Payments
  <1>7. ASSUME keeper.pc \notin {"waiting", "recording"}, NEW d
        PROVE  ~(keeper.pc \in {"waiting", "recording"} /\ Pays(keeper.row) /\ keeper.row.at = d)
    BY <1>7
  <1>8. CASE Undisturbed
    BY <1>2, <1>4, <1>5, <1>6, <1>8 DEF Undisturbed
  <1>9. CASE BlockMade
    <2>1. PICK tx \in txs, state \in {"mined", "reverted"} :
              Blocks(tx, state) /\ keeper' = keeper
      BY <1>9 DEF BlockMade
    <2>2. PICK over : /\ txs' = (txs \ {tx}) \cup {over} /\ over.decision = tx.decision
                      /\ over.state = state /\ tx.state = "pending"
      BY <2>1 DEF Blocks, Block
    <2>3. \A i \in Payments : MinedFor(spentLog[i].decision)' /\ KnownIn(spentLog[i].decision)'
      <3>1. \A d : MinedFor(d) => MinedFor(d)'
        BY <1>4, <2>2
      <3>2. \A d : KnownIn(d) => KnownIn(d)'
        BY <1>5, <2>1
      <3>3. \A i \in Payments : spentLog'[i] = spentLog[i]
        BY <1>1, RecordsStay
      <3> SUFFICES ASSUME NEW i \in Payments
                   PROVE  MinedFor(spentLog[i].decision)' /\ KnownIn(spentLog[i].decision)'
        OBVIOUS
      <3>4. PICK d : d = spentLog[i].decision
        OBVIOUS
      <3>5. MinedFor(d)' /\ KnownIn(d)' /\ spentLog'[i].decision = d
        BY <1>2, <3>1, <3>2, <3>3, <3>4
      <3> QED BY <3>5 DEF MinedFor, KnownIn
    <2>4. CASE state = "reverted"
      BY <1>6, <2>1, <2>3, <2>4 DEF Blocks
    <2>5. CASE state = "mined"
      <3> DEFINE k == Len(spentLog) + 1
      <3>1. PaysFor(tx)
        BY <2>1, <2>5 DEF Blocks
      <3>2. Payments' = Payments \cup {k}
        BY <1>1, <3>1, PaysForIsPaid
      <3>3. spentLog'[k].decision = tx.decision /\ \A i \in Payments : spentLog'[i] = spentLog[i]
        BY <3>1 DEF PaysFor
      <3> HIDE DEF k
      <3>4. MinedFor(tx.decision)'
        BY <2>2, <2>5 DEF MinedFor
      <3>5. keeper.pc = "waiting" /\ tx.decision = keeper.row.at
        BY <1>1, <2>2 DEF TransactionsAreThePasses
      <3>6. Pays(keeper.row)
        BY <1>1, <3>5 DEF CInv, KeeperRowIsSound, HasRow, Pays
      <3>7. KnownIn(tx.decision)'
        BY <2>1, <3>5, <3>6 DEF KnownIn, Pays
      <3>8. ASSUME NEW i \in Payments'
            PROVE  MinedFor(spentLog[i].decision)' /\ KnownIn(spentLog[i].decision)'
        <4>1. CASE i = k
          BY <3>3, <3>4, <3>7, <4>1 DEF MinedFor, KnownIn
        <4>2. CASE i \in Payments
          BY <2>3, <4>2
        <4> QED BY <3>2, <4>1, <4>2
      <3> QED BY <3>8 DEF PaymentsAreKnown, MinedFor, KnownIn
    <2> QED BY <2>4, <2>5
  <1>10. CASE PassStarts
    BY <1>2, <1>4, <1>5, <1>6, <1>7, <1>10 DEF PassStarts, StartPass
  <1>11. CASE PassJudges
    BY <1>2, <1>4, <1>5, <1>6, <1>7, <1>11 DEF PassJudges, Judges
  <1>12. CASE PassSends
    BY <1>2, <1>4, <1>5, <1>6, <1>7, <1>12 DEF PassSends, Sends
  <1>13. CASE PassConfirms
    <2>1. keeper.row \in Row
      BY <1>13, KeeperIsTyped DEF PassConfirms, Confirms, HasRow
    <2>2. /\ keeper'.pc = "recording" /\ keeper'.row.at = keeper.row.at
          /\ keeper'.row.intent = keeper.row.intent
      BY <1>13, <2>1, ConfirmedIsTyped DEF PassConfirms, Confirms
    <2> QED BY <1>2, <1>4, <1>5, <1>6, <1>13, <2>2 DEF PassConfirms, Confirms
  <1>14. CASE PassGivesUp
    <2>1. keeper.row \in Row
      BY <1>14, KeeperIsTyped DEF PassGivesUp, HasRow
    <2>2. /\ Reverted("keeper", keeper.row).decision = keeper.row.at
          /\ Reverted("keeper", keeper.row).state = "reverted"
      BY <2>1, TransactionIsTyped
    <2>3. \A d : MinedFor(d) => keeper.row.at # d
      BY <1>1, <1>14, <2>2 DEF MinedFor, TransactionsAreThePasses, PassGivesUp
    <2> QED BY <1>2, <1>4, <1>5, <1>6, <1>14, <2>3 DEF PassGivesUp
  <1>15. CASE PassRecords
    <2>1. Written
      BY <1>15, AloneGoesOn
    <2> QED BY <1>2, <1>4, <1>5, <1>6, <2>1 DEF Written
  <1> QED
    BY <1>1, <1>8, <1>9, <1>10, <1>11, <1>12, <1>13, <1>14, <1>15, AloneMoves

-----------------------------------------------------------------------------
(* The keeper alone pays everything once.                                  *)

LEMMA InitKInv == Init => KInv
  <1> SUFFICES ASSUME Init PROVE KInv
    OBVIOUS
  <1>1. CInv
    BY InitCInv
  <1>2. log = <<>> /\ spentLog = <<>> /\ now = 1 /\ txs = {} /\ judged = {} /\ tape = {}
    BY DEF Init
  <1>3. keeper.pc = "idle" /\ ~HasRow
    BY DEF Init, HasRow, Idle
  <1>4. DOMAIN log = {} /\ Len(log) = 0 /\ Payments = {}
    BY <1>2 DEF Payments
  <1> QED
    BY <1>1, <1>2, <1>3, <1>4
    DEF KInv, LogIsShort, PayRowsAreWhole, PassIsNext, JudgedOnce, TransactionsAreThePasses,
        PaymentsAreKnown, LogCoversTheTape

LEMMA StepKInv ==
    ASSUME Alone
    PROVE  KInv /\ [Next]_vars => KInv'
  <1> SUFFICES ASSUME KInv, [Next]_vars PROVE KInv'
    OBVIOUS
  <1>1. CInv'
    BY StepCInv DEF KInv
  <1> QED
    BY <1>1, LogStaysShort, PayRowsStayWhole, PassStaysNext, DecisionsAreJudgedOnce,
       TransactionsStayThePasses, PaymentsStayKnown, LogStillCoversTheTape
    DEF KInv

LEMMA AloneInvariance ==
    ASSUME Alone
    PROVE  Spec => []KInv
  BY InitKInv, StepKInv, PTL DEF Spec

\* What the console and the chain hold, whatever goes wrong.
LEMMA CInvIsTyped == CInv => TypeOK
  <1> SUFFICES ASSUME CInv PROVE TypeOK
    OBVIOUS
  <1>1. /\ Paying!TypeOK /\ OperatorTyped /\ now \in Moments
        /\ \A n \in DOMAIN log : log[n] \in Row
        /\ keeper.pc \in {"idle", "judging", "sending", "waiting", "recording"}
    BY LogIsTyped DEF Paying!IInv
  <1>2. Wallet!TypeOK
    BY <1>1
    DEF Paying!TypeOK, Wallet!TypeOK, Paying!Budget, Wallet!Budget, Paying!Approval,
        Wallet!Approval, Paying!Spent, Wallet!Spent, Paying!BudgetSet, Wallet!BudgetSet
  <1>3. bought \subseteq 1..MaxTime /\ tape \subseteq bought
    <2>1. bought \subseteq 1..(now - 1) /\ tape \subseteq bought
      BY <1>1 DEF OperatorTyped
    <2>2. now \in 1..MaxTime
      BY <1>1 DEF Moments
    <2>3. 1..(now - 1) \subseteq 1..MaxTime
      BY <2>2
    <2> QED BY <2>1, <2>3
  <1>4. \A n \in DOMAIN log :
          /\ log[n].intent \in {"pay", "reroute", "escalate", "refuse"}
          /\ log[n].paid \in {0, log[n].units}
          /\ log[n].at \in 1..MaxTime
    <2> SUFFICES ASSUME NEW n \in DOMAIN log
                 PROVE  /\ log[n].intent \in {"pay", "reroute", "escalate", "refuse"}
                        /\ log[n].paid \in {0, log[n].units}
                        /\ log[n].at \in 1..MaxTime
      OBVIOUS
    <2>1. /\ log[n].intent \in {"pay", "reroute", "escalate", "refuse"}
          /\ log[n].at \in 1..MaxTime /\ log[n].paid \in Nat
      BY <1>1 DEF Row, Moments
    <2>2. log[n].paid > 0 => log[n].paid = log[n].units
      BY DEF CInv, PaidRowsNameTheirRecord
    <2> QED BY <2>1, <2>2
  <1>5. \A q \in Requests : desk[q].pc \in {"idle", "waiting"}
    BY <1>1, ApprovalsAre DEF OperatorTyped
  <1>6. \A tx \in txs : tx.state \in {"pending", "mined", "reverted"}
    BY <1>1 DEF OperatorTyped, Transactions
  <1> QED BY <1>1, <1>2, <1>3, <1>4, <1>5, <1>6 DEF TypeOK

\* The state is of its type, with the console open and everything failing.
THEOREM OperatorTypeCorrect == Spec => []TypeOK
  BY CInvIsTyped, ConsoleInvariance, PTL

\* The row a payment is for.
RowOf(i, row) ==
    /\ RecordOf(i) = RecordIn(row) /\ row.at = spentLog[i].decision /\ Pays(row)
    /\ row.first \in Nat /\ row.last \in Nat /\ row.first <= row.last
    /\ row.id = SecondOf(row.last)
    /\ (\E n \in DOMAIN log : row = log[n]) \/ (HasRow /\ row = keeper.row)

LEMMA RecordIsTheRows ==
    ASSUME KInv, NEW i \in Payments, NEW row, RecordIn(row) \in judged,
           row.at = spentLog[i].decision
    PROVE  RecordOf(i) = RecordIn(row)
  <1>1. \A r, s \in judged : r.decision = s.decision => r = s
    BY DEF KInv, JudgedOnce
  <1>2. RecordIn(row).decision = spentLog[i].decision
    BY DEF RecordIn
  <1>3. RecordOf(i) \in judged /\ RecordOf(i).decision = spentLog[i].decision
    BY <1>2 DEF RecordOf
  <1> QED BY <1>1, <1>2, <1>3

LEMMA PaymentsHaveRows ==
    ASSUME KInv, NEW i \in Payments
    PROVE  \E row : RowOf(i, row)
  <1>1. CASE \E n \in DOMAIN log : Pays(log[n]) /\ log[n].at = spentLog[i].decision
    <2>1. PICK n \in DOMAIN log : Pays(log[n]) /\ log[n].at = spentLog[i].decision
      BY <1>1
    <2>2. /\ RecordIn(log[n]) \in judged /\ log[n].first <= log[n].last
          /\ log[n].id = SecondOf(log[n].last)
      BY <2>1 DEF KInv, PayRowsAreWhole
    <2>3. RowOf(i, log[n])
      BY <2>1, <2>2, RecordIsTheRows, KeeperIsTyped DEF RowOf
    <2> QED BY <2>3
  <1>2. CASE /\ keeper.pc \in {"waiting", "recording"} /\ Pays(keeper.row)
             /\ keeper.row.at = spentLog[i].decision
    <2>1. HasRow
      BY <1>2 DEF HasRow
    <2>2. /\ RecordIn(keeper.row) \in judged /\ keeper.row.first <= keeper.row.last
          /\ keeper.row.id = SecondOf(keeper.row.last)
      BY <1>2, <2>1 DEF KInv, PassIsNext, BillStartsAfter
    <2>3. RowOf(i, keeper.row)
      BY <1>2, <2>1, <2>2, RecordIsTheRows, KeeperIsTyped DEF RowOf
    <2> QED BY <2>3
  <1> QED BY <1>1, <1>2 DEF KInv, PaymentsAreKnown

LEMMA PaidBillsAreApart ==
    ASSUME KInv, NEW i \in Payments, NEW j \in Payments, i # j,
           NEW r, RowOf(i, r), NEW s, RowOf(j, s)
    PROVE  (r.last < s.first \/ s.last < r.first) /\ r.id # s.id
  <1>1. r.at # s.at
    <2>1. spentLog[i].decision # spentLog[j].decision
      BY DEF KInv, CInv, Paying!IInv, Paying!DecisionPaidOnce, Paying!Events, Payments
    <2> QED BY <2>1 DEF RowOf
  <1>2. CASE (\E n \in DOMAIN log : r = log[n]) /\ (\E n \in DOMAIN log : s = log[n])
    <2>1. PICK m \in DOMAIN log, n \in DOMAIN log : r = log[m] /\ s = log[n]
      BY <1>2
    <2>2. m < n \/ n < m
      BY <1>1, <2>1, KeeperIsTyped
    <2> QED BY <2>1, <2>2 DEF RowOf, KInv, PayRowsAreWhole
  <1>3. CASE HasRow /\ r = keeper.row /\ \E n \in DOMAIN log : s = log[n]
    BY <1>3 DEF RowOf, KInv, PassIsNext, BillStartsAfter
  <1>4. CASE HasRow /\ s = keeper.row /\ \E n \in DOMAIN log : r = log[n]
    BY <1>4 DEF RowOf, KInv, PassIsNext, BillStartsAfter
  <1> QED BY <1>1, <1>2, <1>3, <1>4 DEF RowOf

LEMMA AlonePaysOnce == KInv => NothingIsPaidTwice
  <1> SUFFICES ASSUME KInv PROVE NothingIsPaidTwice
    OBVIOUS
  <1>1. TypeOK
    BY CInvIsTyped, KeeperIsTyped
  <1>2. ReferencePaidOnce
    <2> SUFFICES ASSUME NEW i \in Payments, NEW j \in Payments, i # j,
                        Reference(i) = Reference(j)
                 PROVE  FALSE
      BY DEF ReferencePaidOnce
    <2>1. PICK r, s : RowOf(i, r) /\ RowOf(j, s)
      BY PaymentsHaveRows
    <2>2. r.id # s.id
      BY <2>1, PaidBillsAreApart
    <2>3. Reference(i) = r.id /\ Reference(j) = s.id
      BY <2>1 DEF RowOf, RecordIn, Reference
    <2> QED BY <2>2, <2>3
  <1>3. ConsumptionPaidOnce
    <2> SUFFICES ASSUME NEW i \in Payments, NEW j \in Payments, NEW t \in bought, i # j,
                        Covers(i, t), Covers(j, t)
                 PROVE  FALSE
      BY DEF ConsumptionPaidOnce
    <2>1. PICK r, s : RowOf(i, r) /\ RowOf(j, s)
      BY PaymentsHaveRows
    <2>2. r.last < s.first \/ s.last < r.first
      BY <2>1, PaidBillsAreApart
    <2>3. r.first <= t /\ t <= r.last /\ s.first <= t /\ t <= s.last /\ t \in Nat
      <3>1. bought \subseteq 1..MaxTime
        BY <1>1 DEF TypeOK
      <3> QED BY <2>1, <3>1 DEF RowOf, RecordIn, Covers
    <2> QED BY <2>1, <2>2, <2>3 DEF RowOf
  <1> QED BY <1>1, <1>2, <1>3 DEF NothingIsPaidTwice

LEMMA AloneSettles == ASSUME Alone PROVE KInv => SettledIsPaid
  <1> SUFFICES ASSUME KInv, NEW t \in tape, t <= Through
               PROVE  \E i \in Payments : Covers(i, t)
    BY DEF SettledIsPaid
  <1>1. t \in Nat /\ t > 0
    BY KeeperIsTyped
  <1>2. InTheLog(t)
    BY <1>1, BoundaryIsTheLast DEF KInv, LogCoversTheTape
  <1>3. PICK n \in DOMAIN log : Pays(log[n]) /\ log[n].first <= t /\ t <= log[n].last
    BY <1>2 DEF InTheLog
  <1>4. log[n].paid > 0 /\ log[n].actor = "agent" /\ RecordIn(log[n]) \in judged
    BY <1>3 DEF KInv, PayRowsAreWhole
  <1>5. log[n].tx = log[n].at
    BY <1>4 DEF KInv, CInv, PaidRowsNameTheirRecord
  <1>6. IsPaid(log[n].tx, log[n].paid, log[n].actor = "owner")
    BY <1>4 DEF KInv, CInv, RecordedIsPaid
  <1>7. PICK i \in Payments : spentLog[i].decision = log[n].at
    BY <1>5, <1>6 DEF IsPaid
  <1>8. RecordOf(i) = RecordIn(log[n])
    BY <1>4, <1>7, RecordIsTheRows
  <1> QED BY <1>3, <1>8 DEF Covers, RecordIn

\* Alone, answered and with its log in reach, the keeper pays no bill and no
\* consumption twice, for any number of settlements, budgets and moments.
THEOREM AlonePaysNothingTwice == ASSUME Alone PROVE Spec => []NothingIsPaidTwice
  BY AlonePaysOnce, AloneInvariance, PTL

\* And what its log counts as settled has been paid for: no boundary moves past
\* consumption that was never billed.
THEOREM AloneSettlesWhatIsPaid == ASSUME Alone PROVE Spec => []SettledIsPaid
  BY AloneSettles, AloneInvariance, PTL
=============================================================================
