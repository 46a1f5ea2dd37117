------------------------------ MODULE Operator ------------------------------
(***************************************************************************)
(* The spend operator of one business: the keeper that turns settlements   *)
(* into bills, judges each and pays the sound ones through the business'   *)
(* PolicyWallet (operator_keeper.py, operator.py), and the console where   *)
(* the owner settles what the keeper escalates (ops_actions.py).  The two  *)
(* share the append-only decision log and the wallet, and no lock.         *)
(*                                                                         *)
(* Abstractions.  One (seller, resource) pair: settlements are the moments *)
(* they happened, each worth one USDC unit, and a bill's id is the whole   *)
(* second its window ends in, as in obligation_key.  The meter, the        *)
(* screen, the agreement and the price are one piece of Evidence per       *)
(* decision.  Every settlement and every decision happens at a moment of   *)
(* its own (time.time has sub-second precision), so `at` tells records     *)
(* apart and stands for the hash of the record it is part of.  The         *)
(* facilitator's ring holds everybody's receipts: of those of others,      *)
(* whose number nothing bounds, only what they push out is seen.  The      *)
(* press runs in "live" mode for a business with a wallet, and the wallet  *)
(* is PolicyWallet.                                                        *)
(***************************************************************************)
EXTENDS Integers, FiniteSets, SequencesExt

CONSTANTS Agent, Owner, Vendor, Category, Nobody,
          Budgets,        \* the settings the owner tries in setBudget
          Funded,         \* USDC in the wallet at the start
          Budgeted,       \* the wallet starts with a budget
          Requests,       \* approval requests the console serves at a time
          Evidence,       \* verdicts of the judgments before the budget
          ReadLimit,      \* read_decisions(limit)
          RingSize,       \* receipts the facilitator keeps
          Crowded,        \* others' receipts may push out the business'
          Second,         \* moments in a second
          SendTimesOut,   \* waiting for a receipt may time out
          PressCrashes,   \* the press may restart
          LogFails,       \* the disk may be full
          MaxTape,        \* bound on settlements of the business
          LastPurchase,   \* bound on the moment of one
          MaxBudgetSets,  \* bound on setBudget calls
          MaxTime         \* bound on moments

ASSUME OperatorAssumption ==
    /\ Agent # Owner /\ Nobody \notin {Agent, Owner, Vendor}
    /\ \A b \in Budgets :  \* those setBudget accepts
          /\ b \in [cap : Nat, perTxLimit : Nat, periodLength : Nat]
          /\ b.perTxLimit \in 1..b.cap /\ b.periodLength > 0
    /\ "keeper" \notin Requests
    /\ Evidence \subseteq {"sound", "disputed", "cheaper"}
    /\ {Funded, ReadLimit, MaxTape, LastPurchase, MaxBudgetSets, MaxTime} \subseteq Nat
    /\ MaxTime > 0 /\ RingSize \in Nat \ {0} /\ Second \in Nat \ {0}
    /\ {Budgeted, Crowded, SendTimesOut, PressCrashes, LogFails} \subseteq BOOLEAN

VARIABLES
    \* the wallet
    now, owner, pendingOwner, paused, isAgent, approvalNonce, consumed, budgets,
    balance, signatures, spentLog, budgetLog,
    \* the press
    bought,          \* moments at which a settlement of the business happened
    tape,            \* those of them the facilitator still has receipts of
    log,             \* the decision log
    keeper,          \* the pass in progress
    desk,            \* the owner's approvals in progress
    txs,             \* transactions sent
    judged           \* every record the keeper made (for the properties)

walletVars == <<now, owner, pendingOwner, paused, isAgent, approvalNonce, consumed,
                budgets, balance, signatures, spentLog, budgetLog>>
vars == <<walletVars, bought, tape, log, keeper, desk, txs, judged>>

Wallet == INSTANCE PolicyWallet WITH
    Accounts <- {Agent, Owner}, Deployer <- Owner, Payees <- {Vendor},
    Categories <- {Category}, Decisions <- 1..MaxTime, Amounts <- 1..MaxTape,
    BudgetChoices <- Budgets, Deadlines <- {}, NoAddress <- Nobody, NoDecision <- 0,
    MaxSignatures <- 0, MaxBalance <- Funded

Idle == [pc |-> "idle"]
NoBudget == [cap |-> 0, spent |-> 0, perTxLimit |-> 0, periodStart |-> 0,
             periodLength |-> 0, exists |-> FALSE]

\* A wallet its owner has set up and funded.
Init ==
    /\ now = 1
    /\ owner = Owner /\ pendingOwner = Nobody /\ paused = FALSE
    /\ isAgent = {Agent} /\ approvalNonce = 0 /\ consumed = {}
    /\ balance = Funded /\ signatures = {} /\ spentLog = <<>>
    /\ IF Budgeted
       THEN \E b \in Budgets :
              /\ budgets = [c \in {Category} |->
                   [cap |-> b.cap, spent |-> 0, perTxLimit |-> b.perTxLimit,
                    periodStart |-> 0, periodLength |-> b.periodLength,
                    exists |-> TRUE]]
              /\ budgetLog = [c \in {Category} |->
                   <<[cap |-> b.cap, perTxLimit |-> b.perTxLimit,
                      periodLength |-> b.periodLength, periodStart |-> 0]>>]
       ELSE /\ budgets = [c \in {Category} |-> NoBudget]
            /\ budgetLog = [c \in {Category} |-> <<>>]
    /\ bought = {} /\ tape = {} /\ log = <<>> /\ txs = {} /\ judged = {}
    /\ keeper = Idle /\ desk = [q \in Requests |-> Idle]

-----------------------------------------------------------------------------
(* Reading the log and the receipts.                                       *)

\* read_decisions: the newest ReadLimit rows.
Recent == {log[n] : n \in {m \in DOMAIN log : m > Len(log) - ReadLimit}}
PaidRows == {r \in Recent : r.intent = "pay" /\ r.paid > 0}

\* Mutant: the next bill starts where the last payment was made.
PaidWhen(r) == r.at

\* settled_through: where the last paid bill ended; a row without a window
\* counts up to the moment it was written.
CoveredTo(r) == IF r.last > 0 THEN r.last ELSE r.at
Through == IF PaidRows = {} THEN 0 ELSE Max({CoveredTo(r) : r \in PaidRows})

\* settled_refs_from
SettledRefs == {r.id : r \in PaidRows}

\* Mutant: the boundary itself is billed again.
UnpaidFrom(t) == {s \in tape : s >= t}

\* obligations_for: everything settled after the last paid bill, as one bill;
\* obligation_key keeps the whole second of its end.
Unpaid(t) == {s \in tape : s > t}
SecondOf(t) == t \div Second
BillFor(S) == [id |-> SecondOf(Max(S)), units |-> Cardinality(S),
               first |-> Min(S), last |-> Max(S)]

\* pending_escalations, newest row per id.
Resolved == {r.id : r \in {q \in Recent : q.intent # "escalate"}}
Escalated == {r \in Recent : r.intent = "escalate" /\ r.id \notin Resolved}
Pending == {r \in Escalated : \A q \in Escalated : q.id = r.id => q.at <= r.at}

\* _restates_the_last: the last row about this bill says the same.
Restates(row) ==
    LET about == {n \in DOMAIN log : log[n].id = row.id}
    IN  /\ about # {}
        /\ [log[Max(about)] EXCEPT !.at = 0, !.tx = 0, !.paid = 0]
             = [row EXCEPT !.at = 0, !.tx = 0, !.paid = 0]

\* log_decision: never raises.
LogDecision(row) ==
    \/ log' = IF Restates(row) THEN log ELSE Append(log, row)
    \/ LogFails /\ log' = log

-----------------------------------------------------------------------------
(* The chain.                                                              *)

Tx(by, row) == [by |-> by, decision |-> row.at, units |-> row.units, state |-> "pending"]
Mined(by, row) == [Tx(by, row) EXCEPT !.state = "mined"]
Reverted(by, row) == [Tx(by, row) EXCEPT !.state = "reverted"]

\* Whether the wallet pays this transaction in the next block.
Accepted(tx) ==
    LET b == budgets[Category]
    IN  /\ b.exists /\ Wallet!Fresh(tx.decision) /\ Wallet!WithinCap(b, tx.units)
        /\ tx.units <= balance
        /\ tx.by = "keeper" => tx.units < b.perTxLimit

Execute(tx) ==
    /\ tx.state = "pending"
    /\ \/ /\ Accepted(tx)
          /\ IF tx.by = "keeper"
             THEN Wallet!Spend(Agent, Category, Vendor, tx.units, tx.decision)
             ELSE Wallet!SpendAsOwner(Owner, Category, Vendor, tx.units, tx.decision)
          /\ txs' = (txs \ {tx}) \cup {[tx EXCEPT !.state = "mined"]}
       \/ /\ ~Accepted(tx)
          /\ txs' = (txs \ {tx}) \cup {[tx EXCEPT !.state = "reverted"]}
          /\ UNCHANGED walletVars
    /\ UNCHANGED <<bought, tape, log, keeper, desk, judged>>

Chain == \E tx \in txs : Execute(tx)

\* The owner changes the budget, from their own wallet.
ChangeBudget ==
    /\ \E b \in Budgets : Wallet!SetBudget(Owner, Category, b)
    /\ UNCHANGED <<bought, tape, log, keeper, desk, txs, judged>>

\* What a ring keeps of receipts: the newest.
Kept(S) == {s \in S : Cardinality({u \in S : u >= s}) <= RingSize}

\* The business' agents buy something: Facilitator._record keeps the receipt.
Consume ==
    /\ Cardinality(bought) < MaxTape /\ now <= LastPurchase
    /\ Wallet!Tick
    /\ bought' = bought \cup {now}
    /\ tape' = Kept(tape \cup {now})
    /\ UNCHANGED <<log, keeper, desk, txs, judged>>

\* Others buy until the oldest receipt of the business falls out of the ring.
OthersConsume ==
    /\ Crowded /\ tape # {}
    /\ tape' = tape \ {Min(tape)}
    /\ UNCHANGED <<walletVars, bought, log, keeper, desk, txs, judged>>

-----------------------------------------------------------------------------
(* The keeper.                                                             *)

\* _pass: the log, the tape and the balance are read once, at its start.
StartPass ==
    /\ keeper.pc = "idle"
    /\ Unpaid(Through) # {}
    /\ keeper' = [pc |-> "judging", bill |-> BillFor(Unpaid(Through)),
                  refs |-> SettledRefs, held |-> balance]
    /\ UNCHANGED <<walletVars, bought, tape, log, desk, txs, judged>>

\* run_obligation's budget read and the checks of decide: the first that stops.
Ladder(bill, refs, held, evidence) ==
    LET b == budgets[Category]
    IN  <<[stops |-> ~b.exists, says |-> "escalate", rule |-> "no budget"],
          [stops |-> bill.id \in refs, says |-> "refuse", rule |-> "duplicate"],
          [stops |-> evidence = "disputed", says |-> "escalate", rule |-> "evidence"],
          [stops |-> evidence = "cheaper", says |-> "reroute", rule |-> "price"],
          [stops |-> bill.units >= b.perTxLimit, says |-> "escalate", rule |-> "limit"],
          [stops |-> bill.units > Wallet!Remaining(Category),
             says |-> "escalate", rule |-> "budget"],
          [stops |-> bill.units > held, says |-> "escalate", rule |-> "cash"],
          [stops |-> TRUE, says |-> "pay", rule |-> "sound"]>>

Verdict(bill, refs, held, evidence) ==
    LET rungs == Ladder(bill, refs, held, evidence)
    IN  rungs[SelectInSeq(rungs, LAMBDA rung : rung.stops)]

\* The record of a decision; the one made without a budget has no window, cash
\* or limit on it.
RowFor(bill, verdict, held) ==
    LET whole == verdict.rule # "no budget"
    IN  [id |-> bill.id, units |-> bill.units,
         first |-> IF whole THEN bill.first ELSE 0,
         last |-> IF whole THEN bill.last ELSE 0,
         held |-> IF whole THEN held ELSE 0,
         limit |-> IF whole THEN budgets[Category].perTxLimit ELSE 0,
         at |-> now, intent |-> verdict.says, rule |-> verdict.rule, actor |-> "agent",
         paid |-> 0, tx |-> 0]

Judge ==
    /\ keeper.pc = "judging"
    /\ \E evidence \in Evidence :
          LET row == RowFor(keeper.bill,
                            Verdict(keeper.bill, keeper.refs, keeper.held, evidence),
                            keeper.held)
          IN  keeper' = [pc |-> IF row.intent = "pay" THEN "sending" ELSE "recording",
                         row |-> row]
    /\ judged' = judged \cup {[decision |-> now, first |-> keeper.bill.first,
                               last |-> keeper.bill.last]}
    /\ Wallet!Tick
    /\ UNCHANGED <<bought, tape, log, desk, txs>>

\* PolicyClient._send: the transaction leaves, and its receipt is awaited.
Send ==
    /\ keeper.pc = "sending"
    /\ txs' = txs \cup {Tx("keeper", keeper.row)}
    /\ keeper' = [keeper EXCEPT !.pc = "waiting"]
    /\ UNCHANGED <<walletVars, bought, tape, log, desk, judged>>

\* Mutant: the payment is recorded when it is sent.
ConfirmUnseen ==
    /\ keeper.pc = "waiting"
    /\ keeper' = [keeper EXCEPT !.pc = "recording", !.row.paid = keeper.row.units,
                                !.row.tx = keeper.row.at]
    /\ UNCHANGED <<walletVars, bought, tape, log, desk, txs, judged>>

Confirm ==
    /\ keeper.pc = "waiting"
    /\ Mined("keeper", keeper.row) \in txs
    /\ keeper' = [keeper EXCEPT !.pc = "recording", !.row.paid = keeper.row.units,
                                !.row.tx = keeper.row.at]
    /\ UNCHANGED <<walletVars, bought, tape, log, desk, txs, judged>>

\* A reverted or timed-out payment raises: the pass goes on, nothing is logged.
GiveUp ==
    /\ keeper.pc = "waiting"
    /\ SendTimesOut \/ Reverted("keeper", keeper.row) \in txs
    /\ keeper' = Idle
    /\ UNCHANGED <<walletVars, bought, tape, log, desk, txs, judged>>

Record ==
    /\ keeper.pc = "recording"
    /\ LogDecision(keeper.row)
    /\ keeper' = Idle
    /\ UNCHANGED <<walletVars, bought, tape, desk, txs, judged>>

\* The press restarts: what was in memory is gone, the receipts too where
\* there is no disk to read them back from.
Crash ==
    /\ PressCrashes
    /\ keeper' = Idle /\ desk' = [q \in Requests |-> Idle]
    /\ tape' \in {{}, Kept(bought)}
    /\ UNCHANGED <<walletVars, bought, log, txs, judged>>

Keeper == StartPass \/ Judge \/ Send \/ Confirm \/ GiveUp \/ Record

-----------------------------------------------------------------------------
(* The owner's console.                                                    *)

\* Mutant: the owner approves whatever row is in the log.
ApproveAnything(q) ==
    /\ desk[q].pc = "idle"
    /\ \E row \in Recent :
          /\ desk' = [desk EXCEPT ![q] = [pc |-> "waiting", row |-> row]]
          /\ txs' = txs \cup {Tx(q, row)}
    /\ UNCHANGED <<walletVars, bought, tape, log, keeper, judged>>

\* operator_approve: the escalated row is read from the log, paid as the owner
\* with the hash of that row, and the outcome appended.
Approve(q) ==
    /\ desk[q].pc = "idle"
    /\ \E row \in Pending :
          /\ desk' = [desk EXCEPT ![q] = [pc |-> "waiting", row |-> row]]
          /\ txs' = txs \cup {Tx(q, row)}
    /\ UNCHANGED <<walletVars, bought, tape, log, keeper, judged>>

\* _settle: the escalation's facts come forward, with the owner's outcome.
Settle(row, intent, paid, tx) ==
    /\ LogDecision([row EXCEPT !.at = now, !.intent = intent, !.rule = "owner",
                           !.actor = "owner", !.held = 0, !.limit = 0, !.paid = paid, !.tx = tx])
    /\ Wallet!Tick

\* Mutant: the approval is recorded when it is sent.
ApprovedUnseen(q) ==
    /\ desk[q].pc = "waiting"
    /\ Settle(desk[q].row, "pay", desk[q].row.units, desk[q].row.at)
    /\ desk' = [desk EXCEPT ![q] = Idle]
    /\ UNCHANGED <<bought, tape, keeper, txs, judged>>

Approved(q) ==
    /\ desk[q].pc = "waiting"
    /\ Mined(q, desk[q].row) \in txs
    /\ Settle(desk[q].row, "pay", desk[q].row.units, desk[q].row.at)
    /\ desk' = [desk EXCEPT ![q] = Idle]
    /\ UNCHANGED <<bought, tape, keeper, txs, judged>>

NotApproved(q) ==
    /\ desk[q].pc = "waiting"
    /\ SendTimesOut \/ Reverted(q, desk[q].row) \in txs
    /\ desk' = [desk EXCEPT ![q] = Idle]
    /\ UNCHANGED <<walletVars, bought, tape, log, keeper, txs, judged>>

\* operator_reject
Reject ==
    /\ Requests # {}
    /\ \E row \in Pending : Settle(row, "refuse", 0, 0)
    /\ UNCHANGED <<bought, tape, keeper, desk, txs, judged>>

Console == Reject \/ \E q \in Requests : Approve(q) \/ Approved(q) \/ NotApproved(q)

-----------------------------------------------------------------------------

Next == Consume \/ OthersConsume \/ Keeper \/ Console \/ Chain \/ ChangeBudget \/ Crash

Spec == Init /\ [][Next]_vars

\* The keeper's clock keeps ticking and the chain keeps making blocks.
FairSpec == Spec /\ WF_vars(Keeper) /\ WF_vars(Chain)

-----------------------------------------------------------------------------
(* What the business relies on.                                            *)

Payments == DOMAIN spentLog
\* The record a payment committed to, by its decision hash.
RecordOf(i) == CHOOSE r \in judged : r.decision = spentLog[i].decision
Reference(i) == SecondOf(RecordOf(i).last)
Covers(i, t) == RecordOf(i).first <= t /\ t <= RecordOf(i).last

TypeOK ==
    /\ Wallet!TypeOK
    /\ bought \subseteq 1..MaxTime
    /\ tape \subseteq bought
    /\ \A n \in DOMAIN log :
          /\ log[n].intent \in {"pay", "reroute", "escalate", "refuse"}
          /\ log[n].paid \in {0, log[n].units}
          /\ log[n].at \in 1..MaxTime
    /\ keeper.pc \in {"idle", "judging", "sending", "waiting", "recording"}
    /\ \A q \in Requests : desk[q].pc \in {"idle", "waiting"}
    /\ \A tx \in txs : tx.state \in {"pending", "mined", "reverted"}

\* "check 1 refuses a second payment of the same reference": no bill is paid
\* under the same reference twice.
ReferencePaidOnce ==
    \A i, j \in Payments : Reference(i) = Reference(j) => i = j

\* "counting it again is how a period overlaps its predecessor and the same
\* consumption gets billed twice": no settlement is in two paid bills.
ConsumptionPaidOnce ==
    \A i, j \in Payments, t \in bought : Covers(i, t) /\ Covers(j, t) => i = j

\* Nothing is paid for twice, neither a bill nor what is in it, and a row that
\* says paid says the amount of its bill.
NothingIsPaidTwice == TypeOK /\ ReferencePaidOnce /\ ConsumptionPaidOnce

\* "consumption that is never billed again, because the boundary moved past
\* it" must not exist: all that is on the tape and that the log counts as
\* settled has been paid for.
SettledIsPaid ==
    \A t \in tape : t <= Through => \E i \in Payments : Covers(i, t)

\* A row that says money moved is backed by a payment of the wallet: of that
\* amount, under the hash of the record it cites, and of no other row.
PaidRowsHaveTheirPayment ==
    /\ \A n \in DOMAIN log : log[n].paid > 0 =>
          \E i \in Payments :
             /\ spentLog[i].decision = log[n].tx /\ spentLog[i].amount = log[n].paid
             /\ (spentLog[i].path = "owner") = (log[n].actor = "owner")
    /\ \A m, n \in DOMAIN log :
          log[m].paid > 0 /\ log[n].paid > 0 /\ log[m].tx = log[n].tx => m = n

\* The owner pays only what the agent wrote down when it stopped: every payment
\* from the owner's wallet is of an escalation in the log.
OwnerPaysEscalationsOnly ==
    \A i \in Payments : spentLog[i].path = "owner" =>
        \E n \in DOMAIN log :
            /\ log[n].intent = "escalate" /\ log[n].at = spentLog[i].decision
            /\ log[n].units = spentLog[i].amount

\* What is unpaid ends in a second in which a paid bill ended: its bill has the
\* id of that one, and the keeper refuses it as a duplicate.
EndsInAPaidSecond == Unpaid(Through) # {} /\ BillFor(Unpaid(Through)).id \in SettledRefs

\* "obligations settled on time without a human touching them": what was bought
\* is paid for in the end, but for what the ring dropped before it was, and for
\* what stays in the second of the last paid bill because nothing is bought
\* after it.
EverySettlementIsPaid ==
    \A t \in 1..MaxTime :
        t \in tape ~> \/ \E i \in Payments : Covers(i, t)
                      \/ t \notin tape
                      \/ []EndsInAPaidSecond
=============================================================================
