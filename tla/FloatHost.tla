----------------------------- MODULE FloatHost -----------------------------
(***************************************************************************)
(* The processes that run a Float treasury from outside the chain: the tape *)
(* of the two agents, the keeper, the policy command, the sweep and the    *)
(* verification suite.  They share nothing but the chain; every await is a *)
(* step of its own, so what one of them read may be stale when it acts.    *)
(***************************************************************************)
EXTENDS FloatTools

CONSTANTS Agents,        \* the agents of the vault
          File,          \* the treasury policy file: the limits of the agents it names
          Premium,       \* basis points over fair the vault accepts
          Prints,        \* the market prices a keeper may find
          Quotes,        \* the agents of a tick in turn, and what each quotes, in basis points of fair
          BufferHours,   \* hours of spend the policy wants liquid
          Treasury, DeployCap, MinTicket, MinSweep,
          MaxTicks, MaxPrints, MaxRuns

VARIABLES store,         \* the latest print: [id, value, at]
          vault,         \* what the vault holds of each agent: [exists, cap, frozen, seller, spent]
          money,         \* [buffer, sleeve, seller]
          receipts,      \* the receipts the vault wrote, one per paid transaction
          tape,          \* the tape's ticks: where each is and what it read
          told,          \* what the tape reported: one record per request
          keeper, command, sweep, suite   \* where each process is and what it read

hostVars == <<store, vault, money, receipts, tape, told, keeper, command, sweep, suite>>

Ticks == 1 .. MaxTicks
Init ==
  /\ store = [id |-> 0, value |-> 0]
  /\ vault = [a \in Agents |-> [exists |-> TRUE, cap |-> DeployCap, frozen |-> FALSE,
                                 seller |-> TRUE, spent |-> 0]]
  /\ money = [buffer |-> 2, sleeve |-> Treasury - 2, seller |-> 0]
  /\ receipts = {} /\ told = {}
  /\ tape = [t \in Ticks |-> [pc |-> "idle"]]
  /\ keeper = [pc |-> "idle", prints |-> 0]
  /\ command = [pc |-> "idle", runs |-> 0]
  /\ sweep = [pc |-> "idle", runs |-> 0]
  /\ suite = [pc |-> "idle", runs |-> 0, verdicts |-> {}, lost |-> FALSE]

-----------------------------------------------------------------------------
(* The vault the processes call.                                           *)
-----------------------------------------------------------------------------
Held == money.buffer + money.sleeve

\* The vault's verdict on a quote: 0 is yes, 9 a print that rotated, 10 a
\* price out of band, 12 the daily cap.
Classify(r) ==
  LET a == vault[r.agent]
  IN  IF ~a.exists THEN 2 ELSE IF a.frozen THEN 3 ELSE IF ~a.seller THEN 4
      ELSE IF r.id # store.id THEN 9
      ELSE IF r.quote > store.value + (store.value * Premium) \div Bps THEN 10
      ELSE IF a.spent + r.quote > a.cap THEN 12 ELSE 0

\* requestSpend: a refusal is an event, an allowed payment takes what the
\* buffer lacks out of the sleeve and leaves a receipt, and one the treasury
\* cannot cover reverts.
Spends(r, tx) ==
  LET pull == Max({0, r.quote - money.buffer})
  IN  /\ Classify(r) # 0 \/ r.quote <= Held
      /\ IF Classify(r) # 0 THEN UNCHANGED <<vault, money, receipts>>
         ELSE /\ vault' = [vault EXCEPT ![r.agent].spent = @ + r.quote]
              /\ money' = [buffer |-> money.buffer + pull - r.quote, sleeve |-> money.sleeve - pull,
                           seller |-> money.seller + r.quote]
              /\ receipts' = receipts \union {[tx |-> tx, quote |-> r.quote, jit |-> pull > 0]}

\* rebalance: buffer and sleeve meet the target, unless the move is too small.
Rebalances(target) ==
  LET to == Min({target, Held})
      small == Max({to - money.buffer, money.buffer - to}) < MinTicket
  IN  money' = IF small THEN money ELSE [money EXCEPT !.buffer = to, !.sleeve = Held - to]

-----------------------------------------------------------------------------
(* The tape.  A tick asks for each agent in turn; ticks start on a timer,  *)
(* whether the one before has ended or not.                                *)
-----------------------------------------------------------------------------
\* A tick reads the print once, and throws when there is none.
QuoteFor(t) ==
  /\ tape[t].pc = "idle" /\ store.id # 0
  /\ tape' = [tape EXCEPT ![t] = [pc |-> "ask", turn |-> 1, id |-> store.id, fair |-> store.value]]
  /\ UNCHANGED <<store, vault, money, receipts, told, keeper, command, sweep, suite>>

RequestOf(k) == [agent |-> Quotes[k.turn].agent, id |-> k.id,
                 quote |-> (k.fair * Quotes[k.turn].bps) \div Bps]

\* The dry run, which asks about policy and price and never about money.
Ask(t) ==
  /\ tape[t].pc = "ask"
  /\ tape' = [tape EXCEPT ![t] = [pc |-> "fund", turn |-> tape[t].turn, id |-> tape[t].id,
                                  fair |-> tape[t].fair, code |-> Classify(RequestOf(tape[t]))]]
  /\ UNCHANGED <<store, vault, money, receipts, told, keeper, command, sweep, suite>>

\* What comes after a request: the next agent's turn, or the end of the tick.
After(k) == IF k.turn < Len(Quotes) THEN [pc |-> "ask", turn |-> k.turn + 1, id |-> k.id, fair |-> k.fair]
            ELSE [pc |-> "done"]

Tell(t, answer) == told' = told \union {answer @@ [tx |-> <<t, tape[t].turn>>, quote |-> RequestOf(tape[t]).quote]}

\* The treasury is read; an allowed request it cannot cover is not sent.
Fund(t) ==
  LET k == tape[t]  send == FundingCheck(k.code, Held, RequestOf(k).quote)
  IN  /\ k.pc = "fund"
      /\ tape' = [tape EXCEPT ![t] = IF send THEN [k EXCEPT !.pc = "send"] ELSE After(k)]
      /\ IF send THEN UNCHANGED told
         ELSE Tell(t, [ok |-> FALSE, raced |-> FALSE, sent |-> FALSE])
      /\ UNCHANGED <<store, vault, money, receipts, keeper, command, sweep, suite>>

\* Whether the vault would take the request now; a node asked for the gas of
\* one that reverts answers with an error.
Covered(r) == Classify(r) # 0 \/ r.quote <= Held

\* writeContract: the request is with the node, and the tick waits for it.
Send(t) ==
  /\ tape[t].pc = "send" /\ Covered(RequestOf(tape[t]))
  /\ tape' = [tape EXCEPT ![t].pc = "sent"]
  /\ UNCHANGED <<store, vault, money, receipts, told, keeper, command, sweep, suite>>

\* The chain takes it when it takes it, in the state it then is in, whether
\* anybody still waits or not; what is not covered by then reverts.
Mine(t) ==
  LET k == tape[t]  r == RequestOf(k)
  IN  /\ k.pc \in {"sent", "lost"}
      /\ IF Covered(r) THEN Spends(r, <<t, k.turn>>) ELSE UNCHANGED <<vault, money, receipts>>
      /\ tape' = [tape EXCEPT ![t] = IF k.pc = "sent" THEN [k EXCEPT !.pc = "mined"] ELSE [pc |-> "done"]]
      /\ UNCHANGED <<store, told, keeper, command, sweep, suite>>

\* Mutant: what the dry run said is what happened.
HearAsSimulated(t) ==
  LET k == tape[t]
  IN  /\ k.pc = "mined"
      /\ tape' = [tape EXCEPT ![t] = After(k)]
      /\ Tell(t, [ok |-> k.code = 0, raced |-> FALSE, sent |-> TRUE])
      /\ UNCHANGED <<store, vault, money, receipts, keeper, command, sweep, suite>>

\* The wait ends: what is reported is read out of the transaction's own events.
Hear(t) ==
  LET k == tape[t]  ok == \E x \in receipts : x.tx = <<t, k.turn>>
  IN  /\ k.pc = "mined"
      /\ tape' = [tape EXCEPT ![t] = After(k)]
      /\ Tell(t, [ok |-> ok, raced |-> ~ok /\ k.code = 0, sent |-> TRUE])
      /\ UNCHANGED <<store, vault, money, receipts, keeper, command, sweep, suite>>

\* A call that fails for good ends the tick, "tick failed", with no report: a
\* read, the send, or the wait for a payment that is mined, or still may be.
TickFails(t) ==
  /\ tape[t].pc \notin {"idle", "lost", "done"}
  /\ tape' = [tape EXCEPT ![t] = IF tape[t].pc = "sent" THEN [tape[t] EXCEPT !.pc = "lost"] ELSE [pc |-> "done"]]
  /\ UNCHANGED <<store, vault, money, receipts, told, keeper, command, sweep, suite>>

-----------------------------------------------------------------------------
(* The keeper: a print, then a rebalance to what its receipts forecast.    *)
-----------------------------------------------------------------------------
\* The market is read and printed; a market that cannot be read is skipped.
KeeperPrints(v) ==
  /\ keeper.pc = "idle" /\ keeper.prints < MaxPrints
  /\ store' = IF v = Unreadable THEN store ELSE [id |-> store.id + 1, value |-> v]
  /\ keeper' = [pc |-> "forecast", prints |-> keeper.prints + 1]
  /\ UNCHANGED <<vault, money, receipts, tape, told, command, sweep, suite>>

\* No receipts are no forecast; otherwise the target is fixed on what the
\* buffer and the sleeve hold now.
KeeperForecasts ==
  /\ keeper.pc = "forecast"
  /\ keeper' = IF receipts = {} THEN [keeper EXCEPT !.pc = "idle"]
               ELSE [pc |-> "rebalance", prints |-> keeper.prints,
                     target |-> RebalanceTarget(SpendPerHour({[at |-> 0, quote |-> r.quote] : r \in receipts}, 1, 1),
                                                BufferHours, 0, money.buffer, money.sleeve)]
  /\ UNCHANGED <<store, vault, money, receipts, tape, told, command, sweep, suite>>

KeeperRebalances ==
  /\ keeper.pc = "rebalance" /\ Rebalances(keeper.target)
  /\ keeper' = [pc |-> "idle", prints |-> keeper.prints]
  /\ UNCHANGED <<store, vault, receipts, tape, told, command, sweep, suite>>

-----------------------------------------------------------------------------
(* The policy command: one transaction per agent that differs, then one    *)
(* per seller that is missing.  Any of them may fail, and ends the run.    *)
-----------------------------------------------------------------------------
Named == DOMAIN File
Differs(a) == ~(/\ vault[a].exists /\ vault[a].cap = File[a].cap /\ vault[a].frozen = File[a].frozen)

CommandStarts ==
  /\ command.pc = "idle" /\ command.runs < MaxRuns
  /\ command' = [pc |-> "limits", runs |-> command.runs + 1, todo |-> Named]
  /\ UNCHANGED <<store, vault, money, receipts, tape, told, keeper, sweep, suite>>

\* One agent: it is read, and set when it differs; then its seller.
SetsLimits(a) ==
  /\ command.pc = "limits" /\ a \in command.todo
  /\ vault' = IF Differs(a)
              THEN [vault EXCEPT ![a] = [exists |-> TRUE, cap |-> File[a].cap, frozen |-> File[a].frozen,
                                         seller |-> vault[a].seller, spent |-> vault[a].spent]]
              ELSE vault
  /\ command' = [pc |-> "seller", runs |-> command.runs, todo |-> command.todo, agent |-> a]
  /\ UNCHANGED <<store, money, receipts, tape, told, keeper, sweep, suite>>

AllowsSeller ==
  LET a == command.agent  left == command.todo \ {a}
  IN  /\ command.pc = "seller"
      /\ vault' = [vault EXCEPT ![a].seller = @ \/ File[a].seller]
      /\ command' = [pc |-> IF left = {} THEN "delivered" ELSE "limits",
                     runs |-> command.runs, todo |-> left]
      /\ UNCHANGED <<store, money, receipts, tape, told, keeper, sweep, suite>>

CommandFails ==
  /\ command.pc \in {"limits", "seller"}
  /\ command' = [pc |-> "idle", runs |-> command.runs]
  /\ UNCHANGED <<store, vault, money, receipts, tape, told, keeper, sweep, suite>>

CommandEnds ==
  /\ command.pc = "delivered" /\ command' = [pc |-> "idle", runs |-> command.runs]
  /\ UNCHANGED <<store, vault, money, receipts, tape, told, keeper, sweep, suite>>

-----------------------------------------------------------------------------
(* The sweep: the seller's takings go back to the treasury, and the buffer *)
(* must have gained exactly them.                                          *)
-----------------------------------------------------------------------------
SweepReads ==
  /\ sweep.pc = "idle" /\ sweep.runs < MaxRuns /\ money.seller >= MinSweep
  /\ sweep' = [pc |-> "send", runs |-> sweep.runs + 1, before |-> money]
  /\ UNCHANGED <<store, vault, money, receipts, tape, told, keeper, command, suite>>

SweepSends ==
  /\ sweep.pc = "send"
  /\ IF sweep.before.seller > money.seller THEN money' = money /\ sweep' = [pc |-> "idle", runs |-> sweep.runs]
     ELSE /\ money' = [money EXCEPT !.seller = @ - sweep.before.seller,
                                    !.buffer = @ + sweep.before.seller]
          /\ sweep' = [sweep EXCEPT !.pc = "check"]
  /\ UNCHANGED <<store, vault, receipts, tape, told, keeper, command, suite>>

SweepChecks ==
  /\ sweep.pc = "check"
  /\ sweep' = [pc |-> IF money.buffer = sweep.before.buffer + sweep.before.seller THEN "idle" ELSE "leak",
               runs |-> sweep.runs]
  /\ UNCHANGED <<store, vault, money, receipts, tape, told, keeper, command, suite>>

-----------------------------------------------------------------------------
(* The suite's checks that write: a fair payment, the cap tightened around *)
(* one and put back, the buffer emptied under a payment.                   *)
-----------------------------------------------------------------------------
Scout == Quotes[1].agent
FairRequest == [agent |-> Scout, id |-> store.id, quote |-> (store.value * Quotes[1].bps) \div Bps]
SuiteTx == <<0, 2 * suite.runs + (IF suite.pc = "idle" THEN 2 ELSE 1)>>
Finds(t, ok) == [suite EXCEPT !.verdicts = @ \union {<<t, ok>>}]

\* T2: the payment's own receipt carries the quote.
SuitePays ==
  /\ suite.pc = "idle" /\ suite.runs < MaxRuns /\ store.id # 0
  /\ Spends(FairRequest, SuiteTx)
  /\ suite' = [Finds("T2", \E x \in receipts' : x.tx = SuiteTx /\ x.quote = FairRequest.quote)
                 EXCEPT !.pc = "paid", !.runs = @ + 1]
  /\ UNCHANGED <<store, tape, told, keeper, command, sweep>>

\* T4: the cap is set just under what a payment would take the total to; what
\* was there is kept by this run alone.
SuiteTightens ==
  /\ suite.pc = "paid" /\ FairRequest.quote + 1 <= vault[Scout].spent + FairRequest.quote - 1
  /\ suite' = [suite EXCEPT !.pc = "tight"] @@ [kept |-> vault[Scout].cap]
  /\ vault' = [vault EXCEPT ![Scout].cap = vault[Scout].spent + FairRequest.quote - 1, ![Scout].frozen = FALSE]
  /\ UNCHANGED <<store, money, receipts, tape, told, keeper, command, sweep>>

\* Whatever the check saw, the cap is put back, and the agent thawed.
SuiteRestores ==
  /\ suite.pc = "tight"
  /\ vault' = [vault EXCEPT ![Scout].cap = suite.kept, ![Scout].frozen = FALSE]
  /\ suite' = [pc |-> "restored", runs |-> suite.runs, lost |-> suite.lost,
               verdicts |-> suite.verdicts \union {<<"T4", Classify(FairRequest) = 12>>}]
  /\ UNCHANGED <<store, money, receipts, tape, told, keeper, command, sweep>>

\* T5: the buffer is parked at nothing when it would cover the payment ...
SuiteParks ==
  /\ suite.pc = "restored"
  /\ IF money.buffer >= FairRequest.quote THEN Rebalances(0) ELSE UNCHANGED money
  /\ suite' = [suite EXCEPT !.pc = "parked"]
  /\ UNCHANGED <<store, vault, receipts, tape, told, keeper, command, sweep>>

\* ... and the payment has to pull from the sleeve.
SuitePulls ==
  /\ suite.pc = "parked"
  /\ IF money.buffer >= FairRequest.quote
     THEN suite' = [Finds("T5", FALSE) EXCEPT !.pc = "idle"] /\ UNCHANGED <<vault, money, receipts>>
     ELSE /\ Spends(FairRequest, SuiteTx)
          /\ suite' = [Finds("T5", \E x \in receipts' : x.tx = SuiteTx /\ x.jit) EXCEPT !.pc = "idle"]
  /\ UNCHANGED <<store, tape, told, keeper, command, sweep>>

\* A call fails, the restoring one included: the run ends where it stands.
SuiteAborts ==
  /\ suite.pc # "idle"
  /\ suite' = [pc |-> "idle", runs |-> suite.runs, verdicts |-> suite.verdicts,
               lost |-> suite.lost \/ suite.pc = "tight"]
  /\ UNCHANGED <<store, vault, money, receipts, tape, told, keeper, command, sweep>>

Tape == \E t \in Ticks : QuoteFor(t) \/ Ask(t) \/ Fund(t) \/ Send(t) \/ Mine(t) \/ Hear(t) \/ TickFails(t)
Keeper == (\E v \in Prints \union {Unreadable} : KeeperPrints(v)) \/ KeeperForecasts \/ KeeperRebalances
Command == \/ CommandStarts \/ (\E a \in Agents : SetsLimits(a))
           \/ AllowsSeller \/ CommandFails \/ CommandEnds
Sweep == SweepReads \/ SweepSends \/ SweepChecks
Suite == \/ SuitePays \/ SuiteTightens \/ SuiteRestores \/ SuiteParks \/ SuitePulls \/ SuiteAborts

Next == Tape \/ Keeper \/ Command \/ Sweep \/ Suite
-----------------------------------------------------------------------------
(* What the processes promise.                                             *)
-----------------------------------------------------------------------------
\* What the tape reports as paid is a receipt the vault wrote in that very
\* transaction and for that amount, whatever moved after the dry run: a
\* refusal and a held-back request left none. A receipt that is not reported
\* is the last thing its tick asked for: the tick is about to report it, or
\* ended there, because its wait for the receipt failed.
Reported(tx) == \E x \in told : x.tx = tx /\ x.ok
ReportIsTheReceipt ==
  /\ \A x \in told : x.ok <=> \E r \in receipts : r.tx = x.tx /\ r.quote = x.quote
  /\ \A r \in receipts : r.tx[1] \in Ticks /\ ~Reported(r.tx) =>
       /\ tape[r.tx[1]].pc \in {"mined", "done"}
       /\ \A x \in told \union receipts : x.tx[1] = r.tx[1] => x.tx[2] <= r.tx[2]

\* The suite leaves the operator's limits as it found them unless it died
\* between its two writes, and a policy command that ends well, and that no
\* suite wrote into, has made the chain what its file says of every agent it
\* names.
LimitsAreTheOperators ==
  /\ ~suite.lost /\ suite.pc # "tight" =>
       \A a \in Agents : vault[a].cap \in {DeployCap} \union {File[n].cap : n \in Named}
  /\ command.pc = "delivered" /\ suite.runs = 0 =>
       \A a \in Named : ~Differs(a) /\ (File[a].seller => vault[a].seller)

\* The treasury, its sleeve and its seller are one closed circuit: no
\* interleaving of payments, rebalances and sweeps makes or loses money.
CircuitIsClosed == money.buffer + money.sleeve + money.seller = Treasury
=============================================================================
