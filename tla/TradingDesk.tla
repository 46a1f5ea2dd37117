------------------------------ MODULE TradingDesk ------------------------------
(***************************************************************************)
(* The desk a reader trades from: a wallet opened by a PIN, a stake, some  *)
(* collateral, orders, and the way out.  Every step is a challenge that    *)
(* the wallet's window answers or that times out as if it had, and then a  *)
(* wait for the chain to show it.  One step runs at a time; the choice of  *)
(* the index, the polls and the chain do not wait for it.                  *)
(***************************************************************************)
EXTENDS Integers, FiniteSets, Sequences, FiniteSetsExt, SequencesExt

CONSTANTS Null,
          Indices,
          StakeSize, MinTrade, MinWithdraw,  \* 0.50, and the smallest order and way out
          Tries,                             \* polls before a step gives up: 24 or 12
          MaxSteps, MaxOrders                \* bounds: steps started, orders signed

VARIABLES desk,       \* the page: phase, index, what it last read, its note and toast
          job,        \* the step under way
          signed,     \* challenges signed whose transaction has not landed
          venue,      \* index -> the reader's collateral and contracts there
          purse,      \* the reader's own USDC
          tape,       \* the reader's fills, newest first
          steps,
          memo        \* index -> the fills the server last read there, or Null

vars == <<desk, job, signed, venue, purse, tape, steps, memo>>

-----------------------------------------------------------------------------
(* Decisions.                                                              *)

\* Collateral first, balance second: posting the stake empties the wallet.
DeskPhase(usdc, collateralized) ==
  IF collateralized THEN "trading" ELSE IF usdc # Null /\ usdc # 0 THEN "collateral" ELSE "unfunded"

\* The five steps of the walk; closed and opening are one.
DeskStep(phase) ==
  CASE phase \in {"closed", "opening"} -> 0 [] phase = "pin" -> 1 [] phase = "unfunded" -> 2
    [] phase = "collateral" -> 3 [] OTHER -> 4

\* Mutant: the newest fill is the receipt, whichever it is.
NewestFillAtAll(before, fills) ==
  IF fills = Null \/ fills = <<>> THEN Null ELSE Head(fills)

\* The newest fill, unless it was there before; a read that failed (Null), on
\* either side, mints no receipt.
NewestFillSince(before, fills) ==
  IF before = Null \/ fills = Null \/ fills = <<>> THEN Null
  ELSE IF <<Head(fills)>> = before THEN Null ELSE Head(fills)

\* How much each side still fills, as parts of the cap; one of none is a freeze.
HeadroomBar(maxBuy, maxSell, cap) ==
  LET b == Max({0, Min({cap, maxBuy})})  s == Max({0, Min({cap, maxSell})})
  IN  [buyPct |-> (100 * b) \div cap, sellPct |-> (100 * s) \div cap, frozen |-> b = 0 \/ s = 0]

\* The wallet's window: a challenge ends by its answer, or by the clock as if
\* it had been answered.
Answers == {"signed", "declined", "timed out"}

\* The routes: a field of another shape goes nowhere; a slow press is told apart
\* from one that is away; a read of the chain that failed is no answer.
Routes == {"session", "wallet", "faucet", "limits", "withdrawable", "pass-status", "pass-claim", "challenge"}
DeskPost(action, wellFormed) == IF action \notin Routes THEN 404 ELSE IF wellFormed THEN 200 ELSE 400
DeskForward(outcome) == IF outcome = "answered" THEN [status |-> 200]
                        ELSE [status |-> 503, slow |-> outcome = "timeout"]
DeskGet(action, wellFormed, read) ==
  IF action \notin {"position", "fills"} THEN 404 ELSE IF ~wellFormed THEN 400
  ELSE IF read = Null THEN 503 ELSE 200

\* An anonymous reader of this browser.
DeskUserId(stored) == IF stored = Null THEN "new" ELSE stored
Api(status) == IF status = 200 THEN "data" ELSE "error"

-----------------------------------------------------------------------------
NoJob == [kind |-> "none"]
Idle == job.kind = "none"
Begins(kind) == Idle /\ steps < MaxSteps /\ steps' = steps + 1
LimitsOf(i) == [index |-> i, contracts |-> venue[i].contracts, collateral |-> venue[i].collateral]
FillsOf(i) == SelectSeq(tape, LAMBDA f : f.index = i)
Orders == Len(tape) + Cardinality({s \in signed : s.kind = "trade"})

Init ==
  /\ desk = [phase |-> "closed", index |-> CHOOSE i \in Indices : TRUE, wallet |-> FALSE, usdc |-> Null,
             posted |-> FALSE, limits |-> Null, exit |-> Null, note |-> Null, toast |-> Null]
  /\ job = NoJob /\ signed = {} /\ steps = 0 /\ purse = 0 /\ tape = <<>>
  /\ venue = [i \in Indices |-> [collateral |-> 0, contracts |-> 0]]
  /\ memo = [i \in Indices |-> Null]

\* A read of the reader's fills in one market: of the chain, of what the server
\* still remembers, or lost on the way.
FillsAnswers == {"fresh", "memo", "lost"}
FillsRead(i, how) == CASE how = "fresh" -> FillsOf(i) [] how = "memo" -> memo[i] [] OTHER -> Null
Remembers(i, how) == memo' = IF how = "fresh" THEN [memo EXCEPT ![i] = FillsOf(i)] ELSE memo

\* The wallet is read again: its phase, and once more from the venue itself when
\* this browser does not remember any collateral.
Refreshed(limits) ==
  LET p == DeskPhase(purse, desk.posted)
      heals == ~desk.posted /\ limits # Null /\ limits.collateral > 0
  IN  [desk EXCEPT !.wallet = TRUE, !.usdc = purse, !.phase = IF heals THEN "trading" ELSE p,
                   !.posted = desk.posted \/ heals, !.limits = IF heals THEN limits ELSE @]

\* A new reader gets a PIN to set; a known one their wallet, or a note.
Open(known, limitsRead) ==
  /\ desk.phase \in {"closed", "opening"} /\ Begins("open")
  /\ desk' = IF ~known THEN [desk EXCEPT !.phase = "pin"]
             ELSE Refreshed(IF limitsRead THEN LimitsOf(desk.index) ELSE Null)
  /\ UNCHANGED <<job, signed, venue, purse, tape, memo>>

SetPin(answer, appears) ==
  /\ desk.phase = "pin" /\ Begins("pin")
  /\ desk' = IF answer # "declined" /\ appears THEN Refreshed(LimitsOf(desk.index))
             ELSE [desk EXCEPT !.note = IF answer = "declined" THEN "declined" ELSE "still provisioning"]
  /\ UNCHANGED <<job, signed, venue, purse, tape, memo>>

Stake(granted) ==
  /\ desk.phase = "unfunded" /\ Begins("stake")
  /\ purse' = IF granted THEN purse + StakeSize ELSE purse
  /\ desk' = IF granted THEN [desk EXCEPT !.usdc = purse', !.phase = DeskPhase(purse', desk.posted)]
             ELSE [desk EXCEPT !.note = "still settling"]
  /\ UNCHANGED <<job, signed, venue, tape, memo>>

\* The index can be changed at any time: the phase goes back to posting, and
\* what was remembered of the collateral is forgotten, what was read is not.
Switch(i) ==
  /\ desk.phase = "trading" /\ desk.index # i
  /\ desk' = [desk EXCEPT !.index = i, !.phase = "collateral", !.posted = FALSE]
  /\ UNCHANGED <<job, signed, venue, purse, tape, steps, memo>>

\* The page's own reads: a failed one leaves no limits, and the way out hidden.
ReadLimits(i, ok) ==
  /\ desk.phase = "trading" /\ desk.limits # (IF ok THEN LimitsOf(i) ELSE Null)
  /\ desk' = [desk EXCEPT !.limits = IF ok THEN LimitsOf(i) ELSE Null]
  /\ UNCHANGED <<job, signed, venue, purse, tape, steps, memo>>
ExitOf == [i \in Indices |-> venue[i]]
ReadExit(ok) ==
  /\ desk.wallet /\ desk.exit # (IF ok THEN ExitOf ELSE Null)
  /\ desk' = [desk EXCEPT !.exit = IF ok THEN ExitOf ELSE Null]
  /\ UNCHANGED <<job, signed, venue, purse, tape, steps, memo>>

-----------------------------------------------------------------------------
\* Two challenges in a row; if either is declined the venue is asked whether the
\* collateral is there all the same.
Collateralize(answer) ==
  /\ desk.phase = "collateral" /\ Begins("collateral")
  /\ IF answer = "signed" /\ purse > 0
     THEN /\ signed' = signed \union {[kind |-> "collateral", index |-> desk.index, n |-> steps]}
          /\ job' = [kind |-> "collateral", index |-> desk.index, thrown |-> FALSE]
     ELSE /\ UNCHANGED signed
          /\ job' = [kind |-> "collateral", index |-> desk.index, thrown |-> answer = "declined"]
  /\ UNCHANGED <<desk, venue, purse, tape, memo>>

Collateralized(read) ==
  LET there == read /\ venue[job.index].collateral > 0
  IN  /\ job.kind = "collateral" /\ job' = NoJob
      /\ desk' = [desk EXCEPT !.limits = IF read THEN LimitsOf(job.index) ELSE Null,
                              !.phase = IF there THEN "trading" ELSE @, !.posted = @ \/ there,
                              !.note = IF there THEN @ ELSE IF job.thrown THEN "declined" ELSE "still confirming"]
      /\ UNCHANGED <<signed, venue, purse, tape, steps, memo>>

\* On entering the desk the page reads the fills once.
ReadFills(how) ==
  /\ desk.phase = "trading" /\ memo[desk.index] = Null /\ Remembers(desk.index, how)
  /\ UNCHANGED <<desk, job, signed, venue, purse, tape, steps>>

\* An order begins by reading the margin, without which nothing is asked, and
\* the reader's own fills: the newest is what a receipt must differ from.  A
\* read that is lost here counts as a reader without fills.
Trade(marginRead, how, answer) ==
  LET fills == FillsRead(desk.index, how)
      before == IF fills \in {Null, <<>>} THEN <<>> ELSE <<Head(fills)>>
      lim == LimitsOf(desk.index)
  IN  /\ desk.phase = "trading" /\ desk.limits # Null /\ desk.limits.collateral >= MinTrade
      /\ Begins("trade") /\ Orders < MaxOrders
      /\ IF ~marginRead
         THEN /\ desk' = [desk EXCEPT !.note = "could not read your margin", !.limits = Null]
              /\ UNCHANGED <<job, signed, memo>>
         ELSE IF answer = "declined"
         THEN /\ desk' = [desk EXCEPT !.note = "declined", !.limits = lim]
              /\ Remembers(desk.index, how) /\ UNCHANGED <<job, signed>>
         ELSE /\ Remembers(desk.index, how)
              /\ desk' = [desk EXCEPT !.note = Null, !.limits = lim]
              /\ job' = [kind |-> "trade", index |-> desk.index, was |-> lim.contracts,
                         before |-> before, read |-> fills # Null, tries |-> 0,
                         since |-> Len(FillsOf(desk.index))]
              /\ signed' = IF answer = "signed" THEN signed \union {[kind |-> "trade", index |-> desk.index, n |-> steps]}
                           ELSE signed
      /\ UNCHANGED <<venue, purse, tape>>

\* The wait: the position has moved, and then the newest fill is the receipt if
\* it is new; or another try; or the tape is left to show it.
TradePoll(limitsRead, how) ==
  LET lim == LimitsOf(job.index)
      moved == limitsRead /\ lim.contracts # job.was
      got == NewestFillSince(job.before, FillsRead(job.index, how))
  IN  /\ job.kind = "trade"
      /\ IF moved
         THEN /\ job' = NoJob /\ Remembers(job.index, how)
              /\ desk' = [desk EXCEPT !.limits = lim, !.exit = ExitOf,
                                      !.toast = IF got = Null THEN @
                                                ELSE [fill |-> got, since |-> job.since, read |-> job.read]]
         ELSE /\ job' = IF job.tries + 1 = Tries THEN NoJob ELSE [job EXCEPT !.tries = @ + 1]
              /\ desk' = [desk EXCEPT !.limits = IF limitsRead THEN lim ELSE Null,
                                      !.note = IF job.tries + 1 = Tries THEN "still confirming" ELSE @]
              /\ UNCHANGED memo
      /\ UNCHANGED <<signed, venue, purse, tape, steps>>

\* What was signed lands, whenever it does.
Lands(s) ==
  /\ s \in signed /\ signed' = signed \ {s}
  /\ CASE s.kind = "collateral" ->
            /\ venue' = [venue EXCEPT ![s.index].collateral = @ + purse]
            /\ purse' = 0 /\ UNCHANGED tape
       [] s.kind = "trade" ->
            /\ venue' = [venue EXCEPT ![s.index].contracts = @ + 1]
            /\ tape' = <<[n |-> s.n, index |-> s.index]>> \o tape /\ UNCHANGED purse
       [] s.kind = "withdraw" ->
            /\ purse' = purse + venue[s.index].collateral
            /\ venue' = [venue EXCEPT ![s.index].collateral = 0] /\ UNCHANGED tape
       [] OTHER -> UNCHANGED <<venue, purse, tape>>
  /\ UNCHANGED <<desk, job, steps, memo>>

\* The way out of any market with free margin; it is taken to be done when the
\* margin reads as gone, when it does not read at all, or when there is money in
\* the wallet.
Withdraw(i, answer) ==
  /\ desk.exit # Null /\ desk.exit[i].collateral >= MinWithdraw /\ Begins("withdraw")
  /\ IF answer = "declined" THEN desk' = [desk EXCEPT !.note = "declined"] /\ UNCHANGED <<job, signed>>
     ELSE /\ job' = [kind |-> "withdraw", index |-> i, tries |-> 0]
          /\ signed' = IF answer = "signed" THEN signed \union {[kind |-> "withdraw", index |-> i, n |-> steps]} ELSE signed
          /\ UNCHANGED desk
  /\ UNCHANGED <<venue, purse, tape, memo>>

WithdrawPoll(exitRead) ==
  LET done == ~exitRead \/ venue[job.index].collateral < MinWithdraw \/ purse > 0
  IN  /\ job.kind = "withdraw"
      /\ job' = IF done \/ job.tries + 1 = Tries THEN NoJob ELSE [job EXCEPT !.tries = @ + 1]
      /\ desk' = [Refreshed(Null) EXCEPT !.exit = IF exitRead THEN ExitOf ELSE Null, !.posted = @ /\ ~done,
                                        !.note = IF ~done /\ job.tries + 1 = Tries THEN "still confirming" ELSE @]
      /\ UNCHANGED <<signed, venue, purse, tape, steps, memo>>

\* Closing an expired market, and the pass: a challenge, and a wait for what the
\* press says of it; a claim is repeated only while it is said to be confirming.
Settle(answer, seen) == IF answer = "declined" THEN "declined" ELSE IF seen THEN Null ELSE "still confirming"
BuyPass(answer, claims) ==
  IF answer = "declined" THEN "declined"
  ELSE LET i == SelectInSeq(claims, LAMBDA c : c # "confirming")
       IN  IF i = 0 THEN "claimable later" ELSE claims[i]

-----------------------------------------------------------------------------
(* What the desk shows.                                                    *)

\* Away, the walk is shown and no button.
ClosedShows(wakeRemaining) == {"steps"} \union (IF wakeRemaining = Null THEN {} ELSE {"waking"})

PhaseButton(mainnet) ==
  CASE desk.phase \in {"closed", "opening"} -> "open" [] desk.phase = "pin" -> "set PIN"
    [] desk.phase = "unfunded" -> IF mainnet THEN "send USDC here" ELSE "take the stake"
    [] desk.phase = "collateral" -> "post" [] OTHER -> "buy and sell"

\* A position that was not read is said to be that, beside the last one known.
PositionShows(position, unread) ==
  IF position # Null /\ position # 0 THEN [position |-> position, old |-> unread]
  ELSE IF unread THEN [position |-> "unread", old |-> TRUE] ELSE [position |-> "flat", old |-> FALSE]

\* A returning reader may hold collateral in markets that are over: each is a
\* row of its own, and any that has expired can be closed by anyone.
ExitRows(rows) ==
  [i \in DOMAIN rows |->
     (IF rows[i].free >= MinWithdraw THEN {"withdraw"} ELSE IF rows[i].contracts # 0 THEN {"why not yet"} ELSE {})
     \union (IF rows[i].expired /\ ~rows[i].settled THEN {"settle"} ELSE {})]
PassShows(pass) == IF pass = Null \/ ~pass.available THEN Null ELSE IF pass.has_access THEN "until" ELSE "buy"
\* What the reader is told of the money: theirs on the one chain, ours on the other.
Framing(mainnet) == IF mainnet THEN "your money, our maker" ELSE "our stake, our maker"
FillsShow(fills) == IF desk.phase = "trading" /\ fills \notin {Null, <<>>} THEN fills ELSE Null

-----------------------------------------------------------------------------
Next ==
  \/ \E known, read \in BOOLEAN : Open(known, read)
  \/ \E a \in Answers, appears \in BOOLEAN : SetPin(a, appears)
  \/ \E granted \in BOOLEAN : Stake(granted)
  \/ \E i \in Indices : Switch(i) \/ (\E ok \in BOOLEAN : i = desk.index /\ ReadLimits(i, ok))
  \/ \E ok \in BOOLEAN : ReadExit(ok)
  \/ \E a \in Answers : Collateralize(a)
  \/ \E read \in BOOLEAN : Collateralized(read) \/ WithdrawPoll(read)
  \/ \E how \in FillsAnswers : \/ ReadFills(how)
                              \/ \E m \in BOOLEAN, a \in Answers : Trade(m, how, a)
                              \/ \E l \in BOOLEAN : TradePoll(l, how)
  \/ \E s \in signed : Lands(s)
  \/ \E i \in Indices, a \in Answers : Withdraw(i, a)

Spec == Init /\ [][Next]_vars

-----------------------------------------------------------------------------
IsNew(toast) ==
  LET fills == FillsOf(toast.fill.index)
  IN  \E k \in DOMAIN fills : fills[k] = toast.fill /\ Len(fills) - k + 1 > toast.since

\* The fill a reader is shown as the receipt of their order was not on the tape
\* when they pressed the button, whichever reads failed: "a receipt is never
\* minted from a read that failed" (futuresBook.test.ts).  The code does not have
\* this: a read lost before the order counts as no fill, so one the server still
\* remembers is new.
ReceiptIsNew == desk.toast # Null => IsNew(desk.toast)

\* It is so when the fills were read before the order, however late an earlier
\* order landed and whatever index was chosen meanwhile.
ReceiptIsNewOnceRead == desk.toast # Null /\ desk.toast.read => IsNew(desk.toast)

\* The page offers orders only in a market where the reader has posted margin.
\* The code does not have this: a step that posts to one index ends in the
\* trading phase of whichever index is chosen by then.
TradingHasCollateral == desk.phase = "trading" => venue[desk.index].collateral > 0

\* A way out that is taken to be done left no margin.  The code does not have
\* this: a read that failed, or money already in the wallet, counts as done.
WithdrawnIsOut ==
  (job.kind = "none" /\ desk.note = Null /\ desk.exit # Null /\ ~desk.posted /\ desk.phase = "collateral")
     => \A s \in signed : s.kind # "withdraw"
=============================================================================
