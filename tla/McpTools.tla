------------------------------ MODULE McpTools ------------------------------
(***************************************************************************)
(* What the MCP server answers (mcp/src): the ladder of can_i_pay, the     *)
(* refusals of pay_and_read, the age of a print and of a basket, the       *)
(* pre-trade checks, the spend report.  Every tool is a function of what   *)
(* the press, the chain and the local log said while it ran; the steps of  *)
(* calls that run at the same time are in McpAgent.                        *)
(*                                                                         *)
(* Abstractions.  Money is a number of millionths, as `micros` makes it; a *)
(* reply of the press is its status and the fields a tool reads, Null when *)
(* a field is absent or unreadable; the wording of an answer is one word.  *)
(***************************************************************************)
EXTENDS Integers, FiniteSetsExt, SequencesExt

CONSTANTS Null,            \* a value nobody gave or could read
          Profiles,        \* chain ids PROFILES has a row for
          Units,           \* the units a bill can be priced in
          WarnAge, MaxAge, \* PRINT_WARN_AGE_S, PRINT_MAX_AGE_S
          AnchorAge,       \* ANCHOR_MAX_AGE_S
          HumanWindow,     \* HUMAN_WINDOW_DAYS
          DefaultDays,     \* DEFAULT_DAYS
          UnitSanity       \* UNIT_SANITY_BP, here a factor

Or(x, default) == IF x = Null THEN default ELSE x

Distance(a, b) == Max({a - b, b - a})

\* Math.round(a / b) for b > 0.
RoundedQuotient(a, b) == (2 * a + b) \div (2 * b)

-----------------------------------------------------------------------------
\* Paying: the checks both can_i_pay and pay_and_read make.

\* The profile of a chain id, Null for an id with no row.
ArcChain(id) == IF id \in Profiles THEN id ELSE Null

\* What a payer has to do before it can settle a price.
FundingStep(wallet, gateway, price) ==
    IF gateway >= Max({price, 1}) THEN "ready" ELSE IF wallet > 0 THEN "deposit" ELSE "bridge"

\* An unreadable balance next to a readable one counts as zero.
StepOf(balances, price) == FundingStep(Or(balances.wallet, 0), Or(balances.gateway, 0), price)

\* A balance is what the chain says, or Null when the read threw.
ReadBalances(chain, readable) ==
    [wallet |-> IF "wallet" \in readable THEN chain.wallet ELSE Null,
     gateway |-> IF "gateway" \in readable THEN chain.gateway ELSE Null]

Unreadable(balances) == balances.wallet = Null /\ balances.gateway = Null

\* The price of a 402 challenge: Null when it carries none.
PriceFromChallenge(reply) == reply.price

KeyIsValid(key) == key = "hex64"

\* A card of one chain, a second to MaxAge seconds long, which claims no human
\* unless told to.
MintCard(o, now) ==
    [agent |-> o.key, chain |-> o.chain, human |-> Or(o.human, "none"), issuedAt |-> now,
     expiresAt |-> now + Min({Max({1, Or(o.ttl, 300)}), 900})]

\* One query of a press: its status and the fields the ladder reads.
Rung(name, ok) == [rung |-> name, ok |-> ok, reached |-> TRUE]
NotReached(name) == [rung |-> name, ok |-> FALSE, reached |-> FALSE]

HostRung(w) == Rung("host", w.health.status = 200 /\ w.health.chain # Null)

ChainRung(w) ==
    IF ~HostRung(w).ok THEN NotReached("chain")
    ELSE Rung("chain", ArcChain(w.health.chain) # Null)

\* No card is fine; a card the gate refuses, or cannot check, is not.
CardRung(w) == Rung("card", w.whoami = 200)

GateRung(w) == Rung("gate", w.info.status = 200 /\ w.info.gated)

ChallengeRung(w) ==
    Rung("challenge", w.probe.status = 402 /\ PriceFromChallenge(w.probe) # Null)

\* The challenge's price, or the listed one when there is no challenge.
Due(w) ==
    IF w.probe.status = 402 /\ w.probe.price # Null THEN w.probe.price ELSE w.info.price

PayerRung(w) == Rung("payer", KeyIsValid(w.key))

FundsRung(w) ==
    IF ~PayerRung(w).ok \/ ~ChainRung(w).ok \/ Due(w) = Null THEN NotReached("funds")
    ELSE Rung("funds", ~Unreadable(w.balances) /\ StepOf(w.balances, Due(w)) = "ready")

\* Seven rungs in a fixed order; the first that fails is what blocks.
CanIPay(w) ==
    LET rungs == <<HostRung(w), ChainRung(w), CardRung(w), GateRung(w), ChallengeRung(w),
                   PayerRung(w), FundsRung(w)>>
        failed == {i \in DOMAIN rungs : ~rungs[i].ok}
    IN  [can_pay |-> failed = {}, rungs |-> rungs, price |-> Due(w),
         blocked_at |-> IF failed = {} THEN Null ELSE rungs[Min(failed)].rung]

\* Would one more payment of this amount stay within the session's cap?
Admits(ledger, amount) == ledger.spent + Max({amount, 0}) <= ledger.cap

Record(ledger, amount) ==
    [ledger EXCEPT !.spent = @ + Max({amount, 0}), !.calls = @ + 1]

\* An unset or unusable cap is a cent, a deliberate 0 is 0.
NewLedger(raw, cent) ==
    [spent |-> 0, calls |-> 0, cap |-> IF raw = Null THEN cent ELSE raw]

\* The refusals of pay_and_read in the order they are tried; readJson throws
\* for a host that cannot be reached.
Payable(w) == w.health.status = 200 /\ ArcChain(w.health.chain) # Null
Priced(w) == w.probe.status # 0 /\ PriceFromChallenge(w.probe) # Null
Funded(w) == Unreadable(w.balances) \/ StepOf(w.balances, PriceFromChallenge(w.probe)) = "ready"

PayRefusal(w, ledger) ==
    CASE ~KeyIsValid(w.key)                             -> "no_key"
      [] KeyIsValid(w.key) /\ ~Payable(w)               -> "no_profile"
      [] KeyIsValid(w.key) /\ Payable(w) /\ ~Priced(w)  -> "no_price"
      [] OTHER -> IF ~Admits(ledger, PriceFromChallenge(w.probe)) THEN "over_cap"
                  ELSE IF ~Funded(w) THEN StepOf(w.balances, PriceFromChallenge(w.probe))
                  ELSE "settle"

\* pay_and_read is offered only when there is a payer key.
ToolsFor(tools, hasPayerKey) == IF hasPayerKey THEN tools ELSE tools \ {"pay_and_read"}

-----------------------------------------------------------------------------
\* How old a number is.

PrintFreshness(postedAt, now) ==
    LET age == Max({0, now - postedAt})
    IN  IF postedAt \in {Null, 0} THEN [state |-> "unknown", age |-> Null]
        ELSE [age |-> age, state |-> IF age > MaxAge THEN "overdue"
                                     ELSE IF age > WarnAge THEN "late" ELSE "fresh"]

WorthSaying(state) == state \in {"late", "overdue"}

\* The note says why, and there is none beside a fresh print.
PrintStaleness(postedAt, now) ==
    LET f == PrintFreshness(postedAt, now)
    IN  [age |-> f.age, freshness |-> f.state, stale |-> WorthSaying(f.state),
         note |-> IF f.state = "fresh" THEN Null ELSE f.state]

\* The words with which the press still prices; any other is a refusal.
PricingStatuses == {"ok", "aging"}

\* The press's word decides; its own age is preferred to a local subtraction;
\* the local window is for a press that says nothing.
BasketStaleness(fetchedAt, status, now, pressAge) ==
    LET subtracted == IF fetchedAt \in {Null, 0} THEN Null ELSE Max({0, now - fetchedAt})
        age == IF pressAge # Null THEN Max({0, pressAge}) ELSE subtracted
        Is(stale, note) == [age |-> age, status |-> status, stale |-> stale, note |-> note]
    IN  IF status # Null /\ status \notin PricingStatuses THEN Is(status = "STALE", "fell_back")
        ELSE IF status = "aging" THEN Is(FALSE, "aging")
        ELSE IF age = Null THEN Is(FALSE, "unstamped")
        ELSE Is(age > AnchorAge, IF age > AnchorAge THEN "old" ELSE Null)

\* What has to be said when a bill was judged against the press's own fleet.
FleetHint(against, vendorGiven, benchmarked) ==
    IF against # "fleet" THEN Null
    ELSE IF ~vendorGiven THEN "basket_unusable"
    ELSE IF benchmarked = FALSE THEN "own_seller_alone" ELSE "own_seller"

-----------------------------------------------------------------------------
\* Reads.  A reply is [status, body]; a refusal is passed on with its body.

ReadJson(reply) ==
    IF reply.status \in 200..299 THEN reply.body ELSE [error |-> reply.status, body |-> reply.body]

Failed(body) == "error" \in DOMAIN body

\* What the host must show as a failure: every error but a quoted price.
IsFailure(body) == Failed(body) /\ body.error # 402

\* An empty window is said to be the window's, an absent count is not a zero.
WithWindowHint(body, days, count) ==
    IF Failed(body) \/ ~body.available \/ body[count] # 0 THEN body ELSE body @@ [hint |-> days]

WalletTca(reply, asked) == WithWindowHint(ReadJson(reply), Or(asked, DefaultDays), "purchases")
SellerRating(reply, asked) == WithWindowHint(ReadJson(reply), Or(asked, DefaultDays), "n")

\* "No suggestion" and "unreadable" are different answers.
RerouteSuggestion(tca) ==
    IF Failed(tca) \/ ~tca.available THEN tca
    ELSE IF tca.reroute = Null THEN [available |-> TRUE, reroute |-> "none_cheaper"]
    ELSE [available |-> TRUE, reroute |-> tca.reroute]

\* One re-ask after a 404, which the press also answers when it is throttled.
GetRate(first, second, now) ==
    LET body == ReadJson(IF first.status = 404 THEN second ELSE first)
    IN  IF ~Failed(body) THEN body @@ PrintStaleness(body.posted_at, now)
        ELSE IF body.error = 404 THEN [available |-> FALSE, asked |-> 2] ELSE body

\* With a unit the bill goes to /par; a press without /par, or a call without
\* a unit, leaves the weaker comparison with the index level.
BenchmarkPrice(unit, par, index, print, price, now) ==
    LET answered == ReadJson(par)
        quote == ReadJson(print)
        arrival == IF Failed(quote) THEN Null ELSE quote.value
    IN  IF unit # Null /\ ~Failed(answered)
        THEN [available |-> TRUE, basis |-> "par",
              reference |-> BasketStaleness(answered.fetched_at, answered.status, now, answered.age)]
        ELSE IF unit # Null /\ answered.error # 404
        THEN [available |-> FALSE, reason |-> "refused"]
        ELSE IF index = Null THEN [available |-> FALSE, reason |-> "nothing_to_compare"]
        ELSE IF arrival = Null \/ Or(arrival, 0) <= 0 THEN [available |-> FALSE, reason |-> "no_print"]
        ELSE IF Distance(price, arrival) > UnitSanity * arrival
        THEN [available |-> FALSE, reason |-> "not_the_same_quantity"]
        ELSE [available |-> TRUE, basis |-> "index",
              slippage_bp |-> RoundedQuotient((price - arrival) * 10000, arrival)]

\* The screen in front of the tape fails closed, and that is the press's side.
QueryTape(operation, reply) ==
    IF operation = Null THEN ReadJson(reply)
    ELSE IF reply.body = "no_verdict" THEN [available |-> FALSE, host_side |-> TRUE]
    ELSE [available |-> TRUE, body |-> reply.body]

\* The fields a bill is refused for before anything is sent.
BadField(bill) ==
    CASE bill.billed <= 0                                                     -> "billed_usdc"
      [] bill.billed > 0 /\ bill.quantity <= 0                                -> "quantity"
      [] bill.billed > 0 /\ bill.quantity > 0 /\ bill.unit \notin Units       -> "unit"
      [] bill.billed > 0 /\ bill.quantity > 0 /\ bill.unit \in Units
         /\ bill.vendor = "not_an_address"                                    -> "vendor"
      [] OTHER                                                                -> Null

\* The row a checked bill leaves in the local log.
SpendRow(bill, par, at) ==
    [at |-> at, vendor |-> bill.vendor, billed |-> bill.billed, over |-> par.over,
     verdict |-> par.verdict, saving |-> par.saving, basket |-> par.status]

\* Where the log is, Null when the developer turned it off.
LogPath(setting) == IF setting = "off" THEN Null ELSE Or(setting, "home")

\* Appending never throws: a failure is a null path.
AppendedTo(path, writable) == IF writable THEN path ELSE Null

CheckSpend(bill, reply, path, writable, now) ==
    LET par == ReadJson(reply)
    IN  IF BadField(bill) # Null THEN [available |-> FALSE, reason |-> BadField(bill)]
        ELSE IF ~Failed(par)
        THEN [available |-> TRUE, recorded_to |-> AppendedTo(path, writable),
              hint |-> FleetHint(par.against, bill.vendor # Null, par.benchmarked),
              reference |-> BasketStaleness(par.fetched_at, par.status, now, par.age)]
        ELSE [available |-> FALSE, host_side |-> par.error # 422,
              reason |-> IF par.error = 404 THEN "no_par"
                         ELSE IF par.error = 422 THEN "unreadable_bill" ELSE "no_answer"]

\* A malformed line, or one cut short by a concurrent append, is skipped.
ReadLog(lines) == SelectSeq(lines, LAMBDA line : line # "malformed")

-----------------------------------------------------------------------------
\* The spend report.

\* The press's rule: a saving that was really on offer, and material.
Actionable(row) == row.verdict = "over_par" /\ row.saving # Null /\ Or(row.saving, 0) > 0

Median(numbers) ==
    LET n == Len(numbers)
        s == SortSeq(numbers, LAMBDA a, b : a < b)
    IN  IF n = 0 THEN Null
        ELSE IF n % 2 = 1 THEN 2 * s[n \div 2 + 1] ELSE s[n \div 2] + s[n \div 2 + 1]

Total(rows, Of(_)) == FoldSeq(LAMBDA row, sum : sum + Of(row), 0, rows)
Worst(rows) == IF rows = <<>> THEN Null ELSE Max({rows[i].over : i \in DOMAIN rows})

\* A vendor's line: its overcharge weighted by volume, in tenths.
VendorLine(rows) ==
    LET priced == SelectSeq(rows, LAMBDA row : row.over # Null)
        weight == Total(priced, LAMBDA row : row.billed)
    IN  [bills |-> Len(rows), billed |-> Total(rows, LAMBDA row : row.billed), worst |-> Worst(priced),
         over_rate |-> IF weight = 0 THEN Null
                       ELSE RoundedQuotient(10 * Total(priced, LAMBDA row : row.over * row.billed), weight)]

SpendReport(rows, days, vendor, now) ==
    LET window == SelectSeq(rows, LAMBDA row : row.at >= now - days /\ vendor \in {Null, row.vendor})
        priced == SelectSeq(window, LAMBDA row : row.over # Null)
        over == SelectSeq(priced, LAMBDA row : row.over > 0)
        act == SelectSeq(window, Actionable)
        vendors == {window[i].vendor : i \in DOMAIN window}
        reasons == {window[i].basket : i \in {j \in DOMAIN window : window[j].over = Null}}
    IN  [checked |-> Len(window), priced |-> Len(priced),
         unpriced |-> [r \in reasons |-> Cardinality({i \in DOMAIN window :
                                             window[i].over = Null /\ window[i].basket = r})],
         over |-> [n |-> Len(over), worst |-> Worst(over),
                   median2 |-> Median([i \in DOMAIN over |-> over[i].over])],
         actionable |-> [n |-> Len(act), usdc |-> Total(act, LAMBDA row : row.saving)],
         by_vendor |-> [v \in vendors |-> VendorLine(SelectSeq(window, LAMBDA row : row.vendor = v))]]

\* No bill yet is not a report of zeroes; days are clamped to a year.
SpendReportTool(path, lines, days, vendor, now) ==
    IF path = Null \/ ReadLog(lines) = <<>> THEN Null
    ELSE SpendReport(ReadLog(lines), Min({365, Max({1, days})}), vendor, now)

\* The receipts of one payer: the given one, else the key's own, else all.
PaymentReceipts(payer, key, tape, limit) ==
    LET mine == IF payer # Null THEN payer ELSE IF KeyIsValid(key) THEN "self" ELSE Null
        rows == SelectSeq(tape, LAMBDA receipt : mine \in {Null, receipt})
    IN  [payer |-> mine, narrowed |-> mine # Null,
         receipts |-> SubSeq(rows, 1, Min({Len(rows), IF limit > 0 THEN limit ELSE 20}))]

-----------------------------------------------------------------------------
\* The human gate.

\* The window the press says it resolves a human over, or the documented one.
HumanWindowDays(info) ==
    IF info.status = 200 /\ Or(info.days, 0) > 0 THEN [days |-> info.days, stated |-> TRUE]
    ELSE [days |-> HumanWindow, stated |-> FALSE]

\* A window the press has ruled out is refused before a proof is spent on it.
RefusedHere(asked, window) == asked # Null /\ window.stated /\ Or(asked, 0) > window.days

\* How a challenge can be answered with the credentials this server has.
ProofFor(challenge, has) ==
    CASE challenge.status = 200                                    -> "none_needed"
      [] challenge.status # 200 /\ challenge.nonce = Null          -> "no_challenge"
      [] challenge.status # 200 /\ challenge.nonce # Null
         /\ challenge.scheme = "agentkit"                          -> IF has.humanKey THEN "signed" ELSE "no_key"
      [] OTHER                                                     -> IF has.nullifier THEN "nullifier" ELSE "no_nullifier"

-----------------------------------------------------------------------------
(* Properties, over one world of answers and one log.                      *)

\* can_i_pay and pay_and_read climb different ladders over the same reads: a
\* yes is never followed by a refusal while the session has room for it, and a
\* no whose payment would still settle stands on a rung paying does not ask
\* (preflight.ts, tools.ts:1027-1110).
PreflightAgrees(w) ==
    LET says == CanIPay(w)
        does == PayRefusal(w, NewLedger(1000, 1000))
    IN  /\ says.can_pay => does = "settle"
        /\ ~says.can_pay /\ does = "settle" => says.blocked_at \in {"card", "gate", "challenge", "funds"}

\* The report counts every bill of its window once, priced or not, in one
\* vendor's line, and a vendor's rate exists exactly when one of its bills was
\* priced and stays within their range (spendLog.ts).
ReportAddsUp(rows, days, now) ==
    LET report == SpendReport(rows, days, Null, now)
        kept == SelectSeq(rows, LAMBDA row : row.at >= now - days)
        lines == report.by_vendor
        Sum(f) == MapThenSumSet(LAMBDA x : f[x], DOMAIN f)
        Overs(v) == {10 * kept[i].over : i \in {j \in DOMAIN kept : kept[j].vendor = v /\ kept[j].over # Null}}
    IN  /\ report.checked = report.priced + Sum(report.unpriced)
        /\ report.checked = Sum([v \in DOMAIN lines |-> lines[v].bills])
        /\ \A v \in DOMAIN lines :
              IF lines[v].over_rate = Null THEN Overs(v) = {}
              ELSE Overs(v) # {} /\ Min(Overs(v)) <= lines[v].over_rate /\ lines[v].over_rate <= Max(Overs(v))
=============================================================================
