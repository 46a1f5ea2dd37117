----------------------------- MODULE TerminalMarket -----------------------------
(***************************************************************************)
(* Buying from the dashboard.  The console asks for one path at a time and *)
(* pays for it in four ways: the practice header, a desk pass, the house   *)
(* buyer of the server, the reader's own wallet.  The shop floor buys a    *)
(* listing, or releases a run.  The server's buyer pays what each challenge *)
(* asks, under two caps.  Every request takes its time, and the reader     *)
(* chooses other paths meanwhile.                                          *)
(***************************************************************************)
EXTENDS Integers, FiniteSets, Sequences, FiniteSetsExt, SequencesExt, Functions

CONSTANTS Null,
          Paths,          \* the paths a reader can choose
          Advertised,     \* what the press may say a query costs, in units
          Challenges,     \* what a challenge may ask
          Cap,            \* the spend cap, in the same units
          Fallback,       \* what a query is taken to cost when nobody says
          MaxAsks         \* bound: requests from one page

VARIABLES bench,          \* the console: the path, what is shown of it, the tally
          asked,          \* its requests under way
          floor,          \* the shop floor
          buyer,          \* the server's buyer: the run under way, and all it paid
          purse,          \* the reader's wallet: its balances, as read and as they are
          asks

vars == <<bench, asked, floor, buyer, purse, asks>>

-----------------------------------------------------------------------------
(* The server's buyer.                                                     *)

\* Only paths of the list are ever paid.
Allowed == Paths
BuyerConfigured(key) == key # Null

\* A count of queries is between one and five, and three when it is no number.
ClampCount(n) == IF n = Null THEN 3 ELSE Max({1, Min({5, n})})

\* A caller's paths are taken only when every one is allowed; else the rotation.
ChooseTargets(paths, count, rotation) ==
  LET useCaller == paths # <<>> /\ Range(paths) \subseteq Allowed
      source == IF useCaller THEN paths ELSE rotation
  IN  SubSeq(source, 1, Min({Len(source), Max({1, count})}))

WithinCap(spent, price) == spent + price <= Cap

\* On the network of real money only an operator who said so lets strangers spend.
BuyerAllowedOn(network, optedIn) == network # "mainnet" \/ optedIn

\* What every payment passes before it is signed, by its own amount.
BeforePayment(amount) == amount <= Cap

\* Whether the page may offer the house buyer.
BuyerReady(key, info, optedIn) ==
  BuyerConfigured(key) /\ info # Null /\ info.gate = "circle" /\ BuyerAllowedOn(info.network, optedIn)

NoRun == [state |-> "none"]

\* The buyer's guards, in their order; a price that is not above zero is not one.
StartBuy(key, n, paths, info, optedIn) ==
  /\ buyer.run.state = "none" /\ asks < MaxAsks /\ asks' = asks + 1
  /\ buyer' = [buyer EXCEPT !.run =
       IF ~BuyerConfigured(key) THEN [state |-> "refused", status |-> 400]
       ELSE IF info = Null \/ info.gate # "circle"
         THEN [state |-> "refused", status |-> IF info # Null /\ ~BuyerAllowedOn(info.network, optedIn) THEN 404 ELSE 409]
       ELSE IF ~BuyerAllowedOn(info.network, optedIn) THEN [state |-> "refused", status |-> 404]
       ELSE [state |-> "paying", left |-> ClampCount(n), spent |-> 0,
             targets |-> ChooseTargets(paths, ClampCount(n), SetToSeq(Paths)),
             price |-> IF info.price > 0 THEN info.price ELSE Fallback, results |-> <<>>]]
  /\ UNCHANGED <<bench, asked, floor, purse>>

\* One turn of its loop: the sum against the advertised price, the challenge
\* against the cap alone; the first that fails ends the run.
BuyNext(challenge, ok) ==
  LET r == buyer.run
      path == r.targets[(Len(r.results) % Len(r.targets)) + 1]
      Result(status, price) == Append(r.results, [path |-> path, status |-> status, price |-> price])
      Ended(results) == [r EXCEPT !.state = "done", !.results = results]
  IN  /\ r.state = "paying"
      /\ buyer' =
           IF r.left = 0 THEN [buyer EXCEPT !.run = Ended(r.results)]
           ELSE IF ~WithinCap(r.spent, r.price) THEN [buyer EXCEPT !.run = Ended(Result(0, 0))]
           ELSE IF ~BeforePayment(challenge) \/ ~ok THEN [buyer EXCEPT !.run = Ended(Result(402, 0))]
           ELSE [buyer EXCEPT !.run = [r EXCEPT !.left = @ - 1, !.spent = @ + challenge,
                                                !.results = Result(200, challenge)],
                              !.paid = @ + challenge]
      /\ UNCHANGED <<bench, asked, floor, purse, asks>>

\* Its answer reaches the page that asked: the floor shows what was settled and
\* drops a toast for the last of it.
ReleaseLive ==
  LET r == buyer.run
      settled == SelectSeq(r.results, LAMBDA x : x.status = 200)
  IN  /\ r.state \in {"refused", "done"}
      /\ floor' = [floor EXCEPT !.error = IF r.state = "refused" THEN r.status ELSE Null,
                                !.toast = IF r.state = "done" /\ settled # <<>> THEN Last(settled).price ELSE @,
                                !.shown = IF r.state = "done" THEN r.spent ELSE Null,
                                !.spent = @ + (IF r.state = "done" THEN r.spent ELSE 0)]
      /\ buyer' = [buyer EXCEPT !.run = NoRun]
      /\ UNCHANGED <<bench, asked, purse, asks>>

-----------------------------------------------------------------------------
(* The console.                                                            *)

\* What each kind of endpoint is asked as; only one has no index in it.
PathFor(kind, index) == IF kind = "prints-all" THEN <<"prints">> ELSE <<kind, index>>

\* The press is asked twice: what it demands, and the same with a payment in the
\* header; the price in it is the last one any press advertised within a minute.
AdvertisedPrice(memo, info) == IF memo # Null THEN memo ELSE IF info = Null \/ info.price <= 0 THEN Fallback ELSE info.price
ConsolePost(path, payer, session, reached) ==
  IF path \notin Allowed \/ (session = Null /\ payer = Null) THEN [status |-> 400]
  ELSE IF ~reached THEN [status |-> 503] ELSE [status |-> 200]

\* What stands behind the press when it is away, but not the claim of what its
\* gate is now.
InfoArchived(archived) == IF archived = Null THEN Null ELSE [archived EXCEPT !.gate = Null]

\* The ways to read, each with a busy mark of its own.
Ways == {"query", "pass", "house", "wallet"}

Choose(p) ==
  /\ bench.path # p /\ asks < MaxAsks /\ asks' = asks + 1
  /\ bench' = [bench EXCEPT !.path = p, !.result = Null, !.settled = Null]
  /\ UNCHANGED <<asked, floor, buyer, purse>>

Ask(way) ==
  /\ way \notin bench.busy /\ asks < MaxAsks /\ asks' = asks + 1
  /\ way \in {"pass", "house", "wallet"} => bench.result # Null /\ ~bench.result.paid
  /\ way = "wallet" => purse.seen \in {Null, "ready"}
  /\ bench' = [bench EXCEPT !.busy = @ \union {way},
                            !.settled = IF way \in {"house", "wallet"} THEN Null ELSE @]
  /\ asked' = asked \union {[way |-> way, path |-> bench.path]}
  /\ UNCHANGED <<floor, buyer, purse>>

\* A paid query is added to the tally at the advertised price, a settlement at
\* its own; a pass is added to neither.
Answered(r, paid, price) ==
  LET counted == paid /\ r.way # "pass"
  IN  /\ r \in asked /\ asked' = asked \ {r}
      /\ bench' = [bench EXCEPT
           !.busy = @ \ {r.way},
           !.result = IF r.way \in {"query", "pass"} THEN [path |-> r.path, paid |-> paid] ELSE @,
           !.settled = IF r.way \in {"house", "wallet"} THEN [path |-> r.path, paid |-> paid] ELSE @,
           !.tally = @ + (IF counted THEN 1 ELSE 0),
           !.money = @ + (IF ~counted THEN 0 ELSE IF r.way = "query" THEN Fallback ELSE price)]
      /\ buyer' = IF paid /\ r.way = "house" THEN [buyer EXCEPT !.paid = @ + price, !.fromBench = @ + price]
                  ELSE buyer
      /\ purse' = IF paid /\ r.way = "wallet" THEN [purse EXCEPT !.gateway = Max({0, @ - price}), !.spent = @ + price]
                  ELSE purse
      /\ UNCHANGED <<floor, asks>>

Failed(r) ==
  /\ r \in asked /\ asked' = asked \ {r}
  /\ bench' = [bench EXCEPT !.busy = @ \ {r.way}]
  /\ UNCHANGED <<floor, buyer, purse, asks>>

\* The loop of the practice gate asks every four seconds, never twice at once,
\* and goes off with the gate.
AgentLoop(gate) ==
  IF gate = "dev" THEN [every |-> 4, atOnce |-> 1] ELSE [every |-> 0, atOnce |-> 0]

-----------------------------------------------------------------------------
(* The floor's run of the practice buyer, and its listings.                *)

\* A run's progress drops a toast whenever its count is another than the last.
RunProgress(done, price) ==
  /\ done # floor.done /\ asks < MaxAsks /\ asks' = asks + 1
  /\ floor' = [floor EXCEPT !.done = done, !.toast = IF done > 0 THEN price ELSE @]
  /\ UNCHANGED <<bench, asked, buyer, purse>>

\* One listing at a time is bought; its error and its receipt are its own row's.
BuyOne(path, outcome) ==
  [settled |-> outcome.status = 200 /\ outcome.ref # Null,
   error |-> IF outcome.status = 200 THEN Null ELSE <<path, outcome.status>>]

\* What a listing costs, what it returns, and the sales the tape can name.
PriceNumber(item) == IF item.amount = Null THEN 0 ELSE item.amount
UnitOf(item) == IF item.units = Null \/ item.index \notin DOMAIN item.units THEN Null ELSE item.units[item.index]
ReturnsFields(item) == IF item.output = Null THEN {} ELSE item.output
SalesFor(path, receipts) == SelectSeq(receipts, LAMBDA r : r.resource = path)

\* A sale count is shown only when the tape names one: none named is not none.
RowShows(item, receipts) ==
  LET n == Len(SalesFor(item.path, receipts))
  IN  [price |-> IF PriceNumber(item) > 0 THEN PriceNumber(item) ELSE Null,
       sold |-> IF n > 0 THEN n ELSE Null, fields |-> ReturnsFields(item), unit |-> UnitOf(item)]

\* Who can buy from an open row: the wallet, once it may spend; the house buyer;
\* and a sentence when nobody can.
RowButtons(wallet, next, hasWallet, ready, buying) ==
  (IF wallet THEN {IF buying \/ next \notin {Null, "ready"} THEN "wallet, off" ELSE "wallet"}
   ELSE IF hasWallet THEN {"connect"} ELSE {})
  \union (IF ready THEN {IF buying THEN "house, off" ELSE "house"} ELSE {})
  \union (IF ~ready /\ ~wallet /\ ~hasWallet THEN {"why nobody can"} ELSE {})

\* The two releases: real settlements behind the real gate, practice ones behind
\* the practice gate, and neither while the press is away.
ReleaseButtons(live, gate, ready) ==
  IF live /\ gate = "circle" THEN [button |-> "live", on |-> ready]
  ELSE [button |-> "practice", on |-> live /\ gate = "dev"]

\* The head of the floor says which gate answered, and what is archived.
HeadChip(tape) ==
  IF tape = Null THEN "awaiting" ELSE IF ~tape.live THEN "archived"
  ELSE IF tape.gate = "circle" THEN "circle" ELSE "dev"
FloorEmpty(catalog) == IF catalog # Null /\ catalog.live THEN "awaiting the catalog" ELSE "asleep"

\* What a run left on the screen.
RunShows(run) == IF run = Null \/ run.state = "idle" THEN Null
                 ELSE IF run.state = "error" THEN "errored" ELSE <<run.done, run.total>>

-----------------------------------------------------------------------------
(* The reader's wallet.                                                    *)

\* The first offer of this network that the Gateway settles.
PickBatchingOption(accepts, network) ==
  LET i == SelectInSeq(accepts, LAMBDA o : o.network = network /\ o.batched)
  IN  IF i = 0 THEN Null ELSE accepts[i]

\* What a wallet does next: it bridges, deposits, or is ready for a price.
FundingStep(inWallet, inGateway, price) ==
  IF inGateway >= Max({price, 1}) THEN "ready" ELSE IF inWallet > 0 THEN "deposit" ELSE "bridge"

\* Reading the balances of a chain no one has facts of is no read of another's.
BalancesOf(known, own, other) == IF known THEN own ELSE other
ReadBalances == [wallet |-> purse.wallet, gateway |-> purse.gateway,
                 next |-> FundingStep(purse.wallet, purse.gateway, Fallback)]

\* The house wallets, for the panel: nothing when there is no buyer, a seller
\* whose balance could not be read when only that failed.
HouseBalances(key, client, seller) ==
  IF ~BuyerConfigured(key) \/ client = Null THEN [ready |-> FALSE, wallets |-> <<>>]
  ELSE [ready |-> TRUE, wallets |-> <<client, seller>>]
WalletPanel(balances, error) ==
  IF balances # Null /\ balances.ready THEN balances.wallets
  ELSE IF error # Null THEN "unreachable" ELSE "no buyer here"

Connect(chainKnown, accepted) ==
  IF accepted = "unknown chain" THEN (IF chainKnown THEN "added" ELSE "no RPC to give")
  ELSE IF accepted = "yes" THEN "connected" ELSE "declined"

\* A payment: a page that asks nothing is free; else one signature of one offer.
PayWithWallet(first, option, second) ==
  IF first # 402 THEN [status |-> first, amount |-> 0]
  ELSE IF option = Null THEN [status |-> "no offer", amount |-> 0]
  ELSE [status |-> second, amount |-> option.amount]
ExplainRefusal(raw) ==
  CASE raw \in {"self_transfer", "insufficient", "expired"} -> raw
    [] raw # Null -> "the seller refused" [] OTHER -> "no reason"
ReadableWalletError(code) ==
  CASE code = 4001 -> "declined; nothing was sent" [] code = -32002 -> "a request is open already"
    [] code = 4902 -> "unknown chain" [] OTHER -> "what the wallet said"

\* Where the money may come from, and what each step of bringing it is called.
BridgePlan(chain) == CASE chain = "mainnet" -> "Arc" [] chain = "testnet" -> "Arc_Testnet" [] OTHER -> Null
DescribeStep(step) ==
  CASE step.state = "error" -> <<step.name, "failed">> [] step.state = "success" -> <<step.name, "done">>
    [] step.state = "noop" -> <<step.name, "not needed">> [] OTHER -> <<step.name>>
BridgeToArc(chain, hasWallet, result) ==
  IF BridgePlan(chain) = Null \/ ~hasWallet THEN "error" ELSE IF result = "success" THEN "ok" ELSE "incomplete"

\* A deposit moves the amount on the chain, and the balances are read again until
\* they say ready, or eight times; a failed read leaves the ones shown.
Deposit(amount) ==
  /\ purse.seen = "deposit" /\ purse.wallet >= amount /\ asks < MaxAsks /\ asks' = asks + 1
  /\ purse' = [purse EXCEPT !.wallet = @ - amount, !.gateway = @ + amount]
  /\ UNCHANGED <<bench, asked, floor, buyer>>

Bridge(amount) ==
  /\ purse.seen = "bridge" /\ asks < MaxAsks /\ asks' = asks + 1
  /\ purse' = [purse EXCEPT !.wallet = @ + amount]
  /\ UNCHANGED <<bench, asked, floor, buyer>>

ReadPurse ==
  /\ purse' = [purse EXCEPT !.seen = ReadBalances.next]
  /\ UNCHANGED <<bench, asked, floor, buyer, asks>>

FundingShows(next, plan) ==
  CASE next = "deposit" -> "deposit" [] next = "bridge" /\ plan # Null -> "bridge" [] OTHER -> "balances"

-----------------------------------------------------------------------------
(* The agent that hedges what it bought.                                   *)

\* Its state comes from the press, else from the press's last answer, else from
\* the archive, and is a placeholder with no position after that.
HedgerRead(live, kept, archived) ==
  CASE live # Null -> [live |-> TRUE, data |-> live] [] kept # Null -> [live |-> FALSE, data |-> kept]
    [] archived # Null -> [live |-> FALSE, data |-> archived]
    [] OTHER -> [live |-> FALSE, data |-> [configured |-> FALSE, position |-> Null, gap |-> Null,
                                           receipts |-> Null, fills |-> <<>>]]

\* The gap is never re-derived: unread, on target within a quarter, or off it.
GapChip(gap) == IF gap = Null THEN "unread" ELSE IF gap > -25 /\ gap < 25 THEN "on target" ELSE "off target"
\* What the position is worth needs the mark, the multiplier and the position.
Exposure(state) == IF state.position = Null \/ state.mark \in {Null, 0} \/ state.multiplier \in {Null, 0} THEN Null
                   ELSE (IF state.position < 0 THEN -state.position ELSE state.position) * state.mark * state.multiplier
\* A ledger nobody could read is not an empty one.
PaidRows(receipts) == IF receipts = Null THEN "unread" ELSE IF receipts = <<>> THEN "nothing paid" ELSE receipts
HedgerShows(state, live) ==
  IF state = Null \/ ~state.configured THEN [card |-> "what it would do"]
  ELSE [card |-> IF live THEN "live" ELSE "archived", gap |-> GapChip(state.gap),
        worth |-> Exposure(state), paid |-> PaidRows(state.receipts)]

-----------------------------------------------------------------------------
Init ==
  /\ bench = [path |-> CHOOSE p \in Paths : TRUE, result |-> Null, settled |-> Null, busy |-> {},
              tally |-> 0, money |-> 0]
  /\ asked = {} /\ asks = 0
  /\ floor = [done |-> 0, toast |-> Null, error |-> Null, shown |-> Null, spent |-> 0]
  /\ buyer = [run |-> NoRun, paid |-> 0, fromBench |-> 0]
  /\ purse = [wallet |-> 0, gateway |-> 0, seen |-> Null, spent |-> 0]

BenchNext ==
  \/ \E p \in Paths : Choose(p)
  \/ \E w \in Ways : Ask(w)
  \/ \E r \in asked, paid \in BOOLEAN, c \in Challenges : BeforePayment(c) /\ Answered(r, paid, c)
  \/ \E r \in asked : Failed(r)
FloorNext ==
  \/ \E n \in {Null, 0, 2, 9}, info \in {Null} \union [gate : {"dev", "circle"}, network : {"mainnet", "testnet"},
                                                   price : Advertised], optedIn \in BOOLEAN,
        ps \in {<<>>, <<CHOOSE p \in Paths : TRUE>>, <<"elsewhere">>} : StartBuy("key", n, ps, info, optedIn)
  \/ \E c \in Challenges, ok \in BOOLEAN : BuyNext(c, ok)
  \/ ReleaseLive
  \/ \E d \in 0 .. 2, c \in Challenges : RunProgress(d, c)
PurseNext == \E a \in {1, 2} : Deposit(a) \/ Bridge(a) \/ ReadPurse

Next == BenchNext \/ FloorNext \/ PurseNext
Spec == Init /\ [][Next]_vars

-----------------------------------------------------------------------------
\* However the press prices its challenges after it has advertised a price, one
\* press of the button spends less than twice the cap, in at most five payments of
\* paths on the list; and what the page says was spent is what was.
RunStaysBounded ==
  /\ buyer.run.state \in {"paying", "done"} =>
       /\ buyer.run.spent + buyer.run.price <= 2 * Cap
       /\ Len(buyer.run.results) <= 5
       /\ \A i \in DOMAIN buyer.run.results : buyer.run.results[i].path \in Allowed
  /\ buyer.run.state = "none" => floor.spent + buyer.fromBench = buyer.paid

\* One run of the buyer stays under the cap.  The code does not have this: the
\* sum is held against the price the press advertised, each payment against the
\* cap alone.
RunStaysUnderTheCap == buyer.run.state \in {"paying", "done"} => buyer.run.spent <= Cap

\* What the console shows is of the path it names.  The code does not have this:
\* choosing a path clears the answer of the old one but not the request for it.
ShownUnderItsPath == bench.result # Null => bench.result.path = bench.path
=============================================================================
