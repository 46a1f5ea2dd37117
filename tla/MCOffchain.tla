----------------------------- MODULE MCOffchain -----------------------------
(***************************************************************************)
(* Small instances of the parts of the system that run off the chain: the  *)
(* agents' tools (mcp/, agent/), the subgraph's mappings, the Float host,  *)
(* the human gate, and the terminal's servers and pages; the arithmetic of *)
(* the futures venue is here too.  They share no state, so one run checks  *)
(* them all: a behaviour is a behaviour of one of them, the one `focus`    *)
(* names, whose variables are the first slots; the other slots hold Null.  *)
(* Answers that are functions of what was read ("papers") are checked on a *)
(* world of reads, picked in one step.                                     *)
(***************************************************************************)
EXTENDS Integers, FiniteSets, Sequences, TLC

CONSTANTS Null, Unread

VARIABLES focus, s1, s2, s3, s4, s5, s6, s7, s8, s9, s10, s11, s12

slots == <<s1, s2, s3, s4, s5, s6, s7, s8, s9, s10, s11, s12>>
vars == <<focus, slots>>

\* The slots from the n-th on are empty: now, and after the step.
Off11 == s11 = Null /\ s12 = Null
Off10 == s10 = Null /\ Off11
Off9 == s9 = Null /\ Off10
Off8 == s8 = Null /\ Off9
Off7 == s7 = Null /\ Off8
Off6 == s6 = Null /\ Off7
Off5 == s5 = Null /\ Off6
Off4 == s4 = Null /\ Off5
Off2 == s2 = Null /\ s3 = Null /\ Off4
Off1 == s1 = Null /\ Off2
Stay11 == s11' = Null /\ s12' = Null
Stay10 == s10' = Null /\ Stay11
Stay9 == s9' = Null /\ Stay10
Stay8 == s8' = Null /\ Stay9
Stay7 == s7' = Null /\ Stay8
Stay6 == s6' = Null /\ Stay7
Stay5 == s5' = Null /\ Stay6
Stay4 == s4' = Null /\ Stay5
Stay2 == s2' = Null /\ s3' = Null /\ Stay4

-----------------------------------------------------------------------------
(* The components, each with its constants and its slots.                  *)

\* Fills of half, whole and two and a quarter contracts; three participants.
Maths == INSTANCE FuturesMathCheck WITH
    Wad <- 4, WadUsdc <- 1, MarginBps <- 1, Bps <- 10,
    Participants <- {"p1", "p2", "p3"}, Sizes <- {-6, -4, -3, 2, 4, 9}, Prices <- {1, 5, 12, 30},
    Entitlements <- (-5)..7, MaxSteps <- 4,
    pos <- s1, cash <- s2, steps <- s3, ent <- s4

\* Two calls at once, an override that may name the other chain.
Mcp == INSTANCE McpAgent WITH
    Profiles <- {"A", "B"}, Units <- {"u"}, WarnAge <- 2, MaxAge <- 4, AnchorAge <- 4,
    HumanWindow <- 2, DefaultDays <- 4, UnitSanity <- 3,
    Calls <- {"c1", "c2"}, Chains <- {"A", "B"}, Overrides <- {Null, "A"}, Prices <- {1, 2},
    Cap <- 2, Funds <- 4, Keyed <- TRUE, MaxCalls <- 3, MaxChanges <- 1,
    press <- s1, override <- s2, card <- s3, ledger <- s4, gateway <- s5,
    settled <- s6, lost <- s7, call <- s8, made <- s9, changes <- s10

\* An empty catalog, a cheap one and one with an unattested seller.
Listing(seller, price, attested) == [seller |-> seller, price |-> price, attested |-> attested]
Agent == INSTANCE BuyingAgent WITH
    Listings <- {<<>>, <<Listing("x", 1, TRUE), Listing("y", 3, TRUE)>>,
                 <<Listing("x", 2, TRUE), Listing("y", 1, FALSE), Listing("z", 3, TRUE)>>},
    Configs <- [discover : BOOLEAN, requireAttested : BOOLEAN, reroute : BOOLEAN,
                minBp : {2}, limit : {0, 3, 5}, count : {1, 4}],
    Signals <- {Null} \union [from : {"x", "y"}, to : {"y", "z"}, bp : {1, 2}],
    Nobody <- Null, Deposits <- {1, 2},
    cfg <- s1, catalog <- s2, agent <- s3, moved <- s4, gateway <- s5

\* A payer without and one with a human's certificate; the ring holds one print.
Graph == INSTANCE Subgraph WITH
    Payers <- {"p1", "p2"}, Paid <- [p \in {"p1", "p2"} |-> IF p = "p1" THEN 4 ELSE 6],
    Settlements <- {1, 2}, Clusters <- {"c1"}, Values <- {2, 4}, Quantities <- {1, 2},
    RingDepth <- 1, Window <- 2, StaleArrival <- 1, MirrorLag <- 1, EndOfTime <- 2, MaxPrints <- 2,
    now <- s1, chain <- s2, tape <- s3, books <- s4, venue <- s5

\* One agent named in the policy file and one that is not; prices of two digits.
Host == INSTANCE FloatHost WITH
    Places <- 2, Scale <- 3, Agents <- {"s", "w"},
    File <- [a \in {"s"} |-> [cap |-> 5, frozen |-> TRUE, seller |-> TRUE]],
    Premium <- 100, Prints <- {1, 2},
    Quotes <- <<[agent |-> "s", bps |-> 10050], [agent |-> "w", bps |-> 30000]>>,
    BufferHours <- 1, Treasury <- 3, DeployCap <- 4, MinTicket <- 1, MinSweep <- 1,
    MaxTicks <- 2, MaxPrints <- 2, MaxRuns <- 1,
    store <- s1, vault <- s2, money <- s3, receipts <- s4, tape <- s5, told <- s6,
    keeper <- s7, command <- s8, sweep <- s9, suite <- s10

\* One payment that may be parked twice, and a restart before the second time.
Gate == INSTANCE HumanGate WITH
    Requests <- {"r"}, MaxCheckpoints <- 2, MaxRestarts <- 1, Nobody <- Null,
    chain <- s1, gate <- s2, opening <- s3, answer <- s4, redeemed <- s5, worker <- s6,
    sent <- s7, log <- s8, restarts <- s9

\* Two tabs; an environment that names a host for one chain only.
Reads == INSTANCE TerminalReads WITH
    Tabs <- {"t1", "t2"},
    Configured <- [c \in {"mainnet", "testnet"} |-> IF c = "mainnet" THEN "a" ELSE Null],
    Presses <- [c \in {"mainnet", "testnet"} |-> IF c = "mainnet" THEN <<"b">> ELSE <<"c">>],
    Health <- [h \in {"a", "b", "c"} |-> IF h = "a" THEN "mainnet" ELSE "testnet"],
    MaxAsks <- 3, MaxTurns <- 2,
    cookie <- s1, tabs <- s2, asked <- s3, rigs <- s4, shared <- s5, asks <- s6, turns <- s7

Tab == INSTANCE TerminalTab WITH
    StaleWindow <- 1, WakeWindow <- 2, WakeEta <- 1, LastGoodMaxAge <- 1,
    PerKey <- 2, Everyone <- 3, Window <- 2, Indices <- {"i1", "i2"}, MaxRetries <- 1,
    Callers <- {"c1", "c2"}, EndOfTime <- 4, MaxCalls <- 4,
    now <- s1, env <- s2, lastLive <- s3, wakeStarted <- s4, wakePinged <- s5, onchain <- s6,
    retries <- s7, stopped <- s8, hits <- s9, kept <- s10, served <- s11, pings <- s12

Console == INSTANCE TerminalConsole WITH
    Actions <- {"venue/settle", "venue/withdraw"}, Values <- {Null, "v1"},
    MaxSends <- 3, MaxEdits <- 4, desk <- s1, row <- s2, book <- s3

Market == INSTANCE TerminalMarket WITH
    Paths <- {"prints", "curve"}, Advertised <- {0, 1, 2}, Challenges <- {1, 3, 5},
    Cap <- 4, Fallback <- 1, MaxAsks <- 3,
    bench <- s1, asked <- s2, floor <- s3, buyer <- s4, purse <- s5, asks <- s6

Desk == INSTANCE TradingDesk WITH
    Indices <- {"gpu", "inf"}, StakeSize <- 2, MinTrade <- 1, MinWithdraw <- 1, Tries <- 2,
    MaxSteps <- 6, MaxOrders <- 2,
    desk <- s1, job <- s2, signed <- s3, venue <- s4, purse <- s5, tape <- s6, steps <- s7,
    memo <- s8

Treasury == INSTANCE TreasuryReads WITH
    Page <- 1, MaxPages <- 3, FloorBlock <- 1, MaxRows <- 2, MemoFor <- 3, PartialMemoFor <- 1,
    SaidMax <- 2, MaxMoves <- 2, EndOfTime <- 6,
    now <- s1, sleeve <- s2, reading <- s3, told <- s4

Tape == INSTANCE TapePages WITH RecentKept <- 1

Futures == INSTANCE FuturesReads WITH
    Indices <- {"i1", "i2"}, House <- {"h"}, Strangers <- {"x"}, MaxSeries <- 2,
    Spans <- <<3, 1>>, TapePages <- 2, TapeLimit <- 2, MemoFor <- 2, PartialMemoFor <- 1,
    MaxMoves <- 4, EndOfTime <- 1,
    now <- s1, venue <- s2, crawl <- s3, memo <- s4, lastGood <- s5, told <- s6

Spend == INSTANCE SpendPage WITH
    Registry <- [a |-> "mainnet", b |-> "testnet"], Strays <- {"x"}, Chain <- "mainnet",
    MaxAnswers <- 4,
    card <- s1, list <- s2, reads <- s3, chosen <- s4, answers <- s5

Pages == INSTANCE FloatPages WITH
    UnitPrice <- 1, Threshold <- 3, Band <- 20, UnitsFair <- 4, Quotes <- {1, 3},
    UnitsAsked <- {0, 4}, Payments <- {"tx1", "tx2"}, Jit <- {"tx1"},
    Wallets <- {"w1", "w2"}, MaxSteps <- 3,
    panel <- s1, scene <- s2, join <- s3, press <- s4, steps <- s5

-----------------------------------------------------------------------------
(* The worlds of the papers: what one answer was made of.                  *)

\* can_i_pay and pay_and_read: a press, a key and two balances.
Ladders == [of : {"ladder"},
            health : [status : {0, 200}, chain : {Null, "A", "x"}], whoami : {200, 403},
            info : [status : {200, 404}, gated : BOOLEAN, price : {Null, 2}],
            probe : [status : {0, 200, 402}, price : {Null, 2}], key : {"hex64", "bad"},
            balances : [wallet : {Null, 0, 5}, gateway : {Null, 1, 2}]]

\* Two bills of the local log, in and out of the window.
Bill == [at : {1, 5}, vendor : {"v1", "v2"}, billed : {1, 2}, over : {Null, -1, 3},
         verdict : {"over_par"}, saving : {Null, 1}, basket : {"ok", "STALE"}]
Logs == [of : {"log"}, rows : {<<a, b>> : a \in Bill, b \in Bill}]

\* One run of the verification suite: two checks may meet a failing node.
Node(t, u, a, b) == [c \in {"T0", "T1", "T12", "T10", "T13", "T14", "T15"} |->
                        IF c = t THEN a ELSE IF c = u THEN b ELSE "up"]
Suites == [of : {"suite"}, net : {"anvil", "arc-testnet"}, cli : BOOLEAN, registrarKey : BOOLEAN,
           perms : {"all", "not_exposed"}, tvl : {2}, held : {1}, now : {3}, maxAge : {2},
           prints : {{[id |-> 1, at |-> 2, sane |-> TRUE]}, {[id |-> 1, at |-> 0, sane |-> TRUE]}},
           template : {TRUE}, registers : {TRUE}, overRefused : {TRUE}, oneArgument : {TRUE},
           refusal : {"not registrar"}, maxesZero : BOOLEAN, sleeveNow : {4}, sleeveRead : {4, 20},
           shareDecimals : BOOLEAN, virtualShares : {"right", "lost"}, deposit : {"accepted"},
           entitled : {"yes", "silent"}, standInWired : {FALSE},
           node : {Node(t, u, a, b) : t \in {"T0", "T1", "T12"}, u \in {"T13", "T14", "T15"},
                                      a \in {"up", "throttled", "down"}, b \in {"up", "throttled", "down"}}]

\* A read of the vault, field by field: answered, throttled, or refused.
Outcome == {"ok", "busy", "no"}
Vaults == [of : {"vault"},
           r : [paused : {"ok", "busy"}, policy : {"ok", "no"}, total : Outcome, receipts : {"ok"},
                guestCap : {"ok"}, buffer : Outcome, working : Outcome, workingValue : Outcome],
           v : [paused : {FALSE}, policy : {1}, total : {2}, receipts : {3}, guestCap : {4},
                buffer : {5}, workingWorth : {7}, workingZero : BOOLEAN,
                agents : {[scout |-> [standing |-> "ok", left |-> "ok", frozen |-> FALSE, remaining |-> 1]]}]]

\* The logs of one payment, pulled from a sleeve or not.
Log(i, addr, name, to, value, jit) ==
    [idx |-> i, addr |-> addr, name |-> name, to |-> to, value |-> value, jit |-> jit]
Paid(jit) == {Log(1, "usdc", "Transfer", "vault", 1, FALSE), Log(6, "usdc", "Transfer", "seller", 2, FALSE),
              Log(7, "vault", "Receipt", "seller", 2, jit)}
Pulled == {Log(2, "venue", "Transfer", "zero", 1, FALSE), Log(3, "venue", "Withdraw", "sleeve", 1, FALSE),
           Log(4, "sleeve", "Pulled", "vault", 1, FALSE)}
Txs == [of : {"tx"}, logs : {Paid(FALSE), Paid(TRUE), Paid(TRUE) \union Pulled},
        reads : [token : BOOLEAN, sleeve : BOOLEAN, venue : BOOLEAN, print : BOOLEAN]]

\* Three rows of the tape, and what the route read for one payer.
Row(sellers, payers, amounts, slips, times) ==
    [seller : sellers, payer : payers, amount : amounts, slip : slips, benchmarked : BOOLEAN,
     synthetic : {FALSE}, human : {FALSE}, at : times, index : {"ACR-INF"}]
Priced == {r \in Row({"s1", "s2", Null}, {"p1"}, {1, 2}, {Null, -1, 3}, {1}) : r.benchmarked => r.slip # Null}
Tapes == [of : {"rows"}, rows : {<<a, b, c>> : a \in Priced, b \in Priced, c \in Priced}]
Plain == {r \in Row({"s1", Null}, {"p1", "p2"}, {1}, {Null}, {1, 2}) : ~r.benchmarked}
Routes == [of : {"route"}, asked : [ok : BOOLEAN, payer : {Null, "p1", "p3"}],
           read : [settlements : {Null} \union {<<a, b>> : a \in Plain, b \in Plain},
                   tca : {Null} \union [available : BOOLEAN, seen : {"yes", "no", "unsaid"},
                                        purchases : {0, 1}, reroute : {Null}],
                   meta : {Null, "m"}, fills : {Null, <<>>}, sellers : {Null}, rated : {{}}]]

\* The treasury's panels over a read with gaps.
Sleeves == {Unread, Null, 0, 2}
Panels == [of : {"panels"}, draw : 0..5, gates : [{"in", "out"} -> {TRUE, FALSE, Null}],
           v : [buffer : {Unread, 0, 2}, working : Sleeves, reserve : Sleeves, partial : BOOLEAN]]

PickWorld == s1 = Null /\ \/ s1' \in Ladders \/ s1' \in Logs \/ s1' \in Suites
                          \/ s1' \in Vaults \/ s1' \in Txs \/ s1' \in Tapes
                          \/ s1' \in Routes \/ s1' \in Panels

-----------------------------------------------------------------------------
(* Some components have parts that hardly touch; each is an instance of    *)
(* its own, so that the histories of one do not multiply those of another. *)

GraphArrivals ==
    \/ \E e \in 1..2 : Graph!PostPrint(1, e, 2) \/ Graph!PostPrint(1, e, 4) \/ Graph!PostPrint(2, e, 4)
    \/ \E v \in {1, 2} : Graph!HandleTraded(v)
    \/ \E t \in 0..2, late \in BOOLEAN : t <= s1 /\ Graph!OpenSettlement(1, "p1", t, late)
    \/ Graph!FinalizeSettlement(1, 1)
    \/ Graph!Tick

GraphRatings ==
    \/ s1 = 0 /\ Graph!PostPrint(1, 1, 2)
    \/ \E p \in {"p1", "p2"}, k \in {"real", "sandbox"} : Graph!ResolveHuman(p, "c1", k)
    \/ \E w \in {0, 1}, c \in {"c1", Null} : Graph!Rebind("p1", w, c)
    \/ Graph!OpenSettlement(1, "p1", s1, FALSE)
    \/ \E p \in {"p1", "p2"} : Graph!OpenSettlement(2, p, s1, FALSE)
    \/ \E id \in {1, 2} : Graph!FinalizeSettlement(id, 2)
    \/ Graph!Tick

HostPays ==
    \/ Host!Command \/ Host!Suite
    \/ s7.prints = 0 /\ Host!KeeperPrints(1)
    \/ Host!QuoteFor(1) \/ Host!Ask(1) \/ Host!Fund(1)
    \/ Host!Send(1) \/ Host!Mine(1) \/ Host!Hear(1) \/ Host!TickFails(1)

GateNext == Gate!Next /\ (s1[2].status = "none" \/ UNCHANGED s9)

TabConnection ==
    \/ \E live \in BOOLEAN : Tab!Terminal(live)
    \/ \E first, second \in SUBSET {"i1", "i2"} : Tab!ReadOnchain(first, second)
    \/ Tab!Tick

TabServer == (\E c \in {"c1", "c2"} : Tab!CallScreen(c)) \/ Tab!PressAnswers \/ Tab!PressFails \/ Tab!Tick

TabPage ==
    \/ \E f \in {<<401, Null>>, <<503, "absent">>, <<503, "timeout">>} : Tab!PageFails(f[1], f[2])
    \/ Tab!PageAnswers
    \/ Tab!Tick

\* One screen at a time.
ConsoleDesk == s2.sends = 0 /\ s2.edits = 0 /\ Console!DeskNext
ConsoleRow == s1.edits = 0 /\ Console!RowNext

FuturesRounds ==
    \/ \E i \in {"i1", "i2"} : Futures!OpenSeries(i)
    \/ \E k \in 1..2 : Futures!SettleSeries(k)
    \/ \E missed \in {{}, {0}, {1}} : Futures!AskChain(TRUE, TRUE, missed)
    \/ \E failed, again \in {{}, {"i1"}, {"i1", "i2"}} : Futures!CrawlDesks(failed, again)
    \/ Futures!CrawlTape(Null)

FuturesBook ==
    \/ s2.series = <<>> /\ Futures!OpenSeries("i1")
    \/ \E t \in {"h", "x"}, q \in {-1, 1} : Futures!Trade(1, t, q)
    \/ Futures!AskChain(TRUE, TRUE, {}) \/ Futures!AskChain(FALSE, TRUE, {})
    \/ Futures!AskPress \/ Futures!CrawlDesks({}, {})
    \/ \E r \in Futures!Rungs : Futures!CrawlTape(r)
    \/ Futures!Tick

-----------------------------------------------------------------------------

Init ==
    \/ focus = "maths" /\ Maths!Init /\ Off5
    \/ focus = "mcp" /\ Mcp!Init /\ Off11
    \/ focus = "agent" /\ Agent!Init /\ Off6
    \/ focus \in {"arrivals", "ratings"} /\ Graph!Init /\ Off6
    \/ focus \in {"keepers", "commands"} /\ Host!Init /\ Off11
    \/ focus = "gate" /\ Gate!Init /\ Off10
    \/ focus = "reads" /\ Reads!Init /\ Off8
    \/ focus \in {"connection", "server", "page"} /\ Tab!Init
    \/ focus \in {"desk form", "row form"} /\ Console!Init /\ Off4
    \/ focus \in {"floor", "bench"} /\ Market!Init /\ Off7
    \/ focus = "trading" /\ Desk!Init /\ Off9
    \/ focus = "treasury" /\ Treasury!Init /\ Off5
    \/ focus \in {"rounds", "book"} /\ Futures!Init /\ Off7
    \/ focus = "spend" /\ Spend!Init /\ Off6
    \/ focus \in {"ladder", "scene", "join"} /\ Pages!Init /\ Off6
    \/ focus = "papers" /\ Off1

\* One step of one component; `focus` and the slots beyond its own stay.
MathsStep == focus = "maths" /\ Maths!Next /\ Stay5 /\ UNCHANGED focus
McpStep == focus = "mcp" /\ Mcp!Next /\ Stay11 /\ UNCHANGED focus
AgentStep == focus = "agent" /\ Agent!Next /\ Stay6 /\ UNCHANGED focus
ArrivalsStep == focus = "arrivals" /\ GraphArrivals /\ Stay6 /\ UNCHANGED focus
RatingsStep == focus = "ratings" /\ GraphRatings /\ Stay6 /\ UNCHANGED focus
KeepersStep ==
    focus = "keepers" /\ (Host!Tape \/ Host!Keeper \/ Host!Sweep) /\ Stay11 /\ UNCHANGED focus
CommandsStep == focus = "commands" /\ HostPays /\ Stay11 /\ UNCHANGED focus
GateStep == focus = "gate" /\ GateNext /\ Stay10 /\ UNCHANGED focus
ReadsStep == focus = "reads" /\ Reads!Next /\ Stay8 /\ UNCHANGED focus
ConnectionStep == focus = "connection" /\ TabConnection /\ UNCHANGED focus
ServerStep == focus = "server" /\ TabServer /\ UNCHANGED focus
PageStep == focus = "page" /\ TabPage /\ UNCHANGED focus
DeskFormStep == focus = "desk form" /\ ConsoleDesk /\ Stay4 /\ UNCHANGED focus
RowFormStep == focus = "row form" /\ ConsoleRow /\ Stay4 /\ UNCHANGED focus
FloorStep == focus = "floor" /\ Market!FloorNext /\ Stay7 /\ UNCHANGED focus
BenchStep == focus = "bench" /\ (Market!BenchNext \/ Market!PurseNext) /\ Stay7 /\ UNCHANGED focus
TradingStep == focus = "trading" /\ Desk!Next /\ Stay9 /\ UNCHANGED focus
TreasuryStep == focus = "treasury" /\ Treasury!Next /\ Stay5 /\ UNCHANGED focus
RoundsStep == focus = "rounds" /\ FuturesRounds /\ Stay7 /\ UNCHANGED focus
BookStep == focus = "book" /\ FuturesBook /\ Stay7 /\ UNCHANGED focus
SpendStep == focus = "spend" /\ Spend!Next /\ Stay6 /\ UNCHANGED focus
LadderStep == focus = "ladder" /\ Pages!LadderNext /\ Stay6 /\ UNCHANGED focus
SceneStep == focus = "scene" /\ Pages!SceneNext /\ Stay6 /\ UNCHANGED focus
JoinStep == focus = "join" /\ Pages!JoinNext /\ Stay6 /\ UNCHANGED focus
PapersStep == focus = "papers" /\ PickWorld /\ Stay2 /\ UNCHANGED focus

Next ==
    \/ MathsStep \/ McpStep \/ AgentStep \/ ArrivalsStep \/ RatingsStep \/ KeepersStep
    \/ CommandsStep \/ GateStep \/ ReadsStep \/ ConnectionStep \/ ServerStep \/ PageStep
    \/ DeskFormStep \/ RowFormStep \/ FloorStep \/ BenchStep \/ TradingStep \/ TreasuryStep
    \/ RoundsStep \/ BookStep \/ SpendStep \/ LadderStep \/ SceneStep \/ JoinStep
    \/ PapersStep

Spec == Init /\ [][Next]_vars

-----------------------------------------------------------------------------
(* What has to hold of the components; the parts are defined beside each.  *)

\* In the futures venue's arithmetic a position carries the cash its fills
\* cost, and a clearing shares out the pot and no more (FuturesMath).
ArithmeticSharesThePot == focus = "maths" => Maths!PnlIsCashFlow /\ Maths!ClearingSharesThePot


\* The subgraph records for each settlement the print its payer could have
\* seen, and its running totals are those of the settlements it indexed.
GraphTellsTheChain ==
    focus \in {"arrivals", "ratings"} => Graph!ArrivalIsWhatThePayerSaw /\ Graph!RatingsAddUp

\* The Float host reports a payment only when the vault wrote its receipt, and
\* leaves one unreported only where a wait that failed ended the tick; the
\* agents' limits on the chain are the operator's file again when no
\* command is under way; the money the keepers move goes round and is not
\* lost (float/src/bin).  The human gate releases a payment on its treasurer's
\* word only, and its ledger tells what the chain did (index_api/floatgate.py).
HostTellsTheChain ==
    /\ focus = "gate" => Gate!PaidOnATreasurersWord /\ Gate!LedgerTellsTheChain
    /\ focus \in {"keepers", "commands"} => Host!ReportIsTheReceipt /\ Host!LimitsAreTheOperators /\ Host!CircuitIsClosed

\* A tab shows answers of the chain it says it shows, from a press that named
\* that chain, and never an answer another tab shared that was not live.
TabsShowTheirChain ==
    focus = "reads" => Reads!TabsShowTheirChain /\ Reads!SharedAnswersAreLive /\ Reads!LadderStandsOnAnAnswer

\* A tab tells an outage for what it is, holds the screen to its quota and
\* serves no kept answer past its age.
OutageIsTold ==
    focus \in {"connection", "server", "page"} => Tab!OutageIsTold /\ Tab!ScreenHolds /\ Tab!KeptIsYoung

\* A screen confirms what happened: a preview is run once, an approval was
\* previewed for its own key, an order's receipt is a fill that was not there
\* before, a join's budget is the one issued for the wallet that asked.
ScreensConfirmWhatHappened ==
    /\ focus \in {"desk form", "row form"} => Console!OnePreviewOneRun /\ Console!ApprovedWasPreviewed
    /\ focus = "trading" => Desk!ReceiptIsNewOnceRead
    /\ focus \in {"ladder", "scene", "join"} => Pages!JoinKeepsItsWallet

\* Histories rebuilt from logs are the chain's: the sleeve's gain errs by no
\* more than its race, the book undone fill by fill is the venue's, no dead
\* market is shown as the live one.
HistoriesAddUp ==
    /\ focus = "treasury" => Treasury!GainErrsByItsRace
    /\ focus \in {"rounds", "book"} => Futures!NoDeadMarketAsLive /\ Futures!BookUndoesToThePast

\* Every answer is its reads: what was not read is absent and not zero, what
\* was read adds up, and two answers over the same reads agree.
PapersSayWhatWasRead ==
    focus = "papers" /\ s1 # Null =>
        CASE s1.of = "ladder" -> Mcp!PreflightAgrees(s1)
          [] s1.of = "log"    -> Mcp!ReportAddsUp(s1.rows, 3, 5)
          [] s1.of = "suite"  -> Host!UnansweredIsNotPassed(s1)
          [] s1.of = "vault"  -> Treasury!UnreadIsAbsent(s1.r, s1.v)
          [] s1.of = "tx"     -> Treasury!WalkTellsTheOrder(s1)
          [] s1.of = "rows"   -> Tape!FallbackAddsUp(s1.rows)
          [] s1.of = "route"  -> Tape!NoCleanBillForAStranger(s1.asked, s1.read)
          [] s1.of = "panels" -> Pages!PanelsTellWhatWasRead(s1.v, s1.draw, s1.gates)

\* The spend page tells each absence in its own words.
AbsencesHaveTheirWords == focus = "spend" => Spend!AbsencesHaveTheirWords

\* Once a payment's logs were walked, the scene falls back to the script only
\* over the newest payment's own "pending" answer, never because the tape moved.
NoScriptAfterAWalk == [][focus = "scene" => Pages!StaysOffTheScript]_vars
=============================================================================
