----------------------------- MODULE FuturesReads -----------------------------
(***************************************************************************)
(* The futures desk as the terminal reads it: lib/futuresOnchain.ts (the   *)
(* direct crawl of the venue, taken call by call while the venue trades    *)
(* on), lib/futuresCodec.ts, lib/futuresBook.ts, app/api/futures/route.ts  *)
(* and what the three futures components show.                             *)
(*                                                                         *)
(* The venue is what ACRFutures.tla models, seen from outside: its series  *)
(* in order of id and the taker's fills, one block each.                   *)
(***************************************************************************)
EXTENDS Integers, Sequences, FiniteSets, FiniteSetsExt, SequencesExt

CONSTANTS Null, Indices, House, Strangers,
          MaxSeries,            \* MAX_SERIES: series a crawl enumerates
          Spans,                \* LOG_SPANS: blocks a page asks for, widest first
          TapePages, TapeLimit, MemoFor, PartialMemoFor,
          MaxMoves, EndOfTime   \* bounds of the instance

VARIABLES now,      \* clock
          venue,    \* [series, fills, block]
          crawl,    \* the crawl in progress
          memo,     \* the last roster read from the chain
          lastGood, \* the press's last answer
          told      \* what the route last answered

vars == <<now, venue, crawl, memo, lastGood, told>>

----------------------------------------------------------------------------
(* lib/futuresCodec.ts                                                     *)

\* The series an index publishes: its newest live one, else its newest.
SelectSeriesForIndex(series, i) ==
    LET matching == {s \in series : s.index = i}
        live == {s \in matching : ~s.settled}
        pool == IF live # {} THEN live ELSE matching
    IN IF matching = {} THEN Null ELSE CHOOSE s \in pool : \A t \in pool : t.id <= s.id

\* The maker mirrors every fill, so its inventory is what the takers are short.
BuildDeskRow(s, fills) ==
    LET mine == SelectSeq(fills, LAMBDA f : f.series = s.id)
        inventory == -FoldLeft(LAMBDA sum, f : sum + f.qty, 0, mine)
    IN [series |-> s.id, index |-> s.index, settled |-> s.settled, inventory |-> inventory,
        openInterest |-> IF inventory < 0 THEN -inventory ELSE inventory,
        traderCount |-> 1 + Cardinality({mine[k].taker : k \in DOMAIN mine})]

DecodeTraded(f) == [series |-> f.series, taker |-> f.taker, qty |-> f.qty, block |-> f.block, tx |-> f.block,
                    side |-> IF f.qty > 0 THEN "buy" ELSE "sell"]

----------------------------------------------------------------------------
(* lib/futuresOnchain.ts                                                   *)

\* The pages of one log walk.  `rungs[p]` is the span page p succeeded with,
\* 0 when the endpoint throttled it: range errors narrow, a throttle ends.
PageStart(end, rung) == IF end > Spans[rung] THEN end - Spans[rung] ELSE 0
Walk(fills, latest, rungs, limit) ==
    FoldLeft(LAMBDA st, p :
        IF st.done \/ st.end <= 0 THEN st
        ELSE IF rungs[p] = 0 THEN [st EXCEPT !.done = TRUE]
        ELSE LET start == PageStart(st.end, rungs[p])
                 got == SelectSeq(fills, LAMBDA f : f.block >= start /\ f.block <= st.end) \o st.got
             IN [got |-> got, end |-> start - 1, done |-> Len(got) >= limit \/ start <= 0, pages |-> p],
        [got |-> <<>>, end |-> latest, done |-> FALSE, pages |-> 0], [p \in 1..TapePages |-> p])
NewestFirst(fills, limit) ==
    LET last == SubSeq(fills, Max({1, Len(fills) - limit + 1}), Len(fills))
    IN [k \in DOMAIN last |-> DecodeTraded(last[Len(last) - k + 1])]

\* A tape that could not be read leaves the crawl with no fills.
ReadTape(v, rungs) == NewestFirst(Walk(v.fills, v.block, rungs, TapeLimit).got, TapeLimit)

\* One trader's fills in one series: a first page that fails is unread.
ReadTraderFills(v, series, taker, rungs, limit) ==
    LET mine == SelectSeq(v.fills, LAMBDA f : f.series = series /\ f.taker = taker)
        walk == Walk(mine, v.block, rungs, limit)
    IN IF v.block > 0 /\ walk.pages = 0 THEN [ok |-> FALSE, value |-> Null] ELSE [ok |-> TRUE, value |-> NewestFirst(walk.got, limit)]

\* The multiplier comes from the memo's desks or the chain; never 1 by default.
SeriesMultiplier(m, series, read) ==
    IF m # Null /\ series \in {m.roster.desks[i].series : i \in DOMAIN m.roster.desks} THEN [ok |-> TRUE, value |-> series]
    ELSE IF read = "no" THEN [ok |-> FALSE, value |-> Null] ELSE [ok |-> TRUE, value |-> series]
ReadTraderPosition(m, configured, series, read, position) ==
    IF ~configured THEN [ok |-> TRUE, value |-> Null]
    ELSE IF ~SeriesMultiplier(m, series, read.multiplier).ok \/ read.position = "no" THEN [ok |-> FALSE, value |-> Null]
    ELSE [ok |-> TRUE, value |-> position]

DeskCandidate(i) ==
    LET s == SelectSeriesForIndex(crawl.seen, i)
    IN IF s = Null THEN Null ELSE IF s.settled /\ crawl.partial THEN Null ELSE s
Wanted == {i \in Indices : DeskCandidate(i) # Null}

NoCrawl == [at |-> "none", seen |-> {}, partial |-> FALSE, desks |-> <<>>, began |-> Null, when |-> Null]
Fresh(m) == m # Null /\ now - m.at < (IF m.partial THEN PartialMemoFor ELSE MemoFor)

----------------------------------------------------------------------------
Init ==
    /\ now = 0 /\ crawl = NoCrawl /\ memo = Null /\ lastGood = Null /\ told = Null
    /\ venue = [series |-> <<>>, fills |-> <<>>, block |-> 0]

(* The venue, from outside: what ACRFutures lets happen.                   *)

Moves(v) == Len(v.series) + Len(v.fills) + Cardinality({k \in DOMAIN v.series : v.series[k].settled})
CanMove == Moves(venue) < MaxMoves

OpenSeries(i) ==
    /\ CanMove
    /\ venue' = [venue EXCEPT !.block = @ + 1, !.series = Append(@, [id |-> Len(@), index |-> i, settled |-> FALSE])]
    /\ UNCHANGED <<now, crawl, memo, lastGood, told>>
SettleSeries(k) ==
    /\ CanMove /\ k \in DOMAIN venue.series /\ ~venue.series[k].settled
    /\ venue' = [venue EXCEPT !.block = @ + 1, !.series[k].settled = TRUE]
    /\ UNCHANGED <<now, crawl, memo, lastGood, told>>
Trade(k, taker, qty) ==
    /\ CanMove /\ k \in DOMAIN venue.series /\ ~venue.series[k].settled
    /\ venue' = [venue EXCEPT !.block = @ + 1,
                              !.fills = Append(@, [series |-> k - 1, taker |-> taker, qty |-> qty, block |-> venue.block + 1])]
    /\ UNCHANGED <<now, crawl, memo, lastGood, told>>
Tick == now < EndOfTime /\ now' = now + 1 /\ UNCHANGED <<venue, crawl, memo, lastGood, told>>

----------------------------------------------------------------------------
(* app/api/futures/route.ts                                                *)

PressRoster == [desks |-> <<>>, trades |-> <<>>, settled |-> {}, source |-> "press"]
Answer(tier, live, roster, at) == [tier |-> tier, live |-> live, roster |-> roster, at |-> at]

\* The press answers: its roster is kept as the last good one.
AskPress ==
    /\ crawl.at = "none"
    /\ lastGood' = [at |-> now, roster |-> PressRoster]
    /\ told' = Answer("press", TRUE, PressRoster, now)
    /\ UNCHANGED <<now, venue, crawl, memo>>

\* The floors below the chain: what the press last said, else the archive.
FallBack ==
    IF lastGood # Null THEN Answer("press", FALSE, lastGood.roster, lastGood.at)
    ELSE Answer("bundle", FALSE, [desks |-> <<>>, trades |-> <<>>, settled |-> {}, source |-> "bundle"], now)

\* The press is away.  `configured` says the chain may be read and has a
\* venue; `counted` that seriesCount answered; `missed` are the ids whose read failed.
AskChain(configured, counted, missed) ==
    /\ crawl.at = "none"
    /\ LET listed == {venue.series[k] : k \in {k \in DOMAIN venue.series : k <= MaxSeries}}
       IN IF configured /\ Fresh(memo)
          THEN told' = Answer("chain", TRUE, memo.roster, memo.at) /\ UNCHANGED crawl
          ELSE IF ~configured \/ ~counted
          THEN told' = FallBack /\ UNCHANGED crawl
          ELSE /\ crawl' = [NoCrawl EXCEPT !.at = "desks", !.seen = {s \in listed : s.id \notin missed},
                                           !.partial = \E s \in listed : s.id \in missed, !.began = venue]
               /\ UNCHANGED told
    /\ UNCHANGED <<now, venue, memo, lastGood>>

\* The desks, then one retry of the missed ones unless every index missed.
CrawlDesks(failed, again) ==
    /\ crawl.at = "desks" /\ failed \subseteq Wanted /\ again \subseteq failed
    /\ LET missed == {i \in Indices : i \in failed}
           left == IF missed = Indices \/ missed = {} THEN missed ELSE again
           read == Wanted \ left
       IN IF read = {}
          THEN crawl' = NoCrawl /\ told' = FallBack
          ELSE /\ crawl' = [crawl EXCEPT !.at = "tape", !.partial = @ \/ left # {}, !.when = venue,
                                         !.desks = [i \in read |-> BuildDeskRow(DeskCandidate(i), venue.fills)]]
               /\ UNCHANGED told
    /\ UNCHANGED <<now, venue, memo, lastGood>>

\* The tape closes the crawl; a tape that throws leaves no fills.
CrawlTape(rungs) ==
    /\ crawl.at = "tape"
    /\ LET roster == [desks |-> crawl.desks, source |-> "chain", settled |-> {s \in crawl.seen : s.settled},
                      trades |-> IF rungs = Null THEN <<>> ELSE ReadTape(venue, rungs)]
       IN /\ memo' = [at |-> now, partial |-> crawl.partial, roster |-> roster, began |-> crawl.began, desksAt |-> crawl.when, tapeAt |-> venue]
          /\ told' = Answer("chain", TRUE, roster, now)
    /\ crawl' = NoCrawl
    /\ UNCHANGED <<now, venue, lastGood>>

Rungs == [1..TapePages -> 0..Len(Spans)]
Next == \/ \E i \in Indices : OpenSeries(i)
        \/ \E k \in 1..MaxMoves : SettleSeries(k)
        \/ \E k \in 1..MaxMoves, taker \in House \union Strangers, qty \in {-1, 1} : Trade(k, taker, qty)
        \/ Tick \/ AskPress
        \/ \E configured, counted \in BOOLEAN, missed \in SUBSET (0..MaxMoves) :
              (missed = {} \/ (configured /\ counted)) /\ AskChain(configured, counted, missed)
        \/ \E failed, again \in SUBSET Indices : CrawlDesks(failed, again)
        \/ \E rungs \in Rungs \union {Null} : CrawlTape(rungs)
Spec == Init /\ [][Next]_vars

----------------------------------------------------------------------------
(* lib/futuresBook.ts                                                      *)

\* Quantities in hundredths of a contract.
FormatQty(q) == IF q = 0 THEN "0" ELSE IF q < 1 /\ q > -1 THEN "under" ELSE "shown"
DeskIndexPhrase(ids) == CASE Cardinality(ids) = 0 -> "" [] Cardinality(ids) = 1 -> "one" [] Cardinality(ids) = 2 -> "two" [] OTHER -> "all"
\* Only a fill read off the archive says so; an unknown time says nothing.
TapeAge(seenAt, at, source) == IF source = "bundle" THEN "archived" ELSE IF at = 0 \/ seenAt = 0 THEN "" ELSE "ago"
CompleteHistory(points, expected) == IF expected > 0 /\ Len(points) = expected THEN points ELSE Null
OnchainTier(count, expected) == IF count <= 0 THEN "none" ELSE IF count >= expected THEN "full" ELSE "partial"
ContractNotional(mark, multiplier) == IF mark <= 0 \/ multiplier <= 0 THEN Null ELSE mark * multiplier
BasisBp(mark, oracle) == IF oracle <= 0 THEN Null ELSE (10000 * (mark - oracle)) \div oracle
MarkSeries(trades, series) ==
    LET rows == {trades[k] : k \in {k \in DOMAIN trades : trades[k].series = series}}
    IN SetToSortSeq(rows, LAMBDA a, b : a.block < b.block)
IsHouse(a) == a \in House
\* The maker is always one of the traders the venue counts.
DeskTraders(count) == Max({0, count - 1})
HouseTraders(trades, ids) ==
    Cardinality({<<trades[k].series, trades[k].taker>> :
        k \in {k \in DOMAIN trades : trades[k].series \in ids /\ IsHouse(trades[k].taker)}})
DeskTier(source, live) ==
    LET s == IF source = Null THEN (IF live THEN "press" ELSE "bundle") ELSE source
    IN CASE s = "chain" -> "gold" [] s = "bundle" -> "sim" [] OTHER -> "teal"
HeadroomBar(maxBuy, maxSell, cap) ==
    LET Clamp(v) == Max({0, Min({cap, v})})
    IN [buy |-> (100 * Clamp(maxBuy)) \div cap, sell |-> (100 * Clamp(maxSell)) \div cap,
        frozen |-> Clamp(maxBuy) <= 0 \/ Clamp(maxSell) <= 0]

----------------------------------------------------------------------------
(* The components                                                          *)

Countdown(expiry, at) == IF expiry - at <= 0 THEN "expired" ELSE "running"
\* Mutant: the fills are done again instead of undone.
InventoryPathForward(current, trades, series) ==
    Reverse(FoldLeft(LAMBDA path, t : Append(path, Last(path) - t.qty), <<current>>,
                     SelectSeq(trades, LAMBDA t : t.series = series)))

\* The book undone fill by fill, newest first: the maker moved by -qty.
InventoryPath(current, trades, series) ==
    Reverse(FoldLeft(LAMBDA path, t : Append(path, Last(path) + t.qty), <<current>>,
                     SelectSeq(trades, LAMBDA t : t.series = series)))
FuturesDesk(roster, deployed, marks) ==
    LET rows == roster.desks
        primary == IF DOMAIN rows = {} THEN Null ELSE rows[CHOOSE i \in DOMAIN rows : TRUE]
    IN [shown |-> IF DOMAIN rows # {} THEN "book" ELSE IF deployed THEN "unread" ELSE "no venue",
        spark |-> IF primary = Null THEN <<>> ELSE InventoryPath(primary.inventory, roster.trades, primary.series),
        notional |-> IF primary = Null THEN Null ELSE ContractNotional(marks, 1),
        ours |-> [i \in DOMAIN rows |-> Min({DeskTraders(rows[i].traderCount), HouseTraders(roster.trades, {rows[i].series})})],
        settled |-> roster.settled]
FuturesTape(trades, you) ==
    [k \in DOMAIN trades |-> IF trades[k].taker = you THEN "you" ELSE IF IsHouse(trades[k].taker) THEN "ours" ELSE "other"]
FuturesMarkChart(trades, series, oracle) ==
    LET rows == MarkSeries(trades, series)
    IN [shown |-> IF rows = <<>> THEN "no fills" ELSE "chart", line |-> Len(rows) > 1,
        basis |-> IF rows = <<>> \/ oracle = Null THEN Null ELSE BasisBp(1, oracle)]
FuturesTeaser(roster, deployed) ==
    LET rows == roster.desks
        Sum(F(_)) == MapThenSumSet(F, DOMAIN rows)
        traders == Sum(LAMBDA i : DeskTraders(rows[i].traderCount))
    IN IF ~deployed THEN Null
       ELSE [openInterest |-> Sum(LAMBDA i : rows[i].openInterest), traders |-> traders,
             ours |-> Min({traders, HouseTraders(roster.trades, {rows[i].series : i \in DOMAIN rows})}),
             unseeded |-> DOMAIN rows = {}, phrase |-> DeskIndexPhrase(DOMAIN rows)]

----------------------------------------------------------------------------
(* Properties                                                              *)

Listed(v) == {v.series[k] : k \in {k \in DOMAIN v.series : k <= MaxSeries}}

\* No dead market as the live desk: a desk of the chain tier that says it is
\* settled is of an index that had no live series, among those the crawl
\* enumerates, when the crawl began: one whose read was lost is no proof of
\* its absence (futuresOnchain.ts:525-541).
NoDeadMarketAsLive ==
    memo # Null => \A i \in DOMAIN memo.roster.desks : memo.roster.desks[i].settled =>
        ~\E s \in Listed(memo.began) : s.index = i /\ ~s.settled

\* The book's past is the venue's: undoing the shown fills one by one gives
\* the maker's inventory before the oldest of them, up to the fills that
\* landed between the two reads; the shown fills have no gap and no double
\* (futuresOnchain.ts:223-273, FuturesDesk.tsx:41-54).
BookUndoesToThePast ==
    memo # Null =>
        LET trades == memo.roster.trades
            shown == {trades[k].block : k \in DOMAIN trades}
            between == {k \in DOMAIN memo.tapeAt.fills : k > Len(memo.desksAt.fills)}
        IN /\ Cardinality(shown) = Len(trades)
           /\ \A k \in DOMAIN memo.tapeAt.fills :
                shown # {} /\ memo.tapeAt.fills[k].block > Min(shown) => memo.tapeAt.fills[k].block \in shown
           /\ shown # {} => \A i \in DOMAIN memo.roster.desks :
                LET d == memo.roster.desks[i]
                    before == SelectSeq(memo.tapeAt.fills, LAMBDA f : f.block < Min(shown))
                    late == MapThenSumSet(LAMBDA k : memo.tapeAt.fills[k].qty,
                                          {k \in between : memo.tapeAt.fills[k].series = d.series /\ memo.tapeAt.fills[k].block \in shown})
                    missed == MapThenSumSet(LAMBDA k : memo.tapeAt.fills[k].qty,
                                          {k \in between : memo.tapeAt.fills[k].series = d.series /\ memo.tapeAt.fills[k].block < Min(shown)})
                IN Head(InventoryPath(d.inventory, trades, d.series))
                      = BuildDeskRow([id |-> d.series, index |-> i, settled |-> FALSE], before).inventory + late + missed

\* What the crawl's comment promises of a live market: it is never hidden
\* behind a dead one.  It fails once the venue holds more than MaxSeries
\* series, because the enumeration starts at series 0 (futuresOnchain.ts:135-137, 516).
LiveMarketIsSeen ==
    memo # Null => \A i \in DOMAIN memo.roster.desks : memo.roster.desks[i].settled =>
        ~\E k \in DOMAIN memo.began.series : memo.began.series[k].index = i /\ ~memo.began.series[k].settled
=============================================================================
