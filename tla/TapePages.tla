------------------------------ MODULE TapePages ------------------------------
(***************************************************************************)
(* The settlement tape as the terminal tells it: the arithmetic of         *)
(* lib/tape.ts and lib/humans.ts, the route that gathers it                *)
(* (app/api/tape/route.ts), and what the page shows of it                  *)
(* (app/tape/view.tsx).  Everything here is a function of what was read:   *)
(* a number that was not read is Null all the way to the page.             *)
(*                                                                         *)
(* A settlement row is [seller, payer, amount, slip, benchmarked,          *)
(* synthetic, human, at, index]; seller, payer, slip and at may be Null.   *)
(***************************************************************************)
EXTENDS Integers, Sequences, FiniteSets, FiniteSetsExt, SequencesExt

CONSTANTS Null, RecentKept

----------------------------------------------------------------------------
(* lib/tape.ts                                                             *)

\* The mapping's weighted sum reduced by its volume; nothing over no volume.
BpFromWeighted(weighted, volume) ==
    IF Null \in {weighted, volume} THEN Null ELSE IF volume <= 0 THEN Null ELSE weighted \div volume

Buckets == <<"b0", "b1", "b2", "b3", "b4", "b5", "b6">>
Ceilings == <<-100, 0, 50, 100, 200, 500>>
BucketOf(slip) == LET above == {k \in DOMAIN Ceilings : slip < Ceilings[k]} IN IF above = {} THEN 7 ELSE Min(above)
BucketTotal(row) == IF row = Null THEN 0 ELSE MapThenSumSet(LAMBDA k : row[k], 1..7)
BucketBars(row) == [k \in 1..7 |-> IF row = Null THEN 0 ELSE row[k]]

\* Score in percent.
GradeOf(score) == IF score = Null THEN "Unrated" ELSE IF score >= 85 THEN "A"
                  ELSE IF score >= 70 THEN "B" ELSE IF score >= 50 THEN "C" ELSE "D"

\* A card is graded only for a payer the tape has seen: `seen` Null is an old
\* press, whose empty purchases mean the same.
GradedCard(tca) ==
    IF tca = Null THEN Null ELSE IF ~tca.available THEN Null
    ELSE IF tca.seen = "no" \/ (tca.seen = "unsaid" /\ tca.purchases = 0) THEN Null ELSE tca
EmptyTapeReason(tca) ==
    IF tca = Null THEN Null ELSE IF ~tca.available THEN "unavailable"
    ELSE IF tca.seen = "no" THEN "unseen" ELSE IF tca.seen = "unsaid" /\ tca.purchases = 0 THEN "no fills" ELSE Null

HumanShareInWindow(windows, window) ==
    LET here == SelectSeq(windows, LAMBDA x : x.window = window)
    IN IF here = <<>> THEN Null ELSE IF Head(here).volume = 0 THEN Null
       ELSE (100 * Head(here).human) \div Head(here).volume

\* Zero is never a count of people: it is "not measured".
HumanCellOf(rating) ==
    IF rating = Null THEN [kind |-> "unmeasured"]
    ELSE IF ~rating.measured \/ rating.humans <= 0 THEN [kind |-> "unmeasured"]
    ELSE [kind |-> "count", humans |-> rating.humans, allSandbox |-> rating.sandbox = rating.humans]

Sold(rows, s) == {k \in DOMAIN rows : rows[k].seller = s}
Sellers(rows) == {rows[k].seller : k \in DOMAIN rows} \ {Null}
Amount(rows, ks) == MapThenSumSet(LAMBDA k : rows[k].amount, ks)

\* Index and price come from a seller's first row, the benchmark from any.
SellerTerms(rows) ==
    [s \in Sellers(rows) |->
        LET first == rows[Min(Sold(rows, s))]
        IN [index |-> first.index, isPress |-> first.index = "ACR-QUERY",
            allUnbenchmarked |-> \A k \in Sold(rows, s) : ~rows[k].benchmarked]]
SellerLabel(s, terms, fleet) ==
    IF s \in DOMAIN terms /\ terms[s].isPress THEN "ACR press" ELSE IF s \in fleet THEN s ELSE Null

\* The directory when the seller query cannot answer: the rows, grouped.
SellersFromSettlements(rows) ==
    {LET ks == Sold(rows, s)
         marked == {k \in ks : rows[k].benchmarked /\ rows[k].slip # Null}
         volume == Amount(rows, ks)
     IN [id |-> s, volume |-> volume, benchmarked |-> Amount(rows, marked), n |-> Cardinality(ks),
         payers |-> Cardinality({rows[k].payer : k \in ks} \ {Null}),
         slip |-> IF Amount(rows, marked) = 0 THEN Null
                  ELSE MapThenSumSet(LAMBDA k : rows[k].amount * rows[k].slip, marked) \div Amount(rows, marked),
         synthetic |-> IF volume = 0 THEN Null ELSE (100 * Amount(rows, {k \in ks : rows[k].synthetic})) \div volume,
         human |-> IF volume = 0 THEN Null ELSE (100 * Amount(rows, {k \in ks : rows[k].human})) \div volume] :
       s \in Sellers(rows)}

\* An unmeasured seller is listed last.
ByWorstFirst(S) == SetToSortSeq(S, LAMBDA a, b : IF a.slip = Null THEN FALSE ELSE IF b.slip = Null THEN TRUE ELSE a.slip > b.slip)

RecentForPayer(rows, payer) ==
    IF payer = Null THEN <<>>
    ELSE LET mine == {k \in DOMAIN rows : rows[k].payer = payer /\ rows[k].seller # Null /\ rows[k].at # Null}
             newest == SetToSortSeq(mine, LAMBDA a, b : rows[a].at > rows[b].at \/ (rows[a].at = rows[b].at /\ a < b))
         IN [k \in 1..Min({Len(newest), RecentKept}) |-> rows[newest[k]]]
FollowedReroute(recent, reroute) ==
    IF reroute = Null \/ recent = <<>> THEN "none"
    ELSE IF Head(recent).seller = reroute.to THEN "followed"
    ELSE IF Head(recent).seller = reroute.from THEN "ignored" ELSE "elsewhere"

----------------------------------------------------------------------------
(* lib/humans.ts                                                           *)

CurrentWindow(t, length) == t \div length
CountHumans(rows, window) ==
    IF rows = Null THEN Null
    ELSE LET here == {r \in rows : r.window = window}
             ids == {r.id : r \in here}
             newest == {r.window : r \in rows}
         IN [n |-> Cardinality(ids), sandbox |-> Cardinality({r.id : r \in {x \in here : x.sandbox}}),
             traded |-> Cardinality({r.id : r \in {x \in here : x.settled}}),
             staleWindow |-> IF ids = {} /\ newest # {} /\ Max(newest \union {-1}) < window THEN Max(newest) ELSE Null]

----------------------------------------------------------------------------
(* app/api/tape/route.ts                                                   *)

\* The payer of the most rows; the first to reach the count wins.
BusiestPayer(rows) ==
    LET payers == {rows[k].payer : k \in DOMAIN rows} \ {Null}
        Of(p) == {k \in DOMAIN rows : rows[k].payer = p}
    IN IF payers = {} THEN Null
       ELSE CHOOSE p \in payers : \A q \in payers \ {p} :
               Cardinality(Of(p)) > Cardinality(Of(q))
               \/ (Cardinality(Of(p)) = Cardinality(Of(q)) /\ Min(Of(p)) < Min(Of(q)))

\* The fills that move no price of their own: their slippage is the control.
Control(fills) == IF fills = Null THEN Null
                  ELSE [fills |-> Cardinality({f \in DOMAIN fills : fills[f].benchmarked}),
                        nonZero |-> Cardinality({f \in DOMAIN fills : fills[f].benchmarked /\ fills[f].slip # 0})]

\* Each of the five queries is the press's answer, or Null when it had none.
\* Ratings are asked of the first twelve sellers: the instances have fewer.
TapeRoute(asked, read) ==
    LET rows == IF read.settlements = Null THEN <<>> ELSE read.settlements
        payer == IF asked.payer # Null THEN asked.payer ELSE BusiestPayer(rows)
        directory == IF read.sellers = Null \/ read.sellers = {} THEN SellersFromSettlements(rows) ELSE read.sellers
    IN IF ~asked.ok THEN [status |-> 422, live |-> FALSE, data |-> Null]
       ELSE [status |-> 200, live |-> read.meta # Null, upstream |-> IF read.meta # Null THEN "ok" ELSE "error",
             data |-> [meta |-> read.meta, tca |-> IF payer = Null THEN Null ELSE read.tca, payer |-> payer,
                       recent |-> RecentForPayer(rows, payer), sellers |-> directory,
                       rated |-> {s \in directory : s.id \in read.rated},
                       control |-> Control(read.fills), terms |-> SellerTerms(rows)]]

----------------------------------------------------------------------------
(* app/tape/view.tsx                                                       *)

\* The address field: only an address is taken, and the URL follows it.
PickPayer(shape, current) == IF shape = "address" THEN [payer |-> "typed", bad |-> FALSE] ELSE [payer |-> current, bad |-> TRUE]
PayerFromUrl(shape) == IF shape = "address" THEN "url" ELSE Null

Unreachable(failed, upstream) == failed \/ upstream \in {"error", "timeout", "absent"}
MetaShows(data, unreachable) ==
    IF data # Null /\ data.meta # Null THEN "block" ELSE IF unreachable THEN "unreachable" ELSE "reading"
TransportShows(transport) == IF transport = Null \/ transport.via = "unset" THEN Null
                             ELSE IF transport.via = "gateway" THEN "gateway" ELSE "development"
CostShows(data, unreachable) ==
    LET tca == IF data = Null THEN Null ELSE data.tca
    IN IF GradedCard(tca) # Null THEN "card" ELSE IF unreachable THEN "unreachable"
       ELSE IF EmptyTapeReason(tca) # Null THEN "nothing to grade" ELSE "reading"
RerouteShows(card, recent) == IF card.reroute = Null THEN Null ELSE FollowedReroute(recent, card.reroute)
DirectoryShows(data, unreachable) ==
    IF data # Null /\ data.sellers # {} THEN "rows" ELSE IF unreachable THEN "unreachable" ELSE "reading"
ControlShows(data) == IF data = Null \/ data.control = Null THEN "unread"
                      ELSE IF data.control.nonZero > 0 THEN "breach" ELSE "clean"
SlipShows(slip, terms, s) ==
    IF slip # Null THEN IF slip > 0 THEN "breach" ELSE "good"
    ELSE IF s \in DOMAIN terms /\ terms[s].isPress THEN "flat fee" ELSE "unscored"
SellerRow(s, rating, terms) ==
    [slip |-> SlipShows(s.slip, terms, s.id), humans |-> HumanCellOf(rating).kind,
     grade |-> IF rating = Null THEN "unread" ELSE rating.grade,
     coverage |-> IF rating = Null THEN Null ELSE rating.coverage,
     humanMark |-> s.human # Null /\ s.human > 0, synthetic |-> s.synthetic]

----------------------------------------------------------------------------
(* Properties, over one world of rows, a payer and what was read.          *)

\* The directory grouped from the rows is the rows: every payment with a
\* seller is counted once and its volume once, a seller is scored only on
\* priced fills and within their extremes, and the press's flat fees are
\* never scored (tape.ts:516-566).
FallbackAddsUp(rows) ==
    LET S == SellersFromSettlements(rows)
        sold == {k \in DOMAIN rows : rows[k].seller # Null}
    IN /\ MapThenSumSet(LAMBDA s : s.n, S) = Cardinality(sold)
       /\ MapThenSumSet(LAMBDA s : s.volume, S) = Amount(rows, sold)
       /\ \A s \in S : s.slip # Null =>
            LET marked == {rows[k].slip : k \in {x \in Sold(rows, s.id) : rows[x].benchmarked /\ rows[x].slip # Null}}
            IN ~SellerTerms(rows)[s.id].allUnbenchmarked /\ s.slip >= Min(marked) /\ s.slip <= Max(marked)

\* A stranger is never given a clean bill: a cost card is shown only for the
\* payer who was asked about (or, unasked, one the rows hold) and only when
\* the tape has seen them; a failed read is never shown as an empty tape
\* (tape.ts:177-203, view.tsx:319-338, route.ts:85-99).
NoCleanBillForAStranger(asked, read) ==
    LET answer == TapeRoute(asked, read)
        unreachable == Unreachable(FALSE, IF answer.status = 200 THEN answer.upstream ELSE "error")
    IN /\ answer.status = 200 /\ CostShows(answer.data, unreachable) = "card" =>
            /\ read.tca.seen # "no" /\ (read.tca.purchases > 0 \/ read.tca.seen = "yes")
            /\ answer.data.payer # Null /\ (asked.payer = Null => answer.data.payer \in {read.settlements[k].payer : k \in DOMAIN read.settlements})
       /\ answer.status = 200 /\ read.meta = Null /\ read.tca = Null => CostShows(answer.data, unreachable) = "unreachable"
       /\ answer.status = 200 /\ read.fills = Null => ControlShows(answer.data) = "unread"
       /\ \A k \in DOMAIN (IF answer.status = 200 THEN answer.data.recent ELSE <<>>) : answer.data.recent[k].payer = answer.data.payer
=============================================================================
