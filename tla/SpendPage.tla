------------------------------- MODULE SpendPage -------------------------------
(***************************************************************************)
(* The spend statement as an owner meets it: the operator's proxy routes   *)
(* (app/api/operator), the reader card of the tab (lib/readerCard.ts), the *)
(* keyed reads that keep the last answer on the screen (lib/useLive.ts,    *)
(* with SWR's keepPreviousData) and the page (app/spend/view.tsx).         *)
(*                                                                         *)
(* A press answer is a value, or one of the ways it can fail.              *)
(***************************************************************************)
EXTENDS Integers, Sequences, FiniteSets

CONSTANTS Null, Registry,   \* the press's businesses: slug -> chain
          Strays,           \* slugs a link may name that nobody onboarded
          Chain,            \* the reader's chain
          MaxAnswers        \* bound of the instance

Slugs == DOMAIN Registry \union Strays
Failures == {"error", "timeout", "absent"}

VARIABLES card,     \* the tab's reader card: TRUE when one is presented
          list,     \* the list kept, the last failure, and what the press last said of it
          reads,    \* statement and audit: [cache, error, lag]
          chosen,   \* the reader's choice
          answers   \* answers so far, the bound

vars == <<card, list, reads, chosen, answers>>

----------------------------------------------------------------------------
(* app/api/operator/*/route.ts: what the browser gets for a press answer   *)

SlugShape(slug) == slug # Null

\* Mutant: a press that could not be asked has nobody on board.
BusinessesAnyway(press, rows) ==
    [status |-> 200, data |-> IF press \in Failures THEN {} ELSE rows, upstream |-> "ok"]

BusinessesRoute(press, rows) ==
    IF press \in Failures THEN [status |-> 503, data |-> Null, upstream |-> press]
    ELSE [status |-> 200, data |-> rows, upstream |-> "ok"]
StatementRoute(slug, press) ==
    IF ~SlugShape(slug) THEN [status |-> 422, data |-> Null, upstream |-> Null, refusal |-> FALSE]
    ELSE IF press = "refused" THEN [status |-> 401, data |-> Null, upstream |-> Null, refusal |-> TRUE]
    ELSE IF press \in Failures THEN [status |-> 503, data |-> Null, upstream |-> press, refusal |-> FALSE]
    ELSE [status |-> 200, data |-> slug, upstream |-> "ok", refusal |-> FALSE]
AuditRoute(slug, press) == StatementRoute(slug, press)
Days(asked, default, cap) == IF asked = Null THEN default ELSE IF asked > cap THEN cap ELSE IF asked < 1 THEN 1 ELSE asked
\* The ledger is text, not JSON: a 404 is "absent" only when the route is.
LedgerRoute(slug, press, served) ==
    IF ~SlugShape(slug) THEN [status |-> 422, upstream |-> Null]
    ELSE CASE press = "refused" -> [status |-> 401, upstream |-> Null]
           [] press = "timeout" -> [status |-> 504, upstream |-> Null]
           [] press = "absent" -> [status |-> 404, upstream |-> IF served THEN Null ELSE "absent"]
           [] press = "error" -> [status |-> 502, upstream |-> Null]
           [] OTHER -> [status |-> 200, upstream |-> Null]

----------------------------------------------------------------------------
(* lib/readerCard.ts, lib/spendBusiness.ts                                 *)

LooksLikeCard(draft) == draft = "card"
CardHeaders == IF card THEN {"x-agent-card"} ELSE {}

Rows == IF list.data = Null THEN {} ELSE list.data
\* The reader's chain picks; the first row is the fallback.
DefaultBusiness(rows) ==
    LET here == {b \in rows : Registry[b] = Chain}
    IN IF rows = {} THEN Null ELSE IF here # {} THEN CHOOSE b \in here : TRUE ELSE CHOOSE b \in rows : TRUE

StrayLink(c, rows) == c # Null /\ rows # {} /\ c \notin rows
SlugOf(c, rows) == IF c # Null /\ ~StrayLink(c, rows) THEN c ELSE DefaultBusiness(rows)
Slug == SlugOf(chosen, Rows)

----------------------------------------------------------------------------
(* Keyed reads.  With keepPreviousData the answer on the screen is the     *)
(* key's own, and until there is one the last answer of any key.           *)

NoRead == [cache |-> [s \in Slugs |-> Null], error |-> [s \in Slugs |-> Null], lag |-> Null]
Shown(r, slug) == IF slug # Null /\ r.cache[slug] # Null THEN r.cache[slug] ELSE r.lag
ErrorOf(r, slug) == IF slug = Null THEN Null ELSE r.error[slug]
Settle(r, slug) == [r EXCEPT !.lag = Shown(r, slug)]
Landed(r, slug, route) ==
    IF route.status = 200 THEN [r EXCEPT !.cache[slug] = route.data, !.error[slug] = Null]
    ELSE [r EXCEPT !.error[slug] = [upstream |-> route.upstream, refusal |-> route.refusal]]

Init ==
    /\ card = FALSE /\ chosen \in {Null} \union Slugs /\ answers = 0
    /\ list = [data |-> Null, error |-> Null, said |-> Null]
    /\ reads = [statement |-> NoRead, audit |-> NoRead]

Answered == answers < MaxAnswers /\ answers' = answers + 1

ListAnswers(press, rows) ==
    /\ Answered
    /\ LET route == BusinessesRoute(press, rows)
       IN list' = IF route.status = 200
                  THEN [data |-> route.data, error |-> Null, said |-> IF press \in Failures THEN list.said ELSE rows]
                  ELSE [list EXCEPT !.error = [upstream |-> route.upstream]]
    /\ LET slug == SlugOf(chosen, IF list'.data = Null THEN {} ELSE list'.data)
       IN reads' = [k \in DOMAIN reads |-> Settle(reads[k], slug)]
    /\ UNCHANGED <<card, chosen>>

\* A read of the slug on the page: the press opens it to a card only.
ReadAnswers(which, private, press) ==
    /\ Answered /\ Slug # Null
    /\ LET said == IF press = "ok" /\ Slug \notin DOMAIN Registry THEN "error"
                   ELSE IF press = "ok" /\ private /\ CardHeaders = {} THEN "refused" ELSE press
           route == IF which = "audit" THEN AuditRoute(Slug, said) ELSE StatementRoute(Slug, said)
       IN reads' = [reads EXCEPT ![which] = Settle(Landed(@, Slug, route), Slug)]
    /\ UNCHANGED <<card, list, chosen>>

Choose(slug) ==
    /\ slug \in Rows /\ chosen # slug
    /\ chosen' = slug
    /\ reads' = [k \in DOMAIN reads |-> Settle(reads[k], slug)]
    /\ UNCHANGED <<card, list, answers>>

\* Presenting or forgetting a card asks again; the answers are actions.
SetReaderCard(draft) ==
    /\ IF draft = "" THEN card ELSE LooksLikeCard(draft) /\ ~card
    /\ card' = (draft # "")
    /\ UNCHANGED <<list, reads, chosen, answers>>

Next == \/ \E press \in {"ok"} \union Failures, rows \in SUBSET (DOMAIN Registry) : (press = "ok" \/ rows = {}) /\ ListAnswers(press, rows)
        \/ \E which \in {"statement", "audit"}, private \in BOOLEAN, press \in {"ok"} \union Failures : ReadAnswers(which, private, press)
        \/ \E slug \in Slugs : Choose(slug)
        \/ \E draft \in {"", "card", "a private key"} : SetReaderCard(draft)
Spec == Init /\ [][Next]_vars

----------------------------------------------------------------------------
(* app/spend/view.tsx                                                      *)

ListShows == IF list.error # Null /\ Rows = {} THEN list.error.upstream
             ELSE IF list.data = Null THEN "nothing yet" ELSE IF Rows = {} THEN "none onboarded" ELSE "businesses"
PressBehind == list.error # Null /\ list.error.upstream = "absent"
WhyEmpty(upstream) == IF upstream = "absent" THEN "older press" ELSE "no answer"
\* The card gate words the press's own refusal, and knows if a card was sent.
ReaderCardGate(refused) == IF ~refused THEN Null ELSE IF card THEN "this card does not open it" ELSE "not public"

StatementShows ==
    LET error == ErrorOf(reads.statement, Slug)
    IN [gate |-> ReaderCardGate(error # Null /\ error.refusal),
        whyEmpty |-> IF error # Null /\ ~error.refusal /\ ~PressBehind THEN WhyEmpty(error.upstream) ELSE Null,
        body |-> Shown(reads.statement, Slug)]
LedgerAuditSection ==
    LET error == ErrorOf(reads.audit, Slug)
        data == Shown(reads.audit, Slug)
    IN IF data # Null THEN [book |-> data, whyEmpty |-> Null]
       ELSE [book |-> Null, whyEmpty |-> IF error = Null \/ Slug = Null \/ PressBehind THEN Null ELSE WhyEmpty(error.upstream)]
SpendView == [list |-> ListShows, stray |-> StrayLink(chosen, Rows), marked |-> Slug,
              statement |-> StatementShows, audit |-> LedgerAuditSection]

(* One decision, and one statement, as words.                              *)

\* A payment the policy cleared is "paid" only when money moved.
Outcome(d) == IF d.intent = "pay" /\ d.paid <= 0 THEN "cleared policy, not sent" ELSE d.intent
Price(n) == IF n = Null THEN "..." ELSE n
DueWords(atS, asOf) ==
    IF atS = Null \/ asOf = 0 THEN Null
    ELSE IF atS < asOf THEN "past due" ELSE IF atS - asOf < 1 THEN "within the hour"
    ELSE IF atS - asOf < 24 THEN "hours" ELSE "days"
\* No meter is said as such: a bill nobody counted is not an overbill.
MeterShows(d) == IF d.metered = Null THEN "no meter"
                 ELSE IF d.vendor = Null \/ d.vendor = d.metered THEN "agrees" ELSE IF d.vendor > d.metered THEN "over" ELSE "under"
ParShows(d) == [par |-> Price(d.par), over |-> d.overPar # Null /\ d.overPar > 0, why |-> d.parReason]
ScreenShows(d) == IF d.screen = Null THEN "not screened here"
                  ELSE CASE d.screen = "clear" -> "clear" [] d.screen = "flagged" -> "flagged" [] OTHER -> "not screened"
AgreementShows(d) == IF d.commitment = Null THEN Null ELSE IF d.commitment = "within" THEN "teal"
                     ELSE IF d.commitment \in {"over_total", "over_unit_price", "over_quantity"} THEN "breach" ELSE "gold"
DecisionRow(d) == [outcome |-> Outcome(d), billed |-> Price(d.billed), meter |-> MeterShows(d), par |-> ParShows(d),
                   screen |-> ScreenShows(d), agreement |-> AgreementShows(d), recommended |-> d.recommended, by |-> d.actor]
BudgetRow(b) == IF b.configured THEN [cap |-> b.cap, spent |-> b.spent, chip |-> Null]
                ELSE [cap |-> Null, spent |-> Null, chip |-> IF b.reason = Null THEN "gold" ELSE "breach"]
\* Cash against what is due: cash that was not read covers nothing.
LiquidityShows(liq) == IF liq.held = Null THEN "unread" ELSE IF liq.dueCount = 0 THEN "nothing due"
                       ELSE IF liq.covers THEN "covered" ELSE "short"
LiquidityOf(st) == IF st.liquidity = Null THEN [held |-> Null, due |-> 0, dueCount |-> 0, covers |-> Null] ELSE st.liquidity
\* A bill links to the price check only when all of its query is there.
CheckHref(d) == IF d.unit = Null \/ d.billed = Null \/ d.billed <= 0 \/ d.vendor = Null \/ d.vendor <= 0 THEN Null ELSE <<d.unit, d.billed, d.vendor>>
EscalationsShow(rows) == IF rows = <<>> THEN "nothing is waiting" ELSE [k \in DOMAIN rows |-> [row |-> rows[k], check |-> CheckHref(rows[k])]]
\* Money that moved or stayed is kept apart from what an offer would have saved.
FiguresShow(s) == [work |-> <<s.decided, s.escalated>>, moved |-> <<Price(s.paid), Price(s.heldBack), Price(s.overbilled)>>,
                   offered |-> Price(s.saved), checks |-> <<s.discrepancies, s.unmetered>>]
MarketContextShows(ctx) == IF ctx.available THEN "bp"
                           ELSE CASE ctx.reason = "SLOW" -> "slow" [] ctx.reason = "UNAVAILABLE" -> "unavailable"
                                  [] ctx.reason = "not requested" -> "not asked" [] OTHER -> "no history"
StatementBody(st) ==
    [waiting |-> EscalationsShow(st.escalations), figures |-> FiguresShow(st.spend), liquidity |-> LiquidityShows(LiquidityOf(st)),
     limits |-> IF st.spends THEN "on chain" ELSE "not spending", budgets |-> [k \in DOMAIN st.budgets |-> BudgetRow(st.budgets[k])],
     recent |-> [k \in DOMAIN st.recent |-> DecisionRow(st.recent[k])], context |-> MarketContextShows(st.context)]

----------------------------------------------------------------------------
(* Properties                                                              *)

\* Every absence on the page has its own words: nobody is onboarded only when
\* the press's last word said so; an outage of the list is told when nothing
\* is kept, and never over a kept list; a refusal is told as a refusal and an
\* outage as an outage; what the statement shows was really answered
\* (businesses/route.ts:17-39, view.tsx:1102-1136, 1222-1242).
AbsencesHaveTheirWords ==
    LET page == SpendView
    IN /\ page.list = "none onboarded" <=> (list.said = {} /\ list.error = Null)
       /\ list.data = Null /\ list.error # Null => page.list \in Failures
       /\ list.said \notin {Null, {}} => page.list = "businesses"
       /\ page.statement.gate # Null => page.statement.whyEmpty = Null /\ reads.statement.error[Slug].refusal
       /\ page.statement.body # Null => page.statement.body \in DOMAIN Registry
       /\ answers > 0 /\ list.data = Null => list.error # Null \/ reads # [statement |-> NoRead, audit |-> NoRead]

\* What the page's comments promise of the statement, the audit and the card.
\* The sections below the list stay quiet about a cause already given: it
\* fails when the list is kept from before, for then nothing gives the cause
\* (view.tsx:1063-1069, 1116).
FailedStatementIsTold ==
    LET page == SpendView
    IN page.statement.body = Null /\ ErrorOf(reads.statement, Slug) # Null =>
          page.statement.gate # Null \/ page.statement.whyEmpty # Null \/ page.list \in Failures

\* The checks below a statement are of its book: it fails because each read
\* keeps the previous business's answer on its own (useLive.ts:196-197, view.tsx:1244-1245).
AuditIsOfTheStatement ==
    SpendView.statement.body # Null /\ SpendView.audit.book # Null => SpendView.statement.body = SpendView.audit.book

\* A statement that is not public is not on the page: it fails when the card
\* is forgotten, or another business is chosen, while one is shown.
RefusedIsNotShown == SpendView.statement.gate # Null => SpendView.statement.body = Null
=============================================================================
