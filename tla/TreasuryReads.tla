---------------------------- MODULE TreasuryReads ----------------------------
(***************************************************************************)
(* What the terminal's server reads of the float vault                     *)
(* (apps/terminal/lib/floatOnchain.ts and the routes over it): the state   *)
(* of the treasury, its tape, the gain of its sleeve, and the walk through *)
(* one payment.  The gain is the only reading that takes several moments:  *)
(* the head, then the sleeve's mark, then pages of logs below that head,   *)
(* while the keeper keeps moving money.  Those moments are the actions of  *)
(* this module; the other readings are functions of what the chain said.   *)
(*                                                                         *)
(* A read answers "ok", "busy" (throttled to the last try) or "no" (a      *)
(* revert, which is an answer).  Blocks are the clock.                     *)
(***************************************************************************)
EXTENDS Integers, Sequences, FiniteSets, FiniteSetsExt, SequencesExt

CONSTANTS
    Null,
    Page,             \* LOG_WINDOW: the widest range the node accepts
    MaxPages,         \* MAX_PAGES
    FloorBlock,       \* ACR_FLOAT_FROM_BLOCK, or Null when it is unset
    MaxRows,          \* MAX_ROWS of the tape
    MemoFor, PartialMemoFor,   \* the two lives of a memoed answer, in blocks
    SaidMax,          \* explanations the narrator's memo keeps
    MaxMoves, EndOfTime

VARIABLES
    now,      \* the newest block
    sleeve,   \* [moves: Seq([block, amount]), mark: what the sleeve is worth]
    reading,  \* Null, or the reading of the gain in flight
    told      \* the memoed answer of readYield, or Null

vars == <<now, sleeve, reading, told>>

----------------------------------------------------------------------------
(* One read, and the memo in front of the rounds of reads.                 *)

\* one(): a throttled read is tried three times, a revert never again.
Read(answers) == LET n == IF Len(answers) < 3 THEN Len(answers) ELSE 3
                     heard == {k \in 1..n : answers[k] # "busy"}
                 IN IF heard = {} THEN "busy" ELSE answers[Min(heard)]

\* floatConfig: a sentence when this host cannot answer, else where to read.
FloatConfig(env, chain) ==
    LET why == IF chain # env.home THEN "other chain" ELSE IF env.rpc = Null THEN "no rpc"
               ELSE IF env.vault = Null THEN "no vault" ELSE Null
    IN [status |-> IF why = Null THEN "ok" ELSE "pending", why |-> why,
        switch_to |-> IF why = "other chain" THEN env.home ELSE Null]

WrongChain(state) == state.status = "pending" /\ state.switch_to # Null

\* A partial answer lives shorter: its retry would have filled the gap.
Fresh(memo, key, t) ==
    memo # Null /\ memo.key = key /\ t - memo.at < (IF memo.partial THEN PartialMemoFor ELSE MemoFor)

----------------------------------------------------------------------------
(* readVaultState: r says how each read ended, v what it said.             *)

Fields == {"paused", "policy", "total", "receipts", "guestCap", "buffer"}

\* A sleeve: absent when unread, Null (not live) on a revert or a zero slot.
SleeveShown(addr, slotIsZero, value, worth) ==
    CASE addr = "busy" -> "absent"
      [] addr = "no" \/ (addr = "ok" /\ (slotIsZero \/ value = "no")) -> Null
      [] addr = "ok" /\ ~slotIsZero /\ value = "ok" -> worth
      [] OTHER -> "absent"

\* The value read of a sleeve whose address is unread or zero is never sent.
SleeveValue(addr, slotIsZero, value) ==
    IF addr = "ok" /\ ~slotIsZero THEN value ELSE IF addr = "ok" THEN "no" ELSE addr

AgentsShown(agents) ==
    [a \in {x \in DOMAIN agents : agents[x].standing = "ok"} |->
        [frozen |-> agents[a].frozen,
         remaining |-> IF agents[a].left = "ok" THEN agents[a].remaining ELSE 0]]

\* Every index of the store, at most eight; a store that did not count is
\* an empty list; no print yet is a stale print with no price.
PrintsShown(count, prints, maxAge, t) ==
    IF count # "ok" THEN {}
    ELSE {[index |-> i, named |-> prints[i].name = "ok",
           price |-> IF prints[i].id = 0 THEN 0 ELSE prints[i].price,
           stale |-> prints[i].id = 0 \/ (maxAge > 0 /\ t - prints[i].at > maxAge)] :
             i \in {k \in DOMAIN prints : k <= 8 /\ prints[k].listed = "ok" /\ prints[k].latest = "ok"}}

VaultState(r, v) ==
    IF r.paused # "ok" THEN [status |-> "pending", why |-> r.paused]
    ELSE [status |-> "ok",
          shown |-> [f \in {x \in Fields : r[x] = "ok"} |-> v[f]],
          working |-> SleeveShown(r.working, v.workingZero, SleeveValue(r.working, v.workingZero, r.workingValue), v.workingWorth),
          slot |-> IF r.working = "ok" THEN v.workingZero ELSE "absent",
          agents |-> AgentsShown(v.agents),
          partial |-> \/ \E f \in Fields \union {"working"} : r[f] = "busy"
                      \/ SleeveValue(r.working, v.workingZero, r.workingValue) = "busy"
                      \/ \E a \in DOMAIN v.agents : "busy" \in {v.agents[a].standing, v.agents[a].left}]

----------------------------------------------------------------------------
(* walkLogs: newest page first, within the node's range.                   *)

PageTo(head, p) == head - p * Page
PageFrom(head, p) ==
    LET from == IF PageTo(head, p) > Page - 1 THEN PageTo(head, p) - (Page - 1) ELSE 0
        floor == IF FloorBlock = Null THEN 0 ELSE FloorBlock
    IN IF from < floor THEN floor ELSE from

\* The walk over `rows` (records with a block) below `head`: `refused` is the
\* page the node refuses (Null: none), `enough` the rows that end it early.
Walk(rows, head, refused, enough) ==
    LET floor == IF FloorBlock = Null THEN 0 ELSE FloorBlock
        Above(p) == {k \in DOMAIN rows : rows[k].block <= head /\ rows[k].block >= PageFrom(head, p)}
        Ends(p) == \/ PageFrom(head, p) <= floor
                   \/ PageFrom(head, p) = 0
                   \/ enough # Null /\ Cardinality(Above(p)) >= enough
        Asked == {p \in 0..(MaxPages - 1) : PageTo(head, p) >= floor /\ \A q \in 0..(p - 1) : ~Ends(q) /\ q # refused}
        Got == {p \in Asked : p # refused}
        oldest == IF Got = {} THEN head ELSE PageFrom(head, Max(Got))
    IN [rows |-> IF Got = {} THEN {} ELSE Above(Max(Got)),
        from |-> oldest, to |-> head, busy |-> refused \in Asked,
        reachedFloor |-> FloorBlock # Null /\ \E p \in Got : PageFrom(head, p) <= FloorBlock]

\* A receipt states its premium; a refusal's is computed from its numbers.
PremiumOf(row) == IF row.fair = 0 THEN Null
                  ELSE IF row.kind = "paid" THEN row.premium
                  ELSE ((row.quote - row.fair) * 10000) \div row.fair

\* readTape: newest first, a payment before a refusal of its block, cut.
Tape(rows, head, refused) ==
    LET walk == Walk(rows, head, refused, MaxRows)
        Before(a, b) == \/ rows[a].block > rows[b].block
                        \/ rows[a].block = rows[b].block /\ rows[a].kind = "paid" /\ rows[b].kind = "refused"
                        \/ rows[a].block = rows[b].block /\ rows[a].kind = rows[b].kind /\ a < b
        sorted == SetToSortSeq(walk.rows, Before)
    IN [rows |-> [k \in 1..(IF Len(sorted) < MaxRows THEN Len(sorted) ELSE MaxRows) |-> sorted[k]],
        from |-> walk.from, to |-> walk.to, reachedStart |-> walk.reachedFloor, partial |-> walk.busy]

----------------------------------------------------------------------------
(* readYield, moment by moment, beside the keeper and the venue.           *)

Sum(rows, ks) == MapThenSumSet(LAMBDA k : rows[k].amount, ks)
\* What crossed the sleeve's boundary: parked less delivered.
Principal(rows, ks) == Sum(rows, ks)
\* The gain, or nothing when the basis may miss a deposit.
Accrued(value, principal, complete) == IF complete THEN value - principal ELSE Null
Gain == sleeve.mark - Principal(sleeve.moves, DOMAIN sleeve.moves)

Init == now = 1 /\ sleeve = [moves |-> <<>>, mark |-> 0] /\ reading = Null /\ told = Null

\* The keeper parks (a > 0) or pulls (a < 0) in the next block.
Rebalance(a) ==
    /\ now < EndOfTime /\ Len(sleeve.moves) < MaxMoves /\ sleeve.mark + a >= 0
    /\ now' = now + 1
    /\ sleeve' = [moves |-> Append(sleeve.moves, [block |-> now + 1, amount |-> a]), mark |-> sleeve.mark + a]
    /\ UNCHANGED <<reading, told>>

\* The venue earns, or loses, while a block passes.
Earn(d) ==
    /\ now < EndOfTime /\ sleeve.mark + d >= 0 /\ (sleeve.mark = 0 => d = 0)
    /\ now' = now + 1 /\ sleeve' = [sleeve EXCEPT !.mark = @ + d]
    /\ UNCHANGED <<reading, told>>

\* A reader asks: the memo serves, or the head and the sleeve are read.
AskYield ==
    /\ reading = Null /\ ~Fresh(told, "vault", now)
    /\ reading' = [stage |-> "value", head |-> now, throttled |-> FALSE]
    /\ UNCHANGED <<now, sleeve, told>>

\* The mark, and the venue's gates: one of them may be throttled.
ValueYield(throttled) ==
    /\ reading # Null /\ reading.stage = "value"
    /\ reading' = [stage |-> "walk", head |-> reading.head, throttled |-> throttled,
                   value |-> sleeve.mark, gain |-> Gain, at |-> now]
    /\ UNCHANGED <<now, sleeve, told>>

\* Without the mark there is nothing to say, and nothing is memoed.
ValueUnread ==
    /\ reading # Null /\ reading.stage = "value"
    /\ reading' = Null /\ UNCHANGED <<now, sleeve, told>>

\* The pages of the sleeve's events, and the answer.
WalkYield(refused) ==
    /\ reading # Null /\ reading.stage = "walk"
    /\ LET walk == Walk(sleeve.moves, reading.head, refused, Null)
           complete == walk.reachedFloor /\ ~walk.busy /\ ~reading.throttled
       IN told' = [key |-> "vault", at |-> now, partial |-> ~complete,
                   accrued |-> Accrued(reading.value, Principal(sleeve.moves, walk.rows), complete),
                   complete |-> complete, gain |-> reading.gain, head |-> reading.head, valued |-> reading.at]
    /\ reading' = Null /\ UNCHANGED <<now, sleeve>>

\* A gate or a fee of the venue keeps its third outcome; a zero recipient is none.
GateShown(read, open) == IF read = "ok" THEN open ELSE Null
FeeShown(read, fee, to) == [fee |-> IF read = "ok" THEN fee ELSE Null, to |-> IF to = "zero" THEN Null ELSE to]

----------------------------------------------------------------------------
(* readReserveFacts: the fund, and the deposit that is simulated, never    *)
(* sent.  An illegible answer is asked once more; a revert is an answer.   *)

\* Each attempt: "accepted", a refusal's name, or "illegible".
TryDeposit(hasTeller, first, again) ==
    IF ~hasTeller THEN "unread" ELSE IF first # "illegible" THEN first
    ELSE IF again = "illegible" THEN "unread" ELSE again
DepositShown(mine) == [refused |-> IF mine = "unread" THEN Null ELSE mine # "accepted",
                       refusal |-> IF mine \in {"unread", "accepted"} THEN Null ELSE mine]
AgreesWithRecord(symbol, decimals) == IF Null \in {symbol, decimals} THEN Null ELSE symbol = "USYC" /\ decimals = 6
ReserveFacts(recorded, hasTeller, reads, mine, control) ==
    IF ~recorded THEN [status |-> "pending"]
    ELSE [status |-> "ok", deposit |-> DepositShown(mine), control |-> DepositShown(control).refusal,
          shown |-> {f \in DOMAIN reads : reads[f] = "ok"},
          throttled |-> (hasTeller /\ "unread" \in {mine, control}) \/ \E f \in DOMAIN reads : reads[f] = "busy"]
BenchFacts(hasBench, reads) == IF hasBench THEN [f \in DOMAIN reads |-> reads[f] = "ok"] ELSE <<>>

----------------------------------------------------------------------------
(* classifyQuote: the chain's own dry run, against the current print.      *)

ClassifyQuote(prices, indexGiven, firstIndex, latest, verdict) ==
    IF \/ prices # "ok" \/ (~indexGiven /\ firstIndex # "ok")
       \/ latest = "busy" \/ verdict.read # "ok"
    THEN "pending"
    ELSE IF latest = "ok" THEN verdict.current ELSE verdict.unprinted

----------------------------------------------------------------------------
(* readWalk: one receipt's logs are the whole evidence.  A log is          *)
(* [idx, addr, name, to, value, jit]; logs is the set of decoded ones.     *)

Pick(S, better(_, _)) == IF S = {} THEN Null ELSE CHOOSE l \in S : \A m \in S : l = m \/ better(l, m)
First(a, b) == a.idx < b.idx
Latest(a, b) == a.idx > b.idx
PickReceipt(logs) ==
    LET rs == {l \in logs : l.addr = "vault" /\ l.name = "Receipt"}
    IN IF \E l \in rs : l.jit THEN Pick({l \in rs : l.jit}, First) ELSE Pick(rs, First)
PickPay(logs, seller, quote) ==
    LET paid == {l \in logs : l.addr = "usdc" /\ l.name = "Transfer" /\ l.to = seller}
        exact == {l \in paid : l.value = quote}
    IN IF exact # {} THEN Pick(exact, First) ELSE Pick(paid, First)
\* The last event of that contract before the payment, else its first.
LastBefore(S, pay) ==
    LET before == {l \in S : pay = Null \/ l.idx < pay.idx} IN IF before # {} THEN Pick(before, Latest) ELSE Pick(S, First)
PickPull(logs, pay) == LastBefore({l \in logs : l.addr = "sleeve" /\ l.name = "Pulled"}, pay)
PickVenueWithdraw(logs, pay) == LastBefore({l \in logs : l.addr = "venue" /\ l.name = "Withdraw"}, pay)
PickShareBurn(logs) == Pick({l \in logs : l.addr = "venue" /\ l.name = "Transfer" /\ l.to = "zero"}, Latest)
CountVenueLogs(logs) == Cardinality({l \in logs : l.addr = "venue"})

VerdictOf(pull, pay, jit) == IF Null \in {pull, pay} THEN IF jit THEN "unproven" ELSE "not_jit"
                             ELSE IF pull.idx < pay.idx THEN "in_order" ELSE "out_of_order"
FairMatches(priced, agrees) == IF priced THEN agrees ELSE Null

\* reads: whether the token, the sleeve, the venue and the print answered.
ReadWalk(found, succeeded, logs, reads, agrees) ==
    LET rcpt == PickReceipt(logs)
        pay == IF reads.token THEN PickPay(logs, "seller", rcpt.value) ELSE Null
        pull == IF reads.sleeve THEN PickPull(logs, pay) ELSE Null
    IN IF ~found \/ ~succeeded \/ rcpt = Null THEN [status |-> "pending"]
       ELSE [status |-> "ok", verdict |-> VerdictOf(pull, pay, rcpt.jit),
             fair |-> FairMatches(reads.print, agrees), jit |-> rcpt.jit,
             venue |-> IF reads.venue /\ reads.sleeve THEN PickVenueWithdraw(logs, pay) ELSE Null,
             steps |-> <<IF reads.print /\ ~agrees THEN "bad" ELSE IF reads.print THEN "ok" ELSE "none",
                         IF pull # Null THEN "ok" ELSE IF rcpt.jit THEN "bad" ELSE "warn",
                         IF pay # Null THEN "ok" ELSE "none", "ok">>]

----------------------------------------------------------------------------
(* The routes over these reads (app/api/float).  They answer 200 with the  *)
(* reading's own status; only a malformed question is refused.             *)

ClassifyRoute(wellFormed, data) == IF wellFormed THEN [status |-> 200, live |-> data # "pending"] ELSE [status |-> 422, live |-> FALSE]
WalkRoute(isHash, data) == IF isHash THEN [status |-> 200, live |-> data.status = "ok"] ELSE [status |-> 422, live |-> FALSE]
LiveRoute(data) == [status |-> 200, live |-> data.status = "ok"]
QueueRoute(answered, body) ==
    IF ~answered THEN [live |-> FALSE, status |-> "pending", checkpoints |-> {}]
    ELSE [live |-> TRUE, status |-> IF body.status = "ok" THEN "ok" ELSE "pending", checkpoints |-> body.checkpoints]

\* The narrator: only the walk's facts go in, and only prose comes out.
Printable(said) == said.text # "" /\ {"figure", "em dash", "jargon"} \intersect said.has = {}
ExplainRoute(configured, isHash, walk, remembered, said) ==
    IF ~configured THEN "no narrator" ELSE IF ~isHash THEN "422"
    ELSE IF walk.status # "ok" THEN "unread" ELSE IF remembered # Null THEN remembered
    ELSE IF said # Null /\ ~said.declined /\ Printable(said) THEN said.text ELSE "dropped"
FactsOf(walk) == {<<"fair", walk.fair>>, <<"jit", walk.jit>>, <<"order", walk.verdict>>}
Remember(memo, key, text) ==
    LET kept == IF Len(memo) >= SaidMax THEN Tail(memo) ELSE memo IN Append(kept, [key |-> key, text |-> text])

\* The gate of the vault: all nine reads or no answer, and a minute's memo.
GateRoute(config, memo, t, allRead) ==
    IF config.status # "ok" THEN "pending"
    ELSE IF memo # Null /\ t - memo.at < MemoFor THEN "memo" ELSE IF allRead THEN "read" ELSE "pending"
GateVerdict(g) ==
    LET outstanding == {what \in {"paused", "approver is owner", "registrar is owner", "keeper is approver",
                                  "keeper is registrar", "unbound"} :
                          CASE what = "paused" -> g.paused
                            [] what = "approver is owner" -> g.approver = g.owner
                            [] what = "registrar is owner" -> g.registrar = g.owner
                            [] what = "keeper is approver" -> g.keeper = g.approver
                            [] what = "keeper is registrar" -> g.keeper = g.registrar /\ g.keeper # g.approver
                            [] what = "unbound" -> g.binding = Null}
    IN [armed |-> outstanding = {}, outstanding |-> outstanding, bound |-> g.binding # Null,
        ungoverned |-> 4 + (IF g.reserve = Null THEN 1 ELSE 0) + (IF g.keeper = g.owner THEN 1 ELSE 0)]

----------------------------------------------------------------------------

Next ==
    \/ \E a \in {-1, 1} : Rebalance(a)
    \/ \E d \in {0, 1} : Earn(d)
    \/ AskYield
    \/ \E throttled \in BOOLEAN : ValueYield(throttled)
    \/ ValueUnread
    \/ \E refused \in {Null} \union 0..(MaxPages - 1) : WalkYield(refused)

Spec == Init /\ [][Next]_vars

----------------------------------------------------------------------------
(* Properties.                                                             *)

\* A gain that is shown is wrong by exactly what the keeper moved between the
\* head the logs were read at and the mark: nothing else (a refused page, a
\* page budget that ran out, a throttled read, an old memo) may bend it
\* (floatOnchain.ts:945-1077, floatYield.ts:35-45).
GainErrsByItsRace ==
    told # Null /\ told.accrued # Null =>
        told.accrued - told.gain =
            Sum(sleeve.moves, {k \in DOMAIN sleeve.moves : sleeve.moves[k].block > told.head /\ sleeve.moves[k].block <= told.valued})

\* The gain shown is a floor on what was earned (floatYield.ts:18-22).  The
\* code does not keep it: money parked between the two reads is in the mark
\* and not in the basis.
GainIsAFloor == told # Null /\ told.accrued # Null => told.accrued <= told.gain

\* What one transaction of the vault proves about its order: never "out of
\* order", and "in order" exactly when the pull and the payment could be read
\* (floatOnchain.ts:1092-1250, floatWalk.ts:32-82).
WalkTellsTheOrder(tx) ==
    LET walk == ReadWalk(TRUE, TRUE, tx.logs, tx.reads, TRUE)
    IN /\ walk.verdict # "out_of_order"
       /\ walk.verdict = "in_order" <=>
            tx.reads.token /\ tx.reads.sleeve /\ \E l \in tx.logs : l.addr = "sleeve" /\ l.name = "Pulled"
       /\ walk.verdict = "not_jit" => ~walk.jit

\* An unread field of the treasury is absent, never a value, and a sleeve is
\* said not to be live only on the chain's word; a throttled field says so
\* (floatOnchain.ts:183-194 and 257-407, float.ts:340-346).
UnreadIsAbsent(r, v) ==
    LET s == VaultState(r, v)
    IN s.status = "ok" =>
         /\ \A f \in Fields : f \in DOMAIN s.shown <=> r[f] = "ok"
         /\ s.working = Null => r.working = "no" \/ (r.working = "ok" /\ (v.workingZero \/ r.workingValue = "no"))
         /\ (\E f \in Fields : r[f] = "busy") \/ r.working = "busy" => s.partial

\* No agent is shown with nothing left unless the chain said so.  The code
\* shows 0 when that read failed (floatOnchain.ts:376).
LeftIsRead(v) == \A a \in DOMAIN AgentsShown(v.agents) : AgentsShown(v.agents)[a].remaining = 0 =>
                    v.agents[a].left = "ok" /\ v.agents[a].remaining = 0
=============================================================================
