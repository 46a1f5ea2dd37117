------------------------------ MODULE FloatPages ------------------------------
(***************************************************************************)
(* The treasury's pages as a reader meets them: the ladder a visitor       *)
(* drives (components/float/Ladder.tsx), the one payment drawn from its    *)
(* own logs and the run that asks the chain again (lib/floatOne.ts,        *)
(* components/float/OnePayment3D.tsx), the guest join (app/float/join, its *)
(* two routes and the press they call), and the panels around them.        *)
(*                                                                         *)
(* Unread is a field the chain did not answer (JavaScript's undefined),    *)
(* Null one it answered with nothing. Money is in whole units.             *)
(***************************************************************************)
EXTENDS Integers, Sequences, FiniteSets, FiniteSetsExt, SequencesExt

CONSTANTS Null, Unread,
          UnitPrice, Threshold, Band,     \* the vault's print and policy, in the model's units
          Quotes, UnitsAsked, UnitsFair,  \* what the sliders reach; the presets' units
          Payments, Jit,                  \* transactions a tape may list; those that pulled from a sleeve
          Wallets, MaxSteps               \* a join's wallets; bound of the instance

VARIABLES panel,   \* the ladder: [controls, settled, answer, walk, key, sel, preset, sound]
          scene,   \* [newest, walk, heard, reading, receipts, step, order, gate, asked, about]
          join,    \* [agent, phase, ctx, open, reason, budget]
          press,   \* the press's side of a join: [bound, spent, issued, minted]
          steps    \* the bound

vars == <<panel, scene, join, press, steps>>

----------------------------------------------------------------------------
(* lib/floatLadder.ts                                                      *)

Rungs == 1 .. 12
EscalationCode == 11
ParseDenialCode(raw) == IF raw \in 0 .. 12 THEN raw ELSE Null
Escalates(code) == code = EscalationCode
RungState(rung, code) ==
    CASE code = Null -> "dim"
      [] code = 0 \/ (code # Null /\ rung < code) -> "passed"
      [] rung > code -> "dim"
      [] OTHER -> IF Escalates(code) THEN "lit" ELSE "blocked"
WalkedState(rung, code, walk) ==
    IF code = Null THEN "running" ELSE IF rung > walk THEN "queued" ELSE RungState(rung, code)
StoppedAt(code) == IF code \in {Null, 0} THEN Null ELSE code
ClearedCount(code) == IF code = Null THEN 0 ELSE IF code = 0 THEN 12 ELSE code - 1
RungSymbol(paint) ==
    CASE paint = "passed" -> "tick" [] paint = "blocked" -> "cross" [] paint = "lit" -> "bolt" [] OTHER -> "dot"
BandCeiling(fair, band) == IF fair = Null \/ band = Null THEN Null ELSE IF fair <= 0 \/ band < 0 THEN Null ELSE (fair * (100 + band)) \div 100
Headroom(cap, spent) == IF Null \in {cap, spent} THEN Null ELSE Max({0, cap - spent})
AtOrOverThreshold(quote, threshold) == threshold > 0 /\ quote >= threshold

(* components/float/Ladder.tsx                                             *)

Controls == [quote : Quotes, units : UnitsAsked, agent : {"enrolled", "nobody"}, stranger : BOOLEAN]
Request(c) == c
\* The vault's `classify` for these controls: its rungs in their order.
Classify(c) ==
    LET fair == c.units * UnitPrice IN
    [of |-> c, fair |-> IF c.units > 0 /\ c.agent = "enrolled" /\ ~c.stranger THEN fair ELSE 0,
     code |-> CASE c.agent = "nobody" -> 2 [] c.stranger -> 4 [] c.units = 0 -> 6
                [] c.quote > BandCeiling(fair, Band) -> 10
                [] AtOrOverThreshold(c.quote, Threshold) -> EscalationCode [] OTHER -> 0]
Code == IF panel.answer = Null THEN Null ELSE ParseDenialCode(panel.answer.code)
Fair == IF panel.answer = Null THEN 0 ELSE panel.answer.fair
WalkKey(answer) == IF answer = Null THEN Null ELSE <<answer.code, answer.of.quote, answer.fair>>
\* `fair` is the last answer's, `units` the slider's of this moment.
ParkUnits == IF Fair > 0 /\ panel.controls.units > 0
             THEN (Threshold * panel.controls.units + Fair - 1) \div Fair ELSE UnitsFair
Presets == LET base == IF Fair > 0 THEN Fair ELSE 1 IN
    [fair |-> [quote |-> base, units |-> UnitsFair],
     over |-> [quote |-> base * 3, units |-> UnitsFair],
     park |-> [quote |-> Threshold, units |-> ParkUnits]]
Turn(c) == /\ steps < MaxSteps /\ c # panel.controls
           /\ panel' = [panel EXCEPT !.controls = c, !.preset = FALSE]
           /\ steps' = steps + 1 /\ UNCHANGED <<scene, join, press>>
Apply(name) ==
    /\ steps < MaxSteps
    /\ panel' = [panel EXCEPT !.controls.quote = Presets[name].quote, !.controls.units = Presets[name].units,
                              !.preset = (name = "park"),
                              !.sound = panel.answer # Null /\ panel.answer.of = panel.controls]
    /\ steps' = steps + 1 /\ UNCHANGED <<scene, join, press>>
Debounce == /\ panel.settled # panel.controls
            /\ panel' = [panel EXCEPT !.settled = panel.controls]
            /\ UNCHANGED <<scene, join, press, steps>>
\* The read is keyed by the settled controls; until it lands the last verdict
\* stays. The walk and the selection start again with another key.
VerdictLands ==
    LET answer == Classify(Request(panel.settled)) IN
    /\ panel.answer # answer
    /\ panel' = IF WalkKey(answer) = panel.key THEN [panel EXCEPT !.answer = answer]
                ELSE [panel EXCEPT !.answer = answer, !.key = WalkKey(answer), !.walk = 0,
                                   !.sel = IF StoppedAt(answer.code) = Null THEN 1 ELSE StoppedAt(answer.code)]
    /\ UNCHANGED <<scene, join, press, steps>>
\* Seventy milliseconds a rung, drawn by the model in strides of four.
WalkTick == /\ Code # Null /\ panel.walk < 12
            /\ panel' = [panel EXCEPT !.walk = @ + 4] /\ UNCHANGED <<scene, join, press, steps>>
Select(rung) == /\ panel.sel # rung /\ steps < MaxSteps
                /\ panel' = [panel EXCEPT !.sel = rung] /\ steps' = steps + 1 /\ UNCHANGED <<scene, join, press>>
PaintWord(paint) ==
    CASE paint = "passed" -> "cleared" [] paint = "blocked" -> "stopped here" [] paint = "lit" -> "parked for a person"
      [] paint = "running" -> "still asking" [] paint = "queued" -> "not run yet" [] OTHER -> "never reached"
Rail == [rung \in Rungs |-> PaintWord(WalkedState(rung, Code, panel.walk))]
\* The sentence of the opened rung: what the reader can check it against.
RungWhy(rung, vault) ==
    CASE rung = 1 -> vault.paused [] rung = 2 -> panel.controls.agent = "enrolled"
      [] rung = 4 -> panel.controls.stranger [] rung = 6 -> panel.controls.units [] rung = 7 -> Fair > 0
      [] rung = 8 -> vault.maxAge [] rung = 10 -> <<panel.controls.quote, BandCeiling(Fair, Band)>>
      [] rung = 11 -> <<panel.controls.quote, Threshold>> [] rung = 12 -> Headroom(vault.cap, vault.spent)
      [] OTHER -> "only the vault knows"
Verdict == [said |-> IF Code = Null THEN "no answer from the vault yet" ELSE IF Code = 0 THEN "cleared" ELSE "stopped",
            before |-> Min({ClearedCount(Code), panel.walk}),
            chip |-> IF panel.sel # StoppedAt(Code) THEN Null ELSE IF Escalates(Code) THEN "gold" ELSE "breach"]

----------------------------------------------------------------------------
(* lib/floatOne.ts                                                         *)

FirstPaid(rows) == SelectInSeq(rows, LAMBDA r : r.kind = "paid")
BeatKeys == <<"ask", "fair", "venue", "pull", "pay", "receipt">>
Script == [i \in DOMAIN BeatKeys |-> [key |-> BeatKeys[i], log |-> Null, state |-> "warn"]]
\* Real gaps between logs, over the span: one log, or none, has no gap.
Height(log, logs) == IF log = Null THEN Null ELSE <<log - Min(logs), Max(logs) - Min(logs)>>
\* A payment's logs: the venue's, the sleeve's, the seller's and the receipt's.
LogOf(tx, key) ==
    CASE key \in {"ask", "fair"} -> Null
      [] key \in {"venue", "pull"} /\ tx \notin Jit -> Null
      [] key = "venue" -> 29 [] key = "pull" -> 30 [] key = "pay" -> 32 [] OTHER -> 33
BeatsFrom(tx) ==
    LET logs == {LogOf(tx, BeatKeys[i]) : i \in DOMAIN BeatKeys} \ {Null} IN
    [i \in DOMAIN BeatKeys |->
        [key |-> BeatKeys[i], log |-> LogOf(tx, BeatKeys[i]), height |-> Height(LogOf(tx, BeatKeys[i]), logs),
         state |-> IF BeatKeys[i] = "ask" \/ LogOf(tx, BeatKeys[i]) # Null THEN "ok" ELSE "none"]]
Column(key) == CASE key = "ask" -> "agent" [] key \in {"fair", "receipt"} -> "treasury"
                 [] key = "venue" -> "venue" [] key = "pull" -> "sleeve" [] OTHER -> "seller"
Plane(column) == CASE column = "agent" -> "off" [] column = "venue" -> "outside" [] OTHER -> "money"
PointOf(b) == IF b.height = Null THEN Null ELSE <<Column(b.key), b.height, Plane(Column(b.key))>>
RunOrder(beats, jit) ==
    SelectSeq([i \in DOMAIN beats |-> beats[i]], LAMBDA b : /\ b.key = "venue" => b.log # Null
                                                            /\ b.key = "pull" => jit)
LitAt(order, step) == {order[i].key : i \in 1 .. Min({Len(order), Max({0, step + 1})})}
\* What a page without a walk shows: the script, and why.
Scripted(s) == [status |-> IF s.receipts \notin {Unread, 0} THEN "none-in-window" ELSE "none-ever", tx |-> Null]
\* Mutant: the scene follows the tape.
OnePaymentOfTheTape(s) ==
    IF s.newest = Null THEN Scripted(s)
    ELSE IF s.reading \/ s.walk = Null THEN [status |-> "reading", tx |-> Null]
    ELSE IF s.walk \notin Payments THEN Scripted(s)
    ELSE [status |-> "live", tx |-> s.walk]

\* The walk is the evidence, the tape only how it was found; a walk that was
\* answered "pending" is evidence of nothing.
OnePayment(s) ==
    IF s.newest # Null /\ (s.reading \/ s.walk = Null) THEN [status |-> "reading", tx |-> Null]
    ELSE IF s.walk \notin Payments THEN Scripted(s)
    ELSE [status |-> "live", tx |-> s.walk]
One == OnePayment(scene)
Order(tx) == IF tx = Null THEN <<>> ELSE RunOrder(BeatsFrom(tx), tx \in Jit)

(* lib/useLive.ts useOnePayment: the tape's newest paid row keys the walk; *)
(* what is shown stays until the new key has an answer of its own.  `heard` *)
(* is the answer kept for each key: Unread before it was ever asked for,   *)
(* Null while none has come, a walk, or "pending".                         *)

TapePolls(tx) ==
    LET kept == IF tx = Null THEN Null ELSE scene.heard[tx] IN
    /\ scene.newest # tx /\ steps < MaxSteps
    /\ scene' = [scene EXCEPT !.newest = tx, !.reading = (tx # Null /\ kept \in {Unread, Null}),
                              !.walk = IF kept \in {Unread, Null} THEN @ ELSE kept,
                              !.heard = IF kept = Unread THEN [@ EXCEPT ![tx] = Null] ELSE @]
    /\ steps' = steps + 1 /\ UNCHANGED <<panel, join, press>>
\* readWalk and its route: a receipt the node did not give is a "pending" with
\* HTTP 200, whichever way it was lost. It is kept like any other answer, and
\* one that comes for a key the page has left is kept for that key alone.
WalkAnswers(tx, answer) ==
    /\ scene.heard[tx] = Null \/ (tx = scene.newest /\ scene.heard[tx] # Unread)
    /\ scene' = IF tx = scene.newest THEN [scene EXCEPT !.heard[tx] = answer, !.walk = answer, !.reading = FALSE]
                ELSE [scene EXCEPT !.heard[tx] = answer]
    /\ UNCHANGED <<panel, join, press, steps>>
\* The first answer of a key, or one that the same key is asked for again: by
\* a reader who comes back to the window.
WalkLands(tx) == WalkAnswers(tx, tx)
WalkIsPending(tx) == WalkAnswers(tx, "pending")
\* The route itself does not answer: what was shown is shown, and asked again.
WalkFails == /\ scene.newest # Null /\ scene.reading
             /\ scene' = [scene EXCEPT !.reading = FALSE] /\ UNCHANGED <<panel, join, press, steps>>
WalkRetries == /\ scene.newest # Null /\ ~scene.reading /\ scene.heard[scene.newest] = Null
               /\ scene' = [scene EXCEPT !.reading = TRUE] /\ UNCHANGED <<panel, join, press, steps>>
VaultAnswers(n) == /\ scene.receipts # n /\ steps < MaxSteps
                   /\ scene' = [scene EXCEPT !.receipts = n] /\ steps' = steps + 1 /\ UNCHANGED <<panel, join, press>>

(* components/float/OnePayment3D.tsx: the run                              *)

Walking == scene.step >= 2 /\ scene.step < Len(Order(One.tx)) - 1
Busy == scene.gate = "asking" \/ Walking
\* The vault still lists the agent of every payment, so the request is whole.
Run == /\ One.status = "live" /\ ~Busy /\ steps < MaxSteps
       /\ scene' = [scene EXCEPT !.gate = "asking", !.step = 0, !.asked = One.tx, !.order = <<>>]
       /\ steps' = steps + 1 /\ UNCHANGED <<panel, join, press>>
\* The quote echoed is compared with the request's own, and the interval walks
\* the order of the render the press was made in.
GateAnswers(code) ==
    /\ scene.gate = "asking"
    /\ scene' = CASE code = Null -> [scene EXCEPT !.gate = "unreadable"]
                  [] code = 0 -> [scene EXCEPT !.gate = "allowed", !.step = 1, !.about = scene.asked, !.order = Order(scene.asked)]
                  [] OTHER -> [scene EXCEPT !.gate = "refused", !.step = 1, !.about = scene.asked]
    /\ UNCHANGED <<panel, join, press, steps>>
StepTick == /\ scene.gate = "allowed" /\ scene.order # <<>> /\ scene.step < Len(scene.order) - 1
            /\ scene' = [scene EXCEPT !.step = @ + 1] /\ UNCHANGED <<panel, join, press, steps>>
SceneShows == [payment |-> One.tx, chip |-> scene.gate, lit |-> LitAt(Order(One.tx), scene.step)]

----------------------------------------------------------------------------
(* app/api/float/idkit: the routes of the join, and the press behind them  *)

IsAgentAddress(agent) == agent \in Wallets
StoodDown(reason) == [status |-> "pending", reason |-> reason, nonce |-> Null]
\* The settings are checked in turn, the request is signed, and the press must
\* have recorded nonce and wallet before the request is handed out.
Setup == {"rp id", "app id", "action", "signing key", "public key", "signature", "whole"}
ContextRoute(setup, answer) ==
    IF setup # "whole" THEN StoodDown(setup)
    ELSE IF answer # "ok" THEN StoodDown(answer)
    ELSE [status |-> "ok", reason |-> Null, nonce |-> press.minted + 1]
\* The press's claim: the nonce is spent by the first use, one budget a person.
Refused(why) == [ok |-> FALSE, reason |-> why, claim |-> Null]
GuestClaim(nonce) ==
    IF nonce \notin DOMAIN press.bound \/ nonce \in press.spent THEN Refused("unknown_or_expired_request")
    ELSE IF press.issued # {} THEN Refused("one_guest_budget_per_human")
    ELSE [ok |-> TRUE, reason |-> Null, claim |-> press.bound[nonce]]
\* What the page reads: a budget, a named refusal, or that none came.
ClaimRoute(reached, lost, answer) ==
    IF ~reached THEN Refused("unreachable") ELSE IF lost THEN Refused("did not answer in time") ELSE answer

(* app/float/join/view.tsx                                                 *)

Refuse(why) == [join EXCEPT !.phase = "refused", !.reason = why]
\* The visitor types the wallet; the field stays open while a request is minted.
Type(agent) == /\ join.phase \in {"ask", "minting"} /\ join.agent # agent /\ steps < MaxSteps
               /\ join' = [join EXCEPT !.agent = agent] /\ steps' = steps + 1 /\ UNCHANGED <<panel, scene, press>>
Begin == /\ join.phase = "ask" /\ IsAgentAddress(join.agent)
         /\ join' = [join EXCEPT !.phase = "minting", !.asked = join.agent]
         /\ UNCHANGED <<panel, scene, press, steps>>
\* `recorded`: whether the press kept the pair, whatever its answer was.
ContextAnswers(setup, answer, recorded) ==
    LET ctx == ContextRoute(setup, answer) IN
    /\ join.phase = "minting" /\ press.minted < MaxSteps
    /\ answer = "ok" => recorded
    /\ join' = IF ctx.status = "ok" THEN [join EXCEPT !.phase = "open", !.ctx = ctx, !.open = TRUE]
               ELSE [join EXCEPT !.phase = "open", !.ctx = ctx]
    /\ press' = IF setup # "whole" THEN press
                ELSE [press EXCEPT !.minted = @ + 1,
                                   !.bound = IF recorded THEN [n \in DOMAIN @ \union {press.minted + 1} |->
                                                 IF n \in DOMAIN @ THEN @[n] ELSE join.asked] ELSE @]
    /\ UNCHANGED <<panel, scene, steps>>
ContextFails == /\ join.phase = "minting" /\ join' = Refuse("could not start a join")
                /\ UNCHANGED <<panel, scene, press, steps>>
CloseWidget == join.open /\ join' = [join EXCEPT !.open = FALSE] /\ UNCHANGED <<panel, scene, press, steps>>
WidgetError == join.open /\ join' = Refuse("widget") /\ UNCHANGED <<panel, scene, press, steps>>
Prove == /\ join.open /\ join.phase = "open" /\ join' = [join EXCEPT !.open = FALSE, !.phase = "claiming"]
         /\ UNCHANGED <<panel, scene, press, steps>>
\* The proof is sent once: the press acts or not, and its answer may be lost.
ClaimLands(reached, lost) ==
    LET answer == GuestClaim(join.ctx.nonce)
        heard == ClaimRoute(reached, lost, answer) IN
    /\ join.phase = "claiming"
    /\ join' = IF heard.ok THEN [join EXCEPT !.phase = "issued", !.budget = heard.claim] ELSE Refuse(heard.reason)
    /\ press' = IF ~reached THEN press
                ELSE [press EXCEPT !.spent = @ \union {join.ctx.nonce},
                                   !.issued = IF answer.ok THEN @ \union {answer.claim} ELSE @]
    /\ UNCHANGED <<panel, scene, steps>>
Reload == /\ join.phase \notin {"ask", "minting"} /\ steps < MaxSteps
          /\ join' = [agent |-> Null, asked |-> Null, phase |-> "ask", ctx |-> Null, open |-> FALSE, reason |-> Null, budget |-> Null]
          /\ steps' = steps + 1 /\ UNCHANGED <<panel, scene, press>>
StandingDown == join.phase = "open" /\ join.ctx.status = "pending"
JoinShows == CASE join.phase \in {"ask", "minting"} -> "the form" [] StandingDown -> "withdrawn"
               [] join.open -> "the widget" [] join.phase = "claiming" -> "asking the chain"
               [] join.phase = "issued" -> join.budget [] join.phase = "refused" -> join.reason [] OTHER -> Null

----------------------------------------------------------------------------
(* The panels: pure in what the vault's read brought (a record of fields,  *)
(* each Unread when the chain did not answer it)                           *)

ValueOf(sleeve) == IF sleeve \in {Unread, Null} THEN 0 ELSE sleeve
\* lib/float.ts: the vault's pull order, buffer then working then reserve.
DrawSplit(draw, buffer, working, reserve) ==
    LET want == Min({Max({draw, 0}), buffer + working + reserve})
        shortfall == Max({0, want - buffer}) IN
    [want |-> want, fromBuffer |-> Min({want, buffer}), fromWorking |-> Min({shortfall, working}),
     fromReserve |-> Min({Max({0, shortfall - working}), reserve})]
MeterRow(value, taken) == [left |-> value - Min({Max({taken, 0}), value}), gone |-> Min({Max({taken, 0}), value})]
VaultMeter(v, draw) ==
    LET d == DrawSplit(draw, ValueOf(v.buffer), ValueOf(v.working), ValueOf(v.reserve)) IN
    [buffer |-> MeterRow(ValueOf(v.buffer), d.fromBuffer),
     working |-> IF v.working \in {Unread, Null} THEN Null ELSE MeterRow(v.working, d.fromWorking),
     reserve |-> IF v.reserve = Unread THEN Null ELSE MeterRow(ValueOf(v.reserve), d.fromReserve),
     notLive |-> v.reserve = Null, notAnswered |-> Unread \in {v.reserve, v.working},
     said |-> IF d.want <= 0 THEN "idle" ELSE IF d.fromWorking + d.fromReserve = 0 THEN "buffer" ELSE "pull"]
PremiumPct(quote, fair) == IF fair <= 0 THEN Null ELSE ((quote - fair) * 100) \div fair

Holds(sleeve) == IF sleeve = Unread THEN "unread" ELSE IF sleeve = Null THEN "never" ELSE sleeve
GateChip(open) == IF open = Null THEN "?" ELSE IF open THEN "ok" ELSE "shut"
WhoTouches(v, gate, venue) ==
    [agent |-> "never", seller |-> "holds", working |-> Holds(v.working), reserve |-> Holds(v.reserve), venue |-> Holds(venue.value),
     vault |-> IF v.buffer = Unread THEN (IF v.partial THEN "unread" ELSE "holds") ELSE v.buffer,
     gates |-> [g \in DOMAIN venue.gates |-> GateChip(venue.gates[g])],
     approverIsOwner |-> gate # Null /\ gate.approver = gate.owner, unbound |-> gate # Null /\ ~gate.bound]

\* A door that answered "no" outranks one that did not answer.
GatesSay(gates) == LET marks == {gates[g] : g \in DOMAIN gates} IN
    IF FALSE \in marks THEN "closed" ELSE IF Null \in marks THEN "unread" ELSE "open"
FeesSay(pf, mf) == IF Null \in {pf, mf} THEN "unread" ELSE IF pf = 0 /\ mf = 0 THEN "free" ELSE "charged"
GainSays(live, gain) == IF ~live THEN "not read" ELSE IF gain = Null THEN "withheld" ELSE IF gain = 0 THEN "not yet" ELSE gain
ReserveShareBps(share) == IF share = Unread THEN Null ELSE Max({0, Min({100, 100 - share})})
PreviewDeposit(assets, nav) == IF nav = Null THEN Null ELSE IF nav <= 0 THEN Null ELSE IF assets <= 0 THEN 0 ELSE (assets * 10) \div nav
PreviewRedeem(shares, nav, fee) ==
    IF Null \in {nav, fee, shares} THEN Null ELSE IF nav <= 0 \/ fee < 0 THEN Null ELSE IF shares <= 0 THEN 0
    ELSE LET gross == (shares * nav) \div 10 IN gross - (gross * fee) \div 100
\* The stand-in fund: what goes in, and what would come back.
Bench(fund, put) == IF ~fund.sleeve THEN Null
    ELSE [shares |-> PreviewDeposit(put, fund.nav), back |-> PreviewRedeem(PreviewDeposit(put, fund.nav), fund.nav, fund.fee)]
RefusalSays(fund) == IF fund.refused = Null THEN Null ELSE IF ~fund.refused THEN "accepted"
    ELSE IF fund.control = Null THEN "refused" ELSE IF fund.control THEN "refused like a stranger" ELSE "refused by itself"
SlotIsEmpty(slot) == slot = "zero"
SlotSays(slot) == IF slot = Unread THEN Null ELSE IF SlotIsEmpty(slot) THEN "no venue" ELSE "a venue not described"
YieldPanel(v, earned, fund) ==
    [gain |-> GainSays(earned.live, earned.gain), gates |-> GatesSay(earned.gates), fees |-> FeesSay(earned.pf, earned.mf),
     reserve |-> IF v.reserve # Null THEN Null
                 ELSE [bench |-> Bench(fund, v.total), refusal |-> RefusalSays(fund), slot |-> SlotSays(v.slot), share |-> ReserveShareBps(v.share)]]

Wad(raw) == IF raw = Null THEN Null ELSE IF raw > 0 THEN raw ELSE Null
BundlesFor(total, price) == IF price \div 10 <= 0 THEN Null ELSE total \div (price \div 10)
ScaledPrice(price, pct) == IF pct <= 0 \/ (price * pct) \div 100 <= 0 THEN Null ELSE (price * pct) \div 100
Cheapest(prints) == LET priced == {i \in DOMAIN prints : Wad(prints[i]) # Null} IN
    IF priced = {} THEN Null ELSE CHOOSE i \in priced : \A j \in priced : prints[i] < prints[j] \/ (prints[i] = prints[j] /\ i <= j)
PriceRow(total, raw, pct) == IF Wad(raw) = Null THEN Null ELSE IF ScaledPrice(raw, pct) = Null THEN Null ELSE BundlesFor(total, ScaledPrice(raw, pct))
Runway(v, pct) ==
    IF ValueOf(v.total) = 0 THEN "empty"
    ELSE IF v.prints = Unread THEN "not answered"
    ELSE IF Cheapest(v.prints) = Null THEN "not printed"
    ELSE [cheapest |-> Cheapest(v.prints), rows |-> [i \in DOMAIN v.prints |-> PriceRow(v.total, v.prints[i], pct)]]

\* components/float/Walk.tsx and Tape.tsx: only a paid row opens, one at a time.
WalkWord(n, state, fairMatches, log, jit) ==
    IF n = 1 THEN (IF fairMatches = Null THEN "not found" ELSE IF fairMatches THEN "matches" ELSE "differs")
    ELSE IF log = Null THEN (IF n = 2 THEN (IF jit THEN "no pull found" ELSE "the buffer covered it") ELSE "absent") ELSE state
TapeRow(row, open) == [premium |-> IF row.premium = Null THEN "..." ELSE row.premium,
                       word |-> IF row.kind = "paid" THEN Null ELSE row.reason, walk |-> row.kind = "paid" /\ open]
Flash(seen, newest) == IF newest = Null THEN [seen |-> seen, fresh |-> Null]
                       ELSE [seen |-> newest, fresh |-> IF seen \in {Null, newest} THEN Null ELSE newest]

\* The pages: who asked, who answered, and which sentence that leaves.
FloatView(asked, live, wrong, status) ==
    IF ~asked THEN "asking" ELSE IF wrong THEN "not on this chain" ELSE IF ~live THEN "unreachable" ELSE IF status = "ok" THEN "the treasury" ELSE Null
ApproveView(asked, live, status, parked) ==
    IF ~asked THEN "asking" ELSE IF ~live THEN "unreachable" ELSE IF status = "pending" THEN "no gate here"
    ELSE IF parked = 0 THEN "nothing waits" ELSE "parked"
SecondsLeft(expires, now, fetched) == Max({0, expires - (IF now > 0 /\ fetched > 0 THEN Max({0, now - fetched}) ELSE 0)})
Parked(c, now, fetched) == [left |-> SecondsLeft(c.expires, now, fetched), over |-> PremiumPct(c.quote, c.fair),
                            code |-> IF c.status \in {"open", "claimed"} THEN c.code ELSE Null]
WorldGatePanel(gate) == IF gate = Null THEN "not read" ELSE IF gate.bound /\ gate.approver # gate.owner THEN "armed" ELSE "not armed"
WorldIssuerPanel(d) == IF d = Null THEN "not read" ELSE IF d.missing = {} THEN "advertised" ELSE d.missing

----------------------------------------------------------------------------
Init ==
    /\ LET c == [quote |-> 1, units |-> UnitsFair, agent |-> "enrolled", stranger |-> FALSE] IN
       panel = [controls |-> c, settled |-> c, answer |-> Null, walk |-> 12, key |-> Null, sel |-> 1, preset |-> FALSE, sound |-> FALSE]
    /\ scene = [newest |-> Null, walk |-> Null, heard |-> [tx \in Payments |-> Unread],
                reading |-> FALSE, receipts |-> Unread,
                step |-> -1, order |-> <<>>, gate |-> "idle", asked |-> Null, about |-> Null]
    /\ join = [agent |-> Null, asked |-> Null, phase |-> "ask", ctx |-> Null, open |-> FALSE, reason |-> Null, budget |-> Null]
    /\ press = [bound |-> [n \in {} |-> Null], spent |-> {}, issued |-> {}, minted |-> 0]
    /\ steps = 0

LadderNext ==
    \/ \E c \in Controls : Turn(c)
    \/ \E name \in {"fair", "over", "park"} : Apply(name)
    \/ Debounce \/ VerdictLands \/ WalkTick
    \/ \E rung \in {1, 10} : Select(rung)
SceneNext ==
    \/ \E tx \in Payments \union {Null} : TapePolls(tx)
    \/ \E tx \in Payments : WalkLands(tx) \/ WalkIsPending(tx)
    \/ WalkFails \/ WalkRetries
    \/ \E n \in {0, 1, Unread} : VaultAnswers(n)
    \/ Run
    \/ \E code \in {Null, 0, 10} : GateAnswers(code)
    \/ StepTick
JoinNext ==
    \/ \E agent \in Wallets : Type(agent)
    \/ Begin
    \/ \E setup \in Setup, answer \in {"ok", "refused", "silent"}, recorded \in BOOLEAN : ContextAnswers(setup, answer, recorded)
    \/ ContextFails \/ CloseWidget \/ WidgetError \/ Prove
    \/ \E reached, lost \in BOOLEAN : ClaimLands(reached, lost)
    \/ Reload
Next == LadderNext \/ SceneNext \/ JoinNext

Spec == Init /\ [][Next]_vars

----------------------------------------------------------------------------
\* The join gives a budget to the wallet it was asked for: a widget a visitor
\* can prove in stands on a pair the press recorded (context/route.ts: why it
\* binds before it answers), a budget on the screen is the one the press issued
\* for that wallet, and a person never holds two, however often the page is
\* reloaded and whichever answers are lost.
JoinKeepsItsWallet ==
    /\ join.open => /\ join.ctx.nonce \in DOMAIN press.bound
                    /\ press.bound[join.ctx.nonce] = join.asked
    /\ join.phase = "issued" => join.budget = join.asked /\ join.budget \in press.issued
    /\ Cardinality(press.issued) <= 1

\* Once a payment's logs were walked the scene goes back to the script for one
\* reason only: the newest payment's own walk was answered "pending". The tape
\* that moves past every payment, a key that has no answer yet, a walk that
\* failed and the vault's counter never do it (lib/floatOne.ts: the walk is the
\* evidence, the tape is only how it was found).
StaysOffTheScript ==
    scene.walk \in Payments /\ One'.status \in {"none-ever", "none-in-window"} =>
        /\ scene'.newest # Null
        /\ scene'.heard[scene'.newest] = "pending"
NoScriptAfterAWalk == [][StaysOffTheScript]_vars

\* What the panels say of a read in which fields are missing: a sleeve the chain
\* did not answer for is neither drawn, nor called closed, nor drawn from; a
\* draw is paid in the vault's order and in full; a door that answered "no" is
\* never softened (VaultMeter.tsx, WhoTouches.tsx, Yield.tsx).
PanelsTellWhatWasRead(v, draw, gates) ==
    LET m == VaultMeter(v, draw)
        d == DrawSplit(draw, ValueOf(v.buffer), ValueOf(v.working), ValueOf(v.reserve))
        w == WhoTouches(v, Null, [value |-> Unread, gates |-> gates]) IN
    /\ v.working = Unread => m.working = Null /\ w.working = "unread" /\ m.notAnswered
    /\ v.reserve = Unread => m.reserve = Null /\ w.reserve = "unread" /\ ~m.notLive
    /\ d.want = d.fromBuffer + d.fromWorking + d.fromReserve
    /\ d.fromWorking > 0 => d.fromBuffer = ValueOf(v.buffer)
    /\ d.fromReserve > 0 => d.fromWorking = ValueOf(v.working)
    /\ \A t \in {"working", "reserve"} : v[t] = Unread => m[t] = Null \/ m[t].gone = 0
    /\ (\E g \in DOMAIN gates : gates[g] = FALSE) => GatesSay(gates) = "closed"

----------------------------------------------------------------------------
\* Not so in this code, and why: a verdict of the gate that stays on the screen
\* is one about the payment drawn. A newer payment replaces the scene; step and
\* gate keep what the run of the earlier one was told (OnePayment3D.tsx 308).
GateIsAboutThisPayment == scene.gate \in {"allowed", "refused"} /\ One.status = "live" => scene.about = One.tx
\* The preset named "park" parks: its units are the last answer's fair price
\* over the slider's own units, which have moved since (Ladder.tsx 276).
ParkParks ==
    (/\ panel.preset /\ panel.answer # Null /\ panel.answer.of = panel.controls
     /\ panel.controls.agent = "enrolled" /\ ~panel.controls.stranger /\ panel.answer.fair > 0) => Escalates(panel.answer.code)
\* With the answer of the very controls on the screen, it does.
ParkParksWhenSettled == panel.sound => ParkParks
\* What the chain has shown stays shown. A walk asked for again while the node
\* is throttled is answered "pending" with HTTP 200, replaces the walk that was
\* kept, and the script is drawn where the payment was; nothing asks again on a
\* timer (floatOne.ts 249-251, floatOnchain.ts 1104, useLive.ts 781-789).
AWalkIsNotUnshown == scene.walk \in Payments => One'.status \notin {"none-ever", "none-in-window"}
\* A page without a form says something: closing the widget leaves the phase
\* "open" with nothing drawn and no way back (join/view.tsx 352).
JoinSaysSomething == JoinShows # Null
============================================================================
