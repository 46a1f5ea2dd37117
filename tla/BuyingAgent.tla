---------------------------- MODULE BuyingAgent ----------------------------
(***************************************************************************)
(* The buyer agent (apps/agent/src): it discovers listings, may let its    *)
(* own transaction costs pick the seller, and pays query after query until *)
(* a count or a spend cap stops it.                                        *)
(*                                                                         *)
(* Abstractions.  A listing is its seller, its price and whether its       *)
(* provider is attested; the press, the tape and the wallet are what their *)
(* answers say.  Money is a number of millionths.                          *)
(***************************************************************************)
EXTENDS Integers, FiniteSetsExt, SequencesExt

CONSTANTS Listings,       \* catalogs: sequences of [seller, price, attested]
          Configs,        \* parseArgs' results: discover, requireAttested,
                          \* reroute, minBp, limit, count
          Signals,        \* what /tca/{payer} may answer
          Nobody,         \* no seller, no price, no answer
          Deposits        \* USDC the deposit command may move

VARIABLES cfg, catalog,
          agent,          \* [at, targets, i, spent, paid, decision, blind]
          moved,          \* what really left the wallet's Gateway balance
          gateway         \* [confirmed, pending] at Circle (external)

vars == <<cfg, catalog, agent, moved, gateway>>

\* parseArgs: a reroute needs the catalog that maps sellers to listings.
ValidConfig(c) == c.count >= 1 /\ c.limit > 0 /\ c.minBp >= 0 /\ (c.reroute => c.discover)

Init ==
    /\ cfg \in {c \in Configs : ValidConfig(c)}
    /\ catalog \in Listings
    /\ agent = [at |-> "targets", targets |-> <<>>, i |-> 0, spent |-> 0, paid |-> <<>>,
                decision |-> Nobody, blind |-> FALSE]
    /\ moved = 0
    /\ gateway = [confirmed |-> 0, pending |-> 0]

-----------------------------------------------------------------------------
\* Who the agent is, and on which chain it pays.

KnownChains == {5042, 5042002}
\* The chain of one variable, Arc mainnet without it; any other is refused.
AgentChain(set) == IF set = Nobody THEN 5042 ELSE IF set \in KnownChains THEN set ELSE Nobody

\* A pasted key: quotes, blanks and the prefix come off, and 64 hex digits
\* must be left.
NormalizedKey(k) == IF k.hexDigits = 64 /\ ~k.otherText THEN [k EXCEPT !.wrapped = FALSE] ELSE Nobody

MaxTtl == 900
\* A card for one audience and one chain, which claims a human only when told
\* to and lives from a second to MaxTtl.
MintCardHeader(o, now) ==
    [agent |-> o.key, chain |-> o.chain, human |-> o.human, issuedAt |-> now,
     expiresAt |-> now + Min({Max({1, o.ttl}), MaxTtl})]

\* Every request carries a fresh card; without a key, or with one that cannot
\* sign, it goes out as it was.
WithCard(o, now) ==
    IF o.key = Nobody THEN Nobody
    ELSE IF NormalizedKey(o.key) = Nobody THEN Nobody ELSE MintCardHeader(o, now)

\* Live, the payer signs its settlements and their cards with one key; a dry
\* run pays with a throwaway name.
BuildPayer(mode, key) ==
    IF mode # "live" THEN "dev" ELSE IF NormalizedKey(key) = Nobody THEN Nobody ELSE "gateway"

\* The price a challenge names, in its body or else in its header.
PriceFromChallenge(body, header) ==
    IF body # Nobody THEN body ELSE header

\* What the interop command wants of a challenge: the first thing that fails.
InteropFails(r, chain) ==
    IF r.status # 402 THEN "status" ELSE IF r.header = Nobody THEN "header"
    ELSE LET mine == {o \in r.header : o.network = chain}
         IN  IF mine = {} THEN "network"
             ELSE IF \E o \in mine : ~(o.atomic /\ o.v1Matches /\ o.gateway) THEN "option"
             ELSE IF r.body # r.header THEN "body" ELSE "none"

-----------------------------------------------------------------------------
\* Choosing what to buy.

\* Listings are told apart by their place in the catalog.
PickResources(requireAttested) ==
    SelectSeq([n \in DOMAIN catalog |-> n], LAMBDA n : ~requireAttested \/ catalog[n].attested)

\* The dearest price anything advertises, over the whole catalog.
MaxAdvertisedPrice ==
    IF catalog = <<>> THEN Nobody ELSE Max({catalog[n].price : n \in DOMAIN catalog})

\* A cost signal moves the suggested seller first and drops the worst one; a
\* small saving, a seller without a listing or no signal leave things alone.
ApplyReroute(targets, signal, minBp) ==
    LET preferred == SelectSeq(targets, LAMBDA n : catalog[n].seller = signal.to)
        rest == SelectSeq(targets, LAMBDA n : catalog[n].seller \notin {signal.to, signal.from})
        hold == [targets |-> targets, decision |-> Nobody]
    IN  IF signal = Nobody THEN hold
        ELSE IF signal.bp < minBp \/ preferred = <<>> THEN hold
        ELSE [targets |-> preferred \o rest, decision |-> signal]

Stop(why) == agent' = [agent EXCEPT !.at = why]

\* Discovery: catalog, attested listings, reroute, and the cap against the
\* dearest listing.  Without it the configured paths are bought.
Discover ==
    /\ agent.at = "targets" /\ cfg.discover
    /\ \/ Stop("no_catalog")
       \/ \E signal \in IF cfg.reroute THEN Signals ELSE {Nobody} :
            LET applied == ApplyReroute(PickResources(cfg.requireAttested), signal, cfg.minBp)
            IN  IF MaxAdvertisedPrice # Nobody /\ MaxAdvertisedPrice > cfg.limit
                THEN Stop("too_dear")
                ELSE agent' = [agent EXCEPT !.at = "preflight", !.targets = applied.targets,
                                            !.decision = applied.decision]
    /\ UNCHANGED <<cfg, catalog, moved, gateway>>

UsePaths ==
    /\ agent.at = "targets" /\ ~cfg.discover
    /\ agent' = [agent EXCEPT !.at = "preflight", !.targets = [n \in DOMAIN catalog |-> n]]
    /\ UNCHANGED <<cfg, catalog, moved, gateway>>

\* The price of the first target, from a bare 402 that may be unreadable.
PreflightPrice ==
    /\ agent.at = "preflight"
    /\ IF agent.targets = <<>> THEN Stop("nothing_to_buy")
       ELSE \/ IF catalog[agent.targets[1]].price > cfg.limit THEN Stop("too_dear")
               ELSE agent' = [agent EXCEPT !.at = "buy"]
            \/ agent' = [agent EXCEPT !.at = "buy", !.blind = TRUE]
    /\ UNCHANGED <<cfg, catalog, moved, gateway>>

-----------------------------------------------------------------------------
\* The buying loop.

Target == agent.targets[(agent.i % Len(agent.targets)) + 1]

\* The next payment is assumed to cost what the last one did.
Continues(spent, paid) == agent.i + 1 < cfg.count /\ spent + paid <= cfg.limit

\* A target that does not ask for money is read for nothing.
Pay ==
    /\ agent.at = "buy"
    /\ \E paid \in {catalog[Target].price, 0} :
         LET spent == agent.spent + paid
         IN  /\ moved' = moved + paid
             /\ agent' = [agent EXCEPT !.spent = spent, !.i = @ + 1,
                                       !.paid = Append(@, [listing |-> Target, usdc |-> paid]),
                                       !.at = IF Continues(spent, paid) THEN "buy" ELSE "done"]
    /\ UNCHANGED <<cfg, catalog, gateway>>

\* The payer throws, before or after its payment settled: the run is over.
PayThrows ==
    /\ agent.at = "buy"
    /\ moved' \in {moved, moved + catalog[Target].price}
    /\ Stop("failed")
    /\ UNCHANGED <<cfg, catalog, gateway>>

\* The summary counts what the books hold.
Summarize(results) ==
    [payments |-> Len(results), total |-> FoldSeq(LAMBDA r, sum : sum + r.usdc, 0, results)]

-----------------------------------------------------------------------------
\* The deposit command: what is sent is pending until Gateway attests it.

Deposit ==
    /\ agent.at = "targets" /\ gateway.confirmed + gateway.pending < Max(Deposits)
    /\ \E amount \in Deposits : gateway' = [gateway EXCEPT !.pending = @ + amount]
    /\ UNCHANGED <<cfg, catalog, agent, moved>>

Attest ==
    /\ gateway.pending > 0
    /\ gateway' = [confirmed |-> gateway.confirmed + gateway.pending, pending |-> 0]
    /\ UNCHANGED <<cfg, catalog, agent, moved>>

Next == Discover \/ UsePaths \/ PreflightPrice \/ Pay \/ PayThrows \/ Deposit \/ Attest

Spec == Init /\ [][Next]_vars

-----------------------------------------------------------------------------
Prices == {catalog[n].price : n \in DOMAIN catalog}

\* "Total spend cap in USDC: the loop stops before exceeding it" (config.ts).
LimitHolds == agent.spent <= cfg.limit

\* What the loop really keeps: it looks one payment ahead at the price of the
\* last one, so it may pass the cap by less than the spread of the prices; and
\* by more only when the first price could not be read beforehand.
LimitHoldsUpToTheSpread ==
    agent.spent > 0 /\ ~(agent.blind /\ ~cfg.discover) =>
        agent.spent <= cfg.limit + Max(Prices)
                         - Min({agent.paid[k].usdc : k \in DOMAIN agent.paid})

\* After a reroute the first payment goes to the suggested seller, none goes
\* to the one it was moved away from, and nothing else was dropped.
RerouteIsObeyed ==
    LET d == agent.decision
        wanted == ToSet(PickResources(cfg.requireAttested))
    IN  d # Nobody =>
          /\ agent.paid # <<>> => catalog[agent.paid[1].listing].seller = d.to
          /\ d.from # d.to => \A k \in DOMAIN agent.paid : catalog[agent.paid[k].listing].seller # d.from
          /\ {n \in wanted : catalog[n].seller # d.from} \subseteq ToSet(agent.targets)

\* Real money is in the books: all of it until the payer throws, and all but
\* the payment it threw on after that.
BooksHoldThePayments ==
    LET s == Summarize(agent.paid)
    IN  /\ s.total = agent.spent /\ s.payments = agent.i
        /\ moved - agent.spent \in IF agent.at = "failed" THEN {0} \cup Prices ELSE {0}
=============================================================================
