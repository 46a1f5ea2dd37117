------------------------------ MODULE McpAgent ------------------------------
(***************************************************************************)
(* One session of the MCP server (mcp/src): tool calls the host makes at   *)
(* the same time share the agent card's chain id (card.ts) and the         *)
(* session's spend ledger (pay.ts).  Every await of the code is a point    *)
(* where another call, the press or the chain may move.                    *)
(*                                                                         *)
(* Abstractions.  The press is awake or asleep, on one chain, and asks one *)
(* price; a card is the chain it was signed for; a settlement moves the    *)
(* price the press asks when Circle's client pays (external).              *)
(***************************************************************************)
EXTENDS McpTools

CONSTANTS Calls,          \* concurrent calls the host may have open
          Chains,         \* a press may be on
          Overrides,      \* values of ACR_ARC_CHAIN_ID, Null for unset
          Prices,         \* a query may cost
          Cap,            \* ACR_MAX_SPEND_USDC
          Funds,          \* Gateway balance of the payer
          Keyed,          \* ACR_AGENT_PRIVATE_KEY is set
          MaxCalls,       \* bound on the calls made
          MaxChanges      \* bound on the press's changes of price or sleep

VARIABLES
    press,     \* [awake, chain, price, nonces]: the gate at ACR_API
    override,  \* ACR_ARC_CHAIN_ID
    card,      \* gateChainId's closure: settled, contradicted, inflight, and heard
    ledger,    \* SpendLedger
    gateway,   \* what the payer has in the Gateway
    settled,   \* what settlements really moved
    lost,      \* the part of it whose client threw after the settlement
    call,      \* call[c]: where it stands and what it holds
    made, changes

vars == <<press, override, card, ledger, gateway, settled, lost, call, made, changes>>

Idle == [at |-> "idle", next |-> "idle", card |-> Null, price |-> Null, nonce |-> Null, said |-> Null]

Init ==
    /\ press \in [awake : BOOLEAN, chain : Chains, price : Prices, nonces : {{}}, issued : {0}]
    /\ override \in Overrides
    /\ card = [settled |-> Null, contradicted |-> FALSE, inflight |-> FALSE, heard |-> FALSE]
    /\ ledger = NewLedger(Cap, Cap)
    /\ gateway = Funds /\ settled = 0 /\ lost = 0
    /\ call = [c \in Calls |-> Idle]
    /\ made = 0 /\ changes = 0

-----------------------------------------------------------------------------
\* The card.  A call about to fetch needs a chain id for its card: settled,
\* refused for good, or the answer of the one probe that is on its way.

Fetching(c, then) == [call[c] EXCEPT !.at = "card", !.next = then, !.card = Null]

ResolveNow(c) ==
    /\ call[c].at = "card"
    /\ ~Keyed \/ card.settled # Null \/ card.contradicted
    /\ call' = [call EXCEPT ![c].at = call[c].next,
                            ![c].card = IF Keyed /\ ~card.contradicted THEN card.settled ELSE Null]
    /\ UNCHANGED <<press, override, card, ledger, gateway, settled, lost, made, changes>>

AskTheGate(c) ==
    /\ call[c].at = "card" /\ Keyed /\ card.settled = Null /\ ~card.contradicted
    /\ card' = [card EXCEPT !.inflight = TRUE]
    /\ call' = [call EXCEPT ![c].at = "waits"]
    /\ UNCHANGED <<press, override, ledger, gateway, settled, lost, made, changes>>


\* What every caller does with the gate's word, Null for none.
Resolution(said) ==
    IF override # Null
    THEN IF said \notin {Null, override}
         THEN [settled |-> card.settled, contradicted |-> TRUE]
         ELSE [settled |-> override, contradicted |-> card.contradicted]
    ELSE [settled |-> IF said # Null THEN said ELSE card.settled, contradicted |-> card.contradicted]

\* The probe comes back to everyone who waits for it.
GateAnswers ==
    LET said == IF press.awake THEN press.chain ELSE Null
        r == Resolution(said)
    IN  /\ card.inflight
        /\ card' = [card EXCEPT !.settled = r.settled, !.contradicted = r.contradicted,
                                !.inflight = FALSE, !.heard = @ \/ said # Null]
        /\ call' = [c \in Calls |->
             IF call[c].at # "waits" THEN call[c]
             ELSE [call[c] EXCEPT !.at = call[c].next, !.card = IF r.contradicted THEN Null ELSE r.settled]]
        /\ UNCHANGED <<press, override, ledger, gateway, settled, lost, made, changes>>

\* A gate refuses a card signed for another chain, and takes a call without one.
Accepted(c) == press.awake /\ call[c].card \in {Null, press.chain}

Say(c, word) == call' = [call EXCEPT ![c] = [Idle EXCEPT !.said = word, !.price = call[c].price]]

-----------------------------------------------------------------------------
\* pay_and_read.

Start(c, tool) ==
    /\ call[c].at = "idle" /\ made < MaxCalls
    /\ made' = made + 1
    /\ call' = [call EXCEPT ![c] = [Idle EXCEPT !.at = "card", !.next = tool]]
    /\ UNCHANGED <<press, override, card, ledger, gateway, settled, lost, changes>>

ReadHealth(c) ==
    /\ call[c].at = "health"
    /\ IF Accepted(c) /\ ArcChain(press.chain) # Null
       THEN call' = [call EXCEPT ![c] = Fetching(c, "probe")] ELSE Say(c, "no_profile")
    /\ UNCHANGED <<press, override, card, ledger, gateway, settled, lost, made, changes>>

\* The price is read and held against the cap, and nothing is set aside.
Probe(c) ==
    /\ call[c].at = "probe"
    /\ IF ~Accepted(c) THEN Say(c, "no_price")
       ELSE IF ~Admits(ledger, press.price) THEN Say(c, "over_cap")
       ELSE call' = [call EXCEPT ![c].at = "funds", ![c].price = press.price]
    /\ UNCHANGED <<press, override, card, ledger, gateway, settled, lost, made, changes>>

ReadFunds(c) ==
    /\ call[c].at = "funds"
    /\ \E readable \in SUBSET {"wallet", "gateway"} :
         LET balances == ReadBalances([wallet |-> 1, gateway |-> gateway], readable)
         IN  IF Unreadable(balances) \/ StepOf(balances, call[c].price) = "ready"
             THEN call' = [call EXCEPT ![c] = Fetching(c, "settle")]
             ELSE Say(c, StepOf(balances, call[c].price))
    /\ UNCHANGED <<press, override, card, ledger, gateway, settled, lost, made, changes>>

\* Circle's client pays whatever the press asks now.  The money may have moved
\* although the client throws: the answer was lost, or the query itself failed.
Settle(c) ==
    /\ call[c].at = "settle"
    /\ \/ /\ Accepted(c) /\ gateway >= press.price
          /\ gateway' = gateway - press.price
          /\ settled' = settled + press.price
          /\ \/ /\ call' = [call EXCEPT ![c].at = "record", ![c].price = press.price]
                /\ UNCHANGED lost
             \/ Say(c, "failed") /\ lost' = lost + press.price
       \/ Say(c, "failed") /\ UNCHANGED <<gateway, settled, lost>>
    /\ UNCHANGED <<press, override, card, ledger, made, changes>>

RecordSettlement(c) ==
    /\ call[c].at = "record"
    /\ ledger' = Record(ledger, call[c].price)
    /\ Say(c, "paid")
    /\ UNCHANGED <<press, override, card, gateway, settled, lost, made, changes>>

-----------------------------------------------------------------------------
\* The human gate: a fresh challenge for every answer.

TakeChallenge(c) ==
    /\ call[c].at = "challenge"
    /\ IF Accepted(c)
       THEN /\ press' = [press EXCEPT !.nonces = @ \cup {press.issued + 1}, !.issued = @ + 1]
            /\ call' = [call EXCEPT ![c] = [Fetching(c, "proof") EXCEPT !.nonce = press.issued + 1]]
       ELSE Say(c, "no_challenge") /\ UNCHANGED press
    /\ UNCHANGED <<override, card, ledger, gateway, settled, lost, made, changes>>

\* The press takes a nonce it has issued, once.
GiveProof(c) ==
    /\ call[c].at = "proof"
    /\ IF Accepted(c) /\ call[c].nonce \in press.nonces
       THEN press' = [press EXCEPT !.nonces = @ \ {call[c].nonce}] /\ Say(c, "proved")
       ELSE UNCHANGED press /\ Say(c, "refused")
    /\ UNCHANGED <<override, card, ledger, gateway, settled, lost, made, changes>>

-----------------------------------------------------------------------------
\* The press sleeps and wakes (it forgets its nonces), and asks another price.

PressChanges ==
    /\ changes < MaxChanges
    /\ changes' = changes + 1
    /\ \/ press' = [press EXCEPT !.awake = ~@, !.nonces = {}]
       \/ \E p \in Prices \ {press.price} : press' = [press EXCEPT !.price = p]
    /\ UNCHANGED <<override, card, ledger, gateway, settled, lost, call, made>>

Next ==
    \/ \E c \in Calls :
         \/ \E tool \in {"health", "challenge"} : Start(c, tool)
         \/ ResolveNow(c) \/ AskTheGate(c)
         \/ ReadHealth(c) \/ Probe(c) \/ ReadFunds(c) \/ Settle(c) \/ RecordSettlement(c)
         \/ TakeChallenge(c) \/ GiveProof(c)
    \/ GateAnswers \/ PressChanges

Spec == Init /\ [][Next]_vars

-----------------------------------------------------------------------------
\* Money the ledger has not heard of: paid and not yet recorded.
Unrecorded == MapThenSumSet(LAMBDA c : call[c].price, {c \in Calls : call[c].at = "record"})

\* The ledger never invents a payment, and what it misses is exactly what is
\* about to be recorded and what a failing client has swallowed.
LedgerIsWhatWasPaid == settled = ledger.spent + Unrecorded + lost

\* The cap is checked calls ahead of the record, so calls that overlap may
\* exceed it: by at most one more payment for each further call, a rise of the
\* price, and the payments nobody recorded.
OverspendIsBoundedByOverlap ==
    settled - lost <= ledger.cap + (Cardinality(Calls) - 1) * Max(Prices) + Max(Prices) - Min(Prices)

\* The session's cap, as the server's header promises it.
SessionCapHolds == settled <= ledger.cap

\* A card that names a chain names the gate's, unless an override was set and
\* the gate was silent when it was first asked; a gate that contradicted the
\* override never sees a card again.
CardsFitTheGate ==
    /\ override = Null => \A c \in Calls : call[c].card \in {Null, press.chain}
    /\ card.contradicted => card.settled = Null
    /\ card.settled \notin {Null, press.chain} => ~card.heard
    /\ card.inflight = (\E c \in Calls : call[c].at = "waits")

\* No two calls ever answer the same challenge.
NoncesAreNotShared ==
    \A c, d \in Calls : c # d /\ call[c].nonce # Null => call[c].nonce # call[d].nonce
=============================================================================
