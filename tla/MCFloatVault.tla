---------------------------- MODULE MCFloatVault ----------------------------
(* A small treasury for TLC: one agent and one guest, one model, one seller *)
(* and a request for every rung.                                            *)
EXTENDS FloatVault, TLC

CONSTANTS scout, visitor, shop, llama, press, ops, human, none, n1, n2, n3,
          pool, bond

\* One bundle at a price of 20 is worth 10: the agent pays up to 11, a person
\* up to 12.  At 22 it is worth 11.
Ask(agent, quote, print, nonce) ==
    [agent |-> agent, seller |-> shop, index |-> llama, units |-> 1,
     quote |-> quote, printId |-> print, nonce |-> nonce]
Big == Ask(scout, 11, 1, n1)
Dear == Ask(scout, 12, 1, n2)
MCRequests == {Big, Dear, Ask(scout, 10, 1, n2), Ask(scout, 10, 2, n1),
               Ask(scout, 10, 2, n3), Ask(visitor, 10, 1, n3)}

MCPolicy == [maxPremiumBps |-> 1000, humanMaxPremiumBps |-> 2000, maxPrintAge |-> 1,
             upperBandBps |-> 2000, lowerBandBps |-> 2000, workingShareBps |-> 5000,
             minTicket |-> 2]
MCStrict == [MCPolicy EXCEPT !.maxPremiumBps = 0]
MCPolicies == {MCStrict}
MCUsual == [cap |-> 21, perRequest |-> 11, frozen |-> FALSE]
MCMore == [cap |-> 24, perRequest |-> 12, frozen |-> FALSE]
MCFrozen == [cap |-> 21, perRequest |-> 11, frozen |-> TRUE]
MCLimits == {MCMore, MCFrozen}

MCProposals == {[agent |-> scout, hash |-> SpendHash(Big), kind |-> "spend"],
                [agent |-> scout, hash |-> SpendHash(Dear), kind |-> "spend"],
                [agent |-> scout, hash |-> AgentHash(scout, MCMore), kind |-> "policy"],
                [agent |-> scout, hash |-> PolicyHash(MCStrict), kind |-> "policy"],
                [agent |-> scout, hash |-> SellerHash(scout, shop, TRUE), kind |-> "policy"],
                [agent |-> scout, hash |-> GateOffHash, kind |-> "policy"]}

MCScout == [NoAgent EXCEPT !.cap = 21, !.perRequest = 11, !.exists = TRUE]
Base == [executors |-> {ops}, approver |-> human, gate |-> FALSE, policy |-> MCPolicy,
         agents |-> (scout :> MCScout @@ visitor :> NoAgent),
         sellers |-> {<<scout, shop>>}, guestSellers |-> {shop},
         balance |-> 36, working |-> none, reserve |-> none,
         value |-> (pool :> 0 @@ bond :> 0)]
\* All in the buffer; gated; spread over two sleeves.
Gated0 == [Base EXCEPT !.gate = TRUE, !.sellers = {}, !.balance = 0]
Parked == [Base EXCEPT !.balance = 5, !.working = pool, !.reserve = bond,
                       !.value = (pool :> 8 @@ bond :> 12)]
MCSetup == {Base, Gated0, Parked}

\* What is explored from each: one setting away from the set-up at a time.
Changed == {x \in 1..10 :
    \/ x = 1 /\ isExecutor # {ops}
    \/ x = 2 /\ humanApprover # human
    \/ x = 3 /\ treasurerBinding
    \/ x = 4 /\ paused
    \/ x = 5 /\ storePaused
    \/ x = 6 /\ policy # MCPolicy
    \/ x = 7 /\ <<agents[scout].cap, agents[scout].perRequest, agents[scout].frozen>>
                  # <<21, 11, FALSE>>
    \/ x = 8 /\ guestSeller # {shop}
    \/ x = 10 /\ isSigner = {} /\ history[llama] # <<>>
    \/ x = 9 /\ agents[visitor].exists /\ ~agents[visitor].guest}
NoMoney == balance = 0 /\ Worth(value) = 0
Kinds == {checkpoints[id].kind : id \in DOMAIN checkpoints}

FromBase ==
    /\ Worth(value) = 0 /\ working = none /\ reserve = none
    /\ balance + SumFunction(Quotes) = 36
    /\ Kinds \subseteq {"spend"} /\ ~requirePolicyCheckpoint
    /\ allowedSeller = {<<scout, shop>>}
    /\ Cardinality(Changed) <= 1
    /\ Changed # {} => /\ now <= 1 /\ Len(checkpoints) <= 1
                       /\ \/ Cardinality(denied) + Len(receipts) <= 1
                          \/ Changed = {7} /\ checkpoints = <<>> /\ denied = {}
    /\ agents[visitor].exists => Changed \subseteq {8}
    /\ Changed = {} => \A s \in signatures : s.signer = human
    /\ checkpoints # <<>> => ~agents[visitor].exists /\ Cardinality(denied) + Len(receipts) <= 2
    /\ Len(checkpoints) = 2 => denied = {} /\ Len(history[llama]) <= 1
FromGated ==
    /\ NoMoney /\ working = none /\ reserve = none
    /\ Kinds \subseteq {"policy"}
    /\ isSigner = {} /\ denied = {} /\ ~agents[visitor].exists
    /\ now = 0 /\ Cardinality(Changed) <= 1 /\ Changed \cap {4, 5, 8} = {}
FromParked ==
    /\ Worth(value) > 2
    /\ <<working, reserve>> \in {<<pool, bond>>, <<none, bond>>, <<pool, none>>}
    /\ now = 0 /\ Changed = {} /\ checkpoints = <<>> /\ denied = {}
    /\ Len(history[llama]) <= 1 /\ ~agents[visitor].exists
    /\ ~requirePolicyCheckpoint
    /\ allowedSeller = {<<scout, shop>>}
\* The second print is the dearer one.
PricesRise == \A n \in DOMAIN history[llama] : history[llama][n].price = 18 + 2 * n
Explored == PricesRise /\ (FromBase \/ FromGated \/ FromParked)
=============================================================================
