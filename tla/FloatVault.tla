----------------------------- MODULE FloatVault -----------------------------
(***************************************************************************)
(* FloatVault.sol: an agent treasury.  It recomputes the fair price of     *)
(* every purchase from FloatPrintStore and refuses what is over the band,  *)
(* pays out of its buffer and, for what is missing, out of two yield       *)
(* sleeves, and parks what the agent may not decide until a person signs   *)
(* for exactly that.  A refusal is an event and burns the request's nonce. *)
(*                                                                         *)
(* Abstractions.  A hash is the value it commits to.  A signature exists   *)
(* or not.  The owner, studio, keeper and registrar can always act; who    *)
(* they are is left out.  The vault has been wired.  A sleeve is its value *)
(* in USDC units, that a venue rounds: a deposit may be worth a unit less, *)
(* a withdrawal cost or deliver a unit more, or deliver a unit less.       *)
(***************************************************************************)
EXTENDS FloatPrintStore, FiniteSets, FiniteSetsExt

CONSTANTS Agents, Sellers,
          Requests,       \* the SpendReqs executors submit
          Proposals,      \* what they park: [agent, hash, kind]
          Policies,       \* the policies deployers set
          Limits,         \* the limits they give an agent
          Keys,           \* keys that may execute or approve
          Sleeves, NoAddress,
          Targets,        \* buffers the keeper aims at
          Ttls,           \* ttls of checkpoints
          GuestCap,       \* guestDailyCap
          Scale,          \* WAD_TO_USDC
          Day,            \* periodLength
          Setup,          \* the states a set-up treasury starts from
          MaxTime, MaxCheckpoints, MaxSignatures, MaxValue   \* bounds

Nonces == {r.nonce : r \in Requests}

SpendReq == [agent : Agents, seller : Sellers, index : Indices, units : Nat, quote : Nat,
             printId : Nat, nonce : Nonces]
Policy == [maxPremiumBps : Nat, humanMaxPremiumBps : Nat, maxPrintAge : Nat,
           upperBandBps : Nat, lowerBandBps : Nat, workingShareBps : Nat,
           minTicket : Nat]
Agent == [cap : Nat, perRequest : Nat, spent : Nat, periodStart : Nat,
          frozen : BOOLEAN, guest : BOOLEAN, exists : BOOLEAN]

\* A treasury that has been wired and funded and has spent nothing yet.
Wired(s) ==
    /\ s.executors \subseteq Keys /\ s.approver \in Keys \cup {NoAddress}
    /\ s.gate \in BOOLEAN
    /\ s.policy \in Policy /\ s.policy.workingShareBps <= 10000
    /\ s.agents \in [Agents -> Agent]
    /\ \A a \in Agents : s.agents[a].spent = 0 /\ s.agents[a].periodStart = 0
    /\ s.balance \in Nat /\ s.value \in [Sleeves -> Nat]
    /\ {s.working, s.reserve} \subseteq Sleeves \cup {NoAddress}

ASSUME FloatAssumption ==
    /\ Requests \subseteq SpendReq
    /\ Policies \subseteq Policy
    /\ Limits \subseteq [cap : Nat, perRequest : Nat, frozen : BOOLEAN]
    /\ NoAddress \notin Keys \cup Sleeves /\ IsFiniteSet(Sleeves)
    /\ Scale \in Nat \ {0} /\ Day \in Nat \ {0}
    /\ Targets \subseteq Nat /\ Ttls \subseteq Nat \ {0} /\ GuestCap \in Nat
    /\ {MaxTime, MaxCheckpoints, MaxSignatures, MaxValue} \subseteq Nat
    /\ \A s \in Setup : Wired(s)

\* wire compares the approver with the executor it names; a treasury that had
\* no executor before has them apart.
ASSUME ApproverAssumption == \A s \in Setup : s.approver \notin s.executors

VARIABLES
    isExecutor,                  \* the set of executors
    humanApprover, treasurerBinding, paused, requirePolicyCheckpoint, policy,
    agents, allowedSeller, guestSeller,
    usedNonce, checkpoints,
    balance,                     \* USDC in the vault
    working, reserve,            \* the two sleeves
    value,                       \* what each sleeve is worth
    signatures,                  \* approvals that exist off chain
    receipts,                    \* Receipt events, with the rules in force
    denied                       \* nonces in Denied events that were no escalations

roles == <<isExecutor, humanApprover, treasurerBinding>>
rules == <<paused, requirePolicyCheckpoint, policy, agents, allowedSeller, guestSeller>>
money == <<balance, working, reserve, value>>
requests == <<usedNonce, receipts, denied>>
vars == <<now, storeVars, roles, rules, money, requests, checkpoints, signatures>>

NoAgent == [cap |-> 0, perRequest |-> 0, spent |-> 0, periodStart |-> 0,
            frozen |-> FALSE, guest |-> FALSE, exists |-> FALSE]

\* A treasury its owner has wired, funded and given a policy.
Init ==
    /\ now = 0
    /\ StoreInit
    /\ \E s \in Setup :
          /\ isExecutor = s.executors /\ humanApprover = s.approver
          /\ requirePolicyCheckpoint = s.gate /\ policy = s.policy
          /\ agents = s.agents /\ allowedSeller = s.sellers /\ guestSeller = s.guestSellers
          /\ balance = s.balance /\ working = s.working /\ reserve = s.reserve
          /\ value = s.value
    /\ treasurerBinding = FALSE /\ paused = FALSE
    /\ usedNonce = {} /\ checkpoints = <<>> /\ signatures = {}
    /\ receipts = <<>> /\ denied = {}

-----------------------------------------------------------------------------
(* The ladder.                                                             *)

\* _rolled: whole days only.
Rolled(a) ==
    IF now < a.periodStart + Day
    THEN [spent |-> a.spent, start |-> a.periodStart]
    ELSE [spent |-> 0,
          start |-> a.periodStart + ((now - a.periodStart) \div Day) * Day]

Fair(price, units) == (price * units) \div Scale

SellerAllowed(r) ==
    IF agents[r.agent].guest THEN r.seller \in guestSeller
    ELSE <<r.agent, r.seller>> \in allowedSeller

\* The print a request may be judged by.
Stale(p) == now - p.at > policy.maxPrintAge

Rungs == <<"D_PAUSED", "D_UNKNOWN_AGENT", "D_FROZEN", "D_SELLER", "D_REPLAY", "D_UNITS",
           "D_NO_PRINT", "D_STALE", "D_ROTATED", "D_NO_FAIR", "D_BAND",
           "D_PER_REQUEST", "D_DAILY_CAP">>

\* _check, by its codes: they are numbered in the order the rungs are asked,
\* but for a fair price of nothing, which shares the code of a missing print.
Stops(code, r, band, lifted) ==
    LET a == agents[r.agent]
        p == Latest(r.index)
        fair == Fair(p.price, r.units)
    IN  \/ code = "D_PAUSED" /\ paused
        \/ code = "D_UNKNOWN_AGENT" /\ ~a.exists
        \/ code = "D_FROZEN" /\ a.frozen
        \/ code = "D_SELLER" /\ ~SellerAllowed(r)
        \/ code = "D_REPLAY" /\ r.nonce \in usedNonce
        \/ code = "D_UNITS" /\ (r.units = 0 \/ r.quote = 0)
        \/ code = "D_NO_PRINT" /\ p.id = 0
        \/ code = "D_STALE" /\ Stale(p)
        \/ code = "D_ROTATED" /\ p.id # r.printId
        \/ code = "D_NO_FAIR" /\ fair = 0
        \/ code = "D_BAND" /\ r.quote > (fair * (10000 + band)) \div 10000
        \/ code = "D_PER_REQUEST" /\ ~lifted /\ r.quote >= a.perRequest
        \/ code = "D_DAILY_CAP" /\ Rolled(a).spent + r.quote > a.cap

Denials(r, band, lifted) == {code \in Range(Rungs) : Stops(code, r, band, lifted)}
FirstOf(codes) == Rungs[Min({n \in DOMAIN Rungs : Rungs[n] \in codes})]

AsAgent(r) == Denials(r, policy.maxPremiumBps, FALSE)
\* Mutant: what a person signed is not looked up among what was paid.
AsHumanAgain(r) == Denials(r, policy.humanMaxPremiumBps, TRUE) \ {"D_REPLAY"}
AsHuman(r) == Denials(r, policy.humanMaxPremiumBps, TRUE)

-----------------------------------------------------------------------------
(* The money.                                                              *)

\* Mutant: the second pull is sized by what was missing at first.
PullTwice(short, held, need) == short
\* _fund: the second pull is sized by what has arrived.
SecondPull(short, held, need) == need - held

\* withdrawExact: what reaches the buffer, and what the sleeve loses by it.
Withdrawals(amount) ==
    {[got |-> amount, cost |-> amount], [got |-> amount, cost |-> amount + 1],
     [got |-> amount - 1, cost |-> amount], [got |-> amount + 1, cost |-> amount + 1]}

\* The buffer and the sleeves after a pull.
AfterPull(b, v, sleeve, amount) ==
    {[balance |-> b + w.got, value |-> [v EXCEPT ![sleeve] = @ - w.cost]] :
        w \in {x \in Withdrawals(amount) : x.cost <= v[sleeve]}}

FirstPulls(short) ==
    LET pull == IF working = NoAddress THEN 0 ELSE Min({short, value[working]})
    IN  IF pull = 0 THEN {[balance |-> balance, value |-> value]}
        ELSE AfterPull(balance, value, working, pull)

Fund(need) ==
    IF balance >= need THEN {[balance |-> balance, value |-> value]}
    ELSE UNION {IF f.balance >= need \/ reserve = NoAddress THEN {f}
                ELSE LET pull == SecondPull(need - balance, f.balance, need)
                     IN  AfterPull(f.balance, f.value, reserve, pull) :
                f \in FirstPulls(need - balance)}

\* _spend
Spend(r, human) ==
    LET a == agents[r.agent]
        today == Rolled(a)
        p == Latest(r.index)
    IN  /\ usedNonce' = usedNonce \cup {r.nonce}
        /\ agents' = [agents EXCEPT ![r.agent] =
                         [@ EXCEPT !.spent = today.spent + r.quote,
                                   !.periodStart = today.start]]
        /\ \E f \in Fund(r.quote) :
              /\ f.balance >= r.quote
              /\ balance' = f.balance - r.quote
              /\ value' = f.value
        /\ receipts' = Append(receipts,
              [req |-> r, fair |-> Fair(p.price, r.units), human |-> human, at |-> now,
               day |-> today.start, cap |-> a.cap, limit |-> a.perRequest,
               band |-> policy.maxPremiumBps, approver |-> humanApprover])
        /\ UNCHANGED <<paused, requirePolicyCheckpoint, policy, allowedSeller,
                       guestSeller, working, reserve, denied>>

\* Mutant: a refusal leaves the nonce as it was.
Burnt(r, code) == {}
\* requestSpend: a refusal burns the nonce, an escalation does not.
Burns(r, code) == IF code = "D_PER_REQUEST" THEN {} ELSE {r.nonce}

RequestSpend(r) ==
    /\ isExecutor # {}
    /\ \/ AsAgent(r) = {} /\ Spend(r, FALSE)
       \/ /\ AsAgent(r) # {}
          /\ LET code == FirstOf(AsAgent(r))
             IN  /\ usedNonce' = usedNonce \cup Burns(r, code)
                 /\ denied' = denied \cup (IF code = "D_PER_REQUEST" THEN {} ELSE {r.nonce})
          /\ UNCHANGED <<rules, money, receipts>>
    /\ UNCHANGED <<now, storeVars, roles, checkpoints, signatures>>

-----------------------------------------------------------------------------
(* What a person decides.                                                  *)

SpendHash(r) == [spend |-> r]
PolicyHash(p) == [setPolicy |-> p]
AgentHash(agent, limits) == [setAgent |-> agent, limits |-> limits]
SellerHash(agent, seller, allowed) ==
    [allowSeller |-> seller, agent |-> agent, allowed |-> allowed]
GateOffHash == [gate |-> "off"]

OpenCheckpoint(agent, hash, kind, ttl) ==
    /\ isExecutor # {}
    /\ Len(checkpoints) < MaxCheckpoints
    /\ checkpoints' = Append(checkpoints,
          [reqHash |-> hash, expiresAt |-> now + ttl, kind |-> kind,
           status |-> "open", agent |-> agent])
    /\ UNCHANGED <<now, storeVars, roles, rules, money, requests, signatures>>

\* resolveCheckpoint: denied, expired or failed, a checkpoint is closed.
ResolveCheckpoint(id) ==
    /\ isExecutor # {}
    /\ checkpoints[id].status = "open"
    /\ checkpoints' = [checkpoints EXCEPT ![id].status = "closed"]
    /\ UNCHANGED <<now, storeVars, roles, rules, money, requests, signatures>>

\* Mutant: any approval of the checkpoint will do, whatever was signed.
ApprovedAnything(id, hash, kind) ==
    LET c == checkpoints[id]
    IN  /\ c.status = "open" /\ c.kind = kind /\ now < c.expiresAt
        /\ \E s \in signatures : s.id = id /\ s.signer = humanApprover

\* _consumeApproval
Approved(id, hash, kind) ==
    LET c == checkpoints[id]
    IN  /\ c.status = "open" /\ c.kind = kind /\ now < c.expiresAt
        /\ c.reqHash = hash
        /\ humanApprover # NoAddress
        /\ [signer |-> humanApprover, id |-> id, reqHash |-> hash,
            binding |-> treasurerBinding] \in signatures

Consume(id) == checkpoints' = [checkpoints EXCEPT ![id].status = "consumed"]

ExecuteApproved(id, r) ==
    /\ isExecutor # {}
    /\ checkpoints[id].agent = r.agent
    /\ Approved(id, SpendHash(r), "spend")
    /\ AsHuman(r) = {}
    /\ Consume(id)
    /\ Spend(r, TRUE)
    /\ UNCHANGED <<now, storeVars, roles, signatures>>

\* Someone signs the digest of a checkpoint that is open.
Sign(signer, id, hash) ==
    /\ checkpoints[id].status = "open"
    /\ Cardinality(signatures) < MaxSignatures
    /\ signatures' = signatures \cup
          {[signer |-> signer, id |-> id, reqHash |-> hash, binding |-> treasurerBinding]}
    /\ UNCHANGED <<now, storeVars, roles, rules, money, requests, checkpoints>>

-----------------------------------------------------------------------------
(* Governance, by the owner or the studio.                                 *)

\* _consumePolicyApproval, where the gate asks for it.
Gated(asked, hash) ==
    IF asked
    THEN \E id \in DOMAIN checkpoints : Approved(id, hash, "policy") /\ Consume(id)
    ELSE UNCHANGED checkpoints

SetPolicyCheckpointRequired(required) ==
    /\ Gated(~required /\ requirePolicyCheckpoint, GateOffHash)
    /\ requirePolicyCheckpoint' = required
    /\ UNCHANGED <<now, storeVars, roles, paused, policy, agents, allowedSeller, guestSeller,
                   money, requests, signatures>>

SetPolicy(p) ==
    /\ p.maxPrintAge > 0
    /\ p.maxPremiumBps <= p.humanMaxPremiumBps
    /\ \A share \in {p.humanMaxPremiumBps, p.workingShareBps, p.upperBandBps,
                     p.lowerBandBps} : share <= 10000
    /\ Gated(requirePolicyCheckpoint, PolicyHash(p))
    /\ policy' = p
    /\ UNCHANGED <<now, storeVars, roles, paused, requirePolicyCheckpoint, agents,
                   allowedSeller, guestSeller, money, requests, signatures>>

\* Mutant: a new limit starts a new day.
Limited(a, limits) ==
    [a EXCEPT !.cap = limits.cap, !.perRequest = limits.perRequest, !.spent = 0,
              !.frozen = limits.frozen, !.guest = FALSE, !.exists = TRUE]

\* setAgent: what it does to an agent that exists, or comes to.
Configured(a, limits) ==
    [a EXCEPT !.cap = limits.cap, !.perRequest = limits.perRequest,
              !.frozen = limits.frozen, !.guest = FALSE, !.exists = TRUE,
              !.periodStart = IF a.exists THEN @ ELSE now]

\* Mutant: the approval names the agent, and the caller the limits.
SetAgentAsTold(agent, limits) ==
    /\ limits.cap > 0 /\ limits.perRequest > 0 /\ limits.perRequest <= limits.cap
    /\ \E l \in Limits : Gated(requirePolicyCheckpoint, AgentHash(agent, l))
    /\ agents' = [agents EXCEPT ![agent] = Configured(@, limits)]
    /\ UNCHANGED <<now, storeVars, roles, paused, requirePolicyCheckpoint, policy,
                   allowedSeller, guestSeller, money, requests, signatures>>

SetAgent(agent, limits) ==
    /\ limits.cap > 0 /\ limits.perRequest > 0 /\ limits.perRequest <= limits.cap
    /\ Gated(requirePolicyCheckpoint, AgentHash(agent, limits))
    /\ agents' = [agents EXCEPT ![agent] = Configured(@, limits)]
    /\ UNCHANGED <<now, storeVars, roles, paused, requirePolicyCheckpoint, policy,
                   allowedSeller, guestSeller, money, requests, signatures>>

AllowSeller(agent, seller, allowed) ==
    /\ Gated(requirePolicyCheckpoint, SellerHash(agent, seller, allowed))
    /\ allowedSeller' = IF allowed THEN allowedSeller \cup {<<agent, seller>>}
                        ELSE allowedSeller \ {<<agent, seller>>}
    /\ UNCHANGED <<now, storeVars, roles, paused, requirePolicyCheckpoint, policy, agents,
                   guestSeller, money, requests, signatures>>

\* By the registrar.
RegisterGuest(agent) ==
    /\ ~agents[agent].exists
    /\ agents' = [agents EXCEPT ![agent] =
          [NoAgent EXCEPT !.cap = GuestCap, !.perRequest = GuestCap, !.periodStart = now,
                          !.guest = TRUE, !.exists = TRUE]]
    /\ UNCHANGED <<now, storeVars, roles, paused, requirePolicyCheckpoint, policy,
                   allowedSeller, guestSeller, money, requests, checkpoints, signatures>>

-----------------------------------------------------------------------------
(* The owner alone.                                                        *)

SetApprover(key) ==
    /\ key \notin isExecutor
    /\ humanApprover' = key
    /\ UNCHANGED <<now, storeVars, isExecutor, treasurerBinding, rules, money, requests,
                   checkpoints, signatures>>

SetExecutor(key, allowed) ==
    /\ allowed => key # humanApprover
    /\ isExecutor' = IF allowed THEN isExecutor \cup {key} ELSE isExecutor \ {key}
    /\ UNCHANGED <<now, storeVars, humanApprover, treasurerBinding, rules, money, requests,
                   checkpoints, signatures>>

SetTreasurerBinding ==
    /\ ~treasurerBinding
    /\ treasurerBinding' = TRUE
    /\ UNCHANGED <<now, storeVars, isExecutor, humanApprover, rules, money, requests,
                   checkpoints, signatures>>

SetPaused(on) ==
    /\ paused' = on
    /\ UNCHANGED <<now, storeVars, roles, requirePolicyCheckpoint, policy, agents,
                   allowedSeller, guestSeller, money, requests, checkpoints, signatures>>

AllowGuestSeller(seller, allowed) ==
    /\ guestSeller' = IF allowed THEN guestSeller \cup {seller} ELSE guestSeller \ {seller}
    /\ UNCHANGED <<now, storeVars, roles, paused, requirePolicyCheckpoint, policy, agents,
                   allowedSeller, money, requests, checkpoints, signatures>>

SetSleeves(first, second) ==
    /\ working' = first /\ reserve' = second
    /\ UNCHANGED <<now, storeVars, roles, rules, balance, value, requests, checkpoints,
                   signatures>>

Withdraw(amount) ==
    /\ amount > 0 /\ amount <= balance
    /\ balance' = balance - amount
    /\ UNCHANGED <<now, storeVars, roles, rules, working, reserve, value, requests,
                   checkpoints, signatures>>

-----------------------------------------------------------------------------
(* The keeper, and the venues.                                             *)

\* depositIdle
Lodge(b, v, sleeve, amount) ==
    IF amount = 0 \/ sleeve = NoAddress THEN {[balance |-> b, value |-> v]}
    ELSE {[balance |-> b - amount, value |-> [v EXCEPT ![sleeve] = @ + got]] :
             got \in {amount, amount - 1}}

\* rebalance: excess to the sleeves in shares, a shortage from them.
Rebalanced(target) ==
    LET hi == (target * (10000 + policy.upperBandBps)) \div 10000
        lo == (target * (10000 - policy.lowerBandBps)) \div 10000
        excess == balance - target
        toWorking == (excess * policy.workingShareBps) \div 10000
    IN  IF balance > hi /\ excess >= policy.minTicket
        THEN UNION {Lodge(f.balance, f.value, reserve, excess - toWorking) :
                      f \in Lodge(balance, value, working, toWorking)}
        ELSE IF balance < lo /\ -excess >= policy.minTicket THEN Fund(target)
        ELSE {}

Rebalance(target) ==
    /\ ~paused
    /\ \E f \in Rebalanced(target) : balance' = f.balance /\ value' = f.value
    /\ UNCHANGED <<now, storeVars, roles, rules, working, reserve, requests, checkpoints,
                   signatures>>

\* A venue earns a unit.
Accrue(sleeve) ==
    /\ value[sleeve] < MaxValue
    /\ value' = [value EXCEPT ![sleeve] = @ + 1]
    /\ UNCHANGED <<now, storeVars, roles, rules, balance, working, reserve, requests,
                   checkpoints, signatures>>

Tick ==
    /\ now < MaxTime
    /\ now' = now + 1
    /\ UNCHANGED <<storeVars, roles, rules, money, requests, checkpoints, signatures>>

Post ==
    /\ StoreNext
    /\ UNCHANGED <<now, roles, rules, money, requests, checkpoints, signatures>>

-----------------------------------------------------------------------------

Executor ==
    \/ \E r \in Requests : RequestSpend(r)
    \/ \E p \in Proposals, ttl \in Ttls : OpenCheckpoint(p.agent, p.hash, p.kind, ttl)
    \/ \E id \in DOMAIN checkpoints :
          \/ ResolveCheckpoint(id)
          \/ \E r \in Requests : ExecuteApproved(id, r)

Govern ==
    \/ \E on \in BOOLEAN : SetPolicyCheckpointRequired(on)
    \/ \E p \in Policies : SetPolicy(p)
    \/ \E agent \in Agents, limits \in Limits : SetAgent(agent, limits)
    \/ \E agent \in Agents, seller \in Sellers, on \in BOOLEAN : AllowSeller(agent, seller, on)
    \/ \E agent \in Agents : RegisterGuest(agent)

Own ==
    \/ \E key \in Keys \cup {NoAddress} : SetApprover(key)
    \/ \E key \in Keys, on \in BOOLEAN : SetExecutor(key, on)
    \/ SetTreasurerBinding
    \/ \E on \in BOOLEAN : SetPaused(on)
    \/ \E seller \in Sellers, on \in BOOLEAN : AllowGuestSeller(seller, on)
    \/ \E first, second \in Sleeves \cup {NoAddress} : SetSleeves(first, second)
    \/ \E amount \in {r.quote : r \in Requests} : Withdraw(amount)

Treasury ==
    \/ \E target \in Targets : Rebalance(target)
    \/ \E sleeve \in Sleeves : Accrue(sleeve)

Approve ==
    \E signer \in Keys, id \in DOMAIN checkpoints : Sign(signer, id, checkpoints[id].reqHash)

Next == Executor \/ Govern \/ Own \/ Treasury \/ Approve \/ Post \/ Tick

Spec == Init /\ [][Next]_vars

-----------------------------------------------------------------------------
(* What the treasury promises.                                             *)

Paid == DOMAIN receipts
Quotes == [i \in Paid |-> receipts[i].req.quote]

Receipt == [req : SpendReq, fair : Nat, human : BOOLEAN, at : Nat, day : Nat, cap : Nat,
            limit : Nat, band : Nat, approver : Keys \cup {NoAddress}]

Checkpoint == [reqHash : {p.hash : p \in Proposals}, expiresAt : Nat,
               kind : {p.kind : p \in Proposals}, status : {"open", "consumed", "closed"},
               agent : {p.agent : p \in Proposals}]

MoneyTypeOK ==
    /\ balance \in Nat /\ value \in [Sleeves -> Nat]
    /\ {working, reserve} \subseteq Sleeves \cup {NoAddress}

TypeOK ==
    /\ now \in 0..MaxTime /\ StoreTypeOK
    /\ isExecutor \subseteq Keys /\ humanApprover \in Keys \cup {NoAddress}
    /\ {paused, requirePolicyCheckpoint, treasurerBinding} \subseteq BOOLEAN
    /\ policy \in Policy /\ policy.workingShareBps <= 10000
    /\ agents \in [Agents -> Agent]
    /\ \A a \in Agents : agents[a].periodStart <= now
    /\ usedNonce \subseteq Nonces
    /\ MoneyTypeOK
    /\ receipts \in Seq(Receipt)
    /\ checkpoints \in Seq(Checkpoint)

\* "a request that was refused must not become payable later because a cap
\* rolled or a price moved", and none is paid twice: the vault implements the
\* ledger of requests.
PaidNonces == {receipts[i].req.nonce : i \in Paid}
Ledger == INSTANCE RequestLedger WITH
    decided <- [n \in Nonces |-> IF n \in PaidNonces THEN "paid"
                                 ELSE IF n \in denied THEN "refused" ELSE "open"]
ImplementsLedger == Ledger!LedgerSpec

\* A nonce is paid once, by whichever path, in a state that keeps its types.
PaidOnce ==
    /\ TypeOK
    /\ \A i, j \in Paid : receipts[i].req.nonce = receipts[j].req.nonce => i = j

\* The daily cap of an agent holds in every day, over both paths and across
\* changes of its limits: a payment fits what was paid since its day began.
CapHoldsEveryDay ==
    \A i \in Paid :
        LET today == {j \in 1..i : /\ receipts[j].req.agent = receipts[i].req.agent
                                   /\ receipts[j].at >= receipts[i].day}
        IN  /\ receipts[i].at < receipts[i].day + Day
            /\ SumFunctionOnSet(Quotes, today) <= receipts[i].cap

\* A payment beyond the agent's own authority, by its size or its premium, was
\* released by the approver of the moment: by a signature for exactly this
\* request, under a checkpoint that lived and has served nothing else.
EscalationsHaveAPerson ==
    \A i \in Paid :
        LET r == receipts[i]
        IN  (r.req.quote >= r.limit \/ r.req.quote > (r.fair * (10000 + r.band)) \div 10000)
            => \E id \in DOMAIN checkpoints :
                  /\ checkpoints[id].status = "consumed"
                  /\ checkpoints[id].reqHash = SpendHash(r.req)
                  /\ r.at < checkpoints[id].expiresAt
                  /\ \E s \in signatures : /\ s.id = id /\ s.signer = r.approver
                                            /\ s.reqHash = SpendHash(r.req)

\* "a receipt that cites a printId stays independently checkable": every print
\* id names one price, and the fair price of a receipt is that price's.
ReceiptsStayCheckable ==
    \A i \in Paid :
        LET r == receipts[i]
            prints == history[r.req.index]
            cited == {n \in DOMAIN prints : prints[n].id = r.req.printId}
        IN  /\ Cardinality(cited) = 1
            /\ \A n \in cited : /\ Fair(prints[n].price, r.req.units) = r.fair
                                /\ prints[n].at <= r.at

\* "The key that PARKS a spend must not be the key that APPROVES it".
ApproverIsNoExecutor == humanApprover \notin isExecutor

\* An escalated payment is a person's decision, and the person's key none that parks.
PeopleDecide == EscalationsHaveAPerson /\ ApproverIsNoExecutor

\* With the gate on, the policy, an agent's limits and its sellers change only
\* by spending a person's approval of that very change.
Spends(hash) ==
    \E id \in DOMAIN checkpoints :
        /\ checkpoints[id].reqHash = hash /\ checkpoints[id].status = "open"
        /\ checkpoints'[id].status = "consumed"
        /\ \E s \in signatures : s.id = id /\ s.reqHash = hash /\ s.signer = humanApprover
GovernedByPeople ==
    [][requirePolicyCheckpoint =>
          /\ policy' # policy => Spends(PolicyHash(policy'))
          /\ ~requirePolicyCheckpoint' => Spends(GateOffHash)
          /\ \A a \in Agents :
                LET new == agents'[a]
                IN  agents[a].exists /\ <<new.cap, new.perRequest, new.frozen>> #
                                       <<agents[a].cap, agents[a].perRequest, agents[a].frozen>>
                    => Spends(AgentHash(a, [cap |-> new.cap, perRequest |-> new.perRequest,
                                            frozen |-> new.frozen]))
          /\ \A x \in allowedSeller' \ allowedSeller : Spends(SellerHash(x[1], x[2], TRUE))]_vars

\* "the vault pulls the EXACT shortfall out of the sleeve": a payment takes
\* from the sleeves what the buffer lacks and leaves the buffer what it had
\* over, up to one unit of rounding for each sleeve.
Worth(v) == SumFunctionOnSet(v, Sleeves)
JitPullsTheShortfall ==
    [][receipts' # receipts =>
          LET quote == receipts'[Len(receipts')].req.quote
              short == Max({0, quote - balance})
          IN  IF short = 0 THEN value' = value /\ balance' = balance - quote
              ELSE /\ Worth(value) - Worth(value') \in short..short + 2
                   /\ balance' \in {0, 1}]_vars
=============================================================================
