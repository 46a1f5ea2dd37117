-------------------------- MODULE FloatVaultProofs --------------------------
(***************************************************************************)
(* What the treasury keeps, for every set of agents, requests, prices,     *)
(* policies and sleeves.                                                   *)
(***************************************************************************)
EXTENDS FloatVault, CommonLemmas

-----------------------------------------------------------------------------
(* The ladder lets a request through only if no rung stops it.             *)

LEMMA AgentMayPay ==
    ASSUME NEW r, AsAgent(r) = {}
    PROVE  /\ agents[r.agent].exists
           /\ r.nonce \notin usedNonce
           /\ Latest(r.index).id # 0 /\ Latest(r.index).id = r.printId
           /\ ~(Rolled(agents[r.agent]).spent + r.quote > agents[r.agent].cap)
           /\ ~(r.quote > (Fair(Latest(r.index).price, r.units)
                             * (10000 + policy.maxPremiumBps)) \div 10000)
           /\ ~(r.quote >= agents[r.agent].perRequest)
  <1>1. \A code \in Range(Rungs) : ~Stops(code, r, policy.maxPremiumBps, FALSE)
    BY Zenon DEF AsAgent, Denials
  <1>2. {"D_UNKNOWN_AGENT", "D_REPLAY", "D_NO_PRINT", "D_ROTATED", "D_DAILY_CAP",
                     "D_BAND", "D_PER_REQUEST"}
           \subseteq Range(Rungs)
    <2>1. /\ Rungs[2] = "D_UNKNOWN_AGENT" /\ Rungs[5] = "D_REPLAY" /\ Rungs[7] = "D_NO_PRINT"
          /\ Rungs[9] = "D_ROTATED" /\ Rungs[11] = "D_BAND" /\ Rungs[12] = "D_PER_REQUEST"
          /\ Rungs[13] = "D_DAILY_CAP" /\ DOMAIN Rungs = 1..13
      BY DEF Rungs
    <2> QED BY <2>1 DEF Range
  <1> QED BY <1>1, <1>2 DEF Stops

LEMMA PersonMayRelease ==
    ASSUME NEW r, AsHuman(r) = {}
    PROVE  /\ agents[r.agent].exists
           /\ r.nonce \notin usedNonce
           /\ Latest(r.index).id # 0 /\ Latest(r.index).id = r.printId
           /\ ~(Rolled(agents[r.agent]).spent + r.quote > agents[r.agent].cap)
  <1>1. \A code \in Range(Rungs) : ~Stops(code, r, policy.humanMaxPremiumBps, TRUE)
    BY Zenon DEF AsHuman, Denials
  <1>2. {"D_UNKNOWN_AGENT", "D_REPLAY", "D_NO_PRINT", "D_ROTATED", "D_DAILY_CAP"}
           \subseteq Range(Rungs)
    <2>1. /\ Rungs[2] = "D_UNKNOWN_AGENT" /\ Rungs[5] = "D_REPLAY" /\ Rungs[7] = "D_NO_PRINT"
          /\ Rungs[9] = "D_ROTATED" /\ Rungs[11] = "D_BAND" /\ Rungs[12] = "D_PER_REQUEST"
          /\ Rungs[13] = "D_DAILY_CAP" /\ DOMAIN Rungs = 1..13
      BY DEF Rungs
    <2> QED BY <2>1 DEF Range
  <1> QED BY <1>1, <1>2 DEF Stops

-----------------------------------------------------------------------------
(* What a pull out of the sleeves brings and costs.                        *)

LEMMA MinOfTwo ==
    ASSUME NEW x \in Int, NEW y \in Int
    PROVE  Min({x, y}) \in {x, y} /\ Min({x, y}) <= x /\ Min({x, y}) <= y
  <1>1. \E m \in {x, y} : \A z \in {x, y} : m <= z
    <2>1. CASE x <= y
      BY <2>1
    <2>2. CASE ~(x <= y)
      BY <2>2
    <2> QED BY <2>1, <2>2
  <1> QED BY <1>1 DEF Min

\* What a pull leaves: the buffer has what it got, the sleeve lost the cost.
Pulled(f, b, v, sleeve, cost, got) ==
    /\ got \in {cost - 1, cost} /\ cost <= v[sleeve]
    /\ f.balance = b + got
    /\ f.value = [v EXCEPT ![sleeve] = @ - cost]
    /\ f.balance \in Nat /\ f.value \in [Sleeves -> Nat]

\* A venue delivers at most a unit less than the sleeve loses by it, and the
\* sleeve loses at most a unit more than it was asked for.
LEMMA PullIsRounded ==
    ASSUME NEW b \in Nat, NEW v \in [Sleeves -> Nat], NEW sleeve \in Sleeves,
           NEW amount \in Nat \ {0}, NEW f \in AfterPull(b, v, sleeve, amount)
    PROVE  \E cost \in amount..amount + 1, got \in Nat : Pulled(f, b, v, sleeve, cost, got)
  <1>1. PICK w \in Withdrawals(amount) :
           /\ w.cost <= v[sleeve]
           /\ f = [balance |-> b + w.got, value |-> [v EXCEPT ![sleeve] = @ - w.cost]]
    BY DEF AfterPull
  <1>2. /\ w.cost \in amount..amount + 1 /\ w.got \in Nat
        /\ w.got \in {w.cost - 1, w.cost}
    BY DEF Withdrawals
  <1>3. f.balance \in Nat /\ f.value \in [Sleeves -> Nat]
    <2>1. v[sleeve] - w.cost \in Nat
      BY <1>1, <1>2
    <2> QED BY <1>1, <1>2, <2>1
  <1>4. f.balance = b + w.got /\ f.value = [v EXCEPT ![sleeve] = @ - w.cost]
    BY <1>1
  <1>5. Pulled(f, b, v, sleeve, w.cost, w.got)
    BY <1>1, <1>2, <1>3, <1>4 DEF Pulled
  <1> QED BY <1>2, <1>5

LEMMA FirstPullTyped ==
    ASSUME MoneyTypeOK, NEW short \in Nat \ {0}, NEW f \in FirstPulls(short)
    PROVE  f.balance \in Nat /\ f.value \in [Sleeves -> Nat]
  <1> USE DEF MoneyTypeOK
  <1> DEFINE pull == IF working = NoAddress THEN 0 ELSE Min({short, value[working]})
  <1>1. pull \in Nat /\ (pull # 0 => working \in Sleeves)
    <2>1. CASE working = NoAddress
      BY <2>1
    <2>2. CASE working # NoAddress
      <3>1. working \in Sleeves /\ value[working] \in Nat
        BY <2>2
      <3>2. Min({short, value[working]}) \in {short, value[working]}
        <4>1. short \in Int /\ value[working] \in Int
          BY <3>1
        <4> QED BY <4>1, MinOfTwo
      <3> QED BY <2>2, <3>1, <3>2
    <2> QED BY <2>1, <2>2
  <1>2. CASE pull = 0
    BY <1>2 DEF FirstPulls
  <1>3. CASE pull # 0
    <2>1. f \in AfterPull(balance, value, working, pull)
      BY <1>3 DEF FirstPulls
    <2>2. working \in Sleeves /\ pull \in Nat \ {0}
      BY <1>1, <1>3
    <2> HIDE DEF pull
    <2> QED BY <2>1, <2>2, PullIsRounded DEF Pulled
  <1> QED BY <1>2, <1>3

LEMMA FundTyped ==
    ASSUME MoneyTypeOK, NEW need \in Nat, NEW f \in Fund(need)
    PROVE  f.balance \in Nat /\ f.value \in [Sleeves -> Nat]
  <1>1. CASE balance >= need
    BY <1>1 DEF Fund, MoneyTypeOK
  <1>2. CASE ~(balance >= need)
    <2> DEFINE short == need - balance
    <2>1. short \in Nat \ {0}
      BY <1>2 DEF MoneyTypeOK
    <2>2. PICK g \in FirstPulls(short) :
             \/ (g.balance >= need \/ reserve = NoAddress) /\ f = g
             \/ /\ ~(g.balance >= need) /\ reserve # NoAddress
                /\ f \in AfterPull(g.balance, g.value, reserve,
                                  SecondPull(short, g.balance, need))
      BY <1>2 DEF Fund
    <2>3. g.balance \in Nat /\ g.value \in [Sleeves -> Nat]
      BY <2>1, FirstPullTyped
    <2>4. CASE ~(g.balance >= need) /\ reserve # NoAddress
               /\ f \in AfterPull(g.balance, g.value, reserve,
                                 SecondPull(short, g.balance, need))
      <3> DEFINE pull == SecondPull(short, g.balance, need)
      <3>1. pull \in Nat \ {0} /\ reserve \in Sleeves
        BY <2>3, <2>4 DEF MoneyTypeOK, SecondPull
      <3>2. f \in AfterPull(g.balance, g.value, reserve, pull)
        BY <2>4
      <3> HIDE DEF pull
      <3> QED BY <2>3, <3>1, <3>2, PullIsRounded DEF Pulled
    <2> QED BY <2>2, <2>3, <2>4
  <1> QED BY <1>1, <1>2


-----------------------------------------------------------------------------
(* Type correctness.                                                       *)

\* Where a request finds its agent's day.
LEMMA Today ==
    ASSUME TypeOK, NEW a \in Agents
    PROVE  LET today == Rolled(agents[a])
           IN  /\ today.start \in Nat /\ today.spent \in Nat
               /\ today.start <= now /\ now < today.start + Day
               /\ \/ today.start = agents[a].periodStart /\ today.spent = agents[a].spent
                  \/ today.start >= agents[a].periodStart + Day /\ today.spent = 0
  <1> DEFINE b == agents[a]
  <1>1. /\ now \in Nat /\ b \in Agent /\ b.periodStart <= now
        /\ b.periodStart \in Nat /\ b.spent \in Nat /\ Day \in Nat /\ Day > 0
    BY FloatAssumption DEF TypeOK, Agent
  <1>2. CASE now < b.periodStart + Day
    BY <1>1, <1>2 DEF Rolled
  <1>3. CASE ~(now < b.periodStart + Day)
    <2> DEFINE start == b.periodStart + ((now - b.periodStart) \div Day) * Day
    <2>1. Rolled(b).start = start /\ Rolled(b).spent = 0
      BY <1>3 DEF Rolled
    <2>2. start \in Nat /\ start <= now /\ now < start + Day /\ start >= b.periodStart + Day
      <3> HIDE DEF b
      <3>1. now >= b.periodStart + Day
        BY <1>1, <1>3
      <3> QED BY <1>1, <3>1, WholePeriods
    <2> HIDE DEF start
    <2> QED BY <1>1, <2>1, <2>2
  <1> QED BY <1>2, <1>3

LEMMA FairIsNat == ASSUME NEW price \in Nat, NEW units \in Nat PROVE Fair(price, units) \in Nat
  <1>1. price * units \in Nat /\ Scale \in Nat /\ Scale > 0
    BY FloatAssumption
  <1> QED BY <1>1 DEF Fair

LEMMA SpendTyped ==
    ASSUME TypeOK, NEW r \in Requests, NEW human \in BOOLEAN, Spend(r, human),
           UNCHANGED <<now, storeVars, roles>>, checkpoints' \in Seq(Checkpoint)
    PROVE  TypeOK'
  <1> DEFINE today == Rolled(agents[r.agent])
  <1>1. /\ r \in SpendReq /\ r.agent \in Agents /\ r.quote \in Nat /\ r.units \in Nat
        /\ r.nonce \in Nonces /\ r.index \in Indices
    BY FloatAssumption DEF SpendReq
  <1>2. today.start \in Nat /\ today.spent \in Nat /\ today.start <= now
    BY <1>1, Today
  <1>3. /\ agents \in [Agents -> Agent] /\ agents[r.agent] \in Agent /\ now \in Nat
        /\ \A a \in Agents : agents[a].periodStart <= now
    BY <1>1 DEF TypeOK
  <1> HIDE DEF today
  <1>4. /\ agents' \in [Agents -> Agent]
        /\ \A a \in Agents : agents'[a].periodStart <= now'
    <2> DEFINE new == [agents[r.agent] EXCEPT !.spent = today.spent + r.quote,
                                             !.periodStart = today.start]
    <2>1. agents' = [agents EXCEPT ![r.agent] = new]
      BY DEF Spend, today
    <2>2. today.spent + r.quote \in Nat
      BY <1>1, <1>2
    <2>3. new \in Agent /\ new.periodStart = today.start
      BY <1>2, <1>3, <2>2 DEF Agent
    <2> HIDE DEF new
    <2> QED BY <1>2, <1>3, <2>1, <2>3
  <1>5. MoneyTypeOK'
    <2>1. PICK f \in Fund(r.quote) :
             /\ f.balance >= r.quote
             /\ balance' = f.balance - r.quote /\ value' = f.value
      BY DEF Spend
    <2>2. f.balance \in Nat /\ f.value \in [Sleeves -> Nat]
      BY <1>1, FundTyped DEF TypeOK
    <2>3. balance' \in Nat /\ value' \in [Sleeves -> Nat]
      BY <1>1, <2>1, <2>2
    <2> QED BY <2>3 DEF Spend, MoneyTypeOK, TypeOK
  <1>6. receipts' \in Seq(Receipt)
    <2>1. Latest(r.index).price \in Nat
      BY <1>1 DEF TypeOK, StoreTypeOK, Latest, PrintStruct, NoPrint
    <2>2. Fair(Latest(r.index).price, r.units) \in Nat
      BY <1>1, <2>1, FairIsNat
    <2>3. agents[r.agent].cap \in Nat /\ agents[r.agent].perRequest \in Nat
      BY <1>3 DEF Agent
    <2>4. policy.maxPremiumBps \in Nat /\ humanApprover \in Keys \cup {NoAddress}
      BY DEF TypeOK, Policy
    <2>5. [req |-> r, fair |-> Fair(Latest(r.index).price, r.units), human |-> human,
           at |-> now, day |-> today.start, cap |-> agents[r.agent].cap,
           limit |-> agents[r.agent].perRequest, band |-> policy.maxPremiumBps,
           approver |-> humanApprover] \in Receipt
      BY <1>1, <1>2, <1>3, <2>2, <2>3, <2>4 DEF Receipt
    <2> QED BY <2>5 DEF Spend, TypeOK, today
  <1> QED BY <1>1, <1>4, <1>5, <1>6
          DEF Spend, TypeOK, StoreTypeOK, storeVars, roles

LEMMA RebalanceTyped ==
    ASSUME TypeOK, NEW target \in Nat, NEW f \in Rebalanced(target)
    PROVE  f.balance \in Nat /\ f.value \in [Sleeves -> Nat]
  <1> DEFINE hi == (target * (10000 + policy.upperBandBps)) \div 10000
             lo == (target * (10000 - policy.lowerBandBps)) \div 10000
             excess == balance - target
             toWorking == (excess * policy.workingShareBps) \div 10000
  <1>1. MoneyTypeOK /\ balance \in Nat /\ value \in [Sleeves -> Nat]
    BY DEF TypeOK, MoneyTypeOK
  <1>2. CASE f \in Fund(target)
    BY <1>1, <1>2, FundTyped
  <1>3. CASE /\ balance > hi /\ excess >= policy.minTicket
             /\ f \in UNION {Lodge(g.balance, g.value, reserve, excess - toWorking) :
                             g \in Lodge(balance, value, working, toWorking)}
    <2>1. excess \in Nat
      <3>1. hi \in Int /\ hi >= target
        <4>1. policy.upperBandBps \in Nat
          BY DEF TypeOK, Policy
        <4>2. target * (10000 + policy.upperBandBps) >= target * 10000
          BY <4>1, SMT
        <4> QED BY <4>1, <4>2
      <3> QED BY <1>1, <1>3, <3>1
    <2>2. toWorking \in Nat /\ toWorking <= excess
      <3>1. policy.workingShareBps \in Nat /\ policy.workingShareBps <= 10000
        BY DEF TypeOK, Policy
      <3> DEFINE share == policy.workingShareBps
                 e == excess
      <3>2. e \in Nat /\ share \in Nat /\ share <= 10000
        BY <2>1, <3>1
      <3> HIDE DEF share, e
      <3>3. e * share \in Nat /\ e * share <= e * 10000
        BY <3>2, SMT
      <3>4. (e * share) \div 10000 \in Nat /\ (e * share) \div 10000 <= e
        BY <3>2, <3>3
      <3> QED BY <3>4 DEF share, e
    <2>3. PICK g \in Lodge(balance, value, working, toWorking) :
             f \in Lodge(g.balance, g.value, reserve, excess - toWorking)
      BY <1>3
    <2> HIDE DEF toWorking, hi, lo
    <2>4. g.value \in [Sleeves -> Nat] /\ g.balance \in Nat
          /\ g.balance >= balance - toWorking
      <3> DEFINE w == toWorking
      <3>1. value \in [Sleeves -> Nat] /\ balance \in Nat /\ w \in Nat /\ w <= balance
            /\ working \in Sleeves \cup {NoAddress}
        <4>1. target \in Nat /\ excess <= balance
          BY <1>1
        <4> QED BY <1>1, <2>1, <2>2, <4>1 DEF MoneyTypeOK
      <3>2. g \in Lodge(balance, value, working, w)
        BY <2>3
      <3> HIDE DEF w, excess
      <3>3. CASE g = [balance |-> balance, value |-> value]
        BY <3>1, <3>3 DEF w
      <3>4. CASE /\ w # 0 /\ working \in Sleeves
                 /\ \E got \in {w, w - 1} :
                       g = [balance |-> balance - w,
                            value |-> [value EXCEPT ![working] = value[working] + got]]
        <4>1. PICK got \in {w, w - 1} :
                g = [balance |-> balance - w,
                     value |-> [value EXCEPT ![working] = value[working] + got]]
          BY <3>4
        <4>2. got \in Nat /\ value[working] + got \in Nat /\ balance - w \in Nat
          BY <3>1, <3>4
        <4> QED BY <3>1, <3>4, <4>1, <4>2 DEF w
      <3> QED BY <3>1, <3>2, <3>3, <3>4 DEF Lodge
    <2>5. excess - toWorking \in Nat /\ g.balance >= excess - toWorking
      BY <1>1, <2>1, <2>2, <2>4
    <2> DEFINE rest == excess - toWorking
    <2> HIDE DEF rest, excess
    <2> QED BY <1>1, <2>3, <2>4, <2>5 DEF Lodge, MoneyTypeOK, rest
  <1>4. \/ f \in Fund(target)
        \/ /\ balance > hi /\ excess >= policy.minTicket
           /\ f \in UNION {Lodge(g.balance, g.value, reserve, excess - toWorking) :
                             g \in Lodge(balance, value, working, toWorking)}
    BY DEF Rebalanced
  <1> QED BY <1>2, <1>3, <1>4

\* What happens to checkpoints: one is opened, or one changes its status.
LEMMA CheckpointClosed ==
    ASSUME TypeOK, NEW id \in DOMAIN checkpoints, NEW status \in {"consumed", "closed"},
           checkpoints' = [checkpoints EXCEPT ![id].status = status]
    PROVE  /\ checkpoints' \in Seq(Checkpoint) /\ DOMAIN checkpoints' = DOMAIN checkpoints
           /\ checkpoints'[id] = [checkpoints[id] EXCEPT !.status = status]
           /\ checkpoints'[id].status = status
           /\ \A k \in DOMAIN checkpoints :
                 /\ k # id => checkpoints'[k] = checkpoints[k]
                 /\ checkpoints'[k].reqHash = checkpoints[k].reqHash
                 /\ checkpoints'[k].expiresAt = checkpoints[k].expiresAt
  <1> DEFINE new == [checkpoints[id] EXCEPT !.status = status]
  <1>1. checkpoints \in Seq(Checkpoint)
    BY DEF TypeOK
  <1>2. checkpoints[id] \in Checkpoint
    BY <1>1
  <1>3. /\ new \in Checkpoint /\ new.status = status
        /\ new.reqHash = checkpoints[id].reqHash /\ new.expiresAt = checkpoints[id].expiresAt
    BY <1>2 DEF Checkpoint
  <1>4. checkpoints' = [checkpoints EXCEPT ![id] = new]
    OBVIOUS
  <1> HIDE DEF new
  <1>5. checkpoints' \in Seq(Checkpoint)
    BY <1>1, <1>3, <1>4
  <1> QED BY <1>1, <1>3, <1>4, <1>5 DEF new

LEMMA GatedTyped ==
    ASSUME TypeOK, NEW asked, NEW hash, Gated(asked, hash)
    PROVE  checkpoints' \in Seq(Checkpoint)
  <1>1. CASE UNCHANGED checkpoints
    BY <1>1 DEF TypeOK
  <1>2. CASE \E id \in DOMAIN checkpoints : Consume(id)
    BY <1>2, CheckpointClosed DEF Consume
  <1> QED BY <1>1, <1>2 DEF Gated

LEMMA ExecutorTyped == ASSUME TypeOK, Executor PROVE TypeOK'
  <1>1. CASE \E r \in Requests : RequestSpend(r)
    <2>1. PICK r \in Requests : RequestSpend(r)
      BY <1>1
    <2>2. CASE Spend(r, FALSE)
      <3>1. UNCHANGED <<now, storeVars, roles>> /\ checkpoints' \in Seq(Checkpoint)
        BY <2>1 DEF RequestSpend, TypeOK
      <3> QED BY <2>2, <3>1, SpendTyped
    <2>3. CASE /\ usedNonce' = usedNonce \cup Burns(r, FirstOf(AsAgent(r)))
               /\ UNCHANGED <<rules, money, receipts>>
      <3>1. Burns(r, FirstOf(AsAgent(r))) \subseteq Nonces
        BY DEF Burns, Nonces
      <3> QED BY <2>1, <2>3, <3>1
              DEF RequestSpend, TypeOK, MoneyTypeOK, StoreTypeOK, storeVars, roles, rules, money
    <2> QED BY <2>1, <2>2, <2>3 DEF RequestSpend
  <1>2. CASE \E p \in Proposals, ttl \in Ttls : OpenCheckpoint(p.agent, p.hash, p.kind, ttl)
    <2>1. PICK p \in Proposals, ttl \in Ttls : OpenCheckpoint(p.agent, p.hash, p.kind, ttl)
      BY <1>2
    <2>2. now + ttl \in Nat
      BY FloatAssumption DEF TypeOK
    <2>3. checkpoints' \in Seq(Checkpoint)
      <3>1. [reqHash |-> p.hash, expiresAt |-> now + ttl, kind |-> p.kind,
             status |-> "open", agent |-> p.agent] \in Checkpoint
        BY <2>2 DEF Checkpoint
      <3> QED BY <2>1, <3>1 DEF OpenCheckpoint, TypeOK
    <2> QED BY <2>1, <2>3
            DEF OpenCheckpoint, TypeOK, MoneyTypeOK, StoreTypeOK, storeVars, roles, rules,
                money, requests
  <1>3. ASSUME NEW id \in DOMAIN checkpoints, ResolveCheckpoint(id)
        PROVE  TypeOK'
    <2>1. checkpoints' \in Seq(Checkpoint)
      BY <1>3, CheckpointClosed DEF ResolveCheckpoint
    <2> QED BY <1>3, <2>1
            DEF ResolveCheckpoint, TypeOK, MoneyTypeOK, StoreTypeOK, storeVars, roles, rules,
                money, requests
  <1>4. ASSUME NEW id \in DOMAIN checkpoints, NEW r \in Requests, ExecuteApproved(id, r)
        PROVE  TypeOK'
    <2>1. checkpoints' \in Seq(Checkpoint)
      BY <1>4, CheckpointClosed DEF ExecuteApproved, Consume
    <2> QED BY <1>4, <2>1, SpendTyped DEF ExecuteApproved
  <1> QED BY <1>1, <1>2, <1>3, <1>4 DEF Executor

LEMMA ConfiguredTyped ==
    ASSUME NEW a \in Agent, NEW limits \in Limits, now \in Nat, a.periodStart <= now
    PROVE  /\ Configured(a, limits) \in Agent /\ Configured(a, limits).periodStart <= now
           /\ Configured(a, limits).exists /\ Configured(a, limits).spent = a.spent
           /\ Configured(a, limits).cap = limits.cap
           /\ Configured(a, limits).perRequest = limits.perRequest
           /\ Configured(a, limits).frozen = limits.frozen
           /\ Configured(a, limits).periodStart = IF a.exists THEN a.periodStart ELSE now
  <1>1. limits \in [cap : Nat, perRequest : Nat, frozen : BOOLEAN]
    BY FloatAssumption
  <1>2. (IF a.exists THEN a.periodStart ELSE now) \in Nat
    BY DEF Agent
  <1> DEFINE start == IF a.exists THEN a.periodStart ELSE now
  <1>3. start <= now
    OBVIOUS
  <1>4. Configured(a, limits) = [a EXCEPT !.cap = limits.cap,
              !.perRequest = limits.perRequest, !.frozen = limits.frozen,
              !.guest = FALSE, !.exists = TRUE, !.periodStart = start]
    BY DEF Configured
  <1> HIDE DEF start
  <1> QED BY <1>1, <1>2, <1>3, <1>4 DEF Agent, start

GuestAgent == [NoAgent EXCEPT !.cap = GuestCap, !.perRequest = GuestCap,
                              !.periodStart = now, !.guest = TRUE, !.exists = TRUE]

LEMMA GuestTyped ==
    ASSUME now \in Nat
    PROVE  /\ GuestAgent \in Agent /\ GuestAgent.periodStart = now
           /\ GuestAgent.spent = 0 /\ GuestAgent.exists
  <1>1. GuestCap \in Nat
    BY FloatAssumption
  <1> QED BY <1>1 DEF GuestAgent, NoAgent, Agent

LEMMA GovernTyped == ASSUME TypeOK, Govern PROVE TypeOK'
  <1> USE DEF TypeOK, MoneyTypeOK, StoreTypeOK, storeVars, roles, money, requests
  <1>1. CASE \E on \in BOOLEAN : SetPolicyCheckpointRequired(on)
    BY <1>1, GatedTyped DEF SetPolicyCheckpointRequired
  <1>2. CASE \E p \in Policies : SetPolicy(p)
    BY <1>2, GatedTyped, FloatAssumption DEF SetPolicy
  <1>3. ASSUME NEW agent \in Agents, NEW limits \in Limits, SetAgent(agent, limits)
        PROVE  TypeOK'
    <2>1. agents[agent] \in Agent /\ now \in Nat /\ agents[agent].periodStart <= now
      OBVIOUS
    <2>3. Configured(agents[agent], limits) \in Agent
          /\ Configured(agents[agent], limits).periodStart <= now
      BY <2>1, ConfiguredTyped
    <2>4. checkpoints' \in Seq(Checkpoint)
      BY <1>3, GatedTyped DEF SetAgent
    <2> QED BY <1>3, <2>3, <2>4 DEF SetAgent
  <1>4. CASE \E agent \in Agents, seller \in Sellers, on \in BOOLEAN :
                AllowSeller(agent, seller, on)
    BY <1>4, GatedTyped DEF AllowSeller
  <1>5. ASSUME NEW agent \in Agents, RegisterGuest(agent)
        PROVE  TypeOK'
    <2>1. agents' = [agents EXCEPT ![agent] = GuestAgent]
      BY <1>5 DEF RegisterGuest, GuestAgent
    <2>2. GuestAgent \in Agent /\ GuestAgent.periodStart <= now
      BY GuestTyped
    <2>3. agents' \in [Agents -> Agent]
          /\ \A a \in Agents : agents'[a].periodStart <= now
      BY <2>1, <2>2
    <2> QED BY <1>5, <2>3 DEF RegisterGuest
  <1> QED
    <2> HIDE DEF TypeOK, MoneyTypeOK, StoreTypeOK, storeVars, roles, money, requests
    <2> QED BY <1>1, <1>2, <1>3, <1>4, <1>5 DEF Govern

LEMMA OwnTyped == ASSUME TypeOK, Own PROVE TypeOK'
  <1> USE DEF TypeOK, MoneyTypeOK, StoreTypeOK, storeVars, roles, rules, money, requests
  <1>1. CASE \E key \in Keys \cup {NoAddress} : SetApprover(key)
    BY <1>1 DEF SetApprover
  <1>5. CASE \E key \in Keys, on \in BOOLEAN : SetExecutor(key, on)
    BY <1>5 DEF SetExecutor
  <1>6. CASE SetTreasurerBinding
    BY <1>6 DEF SetTreasurerBinding
  <1>2. CASE \/ \E on \in BOOLEAN : SetPaused(on)
             \/ \E seller \in Sellers, on \in BOOLEAN : AllowGuestSeller(seller, on)
    BY <1>2 DEF SetPaused, AllowGuestSeller
  <1>3. CASE \E first, second \in Sleeves \cup {NoAddress} : SetSleeves(first, second)
    BY <1>3 DEF SetSleeves
  <1>4. CASE \E amount \in {r.quote : r \in Requests} : Withdraw(amount)
    <2>1. PICK r \in Requests : Withdraw(r.quote)
      BY <1>4
    <2>2. r.quote \in Nat
      BY FloatAssumption DEF SpendReq
    <2>3. balance' \in Nat
      BY <2>1, <2>2 DEF Withdraw
    <2> QED BY <2>1, <2>3 DEF Withdraw
  <1> QED
    <2> HIDE DEF TypeOK
    <2> QED BY <1>1, <1>2, <1>3, <1>4, <1>5, <1>6 DEF Own

LEMMA TreasuryTyped == ASSUME TypeOK, Treasury PROVE TypeOK'
  <1> USE DEF TypeOK, MoneyTypeOK, StoreTypeOK, storeVars, roles, rules, requests
  <1>1. ASSUME NEW target \in Targets, Rebalance(target)
        PROVE  TypeOK'
    <2>1. balance' \in Nat /\ value' \in [Sleeves -> Nat]
      BY <1>1, FloatAssumption, RebalanceTyped DEF Rebalance
    <2> QED BY <1>1, <2>1 DEF Rebalance
  <1>2. CASE \E sleeve \in Sleeves : Accrue(sleeve)
    BY <1>2 DEF Accrue
  <1> QED
    <2> HIDE DEF TypeOK, MoneyTypeOK, StoreTypeOK, storeVars, roles, rules, requests
    <2> QED BY <1>1, <1>2 DEF Treasury

LEMMA PrintTyped ==
    ASSUME StoreTypeOK, NEW index \in Indices, NEW price \in Prices, now \in Nat
    PROVE  LET p == [price |-> price, id |-> latest[index].id + 1, at |-> now]
           IN  /\ p \in PrintStruct
               /\ Append(history[index], p) \in Seq(PrintStruct)
  <1>1. latest[index].id + 1 \in Nat
    BY DEF StoreTypeOK, PrintStruct
  <1>2. [price |-> price, id |-> latest[index].id + 1, at |-> now] \in PrintStruct
    BY <1>1, PrintStoreAssumption DEF PrintStruct
  <1> QED BY <1>2 DEF StoreTypeOK

LEMMA StoreTyped == ASSUME StoreTypeOK, StoreNext, now \in Nat PROVE StoreTypeOK'
  <1>1. CASE \/ \E signer \in Signers, allowed \in BOOLEAN : SetSigner(signer, allowed)
             \/ \E on \in BOOLEAN : SetStorePaused(on)
    BY <1>1 DEF StoreTypeOK, SetSigner, SetStorePaused
  <1>2. ASSUME NEW signer \in Signers, NEW index \in Indices, NEW price \in Prices,
               SetPrint(signer, index, price)
        PROVE  StoreTypeOK'
    <2> DEFINE p == [price |-> price, id |-> latest[index].id + 1, at |-> now]
    <2>1. p \in PrintStruct /\ Append(history[index], p) \in Seq(PrintStruct)
      BY PrintTyped
    <2>2. /\ latest' = [latest EXCEPT ![index] = p]
          /\ history' = [history EXCEPT ![index] = Append(@, p)]
          /\ UNCHANGED <<isSigner, storePaused>>
      BY <1>2 DEF SetPrint
    <2> HIDE DEF p
    <2> QED BY <2>1, <2>2 DEF StoreTypeOK
  <1> QED BY <1>1, <1>2 DEF StoreNext

LEMMA InitTyped == Init => TypeOK
  <1> SUFFICES ASSUME Init PROVE TypeOK
    OBVIOUS
  <1>1. PICK s \in Setup :
          /\ isExecutor = s.executors /\ humanApprover = s.approver
          /\ requirePolicyCheckpoint = s.gate /\ policy = s.policy
          /\ agents = s.agents
          /\ balance = s.balance /\ working = s.working /\ reserve = s.reserve
          /\ value = s.value
    BY DEF Init
  <1>2. Wired(s)
    BY FloatAssumption
  <1>3. StoreTypeOK
    <2>1. NoPrint \in PrintStruct /\ <<>> \in Seq(PrintStruct)
      BY DEF PrintStruct, NoPrint
    <2>2. StoreInit
      BY DEF Init
    <2> QED BY <2>1, <2>2 DEF StoreInit, StoreTypeOK
  <1>4. MoneyTypeOK
    BY <1>1, <1>2 DEF Wired, MoneyTypeOK
  <1>5. now \in 0..MaxTime
    BY FloatAssumption DEF Init
  <1>6. /\ agents \in [Agents -> Agent]
        /\ \A a \in Agents : agents[a].periodStart <= now
    BY <1>1, <1>2 DEF Wired, Init
  <1>7. receipts \in Seq(Receipt) /\ checkpoints \in Seq(Checkpoint) /\ usedNonce \subseteq Nonces
    BY DEF Init
  <1>8. /\ isExecutor \subseteq Keys /\ humanApprover \in Keys \cup {NoAddress}
        /\ policy \in Policy /\ policy.workingShareBps <= 10000
    BY <1>1, <1>2 DEF Wired
  <1>9. {paused, requirePolicyCheckpoint, treasurerBinding} \subseteq BOOLEAN
    <2>1. paused \in BOOLEAN /\ treasurerBinding \in BOOLEAN
      BY DEF Init
    <2>2. requirePolicyCheckpoint \in BOOLEAN
      BY <1>1, <1>2 DEF Wired
    <2> QED BY <2>1, <2>2, Zenon
  <1> QED BY <1>3, <1>4, <1>5, <1>6, <1>7, <1>8, <1>9 DEF TypeOK

LEMMA TypePreserved == ASSUME TypeOK, [Next]_vars PROVE TypeOK'
  <1>1. CASE Post
    BY <1>1, StoreTyped
       DEF Post, TypeOK, MoneyTypeOK, roles, rules, money, requests
  <1>2. CASE Tick
    <2>1. now' \in 0..MaxTime /\ now' >= now
      BY <1>2, FloatAssumption DEF Tick, TypeOK
    <2>2. \A a \in Agents : agents[a].periodStart <= now'
      BY <2>1 DEF TypeOK, Agent
    <2> QED BY <1>2, <2>1, <2>2
            DEF Tick, TypeOK, MoneyTypeOK, StoreTypeOK, storeVars, roles, rules, money, requests
  <1>3. CASE Approve
    BY <1>3 DEF Approve, Sign, TypeOK, MoneyTypeOK, StoreTypeOK, storeVars, roles, rules, money,
                requests
  <1>4. CASE UNCHANGED vars
    BY <1>4 DEF vars, TypeOK, MoneyTypeOK, StoreTypeOK, storeVars, roles, rules, money, requests
  <1> QED BY <1>1, <1>2, <1>3, <1>4, ExecutorTyped, GovernTyped, OwnTyped, TreasuryTyped DEF Next

\* Every step of the vault (requestSpend, _spend, _fund, rebalance and all
\* that its roles may do) keeps its state within its types: no balance, no
\* sleeve and no sum spent falls below zero, no day begins in the future.
THEOREM FloatTypeCorrect == Spec => []TypeOK
  BY InitTyped, TypePreserved, PTL DEF Spec

-----------------------------------------------------------------------------
(* Requests: every step pays one, refuses one, or leaves them alone.       *)

Pays(r, human) ==
    /\ Spend(r, human)
    /\ UNCHANGED <<now, storeVars, roles, signatures>>
    /\ \/ ~human /\ AsAgent(r) = {} /\ UNCHANGED checkpoints
       \/ /\ human /\ AsHuman(r) = {}
          /\ \E id \in DOMAIN checkpoints : Approved(id, SpendHash(r), "spend") /\ Consume(id)

Refuses(r) ==
    /\ \/ usedNonce' = usedNonce \cup {r.nonce} /\ denied' = denied \cup {r.nonce}
       \/ UNCHANGED <<usedNonce, denied>>
    /\ UNCHANGED <<now, storeVars, roles, rules, money, receipts, checkpoints, signatures>>

LEMMA RequestSteps ==
    ASSUME [Next]_vars
    PROVE  \/ \E r \in Requests, human \in BOOLEAN : Pays(r, human)
           \/ \E r \in Requests : Refuses(r)
           \/ UNCHANGED requests
  <1>1. CASE Executor
    <2>1. ASSUME NEW r \in Requests, RequestSpend(r)
          PROVE  Pays(r, FALSE) \/ Refuses(r)
      <3>1. CASE AsAgent(r) = {} /\ Spend(r, FALSE)
        BY <2>1, <3>1 DEF RequestSpend, Pays
      <3>2. CASE ~(AsAgent(r) = {} /\ Spend(r, FALSE))
        BY <2>1, <3>2 DEF RequestSpend, Refuses, Burns
      <3> QED BY <3>1, <3>2
    <2>2. ASSUME NEW id \in DOMAIN checkpoints, NEW r \in Requests, ExecuteApproved(id, r)
          PROVE  Pays(r, TRUE)
      BY <2>2 DEF ExecuteApproved, Pays
    <2>3. CASE \/ \E p \in Proposals, ttl \in Ttls :
                     OpenCheckpoint(p.agent, p.hash, p.kind, ttl)
               \/ \E id \in DOMAIN checkpoints : ResolveCheckpoint(id)
      BY <2>3 DEF OpenCheckpoint, ResolveCheckpoint
    <2> QED BY <1>1, <2>1, <2>2, <2>3 DEF Executor
  <1>2. CASE Govern
    BY <1>2 DEF Govern, SetPolicyCheckpointRequired, SetPolicy, SetAgent, AllowSeller,
                RegisterGuest
  <1>3. CASE Own
    BY <1>3 DEF Own, SetApprover, SetExecutor, SetTreasurerBinding, SetPaused,
                AllowGuestSeller, SetSleeves, Withdraw
  <1>4. CASE Treasury \/ Approve \/ Post \/ Tick \/ UNCHANGED vars
    BY <1>4 DEF Treasury, Rebalance, Accrue, Approve, Sign, Post, Tick, vars, requests
  <1> QED BY <1>1, <1>2, <1>3, <1>4 DEF Next

\* What a payment appends.
ReceiptOf(r, human) ==
    [req |-> r, fair |-> Fair(Latest(r.index).price, r.units), human |-> human, at |-> now,
     day |-> Rolled(agents[r.agent]).start, cap |-> agents[r.agent].cap,
     limit |-> agents[r.agent].perRequest, band |-> policy.maxPremiumBps,
     approver |-> humanApprover]

LEMMA PaymentAppends ==
    ASSUME TypeOK, NEW r \in Requests, NEW human \in BOOLEAN, Pays(r, human)
    PROVE  /\ Len(receipts) \in Nat /\ Paid = 1..Len(receipts)
           /\ Paid' = 1..Len(receipts) + 1
           /\ \A i \in Paid : receipts'[i] = receipts[i]
           /\ receipts'[Len(receipts) + 1] = ReceiptOf(r, human)
           /\ receipts'[Len(receipts) + 1].req = r
           /\ r.nonce \notin usedNonce /\ usedNonce' = usedNonce \cup {r.nonce}
           /\ denied' = denied
  <1>1. receipts \in Seq(Receipt)
    BY DEF TypeOK
  <1>2. r.nonce \notin usedNonce
    <2>1. CASE AsAgent(r) = {}
      BY <2>1, AgentMayPay
    <2>2. CASE AsHuman(r) = {}
      BY <2>2, PersonMayRelease
    <2> QED BY <2>1, <2>2 DEF Pays
  <1>3. receipts' = Append(receipts, ReceiptOf(r, human))
    BY DEF Pays, Spend, ReceiptOf
  <1>4. ReceiptOf(r, human).req = r
    BY DEF ReceiptOf
  <1> QED BY <1>1, <1>2, <1>3, <1>4 DEF Pays, Spend, Paid

\* Whatever was paid or refused has its nonce on record; no nonce paid twice.
NoncesAreUsed == PaidNonces \cup denied \subseteq usedNonce
NoncePaidOnce == \A i, j \in Paid : receipts[i].req.nonce = receipts[j].req.nonce => i = j

LEMMA PaidNoncesGrow ==
    ASSUME TypeOK, NEW r \in Requests, NEW human \in BOOLEAN, Pays(r, human)
    PROVE  PaidNonces' = PaidNonces \cup {r.nonce}
  <1> DEFINE n == Len(receipts)
  <1>1. /\ n \in Nat /\ Paid = 1..n /\ Paid' = 1..n + 1
        /\ \A i \in Paid : receipts'[i] = receipts[i]
        /\ receipts'[n + 1].req = r
    BY PaymentAppends
  <1>2. PaidNonces = {receipts[i].req.nonce : i \in 1..n}
    BY <1>1 DEF PaidNonces
  <1>3. PaidNonces' = {receipts'[i].req.nonce : i \in 1..n + 1}
    BY <1>1 DEF PaidNonces
  <1>4. \A i \in 1..n : receipts'[i].req.nonce = receipts[i].req.nonce
    BY <1>1
  <1>5. n \in Nat /\ receipts'[n + 1].req.nonce = r.nonce
    BY <1>1
  <1> HIDE DEF n
  <1>6. 1..n + 1 = (1..n) \cup {n + 1}
    BY <1>5
  <1> QED BY <1>2, <1>3, <1>4, <1>5, <1>6

LEMMA NoncesPreserved ==
    ASSUME TypeOK, NoncesAreUsed, NoncePaidOnce, [Next]_vars
    PROVE  NoncesAreUsed' /\ NoncePaidOnce'
  <1>1. CASE \E r \in Requests, human \in BOOLEAN : Pays(r, human)
    <2>1. PICK r \in Requests, human \in BOOLEAN : Pays(r, human)
      BY <1>1
    <2> DEFINE n == Len(receipts)
    <2>2. /\ n \in Nat /\ Paid = 1..n /\ Paid' = 1..n + 1
          /\ \A i \in Paid : receipts'[i] = receipts[i]
          /\ receipts'[n + 1].req = r
          /\ r.nonce \notin usedNonce /\ usedNonce' = usedNonce \cup {r.nonce}
          /\ denied' = denied
      BY <2>1, PaymentAppends
    <2> HIDE DEF n
    <2>3. \A i \in Paid : receipts[i].req.nonce # r.nonce
      BY <2>2 DEF NoncesAreUsed, PaidNonces
    <2>4. NoncePaidOnce'
      BY <2>2, <2>3 DEF NoncePaidOnce
    <2>5. NoncesAreUsed'
      BY <2>1, <2>2, PaidNoncesGrow DEF NoncesAreUsed
    <2> QED BY <2>4, <2>5
  <1>2. CASE \E r \in Requests : Refuses(r)
    BY <1>2 DEF Refuses, NoncesAreUsed, NoncePaidOnce, PaidNonces, Paid
  <1>3. CASE UNCHANGED requests
    BY <1>3 DEF requests, NoncesAreUsed, NoncePaidOnce, PaidNonces, Paid
  <1> QED BY <1>1, <1>2, <1>3, RequestSteps

LEMMA InitNonces == Init => NoncesAreUsed /\ NoncePaidOnce
  BY DEF Init, NoncesAreUsed, NoncePaidOnce, PaidNonces, Paid

\* usedNonce, asked by both _check paths and written by _spend and by every
\* refusal that is no escalation: a request is paid at most once, by the agent
\* or by a person, whatever was decided, posted or rolled over in between.
THEOREM NonceIsPaidOnce == Spec => []PaidOnce
  <1> DEFINE I == TypeOK /\ NoncesAreUsed /\ NoncePaidOnce
  <1>1. Init => I
    BY InitTyped, InitNonces
  <1>2. I /\ [Next]_vars => I'
    BY TypePreserved, NoncesPreserved
  <1>3. I => PaidOnce
    BY DEF PaidOnce, NoncePaidOnce
  <1> QED BY <1>1, <1>2, <1>3, PTL DEF Spec

-----------------------------------------------------------------------------
(* The vault implements the ledger of requests.                            *)

Decided == [n \in Nonces |-> IF n \in PaidNonces THEN "paid"
                             ELSE IF n \in denied THEN "refused" ELSE "open"]

LEMMA InitLedger == Init => Ledger!LedgerInit
  <1> SUFFICES ASSUME Init PROVE Ledger!LedgerInit
    OBVIOUS
  <1>1. PaidNonces = {} /\ denied = {}
    BY DEF Init, PaidNonces, Paid
  <1> QED BY <1>1 DEF Ledger!LedgerInit

LEMMA StepLedger ==
    ASSUME TypeOK, NoncesAreUsed, [Next]_vars
    PROVE  (\E n \in Nonces : Ledger!Decide(n)) \/ Decided' = Decided
  <1>1. CASE \E r \in Requests, human \in BOOLEAN : Pays(r, human)
    <2>1. PICK r \in Requests, human \in BOOLEAN : Pays(r, human)
      BY <1>1
    <2>2. r.nonce \in Nonces
      BY DEF Nonces
    <2>3. PaidNonces' = PaidNonces \cup {r.nonce} /\ denied' = denied
      BY <2>1, PaidNoncesGrow, PaymentAppends
    <2>4. r.nonce \notin PaidNonces /\ r.nonce \notin denied
      BY <2>1, PaymentAppends DEF NoncesAreUsed
    <2>5. Decided[r.nonce] = "open"
      BY <2>2, <2>4 DEF Decided
    <2>6. Decided' = [Decided EXCEPT ![r.nonce] = "paid"]
      BY <2>2, <2>3 DEF Decided
    <2> QED BY <2>2, <2>5, <2>6 DEF Ledger!Decide, Decided
  <1>2. CASE \E r \in Requests : Refuses(r)
    <2>1. PICK r \in Requests : Refuses(r)
      BY <1>2
    <2>2. r.nonce \in Nonces /\ PaidNonces' = PaidNonces
      BY <2>1 DEF Nonces, Refuses, PaidNonces, Paid
    <2>3. CASE denied' = denied
      BY <2>2, <2>3 DEF Decided
    <2>4. CASE denied' = denied \cup {r.nonce}
      <3>1. CASE Decided[r.nonce] = "open"
        <4>1. Decided' = [Decided EXCEPT ![r.nonce] = "refused"]
          BY <2>2, <2>4, <3>1 DEF Decided
        <4> QED BY <2>2, <3>1, <4>1 DEF Ledger!Decide, Decided
      <3>2. CASE Decided[r.nonce] # "open"
        BY <2>2, <2>4, <3>2 DEF Decided
      <3> QED BY <3>1, <3>2
    <2> QED BY <2>1, <2>3, <2>4 DEF Refuses
  <1>3. CASE UNCHANGED requests
    BY <1>3 DEF requests, Decided, PaidNonces, Paid
  <1> QED BY <1>1, <1>2, <1>3, RequestSteps

\* "a request that was refused must not become payable later because a cap
\* rolled or a price moved" (requestSpend): the vault implements RequestLedger,
\* where a request is decided once, for payment or refusal, and stays decided.
THEOREM VaultImplementsLedger == Spec => ImplementsLedger
  <1> DEFINE I == TypeOK /\ NoncesAreUsed /\ NoncePaidOnce
  <1>1. Init => I /\ Ledger!LedgerInit
    BY InitTyped, InitNonces, InitLedger
  <1>2. I /\ [Next]_vars => I'
    BY TypePreserved, NoncesPreserved
  <1>3. I /\ [Next]_vars => [\E n \in Nonces : Ledger!Decide(n)]_Decided
    BY StepLedger
  <1> HIDE DEF I
  <1> QED BY <1>1, <1>2, <1>3, PTL DEF Spec, ImplementsLedger, Ledger!LedgerSpec, Decided

-----------------------------------------------------------------------------
(* People.                                                                 *)

\* What was signed stays signed; what was parked stays as it was parked; and
\* what was consumed stays consumed.
RecordLasts ==
    /\ signatures \subseteq signatures'
    /\ \A id \in DOMAIN checkpoints :
          /\ id \in DOMAIN checkpoints'
          /\ checkpoints'[id].reqHash = checkpoints[id].reqHash
          /\ checkpoints'[id].expiresAt = checkpoints[id].expiresAt
          /\ checkpoints[id].status = "consumed" => checkpoints'[id].status = "consumed"

LEMMA ConsumeLasts ==
    ASSUME TypeOK, NEW id \in DOMAIN checkpoints, Consume(id), UNCHANGED signatures
    PROVE  RecordLasts
  BY CheckpointClosed DEF Consume, RecordLasts

LEMMA GatedLasts ==
    ASSUME TypeOK, NEW asked, NEW hash, Gated(asked, hash), UNCHANGED signatures
    PROVE  RecordLasts
  <1>1. CASE UNCHANGED checkpoints
    BY <1>1 DEF RecordLasts
  <1>2. CASE \E id \in DOMAIN checkpoints : Consume(id)
    BY <1>2, ConsumeLasts
  <1> QED BY <1>1, <1>2 DEF Gated

LEMMA RecordsLast == ASSUME TypeOK, [Next]_vars PROVE RecordLasts
  <1>1. CASE Executor
    <2>1. CASE \E r \in Requests : RequestSpend(r)
      BY <2>1 DEF RequestSpend, RecordLasts
    <2>2. CASE \E p \in Proposals, ttl \in Ttls : OpenCheckpoint(p.agent, p.hash, p.kind, ttl)
      <3>1. PICK p \in Proposals, ttl \in Ttls : OpenCheckpoint(p.agent, p.hash, p.kind, ttl)
        BY <2>2
      <3>2. checkpoints \in Seq(Checkpoint)
        BY DEF TypeOK
      <3> QED BY <3>1, <3>2 DEF OpenCheckpoint, RecordLasts
    <2>3. ASSUME NEW id \in DOMAIN checkpoints, ResolveCheckpoint(id)
          PROVE  RecordLasts
      BY <2>3, CheckpointClosed DEF ResolveCheckpoint, RecordLasts
    <2>4. ASSUME NEW id \in DOMAIN checkpoints, NEW r \in Requests, ExecuteApproved(id, r)
          PROVE  RecordLasts
      BY <2>4, ConsumeLasts DEF ExecuteApproved
    <2> QED BY <1>1, <2>1, <2>2, <2>3, <2>4 DEF Executor
  <1>2. CASE Govern
    <2>1. CASE \E on \in BOOLEAN : SetPolicyCheckpointRequired(on)
      BY <2>1, GatedLasts DEF SetPolicyCheckpointRequired
    <2>2. CASE \E p \in Policies : SetPolicy(p)
      BY <2>2, GatedLasts DEF SetPolicy
    <2>3. CASE \E agent \in Agents, limits \in Limits : SetAgent(agent, limits)
      BY <2>3, GatedLasts DEF SetAgent
    <2>4. CASE \E agent \in Agents, seller \in Sellers, on \in BOOLEAN :
                  AllowSeller(agent, seller, on)
      BY <2>4, GatedLasts DEF AllowSeller
    <2>5. CASE \E agent \in Agents : RegisterGuest(agent)
      BY <2>5 DEF RegisterGuest, RecordLasts
    <2> QED BY <1>2, <2>1, <2>2, <2>3, <2>4, <2>5 DEF Govern
  <1>3. CASE Own
    BY <1>3 DEF Own, SetApprover, SetExecutor, SetTreasurerBinding, SetPaused,
                AllowGuestSeller, SetSleeves, Withdraw, RecordLasts
  <1>4. CASE Treasury \/ Approve \/ Post \/ Tick \/ UNCHANGED vars
    BY <1>4 DEF Treasury, Rebalance, Accrue, Approve, Sign, Post, Tick, vars, RecordLasts
  <1> QED BY <1>1, <1>2, <1>3, <1>4 DEF Next

\* The person behind the i-th payment, if it was beyond the agent.
HasAPerson(i) ==
    LET r == receipts[i]
    IN  (r.req.quote >= r.limit \/ r.req.quote > (r.fair * (10000 + r.band)) \div 10000)
        => \E id \in DOMAIN checkpoints :
              /\ checkpoints[id].status = "consumed"
              /\ checkpoints[id].reqHash = SpendHash(r.req)
              /\ r.at < checkpoints[id].expiresAt
              /\ \E s \in signatures : /\ s.id = id /\ s.signer = r.approver
                                        /\ s.reqHash = SpendHash(r.req)

LEMMA PersonLasts ==
    ASSUME RecordLasts, NEW i, HasAPerson(i), receipts'[i] = receipts[i]
    PROVE  HasAPerson(i)'
  BY DEF HasAPerson, RecordLasts

LEMMA PaymentHasAPerson ==
    ASSUME TypeOK, NEW r \in Requests, NEW human \in BOOLEAN, Pays(r, human),
           NEW n, n = Len(receipts) + 1
    PROVE  HasAPerson(n)'
  <1> DEFINE new == receipts'[n]
  <1>1. /\ new.req = r /\ new.limit = agents[r.agent].perRequest
        /\ new.fair = Fair(Latest(r.index).price, r.units)
        /\ new.band = policy.maxPremiumBps /\ new.at = now /\ new.approver = humanApprover
    <2>1. new = ReceiptOf(r, human)
      BY PaymentAppends
    <2> HIDE DEF new
    <2> QED BY <2>1 DEF ReceiptOf
  <1> HIDE DEF new
  <1>2. CASE ~human /\ AsAgent(r) = {}
    <2>1. /\ ~(new.req.quote > (new.fair * (10000 + new.band)) \div 10000)
          /\ ~(new.req.quote >= new.limit)
      BY <1>1, <1>2, AgentMayPay
    <2> QED BY <2>1 DEF HasAPerson, new
  <1>3. CASE \E id \in DOMAIN checkpoints : Approved(id, SpendHash(r), "spend") /\ Consume(id)
    <2>1. PICK id \in DOMAIN checkpoints : Approved(id, SpendHash(r), "spend") /\ Consume(id)
      BY <1>3
    <2>2. /\ id \in DOMAIN checkpoints' /\ checkpoints'[id].status = "consumed"
          /\ checkpoints'[id].reqHash = checkpoints[id].reqHash
          /\ checkpoints'[id].expiresAt = checkpoints[id].expiresAt
      BY <2>1, CheckpointClosed DEF Consume
    <2>3. /\ checkpoints[id].reqHash = SpendHash(r) /\ now < checkpoints[id].expiresAt
          /\ [signer |-> humanApprover, id |-> id, reqHash |-> SpendHash(r),
              binding |-> treasurerBinding] \in signatures
      BY <2>1 DEF Approved
    <2>4. signatures' = signatures
      BY DEF Pays
    <2>5. \E s \in signatures' : /\ s.id = id /\ s.signer = new.approver
                                /\ s.reqHash = SpendHash(new.req)
      BY <1>1, <2>3, <2>4
    <2>6. /\ checkpoints'[id].reqHash = SpendHash(new.req)
          /\ new.at < checkpoints'[id].expiresAt
      BY <1>1, <2>2, <2>3
    <2> QED BY <2>2, <2>5, <2>6 DEF HasAPerson, new
  <1> QED BY <1>2, <1>3 DEF Pays

LEMMA PeoplePreserved ==
    ASSUME TypeOK, EscalationsHaveAPerson, [Next]_vars
    PROVE  EscalationsHaveAPerson'
  <1>1. \A i \in Paid : HasAPerson(i)
    BY DEF EscalationsHaveAPerson, HasAPerson
  <1>2. RecordLasts
    BY RecordsLast
  <1>3. SUFFICES \A i \in Paid' : HasAPerson(i)'
    BY DEF EscalationsHaveAPerson, HasAPerson
  <1>4. CASE \E r \in Requests, human \in BOOLEAN : Pays(r, human)
    <2>1. PICK r \in Requests, human \in BOOLEAN : Pays(r, human)
      BY <1>4
    <2>2. /\ \A i \in Paid : receipts'[i] = receipts[i]
          /\ \A i \in Paid' : i \in Paid \/ i = Len(receipts) + 1
      BY <2>1, PaymentAppends
    <2>3. \A i \in Paid : HasAPerson(i)'
      BY <1>1, <1>2, <2>2, PersonLasts
    <2>4. \A i : i = Len(receipts) + 1 => HasAPerson(i)'
      BY <2>1, PaymentHasAPerson
    <2> QED BY <2>2, <2>3, <2>4
  <1>5. CASE receipts' = receipts
    BY <1>1, <1>2, <1>5, PersonLasts DEF Paid
  <1> QED BY <1>4, <1>5, RequestSteps DEF Refuses, requests

LEMMA ApproverPreserved ==
    ASSUME ApproverIsNoExecutor, [Next]_vars
    PROVE  ApproverIsNoExecutor'
  <1>1. CASE Own
    <2>1. CASE \E key \in Keys \cup {NoAddress} : SetApprover(key)
      BY <2>1 DEF SetApprover, ApproverIsNoExecutor
    <2>2. CASE \E key \in Keys, on \in BOOLEAN : SetExecutor(key, on)
      BY <2>2 DEF SetExecutor, ApproverIsNoExecutor
    <2>3. CASE UNCHANGED <<isExecutor, humanApprover>>
      BY <2>3 DEF ApproverIsNoExecutor
    <2> QED BY <1>1, <2>1, <2>2, <2>3
            DEF Own, SetTreasurerBinding, SetPaused, AllowGuestSeller, SetSleeves, Withdraw, roles
  <1>2. CASE UNCHANGED roles
    BY <1>2 DEF roles, ApproverIsNoExecutor
  <1>3. Executor => UNCHANGED roles
    BY DEF Executor, RequestSpend, OpenCheckpoint, ResolveCheckpoint, ExecuteApproved
  <1>5. Govern => UNCHANGED roles
    BY DEF Govern, SetPolicyCheckpointRequired, SetPolicy, SetAgent, AllowSeller, RegisterGuest
  <1>4. Treasury \/ Approve \/ Post \/ Tick \/ UNCHANGED vars => UNCHANGED roles
    BY DEF Treasury, Rebalance, Accrue, Approve, Sign, Post, Tick, vars
  <1> QED BY <1>1, <1>2, <1>3, <1>4, <1>5 DEF Next

\* executeApproved and _consumeApproval: a payment beyond the agent's own limit
\* or band consumed a live checkpoint for exactly this request, on a signature
\* of the approver of the moment; and that key is never one that parks spends.
THEOREM EscalationsArePeoples == Spec => []PeopleDecide
  <1> DEFINE I == TypeOK /\ EscalationsHaveAPerson /\ ApproverIsNoExecutor
  <1>1. Init => I
    <2>1. Init => EscalationsHaveAPerson
      BY DEF Init, EscalationsHaveAPerson, Paid
    <2>2. Init => ApproverIsNoExecutor
      BY ApproverAssumption DEF Init, ApproverIsNoExecutor
    <2> QED BY <2>1, <2>2, InitTyped
  <1>2. I /\ [Next]_vars => I'
    BY TypePreserved, PeoplePreserved, ApproverPreserved
  <1>3. I => PeopleDecide
    BY DEF PeopleDecide
  <1> HIDE DEF I
  <1> QED BY <1>1, <1>2, <1>3, PTL DEF Spec

-----------------------------------------------------------------------------
(* The daily cap.                                                          *)

QuotesOf(rs) == [i \in DOMAIN rs |-> rs[i].req.quote]
PaidSince(rs, a, s) == {j \in DOMAIN rs : rs[j].req.agent = a /\ rs[j].at >= s}
SpentSince(rs, a, s) == SumFunctionOnSet(QuotesOf(rs), PaidSince(rs, a, s))

\* What an agent has spent is what it was paid since its day began, and no
\* payment lies beyond that day.
SpentIsToday ==
    \A a \in Agents :
        /\ ~agents[a].exists => \A j \in Paid : receipts[j].req.agent # a
        /\ \A j \in Paid : receipts[j].req.agent = a
                           => receipts[j].at < agents[a].periodStart + Day
        /\ agents[a].spent = SpentSince(receipts, a, agents[a].periodStart)

LEMMA ReceiptFields ==
    ASSUME NEW rs \in Seq(Receipt), NEW i \in DOMAIN rs
    PROVE  rs[i].req.quote \in Nat /\ rs[i].at \in Nat /\ rs[i].req.agent \in Agents
  <1>1. rs[i] \in Receipt
    OBVIOUS
  <1> QED BY <1>1 DEF Receipt, SpendReq

\* The sum over a set of receipts does not see what comes after them.
LEMMA SumOfEarlier ==
    ASSUME NEW rs \in Seq(Receipt), NEW c \in Receipt, NEW D, D \subseteq DOMAIN rs
    PROVE  /\ SumFunctionOnSet(QuotesOf(Append(rs, c)), D) = SumFunctionOnSet(QuotesOf(rs), D)
           /\ IsFiniteSet(D) /\ SumFunctionOnSet(QuotesOf(rs), D) \in Int
  <1>1. IsFiniteSet(D)
    <2>1. DOMAIN rs = 1..Len(rs) /\ Len(rs) \in Nat
      OBVIOUS
    <2>2. IsFiniteSet(1..Len(rs))
      BY <2>1, FS_Interval
    <2> QED BY <2>1, <2>2, FS_Subset
  <1>2. \A x \in D : QuotesOf(rs)[x] \in Int
    BY ReceiptFields DEF QuotesOf
  <1>3. \A x \in D : QuotesOf(Append(rs, c))[x] = QuotesOf(rs)[x]
    <2> TAKE x \in D
    <2>1. x \in DOMAIN Append(rs, c) /\ Append(rs, c)[x] = rs[x]
      OBVIOUS
    <2> QED BY <2>1 DEF QuotesOf
  <1> QED BY <1>1, <1>2, <1>3, SumOfEqual, SumIsInt

LEMMA SpentSinceGrows ==
    ASSUME NEW rs \in Seq(Receipt), NEW c \in Receipt, NEW a, NEW s
    PROVE  /\ SpentSince(rs, a, s) \in Int
           /\ c.req.agent = a /\ c.at >= s
              => SpentSince(Append(rs, c), a, s) = SpentSince(rs, a, s) + c.req.quote
           /\ c.req.agent # a => SpentSince(Append(rs, c), a, s) = SpentSince(rs, a, s)
  <1> DEFINE all == Append(rs, c)
             n == Len(rs) + 1
             f == QuotesOf(all)
             D == PaidSince(rs, a, s)
  <1>1. /\ all \in Seq(Receipt) /\ DOMAIN all = DOMAIN rs \cup {n} /\ n \notin DOMAIN rs
        /\ all[n] = c /\ \A j \in DOMAIN rs : all[j] = rs[j]
    OBVIOUS
  <1>2. D \subseteq DOMAIN rs
    BY DEF PaidSince
  <1>3. /\ IsFiniteSet(D) /\ SumFunctionOnSet(f, D) = SpentSince(rs, a, s)
        /\ SpentSince(rs, a, s) \in Int
    BY <1>2, SumOfEarlier DEF SpentSince
  <1>4. n \notin D /\ f[n] = c.req.quote /\ \A x \in D \cup {n} : f[x] \in Int
    <2>1. \A x \in DOMAIN all : f[x] = all[x].req.quote /\ f[x] \in Int
      <3> HIDE DEF all
      <3> QED BY <1>1, ReceiptFields DEF QuotesOf
    <2> HIDE DEF f, all
    <2> QED BY <1>1, <1>2, <2>1
  <1>5. PaidSince(all, a, s) = IF c.req.agent = a /\ c.at >= s THEN D \cup {n} ELSE D
    <2> HIDE DEF all, n
    <2> QED BY <1>1 DEF PaidSince
  <1> HIDE DEF n, D, f, all
  <1>6. CASE c.req.agent = a /\ c.at >= s
    <2>1. SumFunctionOnSet(f, D \cup {n}) = SumFunctionOnSet(f, D) + f[n]
      BY <1>3, <1>4, SumAdds
    <2> QED BY <1>3, <1>4, <1>5, <1>6, <2>1 DEF SpentSince, f, all
  <1>7. CASE c.req.agent # a
    BY <1>3, <1>5, <1>7 DEF SpentSince, f, all
  <1> QED BY <1>3, <1>6, <1>7 DEF all

LEMMA NothingSpent ==
    ASSUME NEW rs, NEW a, NEW s, \A j \in DOMAIN rs : rs[j].req.agent = a => ~(rs[j].at >= s)
    PROVE  SpentSince(rs, a, s) = 0
  <1>1. PaidSince(rs, a, s) = {}
    BY DEF PaidSince
  <1> QED BY <1>1, SumOfNothing DEF SpentSince

\* What a step does to an agent, unless it pays for a request of its: nothing,
\* but that one who did not exist may come to.
Kept(a) ==
    \/ /\ agents'[a].spent = agents[a].spent /\ agents'[a].exists = agents[a].exists
       /\ agents'[a].periodStart = agents[a].periodStart
    \/ ~agents[a].exists /\ agents'[a].spent \in {0, agents[a].spent}

LEMMA AgentSteps ==
    ASSUME TypeOK, [Next]_vars
    PROVE  \/ \E r \in Requests, human \in BOOLEAN : Pays(r, human)
           \/ receipts' = receipts /\ \A a \in Agents : Kept(a)
  <1> SUFFICES ASSUME ~ \E r \in Requests, human \in BOOLEAN : Pays(r, human)
               PROVE  receipts' = receipts /\ \A a \in Agents : Kept(a)
    OBVIOUS
  <1>0. receipts' = receipts
    BY RequestSteps DEF Refuses, requests
  <1>1. CASE agents' = agents
    BY <1>0, <1>1 DEF Kept
  <1>2. ASSUME NEW agent \in Agents, NEW limits \in Limits, SetAgent(agent, limits)
        PROVE  \A a \in Agents : Kept(a)
    <2>1. /\ agents[agent] \in Agent /\ now \in Nat /\ agents[agent].periodStart <= now
          /\ agents \in [Agents -> Agent]
      BY DEF TypeOK
    <2> DEFINE new == Configured(agents[agent], limits)
    <2>2. /\ new.spent = agents[agent].spent /\ new.exists
          /\ new.periodStart = IF agents[agent].exists THEN agents[agent].periodStart ELSE now
      BY <2>1, ConfiguredTyped
    <2>3. agents' = [agents EXCEPT ![agent] = new]
      BY <1>2 DEF SetAgent
    <2>4. agents[agent].exists \in BOOLEAN
      BY <2>1 DEF Agent
    <2>5. new.exists = TRUE
      BY DEF Configured
    <2> HIDE DEF new
    <2> QED BY <2>1, <2>2, <2>3, <2>4, <2>5 DEF Kept
  <1>3. ASSUME NEW agent \in Agents, RegisterGuest(agent)
        PROVE  \A a \in Agents : Kept(a)
    <2>1. agents' = [agents EXCEPT ![agent] = GuestAgent] /\ ~agents[agent].exists
      BY <1>3 DEF RegisterGuest, GuestAgent
    <2>2. GuestAgent.spent = 0 /\ agents \in [Agents -> Agent]
      BY GuestTyped DEF TypeOK
    <2> QED BY <2>1, <2>2 DEF Kept
  <1>4. CASE Executor
    BY <1>0, <1>1, <1>4, RequestSteps
       DEF Executor, RequestSpend, Pays, OpenCheckpoint, ResolveCheckpoint, ExecuteApproved, rules
  <1>5. CASE Govern
    <2>1. CASE \/ \E on \in BOOLEAN : SetPolicyCheckpointRequired(on)
               \/ \E p \in Policies : SetPolicy(p)
               \/ \E agent \in Agents, seller \in Sellers, on \in BOOLEAN :
                     AllowSeller(agent, seller, on)
      BY <1>1, <2>1 DEF SetPolicyCheckpointRequired, SetPolicy, AllowSeller
    <2> QED BY <1>0, <1>2, <1>3, <1>5, <2>1 DEF Govern
  <1>6. CASE Own
    BY <1>1, <1>6 DEF Own, SetApprover, SetExecutor, SetTreasurerBinding, SetPaused,
                AllowGuestSeller, SetSleeves, Withdraw, rules
  <1>7. CASE Treasury \/ Approve \/ Post \/ Tick \/ UNCHANGED vars
    BY <1>1, <1>7 DEF Treasury, Rebalance, Accrue, Approve, Sign, Post, Tick, vars, rules
  <1> QED BY <1>0, <1>4, <1>5, <1>6, <1>7 DEF Next

LEMMA SpentPreserved ==
    ASSUME TypeOK, SpentIsToday, CapHoldsEveryDay, [Next]_vars
    PROVE  SpentIsToday' /\ CapHoldsEveryDay'
  <1>1. ASSUME NEW r \in Requests, NEW human \in BOOLEAN, Pays(r, human)
        PROVE  SpentIsToday' /\ CapHoldsEveryDay'
    <2> DEFINE a == r.agent
               today == Rolled(agents[a])
               c == ReceiptOf(r, human)
               n == Len(receipts) + 1
    <2>1. /\ receipts \in Seq(Receipt) /\ receipts' \in Seq(Receipt)
          /\ receipts' = Append(receipts, c)
          /\ n \in Nat /\ DOMAIN receipts = 1..n - 1 /\ DOMAIN receipts' = 1..n
          /\ \A i \in 1..n - 1 : receipts'[i] = receipts[i]
          /\ receipts'[n] = c /\ c \in Receipt
      <3>1. receipts' \in Seq(Receipt) /\ receipts \in Seq(Receipt)
        BY <1>1, TypePreserved DEF TypeOK
      <3>2. receipts' = Append(receipts, c) /\ receipts'[n] = c
        <4>1. receipts' = Append(receipts, c)
          BY <1>1 DEF Pays, Spend, ReceiptOf
        <4>2. receipts'[n] = c
          BY <1>1, PaymentAppends
        <4> QED BY <4>1, <4>2
      <3> HIDE DEF c
      <3> QED BY <3>1, <3>2
    <2>2. /\ c.req = r /\ c.req.agent = a /\ c.at = now /\ c.day = today.start
          /\ c.cap = agents[a].cap
      BY DEF ReceiptOf
    <2>3. /\ a \in Agents /\ r.quote \in Nat /\ agents \in [Agents -> Agent]
          /\ agents[a].spent \in Nat /\ agents[a].periodStart \in Nat
          /\ agents[a].cap \in Nat /\ Day \in Nat /\ now \in Nat
      <3>1. a \in Agents /\ r.quote \in Nat /\ Day \in Nat /\ MaxTime \in Nat
        BY FloatAssumption DEF SpendReq
      <3>2. agents \in [Agents -> Agent] /\ now \in 0..MaxTime
        BY DEF TypeOK
      <3>3. agents[a] \in Agent
        BY <3>1, <3>2
      <3> QED BY <3>1, <3>2, <3>3 DEF Agent
    <2>4. /\ today.start \in Nat /\ today.spent \in Nat
          /\ today.start <= now /\ now < today.start + Day
          /\ \/ today.start = agents[a].periodStart /\ today.spent = agents[a].spent
             \/ today.start >= agents[a].periodStart + Day /\ today.spent = 0
      BY <2>3, Today
    <2>5. /\ agents'[a].spent = today.spent + r.quote /\ agents'[a].periodStart = today.start
          /\ agents'[a].exists = agents[a].exists
          /\ \A b \in Agents : b # a => agents'[b] = agents[b]
      BY <1>1, <2>3 DEF Pays, Spend, Agent
    <2>6. agents[a].exists /\ today.spent + r.quote <= agents[a].cap
      <3>1. agents[a].exists /\ ~(today.spent + r.quote > agents[a].cap)
        BY <1>1, AgentMayPay, PersonMayRelease DEF Pays
      <3> QED BY <2>3, <2>4, <3>1
    <2> HIDE DEF a, today, c
    <2>7. today.spent = SpentSince(receipts, a, today.start)
      <3>1. CASE today.start = agents[a].periodStart /\ today.spent = agents[a].spent
        BY <2>3, <3>1 DEF SpentIsToday
      <3>2. CASE today.start >= agents[a].periodStart + Day /\ today.spent = 0
        <4>1. \A j \in DOMAIN receipts : receipts[j].at \in Nat
          BY <2>1, ReceiptFields
        <4>2. \A j \in DOMAIN receipts :
                 receipts[j].req.agent = a => ~(receipts[j].at >= today.start)
          BY <2>3, <2>4, <3>2, <4>1 DEF SpentIsToday, Paid
        <4> QED BY <3>2, <4>2, NothingSpent
      <3> QED BY <2>4, <3>1, <3>2
    <2>8. SpentSince(receipts', a, today.start) = today.spent + r.quote
      <3>1. c.req.quote = r.quote /\ c.at >= today.start
        BY <2>2, <2>3, <2>4
      <3>2. SpentSince(Append(receipts, c), a, today.start)
              = SpentSince(receipts, a, today.start) + c.req.quote
        BY <2>1, <2>2, <3>1, SpentSinceGrows
      <3> QED BY <2>1, <2>7, <3>1, <3>2
    <2>9. SpentIsToday'
      <3> SUFFICES ASSUME NEW b \in Agents
                   PROVE  /\ ~agents'[b].exists => \A j \in Paid' : receipts'[j].req.agent # b
                          /\ \A j \in Paid' : receipts'[j].req.agent = b
                                => receipts'[j].at < agents'[b].periodStart + Day
                          /\ agents'[b].spent = SpentSince(receipts', b, agents'[b].periodStart)
        BY DEF SpentIsToday
      <3> HIDE DEF n
      <3>1. \A j \in Paid' : (j \in Paid /\ receipts'[j] = receipts[j]) \/ receipts'[j] = c
        <4>1. \A j \in 1..n : j \in 1..n - 1 \/ j = n
          BY <2>1
        <4> QED BY <2>1, <4>1 DEF Paid
      <3>2. CASE b # a
        <4>1. SpentSince(receipts', b, agents[b].periodStart)
                = SpentSince(receipts, b, agents[b].periodStart)
          BY <2>1, <2>2, <3>2, SpentSinceGrows
        <4>2. agents'[b] = agents[b]
          BY <2>5, <3>2, Zenon
        <4>3. /\ ~agents[b].exists => \A j \in Paid : receipts[j].req.agent # b
              /\ \A j \in Paid : receipts[j].req.agent = b
                    => receipts[j].at < agents[b].periodStart + Day
              /\ agents[b].spent = SpentSince(receipts, b, agents[b].periodStart)
          BY DEF SpentIsToday
        <4>4. \A j \in Paid' : receipts'[j].req.agent = b
                                => j \in Paid /\ receipts'[j] = receipts[j]
          BY <2>2, <3>1, <3>2
        <4>5. ~agents'[b].exists => \A j \in Paid' : receipts'[j].req.agent # b
          BY <4>2, <4>3, <4>4
        <4>6. \A j \in Paid' : receipts'[j].req.agent = b
                                => receipts'[j].at < agents'[b].periodStart + Day
          BY <4>2, <4>3, <4>4
        <4> QED BY <4>1, <4>2, <4>3, <4>5, <4>6
      <3>3. CASE b = a
        <4>1. \A j \in Paid' : receipts'[j].req.agent = a
                                => receipts'[j].at < today.start + Day
          <5>1. \A j \in Paid : receipts[j].at \in Nat
            BY <2>1, ReceiptFields DEF Paid
          <5>2. \A j \in Paid : receipts[j].req.agent = a
                   => receipts[j].at < agents[a].periodStart + Day
            BY <2>3 DEF SpentIsToday
          <5>3. \A j \in Paid : receipts[j].req.agent = a => receipts[j].at < today.start + Day
            BY <2>3, <2>4, <5>1, <5>2
          <5> QED BY <2>2, <2>4, <3>1, <5>3
        <4>2. agents'[a].exists
          BY <2>5, <2>6, Zenon
        <4>3. agents'[a].spent = SpentSince(receipts', a, agents'[a].periodStart)
          BY <2>5, <2>8
        <4> QED BY <2>5, <3>3, <4>1, <4>2, <4>3
      <3> QED BY <3>2, <3>3
    <2>10. CapHoldsEveryDay'
      <3> SUFFICES ASSUME NEW i \in Paid'
                   PROVE  /\ receipts'[i].at < receipts'[i].day + Day
                          /\ SumFunctionOnSet(QuotesOf(receipts'),
                                {j \in 1..i : /\ receipts'[j].req.agent = receipts'[i].req.agent
                                              /\ receipts'[j].at >= receipts'[i].day})
                                <= receipts'[i].cap
        BY DEF CapHoldsEveryDay, Quotes, QuotesOf, Paid
      <3> HIDE DEF n
      <3>1. CASE i = n
        <4>1. {j \in 1..i : /\ receipts'[j].req.agent = receipts'[i].req.agent
                             /\ receipts'[j].at >= receipts'[i].day}
                = PaidSince(receipts', a, today.start)
          BY <2>1, <2>2, <3>1 DEF PaidSince
        <4>2. SpentSince(receipts', a, today.start) <= c.cap
          BY <2>2, <2>6, <2>8
        <4> QED BY <2>1, <2>2, <2>4, <3>1, <4>1, <4>2 DEF SpentSince
      <3>2. CASE i \in 1..n - 1
        <4> DEFINE D == {j \in 1..i : /\ receipts[j].req.agent = receipts[i].req.agent
                                      /\ receipts[j].at >= receipts[i].day}
        <4>1. /\ receipts[i].at < receipts[i].day + Day
              /\ SumFunctionOnSet(QuotesOf(receipts), D) <= receipts[i].cap
          BY <2>1, <3>2 DEF CapHoldsEveryDay, Quotes, QuotesOf, Paid
        <4>2. \A j \in 1..i : j \in DOMAIN receipts /\ receipts'[j] = receipts[j]
          BY <2>1, <3>2
        <4>3. {j \in 1..i : /\ receipts'[j].req.agent = receipts'[i].req.agent
                             /\ receipts'[j].at >= receipts'[i].day} = D
          BY <2>1, <3>2, <4>2
        <4>4. SumFunctionOnSet(QuotesOf(receipts'), D) = SumFunctionOnSet(QuotesOf(receipts), D)
          <5>1. D \subseteq DOMAIN receipts
            BY <4>2
          <5> HIDE DEF D
          <5> QED BY <2>1, <5>1, SumOfEarlier
        <4> HIDE DEF D
        <4> QED BY <2>1, <3>2, <4>1, <4>3, <4>4
      <3>3. i \in 1..n - 1 \/ i = n
        BY <2>1 DEF Paid
      <3> QED BY <3>1, <3>2, <3>3
    <2> QED BY <2>9, <2>10
  <1>2. ASSUME receipts' = receipts, \A a \in Agents : Kept(a)
        PROVE  SpentIsToday' /\ CapHoldsEveryDay'
    <2>1. CapHoldsEveryDay'
      BY <1>2 DEF CapHoldsEveryDay, Quotes, Paid
    <2>2. ASSUME NEW a \in Agents
          PROVE  /\ ~agents'[a].exists => \A j \in Paid : receipts[j].req.agent # a
                 /\ \A j \in Paid : receipts[j].req.agent = a
                       => receipts[j].at < agents'[a].periodStart + Day
                 /\ agents'[a].spent = SpentSince(receipts, a, agents'[a].periodStart)
      <3>1. CASE /\ agents'[a].spent = agents[a].spent /\ agents'[a].exists = agents[a].exists
                 /\ agents'[a].periodStart = agents[a].periodStart
        BY <3>1 DEF SpentIsToday
      <3>2. CASE ~agents[a].exists /\ agents'[a].spent \in {0, agents[a].spent}
        <4>1. \A j \in Paid : receipts[j].req.agent # a
          BY <3>2 DEF SpentIsToday
        <4>2. \A s : SpentSince(receipts, a, s) = 0
          BY <4>1, NothingSpent DEF Paid
        <4>3. agents[a].spent = 0
          BY <4>2 DEF SpentIsToday
        <4> QED BY <3>2, <4>1, <4>2, <4>3
      <3> QED BY <1>2, <3>1, <3>2 DEF Kept
    <2>3. SpentIsToday'
      BY <1>2, <2>2 DEF SpentIsToday, Paid
    <2> QED BY <2>1, <2>3
  <1> QED BY <1>1, <1>2, AgentSteps

LEMMA InitSpent == Init => SpentIsToday /\ CapHoldsEveryDay
  <1> SUFFICES ASSUME Init PROVE SpentIsToday /\ CapHoldsEveryDay
    OBVIOUS
  <1>1. receipts = <<>> /\ \A a \in Agents : agents[a].spent = 0
    BY FloatAssumption DEF Init, Wired
  <1>2. \A a, s : SpentSince(receipts, a, s) = 0
    BY <1>1, NothingSpent
  <1> QED BY <1>1, <1>2 DEF SpentIsToday, CapHoldsEveryDay, Paid

\* _rolled, D_DAILY_CAP and the sum _spend keeps: over both paths, and
\* whatever limits the agent was given in between, the payments of a day never
\* add up to more than the cap in force at the last of them.
THEOREM DailyCapHolds == Spec => []CapHoldsEveryDay
  <1> DEFINE I == TypeOK /\ SpentIsToday /\ CapHoldsEveryDay
  <1>1. Init => I
    BY InitTyped, InitSpent
  <1>2. I /\ [Next]_vars => I'
    BY TypePreserved, SpentPreserved
  <1>3. I => CapHoldsEveryDay
    OBVIOUS
  <1> HIDE DEF I
  <1> QED BY <1>1, <1>2, <1>3, PTL DEF Spec

-----------------------------------------------------------------------------
(* Receipts and prints.                                                    *)

\* A print's id is its place in the history, and the latest is the last one.
PrintsAreNumbered ==
    \A index \in Indices :
        /\ latest[index].id = Len(history[index])
        /\ Len(history[index]) > 0 => latest[index] = history[index][Len(history[index])]
        /\ \A n \in DOMAIN history[index] :
              history[index][n].id = n /\ history[index][n].at <= now

\* The print at the place the receipt cites is the one it was paid by.
Cites(r, prints) ==
    /\ r.req.printId \in DOMAIN prints
    /\ Fair(prints[r.req.printId].price, r.req.units) = r.fair
    /\ prints[r.req.printId].at <= r.at

ReceiptsCite == \A i \in Paid : Cites(receipts[i], history[receipts[i].req.index])

LEMMA StoreSteps ==
    ASSUME TypeOK, [Next]_vars
    PROVE  \/ now' = now /\ receipts' = receipts
              /\ \E signer \in Signers, index \in Indices, price \in Prices :
                    SetPrint(signer, index, price)
           \/ now' \in Nat /\ now <= now' /\ history' = history /\ latest' = latest
  <1>0. now \in Nat
    BY DEF TypeOK
  <1>1. CASE Executor
    <2>1. ASSUME NEW r \in Requests, RequestSpend(r) PROVE UNCHANGED <<now, storeVars>>
      BY <2>1 DEF RequestSpend
    <2>2. ASSUME NEW id \in DOMAIN checkpoints, NEW r \in Requests, ExecuteApproved(id, r)
          PROVE  UNCHANGED <<now, storeVars>>
      BY <2>2 DEF ExecuteApproved
    <2>3. UNCHANGED <<now, storeVars>>
      BY <1>1, <2>1, <2>2 DEF Executor, OpenCheckpoint, ResolveCheckpoint
    <2> QED BY <1>0, <2>3 DEF storeVars
  <1>2. CASE Govern
    BY <1>0, <1>2 DEF Govern, SetPolicyCheckpointRequired, SetPolicy, SetAgent, AllowSeller,
                RegisterGuest, storeVars
  <1>3. CASE Own
    BY <1>0, <1>3 DEF Own, SetApprover, SetExecutor, SetTreasurerBinding, SetPaused,
                AllowGuestSeller, SetSleeves, Withdraw, storeVars
  <1>4. CASE Treasury \/ Approve \/ Tick \/ UNCHANGED vars
    BY <1>0, <1>4 DEF Treasury, Rebalance, Accrue, Approve, Sign, Tick, vars, storeVars
  <1>5. CASE Post
    BY <1>0, <1>5 DEF Post, StoreNext, SetSigner, SetStorePaused, requests
  <1> QED BY <1>1, <1>2, <1>3, <1>4, <1>5 DEF Next

LEMMA PrintAppends ==
    ASSUME TypeOK, PrintsAreNumbered, NEW signer \in Signers, NEW index \in Indices,
           NEW price \in Prices, SetPrint(signer, index, price), now' = now
    PROVE  /\ PrintsAreNumbered'
           /\ \A x \in Indices : \A n \in DOMAIN history[x] :
                 n \in DOMAIN history'[x] /\ history'[x][n] = history[x][n]
  <1> DEFINE p == [price |-> price, id |-> latest[index].id + 1, at |-> now]
             old == history[index]
  <1>1. /\ history \in [Indices -> Seq(PrintStruct)] /\ latest \in [Indices -> PrintStruct]
        /\ now \in Nat /\ old \in Seq(PrintStruct)
    BY DEF TypeOK, StoreTypeOK
  <1>2. /\ latest' = [latest EXCEPT ![index] = p]
        /\ history' = [history EXCEPT ![index] = Append(old, p)]
    BY DEF SetPrint
  <1>3. /\ latest[index].id = Len(old)
        /\ \A n \in DOMAIN old : old[n].id = n /\ old[n].at <= now
    BY DEF PrintsAreNumbered
  <1>4. p.id = Len(old) + 1 /\ p.at = now
    BY <1>3
  <1> HIDE DEF p, old
  <1>5. /\ Len(Append(old, p)) = Len(old) + 1 /\ Append(old, p)[Len(old) + 1] = p
        /\ Len(old) \in Nat /\ DOMAIN Append(old, p) = 1..Len(old) + 1
        /\ DOMAIN old = 1..Len(old)
        /\ \A n \in 1..Len(old) : Append(old, p)[n] = old[n]
    BY <1>1
  <1> DEFINE grown == Append(old, p)
  <1> HIDE DEF grown
  <1>6. /\ p.id = Len(grown) /\ grown[Len(grown)] = p
        /\ \A n \in DOMAIN grown : grown[n].id = n /\ grown[n].at <= now
    <2>1. \A n \in DOMAIN grown : n \in DOMAIN old \/ n = Len(old) + 1
      BY <1>5 DEF grown
    <2> QED BY <1>1, <1>3, <1>4, <1>5, <2>1 DEF grown
  <1>7. \A x \in Indices : x # index => latest'[x] = latest[x] /\ history'[x] = history[x]
    BY <1>1, <1>2
  <1>8. latest'[index] = p /\ history'[index] = grown
    BY <1>1, <1>2 DEF grown
  <1>9. PrintsAreNumbered'
    BY <1>6, <1>7, <1>8 DEF PrintsAreNumbered
  <1>10. \A n \in DOMAIN old : n \in DOMAIN grown /\ grown[n] = old[n]
    BY <1>5 DEF grown
  <1>11. ASSUME NEW x \in Indices, NEW n \in DOMAIN history[x]
         PROVE  n \in DOMAIN history'[x] /\ history'[x][n] = history[x][n]
    BY <1>7, <1>8, <1>10 DEF old
  <1> QED BY <1>9, <1>11

LEMMA CitesPreserved ==
    ASSUME TypeOK, PrintsAreNumbered, ReceiptsCite, [Next]_vars
    PROVE  PrintsAreNumbered' /\ ReceiptsCite'
  <1>0. /\ now \in Nat /\ receipts \in Seq(Receipt)
        /\ \A x \in Indices : history[x] \in Seq(PrintStruct)
    BY DEF TypeOK, StoreTypeOK
  <1>1. \A i \in Paid : receipts[i].req.index \in Indices
    <2>1. \A i \in Paid : receipts[i] \in Receipt
      BY <1>0 DEF Paid
    <2> QED BY <2>1 DEF Receipt, SpendReq
  <1>2. CASE \E signer \in Signers, index \in Indices, price \in Prices :
                SetPrint(signer, index, price) /\ now' = now /\ receipts' = receipts
    <2>1. /\ PrintsAreNumbered' /\ receipts' = receipts
          /\ \A x \in Indices : \A n \in DOMAIN history[x] :
                n \in DOMAIN history'[x] /\ history'[x][n] = history[x][n]
      BY <1>2, PrintAppends
    <2> QED BY <1>1, <2>1 DEF ReceiptsCite, Cites, Paid
  <1>3. CASE now' \in Nat /\ now <= now' /\ history' = history /\ latest' = latest
    <2>1. PrintsAreNumbered'
      <3>1. \A x \in Indices : \A n \in DOMAIN history[x] : history[x][n].at \in Nat
        <4>1. \A x \in Indices : \A n \in DOMAIN history[x] : history[x][n] \in PrintStruct
          BY <1>0
        <4> QED BY <4>1 DEF PrintStruct
      <3> QED BY <1>0, <1>3, <3>1 DEF PrintsAreNumbered
    <2>2. CASE receipts' = receipts
      BY <1>3, <2>1, <2>2 DEF ReceiptsCite, Paid
    <2>3. CASE \E r \in Requests, human \in BOOLEAN : Pays(r, human)
      <3>1. PICK r \in Requests, human \in BOOLEAN : Pays(r, human)
        BY <2>3
      <3> DEFINE n == Len(receipts) + 1
                 c == receipts'[n]
                 h == history[r.index]
      <3>2. /\ c.req = r /\ c.at = now /\ c.fair = Fair(Latest(r.index).price, r.units)
        <4>1. c = ReceiptOf(r, human)
          BY <3>1, PaymentAppends
        <4> HIDE DEF c
        <4> QED BY <4>1 DEF ReceiptOf
      <3>3. r.index \in Indices
        BY FloatAssumption DEF SpendReq
      <3>4. Latest(r.index).id # 0 /\ Latest(r.index).id = r.printId
        BY <3>1, AgentMayPay, PersonMayRelease DEF Pays
      <3>5. Latest(r.index) = latest[r.index]
        BY <3>4 DEF Latest, NoPrint
      <3>6. h \in Seq(PrintStruct) /\ Len(h) \in Nat
        BY <1>0, <3>3
      <3> HIDE DEF c
      <3>7. r.printId = Len(h) /\ Len(h) \in DOMAIN h /\ latest[r.index] = h[Len(h)]
            /\ h[Len(h)].at <= now
        BY <3>3, <3>4, <3>5, <3>6 DEF PrintsAreNumbered
      <3>8. Cites(c, h)
        BY <3>2, <3>5, <3>7 DEF Cites
      <3>9. /\ \A i \in Paid : receipts'[i] = receipts[i]
            /\ \A i \in Paid' : i \in Paid \/ i = n
        BY <3>1, PaymentAppends
      <3>10. \A i \in Paid : Cites(receipts'[i], history[receipts'[i].req.index])
        BY <3>9 DEF ReceiptsCite
      <3>11. Cites(receipts'[n], history[receipts'[n].req.index])
        BY <3>2, <3>8 DEF c
      <3> HIDE DEF n
      <3>12. \A i \in Paid' : Cites(receipts'[i], history[receipts'[i].req.index])
        BY <3>9, <3>10, <3>11
      <3>13. ReceiptsCite'
        BY <1>3, <3>12 DEF ReceiptsCite, Cites
      <3> QED BY <2>1, <3>13
    <2> QED BY <2>2, <2>3, RequestSteps DEF Refuses, requests
  <1> QED BY <1>2, <1>3, StoreSteps

LEMMA CitesOnePrint ==
    ASSUME TypeOK, PrintsAreNumbered, ReceiptsCite
    PROVE  ReceiptsStayCheckable
  <1> SUFFICES ASSUME NEW i \in Paid
               PROVE  LET r == receipts[i]
                          prints == history[r.req.index]
                          cited == {n \in DOMAIN prints : prints[n].id = r.req.printId}
                      IN  /\ Cardinality(cited) = 1
                          /\ \A n \in cited : /\ Fair(prints[n].price, r.req.units) = r.fair
                                              /\ prints[n].at <= r.at
    BY DEF ReceiptsStayCheckable
  <1> DEFINE r == receipts[i]
             prints == history[r.req.index]
             cited == {n \in DOMAIN prints : prints[n].id = r.req.printId}
  <1>1. r.req.index \in Indices /\ Cites(r, prints)
    <2>1. r \in Receipt
      BY DEF TypeOK, Paid
    <2> QED BY <2>1 DEF Receipt, SpendReq, ReceiptsCite
  <1>2. cited = {r.req.printId}
    BY <1>1 DEF PrintsAreNumbered, Cites
  <1>3. Cardinality(cited) = 1
    BY <1>2, FS_Singleton
  <1> QED BY <1>1, <1>2, <1>3 DEF Cites

LEMMA InitCites == Init => PrintsAreNumbered /\ ReceiptsCite
  <1> SUFFICES ASSUME Init PROVE PrintsAreNumbered /\ ReceiptsCite
    OBVIOUS
  <1>1. receipts = <<>> /\ \A index \in Indices : latest[index] = NoPrint /\ history[index] = <<>>
    BY DEF Init, StoreInit
  <1> QED BY <1>1 DEF PrintsAreNumbered, ReceiptsCite, Paid, NoPrint

\* FloatPrintStore.setPrint numbers its prints and never amends one, and _check
\* asks for the latest by its id: the print a receipt cites is the only one of
\* that id, and its price is the one the fair price was computed from.
THEOREM ReceiptsAreCheckable == Spec => []ReceiptsStayCheckable
  <1> DEFINE I == TypeOK /\ PrintsAreNumbered /\ ReceiptsCite
  <1>1. Init => I
    BY InitTyped, InitCites
  <1>2. I /\ [Next]_vars => I'
    BY TypePreserved, CitesPreserved
  <1>3. I => ReceiptsStayCheckable
    BY CitesOnePrint
  <1> HIDE DEF I
  <1> QED BY <1>1, <1>2, <1>3, PTL DEF Spec

-----------------------------------------------------------------------------
(* Governance.                                                             *)

LEMMA GatedSpends ==
    ASSUME TypeOK, NEW hash, NEW asked, asked, Gated(asked, hash)
    PROVE  Spends(hash)
  <1>1. PICK id \in DOMAIN checkpoints : Approved(id, hash, "policy") /\ Consume(id)
    BY DEF Gated
  <1>2. checkpoints'[id].status = "consumed"
    BY <1>1, CheckpointClosed DEF Consume
  <1>3. [signer |-> humanApprover, id |-> id, reqHash |-> hash,
         binding |-> treasurerBinding] \in signatures
    BY <1>1 DEF Approved
  <1>4. \E s \in signatures : s.id = id /\ s.reqHash = hash /\ s.signer = humanApprover
    BY <1>3
  <1> QED BY <1>1, <1>2, <1>4 DEF Approved, Spends

\* The four parts of GovernedByPeople.
PolicyByPeople == policy' # policy => Spends(PolicyHash(policy'))
GateByPeople == ~requirePolicyCheckpoint' => Spends(GateOffHash)
LimitsOf(a) == [cap |-> a.cap, perRequest |-> a.perRequest, frozen |-> a.frozen]
LimitsByPeople(a) ==
    agents[a].exists /\ <<agents'[a].cap, agents'[a].perRequest, agents'[a].frozen>> #
                        <<agents[a].cap, agents[a].perRequest, agents[a].frozen>>
    => Spends(AgentHash(a, LimitsOf(agents'[a])))
SellersByPeople ==
    \A x \in allowedSeller' \ allowedSeller : Spends(SellerHash(x[1], x[2], TRUE))

GovernedStep ==
    /\ PolicyByPeople /\ GateByPeople /\ SellersByPeople
    /\ \A a \in Agents : LimitsByPeople(a)

SameLimits(a) ==
    /\ agents'[a].cap = agents[a].cap /\ agents'[a].perRequest = agents[a].perRequest
    /\ agents'[a].frozen = agents[a].frozen

LEMMA NothingGoverned ==
    ASSUME requirePolicyCheckpoint, UNCHANGED <<policy, requirePolicyCheckpoint, allowedSeller>>,
           \A a \in Agents : SameLimits(a)
    PROVE  GovernedStep
  BY DEF GovernedStep, PolicyByPeople, GateByPeople, SellersByPeople, LimitsByPeople, SameLimits

LEMMA SetAgentGoverned ==
    ASSUME TypeOK, requirePolicyCheckpoint, NEW agent \in Agents, NEW limits \in Limits,
           SetAgent(agent, limits)
    PROVE  GovernedStep
  <1> DEFINE new == Configured(agents[agent], limits)
  <1>1. /\ agents[agent] \in Agent /\ now \in Nat /\ agents[agent].periodStart <= now
        /\ agents \in [Agents -> Agent]
    BY DEF TypeOK
  <1>2. /\ new.cap = limits.cap /\ new.perRequest = limits.perRequest
        /\ new.frozen = limits.frozen
    BY <1>1, ConfiguredTyped
  <1>3. agents' = [agents EXCEPT ![agent] = new]
    BY DEF SetAgent
  <1> HIDE DEF new
  <1>4. LimitsOf(new) = limits
    <2>1. limits \in [cap : Nat, perRequest : Nat, frozen : BOOLEAN]
      BY FloatAssumption
    <2> QED BY <1>2, <2>1 DEF LimitsOf
  <1>5. Spends(AgentHash(agent, limits))
    BY GatedSpends DEF SetAgent
  <1>6. agents'[agent] = new /\ \A a \in Agents : a # agent => agents'[a] = agents[a]
    BY <1>1, <1>3
  <1>7. LimitsByPeople(agent)
    BY <1>4, <1>5, <1>6 DEF LimitsByPeople
  <1>8. \A a \in Agents : a # agent => LimitsByPeople(a)
    BY <1>6 DEF LimitsByPeople
  <1>9. UNCHANGED <<policy, requirePolicyCheckpoint, allowedSeller>>
    BY DEF SetAgent
  <1> QED BY <1>7, <1>8, <1>9
          DEF GovernedStep, PolicyByPeople, GateByPeople, SellersByPeople

LEMMA AllowSellerGoverned ==
    ASSUME TypeOK, requirePolicyCheckpoint, NEW agent \in Agents, NEW seller \in Sellers,
           NEW on \in BOOLEAN, AllowSeller(agent, seller, on)
    PROVE  GovernedStep
  <1>1. UNCHANGED <<policy, requirePolicyCheckpoint, agents>>
    BY DEF AllowSeller
  <1>2. SellersByPeople
    <2>1. CASE on = TRUE
      <3>1. Spends(SellerHash(agent, seller, TRUE))
        BY <2>1, GatedSpends DEF AllowSeller
      <3>2. allowedSeller' = allowedSeller \cup {<<agent, seller>>}
        BY <2>1 DEF AllowSeller
      <3>3. <<agent, seller>>[1] = agent /\ <<agent, seller>>[2] = seller
        OBVIOUS
      <3>4. \A x \in allowedSeller' \ allowedSeller : x[1] = agent /\ x[2] = seller
        BY <3>2, <3>3
      <3> QED BY <3>1, <3>4, Zenon DEF SellersByPeople
    <2>2. CASE on = FALSE
      BY <2>2 DEF SellersByPeople, AllowSeller
    <2> QED BY <2>1, <2>2
  <1> QED BY <1>1, <1>2 DEF GovernedStep, PolicyByPeople, GateByPeople, LimitsByPeople

LEMMA StepGoverned ==
    ASSUME TypeOK, requirePolicyCheckpoint, [Next]_vars
    PROVE  GovernedStep
  <1>0. CASE UNCHANGED <<policy, requirePolicyCheckpoint, allowedSeller, agents>>
    BY <1>0, NothingGoverned DEF SameLimits
  <1>1. CASE \E r \in Requests, human \in BOOLEAN : Spend(r, human)
    <2>1. PICK r \in Requests, human \in BOOLEAN : Spend(r, human)
      BY <1>1
    <2>2. r.agent \in Agents /\ agents \in [Agents -> Agent]
      BY FloatAssumption DEF SpendReq, TypeOK
    <2> DEFINE new == [agents[r.agent] EXCEPT !.spent = Rolled(agents[r.agent]).spent + r.quote,
                                             !.periodStart = Rolled(agents[r.agent]).start]
    <2>3. agents' = [agents EXCEPT ![r.agent] = new]
          /\ UNCHANGED <<policy, requirePolicyCheckpoint, allowedSeller>>
      BY <2>1 DEF Spend
    <2>4. /\ new.cap = agents[r.agent].cap /\ new.perRequest = agents[r.agent].perRequest
          /\ new.frozen = agents[r.agent].frozen
      BY <2>2 DEF Agent
    <2> HIDE DEF new
    <2>5. \A a \in Agents : SameLimits(a)
      BY <2>2, <2>3, <2>4 DEF SameLimits
    <2> QED BY <2>3, <2>5, NothingGoverned
  <1>2. CASE Executor
    <2>1. ASSUME NEW r \in Requests, RequestSpend(r)
          PROVE  \/ \E human \in BOOLEAN : Spend(r, human)
                 \/ UNCHANGED rules
      BY <2>1 DEF RequestSpend
    <2>2. ASSUME NEW id \in DOMAIN checkpoints, NEW r \in Requests, ExecuteApproved(id, r)
          PROVE  \E human \in BOOLEAN : Spend(r, human)
      BY <2>2 DEF ExecuteApproved
    <2>3. (\E r \in Requests, human \in BOOLEAN : Spend(r, human)) \/ UNCHANGED rules
      BY <1>2, <2>1, <2>2 DEF Executor, OpenCheckpoint, ResolveCheckpoint
    <2> QED BY <1>0, <1>1, <2>3 DEF rules
  <1>3. CASE Govern
    <2>1. ASSUME NEW on \in BOOLEAN, SetPolicyCheckpointRequired(on)
          PROVE  GovernedStep
      <3>1. UNCHANGED <<policy, allowedSeller, agents>> /\ requirePolicyCheckpoint' = on
        BY <2>1 DEF SetPolicyCheckpointRequired
      <3>2. ~on => Spends(GateOffHash)
        BY <2>1, GatedSpends DEF SetPolicyCheckpointRequired
      <3> QED BY <3>1, <3>2
              DEF GovernedStep, PolicyByPeople, GateByPeople, SellersByPeople, LimitsByPeople
    <2>2. ASSUME NEW p \in Policies, SetPolicy(p)
          PROVE  GovernedStep
      <3>1. /\ UNCHANGED <<requirePolicyCheckpoint, allowedSeller, agents>> /\ policy' = p
        BY <2>2 DEF SetPolicy
      <3>2. Spends(PolicyHash(p))
        <4>1. Gated(requirePolicyCheckpoint, PolicyHash(p))
          BY ONLY <2>2 DEF SetPolicy
        <4> QED BY <4>1, GatedSpends
      <3> QED BY <3>1, <3>2
              DEF GovernedStep, PolicyByPeople, GateByPeople, SellersByPeople, LimitsByPeople
    <2>3. ASSUME NEW agent \in Agents, RegisterGuest(agent)
          PROVE  GovernedStep
      <3>1. agents' = [agents EXCEPT ![agent] = GuestAgent] /\ ~agents[agent].exists
        BY <2>3 DEF RegisterGuest, GuestAgent
      <3>2. agents \in [Agents -> Agent]
        BY DEF TypeOK
      <3>3. \A a \in Agents : LimitsByPeople(a)
        BY <3>1, <3>2 DEF LimitsByPeople
      <3>4. UNCHANGED <<policy, requirePolicyCheckpoint, allowedSeller>>
        BY <2>3 DEF RegisterGuest
      <3> QED BY <3>3, <3>4 DEF GovernedStep, PolicyByPeople, GateByPeople, SellersByPeople
    <2> QED BY <1>3, <2>1, <2>2, <2>3, SetAgentGoverned, AllowSellerGoverned DEF Govern
  <1>4. CASE Own
    BY <1>0, <1>4 DEF Own, SetApprover, SetExecutor, SetTreasurerBinding, SetPaused,
                AllowGuestSeller, SetSleeves, Withdraw, rules
  <1>5. CASE Treasury \/ Approve \/ Post \/ Tick \/ UNCHANGED vars
    BY <1>0, <1>5 DEF Treasury, Rebalance, Accrue, Approve, Sign, Post, Tick, vars, rules
  <1> QED BY <1>2, <1>3, <1>4, <1>5 DEF Next

\* setPolicy, setAgent, allowSeller and setPolicyCheckpointRequired: while the
\* gate is on, each of them takes effect only by consuming a checkpoint for
\* exactly that change, signed by the approver of the moment.
THEOREM GovernanceIsPeoples == Spec => GovernedByPeople
  <1>1. TypeOK /\ [Next]_vars
        => (requirePolicyCheckpoint =>
              /\ policy' # policy => Spends(PolicyHash(policy'))
              /\ ~requirePolicyCheckpoint' => Spends(GateOffHash)
              /\ \A a \in Agents :
                    LET new == agents'[a]
                    IN  agents[a].exists /\ <<new.cap, new.perRequest, new.frozen>> #
                                           <<agents[a].cap, agents[a].perRequest, agents[a].frozen>>
                        => Spends(AgentHash(a, [cap |-> new.cap, perRequest |-> new.perRequest,
                                                frozen |-> new.frozen]))
              /\ \A x \in allowedSeller' \ allowedSeller :
                    Spends(SellerHash(x[1], x[2], TRUE)))
    BY StepGoverned DEF GovernedStep, PolicyByPeople, GateByPeople, SellersByPeople,
                        LimitsByPeople, LimitsOf
  <1> QED BY <1>1, FloatTypeCorrect, PTL DEF Spec, GovernedByPeople

-----------------------------------------------------------------------------
(* Money.                                                                  *)

LEMMA MaxWithZero ==
    ASSUME NEW x \in Int
    PROVE  Max({0, x}) = IF x > 0 THEN x ELSE 0
  <1>1. \E m \in {0, x} : \A z \in {0, x} : m >= z
    <2>1. CASE x <= 0
      BY <2>1
    <2>2. CASE ~(x <= 0)
      BY <2>2
    <2> QED BY <2>1, <2>2
  <1>2. Max({0, x}) \in {0, x} /\ \A z \in {0, x} : Max({0, x}) >= z
    BY <1>1 DEF Max
  <1> QED BY <1>2

LEMMA WorthOfLess ==
    ASSUME NEW v \in [Sleeves -> Nat], NEW sleeve \in Sleeves, NEW cost \in Nat
    PROVE  /\ Worth(v) \in Int
           /\ Worth([v EXCEPT ![sleeve] = @ - cost]) = Worth(v) - cost
  <1> DEFINE less == [v EXCEPT ![sleeve] = @ - cost]
  <1>1. /\ \A x \in Sleeves : v[x] \in Int
        /\ v[sleeve] \in Int /\ IsFiniteSet(Sleeves)
        /\ less[sleeve] = v[sleeve] - cost /\ less[sleeve] \in Int
        /\ \A x \in Sleeves : x # sleeve => less[x] = v[x]
    BY FloatAssumption
  <1> HIDE DEF less
  <1>2. Worth(v) \in Int /\ Worth(less) = Worth(v) - v[sleeve] + less[sleeve]
    BY <1>1, SumChanges DEF Worth
  <1>3. Worth(less) = Worth(v) - cost
    BY <1>1, <1>2
  <1> QED BY <1>2, <1>3 DEF less

\* The first pull asks for what is missing, or for all the sleeve has.
LEMMA FirstPullBrings ==
    ASSUME MoneyTypeOK, NEW short \in Nat \ {0}, NEW f \in FirstPulls(short)
    PROVE  \E cost \in 0..short + 1, got \in Nat :
              /\ got \in {cost - 1, cost}
              /\ f.balance = balance + got
              /\ Worth(f.value) = Worth(value) - cost
              /\ f.value \in [Sleeves -> Nat] /\ Worth(value) \in Int
  <1> DEFINE pull == IF working = NoAddress THEN 0 ELSE Min({short, value[working]})
  <1>1. balance \in Nat /\ value \in [Sleeves -> Nat] /\ working \in Sleeves \cup {NoAddress}
    BY DEF MoneyTypeOK
  <1>2. pull \in 0..short /\ (pull # 0 => working \in Sleeves)
    <2>1. CASE working = NoAddress
      BY <2>1
    <2>2. CASE working # NoAddress
      <3>1. working \in Sleeves /\ value[working] \in Nat /\ value[working] \in Int
        BY <1>1, <2>2
      <3>2. Min({short, value[working]}) \in {short, value[working]}
            /\ Min({short, value[working]}) <= short
        <4>1. short \in Int
          OBVIOUS
        <4> QED BY <3>1, <4>1, MinOfTwo
      <3> QED BY <2>2, <3>1, <3>2
    <2> QED BY <2>1, <2>2
  <1>3. Worth(value) \in Int
    <2>1. \A x \in Sleeves : value[x] \in Int
      BY <1>1
    <2> QED BY <2>1, SumIsInt, FloatAssumption DEF Worth
  <1>4. CASE pull = 0
    <2>1. f = [balance |-> balance, value |-> value]
      BY <1>4 DEF FirstPulls
    <2>2. f.balance = balance + 0 /\ Worth(f.value) = Worth(value) - 0
          /\ f.value \in [Sleeves -> Nat]
      BY <1>1, <1>3, <2>1
    <2>3. 0 \in 0..short + 1 /\ 0 \in Nat /\ 0 \in {0 - 1, 0}
      OBVIOUS
    <2> QED BY <1>3, <2>2, <2>3
  <1>5. CASE pull # 0
    <2>1. f \in AfterPull(balance, value, working, pull)
      BY <1>5 DEF FirstPulls
    <2>2. pull \in Nat \ {0} /\ working \in Sleeves
      BY <1>2, <1>5
    <2> HIDE DEF pull
    <2>3. PICK cost \in pull..pull + 1, got \in Nat :
             Pulled(f, balance, value, working, cost, got)
      BY <1>1, <2>1, <2>2, PullIsRounded
    <2>4. cost \in 0..short + 1 /\ cost \in Nat
      BY <1>2, <2>2, <2>3
    <2>5. Worth([value EXCEPT ![working] = @ - cost]) = Worth(value) - cost
      BY <1>1, <2>2, <2>4, WorthOfLess
    <2> QED BY <1>3, <2>3, <2>4, <2>5 DEF Pulled
  <1> QED BY <1>4, <1>5

\* Whatever the two sleeves are, even one and the same.
LEMMA FundBringsTheShortfall ==
    ASSUME MoneyTypeOK, NEW need \in Nat, NEW f \in Fund(need), f.balance >= need
    PROVE  IF balance >= need THEN f.balance = balance /\ f.value = value
           ELSE /\ f.balance - need \in {0, 1}
                /\ Worth(value) - Worth(f.value) \in need - balance..need - balance + 2
  <1>1. CASE balance >= need
    BY <1>1 DEF Fund
  <1>2. CASE ~(balance >= need)
    <2> DEFINE short == need - balance
    <2>1. short \in Nat \ {0} /\ balance \in Nat
      BY <1>2 DEF MoneyTypeOK
    <2>2. PICK g \in FirstPulls(short) :
             \/ (g.balance >= need \/ reserve = NoAddress) /\ f = g
             \/ /\ ~(g.balance >= need) /\ reserve # NoAddress
                /\ f \in AfterPull(g.balance, g.value, reserve,
                                  SecondPull(short, g.balance, need))
      BY <1>2 DEF Fund
    <2>3. PICK cost \in 0..short + 1, got \in Nat :
              /\ got \in {cost - 1, cost}
              /\ g.balance = balance + got
              /\ Worth(g.value) = Worth(value) - cost
              /\ g.value \in [Sleeves -> Nat] /\ Worth(value) \in Int
      <3> HIDE DEF short
      <3> QED BY <2>1, FirstPullBrings
    <2>4. CASE f = g
      <3>1. got - short \in {0, 1} /\ cost \in short..short + 2
        BY <2>1, <2>3, <2>4
      <3> DEFINE before == Worth(value)
                 after == Worth(f.value)
      <3>2. before \in Int /\ after = before - cost
        BY <2>3, <2>4
      <3> HIDE DEF before, after
      <3>3. before - after = cost
        BY <2>1, <3>1, <3>2
      <3> QED BY <1>2, <2>1, <2>3, <2>4, <3>1, <3>3 DEF before, after
    <2>5. CASE ~(g.balance >= need) /\ reserve # NoAddress
               /\ f \in AfterPull(g.balance, g.value, reserve,
                                 SecondPull(short, g.balance, need))
      <3> DEFINE pull == SecondPull(short, g.balance, need)
      <3>1. pull \in Nat \ {0} /\ reserve \in Sleeves /\ g.balance \in Nat /\ pull = short - got
        BY <2>1, <2>3, <2>5 DEF MoneyTypeOK, SecondPull
      <3>2. f \in AfterPull(g.balance, g.value, reserve, pull)
        BY <2>5
      <3> HIDE DEF pull
      <3>3. PICK cost2 \in pull..pull + 1, got2 \in Nat :
              Pulled(f, g.balance, g.value, reserve, cost2, got2)
        BY <2>3, <3>1, <3>2, PullIsRounded
      <3>4. Worth(f.value) = Worth(g.value) - cost2
        <4>1. Worth([g.value EXCEPT ![reserve] = @ - cost2]) = Worth(g.value) - cost2
          <5>1. cost2 \in Nat
            BY <3>1, <3>3
          <5> QED BY <2>3, <3>1, <5>1, WorthOfLess
        <4> QED BY <3>3, <4>1 DEF Pulled
      <3>5. /\ got2 \in {cost2 - 1, cost2} /\ f.balance = g.balance + got2
        BY <3>3 DEF Pulled
      <3>9. got + got2 - short \in {0, 1} /\ cost + cost2 \in short..short + 2
        <4>1. got + got2 - short >= 0
          BY <2>1, <2>3, <3>5
        <4> HIDE DEF short
        <4> QED BY <2>1, <2>3, <3>1, <3>3, <3>5, <4>1
      <3> DEFINE before == Worth(value)
                 middle == Worth(g.value)
                 after == Worth(f.value)
      <3>6. before \in Int /\ middle = before - cost /\ after = middle - cost2
        BY <2>3, <3>4
      <3> HIDE DEF before, middle, after
      <3>7. before - after = cost + cost2
        BY <2>1, <2>3, <3>1, <3>3, <3>6
      <3>8. f.balance - need = got + got2 - short
        BY <2>1, <2>3, <3>5
      <3> QED BY <1>2, <3>9, <3>7, <3>8 DEF before, after
    <2> QED BY <2>2, <2>4, <2>5
  <1> QED BY <1>1, <1>2

\* _spend and _fund: "the vault pulls the EXACT shortfall out of the sleeve", to
\* a unit of rounding for each sleeve, and never touches one while the buffer
\* lasts.
THEOREM VaultPullsTheShortfall == Spec => JitPullsTheShortfall
  <1> DEFINE Quote == receipts'[Len(receipts')].req.quote
             Short == Max({0, Quote - balance})
             Step == receipts' # receipts =>
                        IF Short = 0 THEN value' = value /\ balance' = balance - Quote
                        ELSE /\ Worth(value) - Worth(value') \in Short..Short + 2
                             /\ balance' \in {0, 1}
  <1>1. TypeOK /\ [Next]_vars => Step
    <2> SUFFICES ASSUME TypeOK, [Next]_vars, receipts' # receipts PROVE Step
      OBVIOUS
    <2>1. PICK r \in Requests, human \in BOOLEAN : Pays(r, human)
      BY RequestSteps DEF Refuses, requests
    <2>2. Quote = r.quote
      <3>1. Len(receipts) \in Nat /\ Paid' = 1..Len(receipts) + 1
            /\ receipts'[Len(receipts) + 1].req = r
        BY <2>1, PaymentAppends
      <3>2. receipts' \in Seq(Receipt)
        BY TypePreserved DEF TypeOK
      <3>3. Len(receipts') = Len(receipts) + 1
        BY <3>1, <3>2 DEF Paid
      <3> QED BY <3>1, <3>3
    <2>3. r.quote \in Nat /\ MoneyTypeOK /\ balance \in Nat
      BY FloatAssumption DEF SpendReq, TypeOK, MoneyTypeOK
    <2>4. PICK f \in Fund(r.quote) :
             /\ f.balance >= r.quote
             /\ balance' = f.balance - r.quote /\ value' = f.value
      BY <2>1 DEF Pays, Spend
    <2> DEFINE q == r.quote
    <2>5. Short = IF q - balance > 0 THEN q - balance ELSE 0
      BY <2>2, <2>3, MaxWithZero
    <2>6. IF balance >= q THEN f.balance = balance /\ f.value = value
          ELSE /\ f.balance - q \in {0, 1}
               /\ Worth(value) - Worth(f.value) \in q - balance..q - balance + 2
      BY <2>3, <2>4, FundBringsTheShortfall
    <2>7. q \in Nat /\ Quote = q
      BY <2>2, <2>3
    <2> HIDE DEF q, Short, Quote
    <2>8. CASE balance >= q
      <3>1. Short = 0
        BY <2>3, <2>5, <2>7, <2>8
      <3> QED BY <2>4, <2>6, <2>7, <2>8, <3>1 DEF q
    <2>9. CASE ~(balance >= q)
      <3>1. Short = q - balance /\ Short # 0
        BY <2>3, <2>5, <2>7, <2>9
      <3>2. balance' \in {0, 1}
        BY <2>4, <2>6, <2>9 DEF q
      <3>3. Worth(value) - Worth(value') \in Short..Short + 2
        BY <2>4, <2>6, <2>9, <3>1
      <3> QED BY <3>1, <3>2, <3>3
    <2> QED BY <2>8, <2>9
  <1>2. TypeOK /\ [Next]_vars => [receipts' # receipts =>
          LET quote == receipts'[Len(receipts')].req.quote
              short == Max({0, quote - balance})
          IN  IF short = 0 THEN value' = value /\ balance' = balance - quote
              ELSE /\ Worth(value) - Worth(value') \in short..short + 2
                   /\ balance' \in {0, 1}]_vars
    BY <1>1
  <1> QED BY <1>2, FloatTypeCorrect, PTL DEF Spec, JitPullsTheShortfall
=============================================================================
