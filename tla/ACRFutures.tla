----------------------------- MODULE ACRFutures -----------------------------
(***************************************************************************)
(* contracts/src/ACRFutures.sol composed with the oracle it settles        *)
(* against: weekly cash-settled futures on an index.  Every fill is at the *)
(* oracle's latest value and mirrored by the series' maker; after expiry   *)
(* anybody settles the series at the first print the chain saw since, or,  *)
(* when the feed was silent, after a grace period at the best print there  *)
(* is.                                                                     *)
(*                                                                         *)
(* The oracle's prints are the steps of ACROracle; its administration is   *)
(* left out here (a paused or signerless oracle posts nothing).  All       *)
(* series share the venue's one USDC balance, as they do on chain.         *)
(***************************************************************************)
EXTENDS ACROracle, FuturesMath

CONSTANTS Deployer,        \* constructed the venue
          Heirs,           \* accounts an owner may hand the venue to
          Makers,          \* accounts a series may name as its maker
          Expiries, Multipliers,
          Quantities,      \* signed quantities a taker tries
          Amounts,         \* USDC amounts posted and withdrawn
          Funds,           \* USDC each account starts with
          MaxSettleAge,    \* MAX_SETTLE_AGE
          SettleGrace,     \* SETTLE_GRACE
          MaxTraders,      \* MAX_TRADERS
          MaxSeries,       \* bound on the number of series
          MaxFills         \* bound on the number of trades

ASSUME VenueAssumption ==
    /\ IsFiniteSet(Accounts)
    /\ Deployer \in Accounts /\ Makers \cup Heirs \subseteq Accounts
    /\ Expiries \cup Multipliers \cup Amounts \cup {Funds} \subseteq Nat
    /\ Quantities \subseteq Int
    /\ {MaxSettleAge, SettleGrace, MaxTraders, MaxSeries, MaxFills} \subseteq Nat
    /\ MaxSettleAge < SettleGrace

VARIABLES owner, pendingOwner, paused,
          series,          \* _series
          positions, collateral, traders,   \* per series
          fills,           \* number of trades so far (for the bound only)
          wallets,         \* USDC each account holds
          venueBalance     \* USDC the venue holds

venueAdmin == <<owner, pendingOwner, paused>>
books == <<series, positions, collateral, traders, fills>>
money == <<wallets, venueBalance>>
vars == <<oracleVars, venueAdmin, books, money>>

Series == [indexId : Indices, expiryTs : Nat, multiplier : Nat, maker : Accounts,
           settled : BOOLEAN, settlementPrice : Nat]

Init ==
    /\ OracleInit
    /\ owner = Deployer /\ pendingOwner = NoAddress /\ paused = FALSE
    /\ series = <<>> /\ positions = <<>> /\ collateral = <<>> /\ traders = <<>>
    /\ fills = 0
    /\ wallets = [a \in Accounts |-> Funds]
    /\ venueBalance = 0

SeriesIds == DOMAIN series
Mark(s) == LatestValue(series[s].indexId)
Required(s, t, pos) ==
    IF pos.contracts = 0 THEN 0 ELSE Margin(pos, Mark(s), series[s].multiplier)

-----------------------------------------------------------------------------
(* Administration.                                                         *)

SetPaused(sender, value) ==
    /\ sender = owner
    /\ paused' = value
    /\ UNCHANGED <<oracleVars, owner, pendingOwner, books, money>>

TransferOwnership(sender, to) ==
    /\ sender = owner
    /\ to # NoAddress
    /\ pendingOwner' = to
    /\ UNCHANGED <<oracleVars, owner, paused, books, money>>

AcceptOwnership(sender) ==
    /\ sender = pendingOwner
    /\ owner' = pendingOwner /\ pendingOwner' = NoAddress
    /\ UNCHANGED <<oracleVars, paused, books, money>>

OpenSeries(sender, i, expiry, multiplier, maker) ==
    /\ sender = owner
    /\ expiry > now /\ multiplier > 0
    /\ HasPrint(i) /\ LatestValue(i) > 0
    /\ Len(series) < MaxSeries
    /\ series' = Append(series, [indexId |-> i, expiryTs |-> expiry,
                                 multiplier |-> multiplier, maker |-> maker,
                                 settled |-> FALSE, settlementPrice |-> 0])
    /\ positions' = Append(positions, [a \in Accounts |-> Flat])
    /\ collateral' = Append(collateral, [a \in Accounts |-> 0])
    /\ traders' = Append(traders, {maker})
    /\ UNCHANGED <<oracleVars, venueAdmin, fills, money>>

-----------------------------------------------------------------------------
(* Collateral and trading.                                                 *)

\* _join
MayJoin(s, t) == t \in traders[s] \/ Cardinality(traders[s]) < MaxTraders
Join(s, t) == traders' = [traders EXCEPT ![s] = @ \cup {t}]

PostCollateral(sender, s, amount) ==
    /\ ~paused
    /\ ~series[s].settled
    /\ amount > 0
    /\ MayJoin(s, sender)
    /\ amount <= wallets[sender]
    /\ Join(s, sender)
    /\ wallets' = [wallets EXCEPT ![sender] = @ - amount]
    /\ venueBalance' = venueBalance + amount
    /\ collateral' = [collateral EXCEPT ![s][sender] = @ + amount]
    /\ UNCHANGED <<oracleVars, venueAdmin, series, positions, fills>>

\* Works while paused, and after expiry until somebody settles.
WithdrawCollateral(sender, s, amount) ==
    LET remaining == collateral[s][sender] - amount
    IN  /\ remaining >= 0
        /\ ~series[s].settled => remaining >= Required(s, sender, positions[s][sender])
        /\ amount <= venueBalance
        /\ collateral' = [collateral EXCEPT ![s][sender] = remaining]
        /\ wallets' = [wallets EXCEPT ![sender] = @ + amount]
        /\ venueBalance' = venueBalance - amount
        /\ UNCHANGED <<oracleVars, venueAdmin, series, positions, traders, fills>>

\* Mutant: only the taker's side is booked.
TradeUnmirrored(sender, s, qty) ==
    LET pos == ApplyFill(positions[s][sender], qty, Mark(s))
    IN  /\ ~paused /\ ~series[s].settled /\ now < series[s].expiryTs
        /\ qty # 0 /\ sender # series[s].maker /\ MayJoin(s, sender)
        /\ collateral[s][sender] >= Required(s, sender, pos)
        /\ Join(s, sender) /\ fills < MaxFills /\ fills' = fills + 1
        /\ positions' = [positions EXCEPT ![s][sender] = pos]
        /\ UNCHANGED <<oracleVars, venueAdmin, series, collateral, money>>

Trade(sender, s, qty) ==
    LET maker == series[s].maker
        pos == ApplyFill(positions[s][sender], qty, Mark(s))
        mirror == ApplyFill(positions[s][maker], -qty, Mark(s))
    IN  /\ ~paused
        /\ ~series[s].settled
        /\ now < series[s].expiryTs
        /\ qty # 0
        /\ sender # maker
        /\ MayJoin(s, sender)
        /\ collateral[s][sender] >= Required(s, sender, pos)
        /\ collateral[s][maker] >= Required(s, maker, mirror)
        /\ Join(s, sender)
        /\ fills < MaxFills /\ fills' = fills + 1
        /\ positions' = [positions EXCEPT ![s][sender] = pos, ![s][maker] = mirror]
        /\ UNCHANGED <<oracleVars, venueAdmin, series, collateral, money>>

-----------------------------------------------------------------------------
(* Settlement.                                                             *)

\* _clear: every participant's collateral plus PnL, losers floored, winners
\* cut, positions flat.
Clear(s, price) ==
    LET entitlement == [t \in traders[s] |->
                          collateral[s][t]
                            + CashPnl(positions[s][t], price, series[s].multiplier)]
        cleared == Cleared(entitlement)
    IN  /\ series' = [series EXCEPT ![s] = [@ EXCEPT !.settled = TRUE,
                                                     !.settlementPrice = price]]
        /\ collateral' = [collateral EXCEPT ![s] =
                            [t \in Accounts |-> IF t \in traders[s] THEN cleared[t]
                                                ELSE @[t]]]
        /\ positions' = [positions EXCEPT ![s] = [a \in Accounts |-> Flat]]
        /\ UNCHANGED <<oracleVars, venueAdmin, traders, fills, money>>

\* Mutant: settles at the mark of the moment the caller chooses.
SettleAtMark(s) ==
    LET i == series[s].indexId
    IN  /\ ~series[s].settled /\ now >= series[s].expiryTs
        /\ FoundSince(i, series[s].expiryTs)
        /\ LatestPrint(i).postedAt - series[s].expiryTs <= MaxSettleAge
        /\ Clear(s, LatestValue(i))

Settle(s) ==
    LET i == series[s].indexId
        expiry == series[s].expiryTs
    IN  /\ ~series[s].settled
        /\ now >= expiry
        /\ FoundSince(i, expiry)
        /\ FirstSince(i, expiry).value > 0
        /\ FirstSince(i, expiry).postedAt - expiry <= MaxSettleAge
        /\ Clear(s, FirstSince(i, expiry).value)

\* Mutant: the escape hatch still waits for a print since expiry.
SettleStaleSincePrint(s) ==
    LET i == series[s].indexId
        expiry == series[s].expiryTs
    IN  /\ ~series[s].settled /\ now >= expiry + SettleGrace
        /\ FoundSince(i, expiry) /\ FirstSince(i, expiry).value > 0
        /\ Clear(s, FirstSince(i, expiry).value)

\* Mutant: a settled series can be settled again.
SettleStaleAgain(s) ==
    LET i == series[s].indexId
        expiry == series[s].expiryTs
        best == IF FoundSince(i, expiry) THEN FirstSince(i, expiry) ELSE LatestPrint(i)
    IN  /\ now >= expiry + SettleGrace
        /\ HasPrint(i) /\ best.value > 0
        /\ Clear(s, best.value)

SettleStale(s) ==
    LET i == series[s].indexId
        expiry == series[s].expiryTs
        best == IF FoundSince(i, expiry) THEN FirstSince(i, expiry) ELSE LatestPrint(i)
    IN  /\ ~series[s].settled
        /\ now >= expiry + SettleGrace
        /\ HasPrint(i) /\ best.value > 0
        /\ Clear(s, best.value)

-----------------------------------------------------------------------------

OracleStep ==
    /\ Publish \/ Tick
    /\ UNCHANGED <<venueAdmin, books, money>>

VenueAdmin(a) ==
    \/ \E value \in BOOLEAN : SetPaused(a, value)
    \/ \E to \in Heirs : TransferOwnership(a, to)
    \/ AcceptOwnership(a)
    \/ \E i \in Indices, expiry \in Expiries, m \in Multipliers, maker \in Makers :
          OpenSeries(a, i, expiry, m, maker)

Account(a) ==
    \E s \in SeriesIds :
        \/ \E amount \in Amounts : PostCollateral(a, s, amount)
        \/ \E amount \in Amounts : WithdrawCollateral(a, s, amount)
        \/ \E qty \in Quantities : Trade(a, s, qty)

Anybody == \E s \in SeriesIds : Settle(s) \/ SettleStale(s)

Next == OracleStep \/ Anybody \/ \E a \in Accounts : VenueAdmin(a) \/ Account(a)

Spec == Init /\ [][Next]_vars

\* Blocks keep coming, and somebody calls a settlement that keeps being
\* possible: both are permissionless and neither depends on the press.
FairSpec ==
    /\ Spec
    /\ WF_vars(OracleStep /\ Tick)
    /\ \A s \in 1..MaxSeries : WF_vars(s \in SeriesIds /\ SettleStale(s))

-----------------------------------------------------------------------------
(* What a trader relies on.                                                *)

Owed(s) == SumFunctionOnSet(collateral[s], Accounts)
TotalOwed == SumFunctionOnSet([s \in SeriesIds |-> Owed(s)], SeriesIds)

\* Every variable has its type; only participants have a position or collateral.
TypeOK ==
    /\ OracleTypeOK
    /\ owner \in Accounts /\ pendingOwner \in Accounts \cup {NoAddress}
    /\ paused \in BOOLEAN
    /\ series \in Seq(Series)
    /\ positions \in Seq([Accounts -> Position])
    /\ collateral \in Seq([Accounts -> Nat])
    /\ traders \in Seq(SUBSET Accounts)
    /\ DOMAIN positions = SeriesIds /\ DOMAIN collateral = SeriesIds
    /\ DOMAIN traders = SeriesIds
    /\ \A s \in SeriesIds : \A a \in Accounts \ traders[s] :
          positions[s][a] = Flat /\ collateral[s][a] = 0
    /\ fills \in 0..MaxFills
    /\ wallets \in [Accounts -> Nat]
    /\ venueBalance \in Nat

\* "Per series the net position therefore always sums to zero."
NetPositionIsZero ==
    \A s \in SeriesIds :
        SumFunctionOnSet([t \in Accounts |-> positions[s][t].contracts], Accounts) = 0

\* The books of every series balance: its fills net out, and only participants
\* hold positions or collateral, none of it negative.
BooksBalance == TypeOK /\ NetPositionIsZero

\* Before anything settles, the collateral of all series is what the venue
\* holds; a clearing hands out no more than was posted, up to the unit each
\* participant's truncated PnL can be off by.
BackedUpToDust ==
    LET dust == SumFunctionOnSet([s \in SeriesIds |-> IF series[s].settled
                                                      THEN Cardinality(traders[s]) - 1 ELSE 0],
                                 SeriesIds)
    IN  TotalOwed <= venueBalance + dust

\* "distributed collateral exactly equals the pot (no mint, no underflow)":
\* the venue holds what it owes, so that every participant can withdraw.
FullyBacked == TotalOwed <= venueBalance

\* "the price is fixed by expiry, not by which of several post-expiry prints
\* the caller waits for": whenever the feed was alive around expiry, whoever
\* settles, by whichever door and at whatever time, gets the same price.
PriceFixedByExpiry ==
    \A s \in SeriesIds :
        LET i == series[s].indexId
            expiry == series[s].expiryTs
        IN  (/\ series[s].settled
             /\ FoundSince(i, expiry)
             /\ FirstSince(i, expiry).postedAt - expiry <= MaxSettleAge)
              => series[s].settlementPrice = FirstSince(i, expiry).value

\* A settled series is final: its price never changes and its participants'
\* collateral only leaves by their own withdrawals.
SettlementIsFinal ==
    [][\A s \in SeriesIds : series[s].settled =>
          /\ series'[s] = series[s] /\ positions'[s] = positions[s]
          /\ \A t \in Accounts : collateral'[s][t] # collateral[s][t] =>
                wallets'[t] - wallets[t] = collateral[s][t] - collateral'[s][t]]_vars

\* "Collateral is never locked past the grace": every series is settled in the
\* end, even if the press never posts again.
EverySeriesSettles ==
    \A s \in 1..MaxSeries : (s \in SeriesIds) ~> (s \in SeriesIds /\ series[s].settled)
=============================================================================
