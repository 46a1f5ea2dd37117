----------------------------- MODULE FuturesMath -----------------------------
(***************************************************************************)
(* The arithmetic of contracts/src/ACRFutures.sol: how a fill changes a    *)
(* position, what a position is worth at a price, and how a series is      *)
(* cleared.  Solidity's signed division truncates toward zero.  Wad and    *)
(* WadUsdc stand for 1e18 and 1e12: the fractions of a contract and of a   *)
(* USDC unit, kept small so that truncation shows on small numbers.        *)
(***************************************************************************)
EXTENDS Integers, FiniteSets, Functions

CONSTANTS Wad, WadUsdc, MarginBps, Bps

ASSUME MathAssumption ==
    /\ {Wad, WadUsdc, Bps} \subseteq Nat \ {0}
    /\ MarginBps \in 1..Bps

Position == [contracts : Int, avgPrice : Int, realizedPnl : Int]
Flat == [contracts |-> 0, avgPrice |-> 0, realizedPnl |-> 0]

AbsOf(x) == IF x >= 0 THEN x ELSE -x
Quot(a, b) == IF a >= 0 THEN a \div b ELSE -((-a) \div b)
CeilQuot(a, b) == (a + b - 1) \div b

\* _absMin: the quantity a fill closes.
Closed(qty, held) == IF AbsOf(qty) < AbsOf(held) THEN AbsOf(qty) ELSE AbsOf(held)

Reduces(pos, qty) == pos.contracts # 0 /\ (pos.contracts > 0) # (qty > 0)

\* Mutant: the direction is that of the fill, not of the position it closes.
RealizedByFill(pos, qty, price) ==
    IF Reduces(pos, qty)
    THEN LET direction == IF qty > 0 THEN 1 ELSE -1
         IN  pos.realizedPnl
               + Quot(Closed(qty, pos.contracts) * direction * (price - pos.avgPrice), Wad)
    ELSE pos.realizedPnl

Realized(pos, qty, price) ==
    IF Reduces(pos, qty)
    THEN LET direction == IF pos.contracts > 0 THEN 1 ELSE -1
         IN  pos.realizedPnl
               + Quot(Closed(qty, pos.contracts) * direction * (price - pos.avgPrice), Wad)
    ELSE pos.realizedPnl

\* Flat resets the entry; adding blends it; flipping or opening takes the fill's.
Entry(pos, qty, price) ==
    LET held == pos.contracts
    IN  CASE held + qty = 0 -> 0
          [] held # 0 /\ (held >= 0) = (qty >= 0) /\ held + qty # 0 ->
               Quot(pos.avgPrice * AbsOf(held) + price * AbsOf(qty), AbsOf(held + qty))
          [] Reduces(pos, qty) /\ AbsOf(qty) > AbsOf(held) -> price
          [] held = 0 /\ qty # 0 -> price
          [] OTHER -> pos.avgPrice

\* _applyFill
ApplyFill(pos, qty, price) ==
    [contracts |-> pos.contracts + qty,
     avgPrice |-> Entry(pos, qty, price),
     realizedPnl |-> Realized(pos, qty, price)]

\* _cashPnl: realized and unrealized, in USDC units.
CashPnl(pos, price, multiplier) ==
    Quot((pos.realizedPnl + Quot(pos.contracts * (price - pos.avgPrice), Wad))
           * multiplier, WadUsdc)

\* _requiredMargin: initial margin on the notional at a mark.
Margin(pos, mark, multiplier) ==
    (((AbsOf(pos.contracts) * mark * multiplier) \div (Wad * WadUsdc)) * MarginBps) \div Bps

-----------------------------------------------------------------------------
(* _clear, given each participant's collateral plus PnL.                   *)

Floored(x) == IF x < 0 THEN 0 ELSE x
TotalFloored(ent) ==
    SumFunctionOnSet([t \in DOMAIN ent |-> Floored(ent[t])], DOMAIN ent)
Shortfall(ent) ==
    SumFunctionOnSet([t \in DOMAIN ent |-> Floored(-ent[t])], DOMAIN ent)

\* Mutant: winners are not cut at all.
NoHaircut(own, shortfall, winners) == 0 * own * shortfall * winners

\* A winner's part of the shortfall, rounded up.
Haircut(own, shortfall, winners) == CeilQuot(shortfall * own, winners)

\* Losers are floored at zero, winners cover the shortfall pro rata.
Cleared(ent) ==
    LET shortfall == Shortfall(ent)
        winners == TotalFloored(ent)
    IN  [t \in DOMAIN ent |->
           LET own == Floored(ent[t])
           IN  IF own > 0 /\ shortfall > 0
               THEN Floored(own - Haircut(own, shortfall, winners))
               ELSE own]
=============================================================================
