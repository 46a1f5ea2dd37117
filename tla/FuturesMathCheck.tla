-------------------------- MODULE FuturesMathCheck --------------------------
(***************************************************************************)
(* The futures venue's arithmetic against what it should compute: one      *)
(* position goes through every short history of fills and is compared with *)
(* the cash those fills cost, and a clearing is tried on every small       *)
(* combination of entitlements.                                            *)
(***************************************************************************)
EXTENDS FuturesMath

CONSTANTS Participants,    \* of the series being cleared
          Sizes,           \* signed quantities of a fill
          Prices,          \* at which it may happen
          Entitlements,    \* collateral plus PnL a participant may end with
          MaxSteps         \* bound on the number of fills

VARIABLES pos,             \* the position ApplyFill maintains
          cash,            \* what its fills brought in: -qty * price, summed
          steps, ent

vars == <<pos, cash, steps, ent>>

Init ==
    /\ pos = Flat /\ cash = 0 /\ steps = 0
    /\ ent = [t \in Participants |-> 0]

Fill(qty, price) ==
    /\ steps < MaxSteps
    /\ pos' = ApplyFill(pos, qty, price)
    /\ cash' = cash - qty * price
    /\ steps' = steps + 1
    /\ UNCHANGED ent

\* The two parts are independent: a position is only built before anybody has
\* an entitlement.
Entitle(t, x) ==
    /\ steps = 0
    /\ ent' = [ent EXCEPT ![t] = x]
    /\ UNCHANGED <<pos, cash, steps>>

Next ==
    \/ ent = [t \in Participants |-> 0] /\ \E qty \in Sizes, price \in Prices : Fill(qty, price)
    \/ \E t \in Participants, x \in Entitlements : Entitle(t, x)

Spec == Init /\ [][Next]_vars

-----------------------------------------------------------------------------

\* Realized and unrealized PnL together are the cash the fills brought in plus
\* what the open contracts are worth, at whatever price; each fill may lose a
\* fraction in the realized quotient and one in the blended entry.
PnlIsCashFlow ==
    \A price \in Prices :
        LET booked == pos.realizedPnl * Wad + pos.contracts * (price - pos.avgPrice)
            slack == steps * (Wad + AbsOf(pos.contracts))
        IN  AbsOf(booked - (cash + pos.contracts * price)) <= slack

\* A clearing pays losers nothing and winners at most their own; it pays out
\* no more than the entitlements add up to, and less by under one unit per
\* winner; nobody overtakes anybody.
ClearingSharesThePot ==
    LET cleared == Cleared(ent)
        paid == SumFunctionOnSet(cleared, Participants)
        pot == SumFunctionOnSet(ent, Participants)
        winners == {t \in Participants : ent[t] > 0}
    IN  /\ \A t \in Participants : 0 <= cleared[t] /\ cleared[t] <= Floored(ent[t])
        /\ paid <= Floored(pot)
        /\ Floored(pot) - paid <= Cardinality(winners)
        /\ \A t, u \in Participants : ent[t] <= ent[u] => cleared[t] <= cleared[u]
=============================================================================
