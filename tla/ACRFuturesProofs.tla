--------------------------- MODULE ACRFuturesProofs ---------------------------
(***************************************************************************)
(* The futures venue keeps its books in balance and its settlements final, *)
(* for every set of accounts, prints, expiries and quantities, and for     *)
(* every scale of the arithmetic.                                          *)
(***************************************************************************)
EXTENDS ACRFutures, ACROracleProofs, CommonLemmas

-----------------------------------------------------------------------------
(* The arithmetic keeps to the integers.                                   *)

LEMMA QuotIsInt == ASSUME NEW a \in Int, NEW b \in Nat \ {0} PROVE Quot(a, b) \in Int
  <1>1. CASE a >= 0
    BY <1>1, SMT DEF Quot
  <1>2. CASE ~(a >= 0)
    <2>1. (-a) \div b \in Int
      BY <1>2, SMT
    <2> QED BY <1>2, <2>1 DEF Quot
  <1> QED BY <1>1, <1>2

LEMMA ClosedIsNat == ASSUME NEW q \in Int, NEW h \in Int PROVE Closed(q, h) \in Nat
  BY DEF Closed, AbsOf

LEMMA RealizedIsInt ==
    ASSUME NEW pos \in Position, NEW qty \in Int, NEW price \in Int, MathAssumption
    PROVE  Realized(pos, qty, price) \in Int
  <1>1. pos.contracts \in Int /\ pos.avgPrice \in Int /\ pos.realizedPnl \in Int
    BY DEF Position
  <1>2. ASSUME NEW d \in Int
        PROVE  Quot(Closed(qty, pos.contracts) * d * (price - pos.avgPrice), Wad) \in Int
    <2>0. Closed(qty, pos.contracts) \in Int
      <3>1. Closed(qty, pos.contracts) \in Nat
        BY <1>1, ClosedIsNat
      <3> QED BY <3>1
    <2>1. PICK c \in Int : c = Closed(qty, pos.contracts)
      BY <2>0
    <2>2. PICK m \in Int : m = price - pos.avgPrice
      BY <1>1
    <2>3. c * d * m \in Int
      OBVIOUS
    <2> QED BY <2>1, <2>2, <2>3, QuotIsInt DEF MathAssumption
  <1> QED BY <1>1, <1>2 DEF Realized

LEMMA EntryIsInt ==
    ASSUME NEW pos \in Position, NEW qty \in Int, NEW price \in Int
    PROVE  Entry(pos, qty, price) \in Int
  <1>1. pos.contracts \in Int /\ pos.avgPrice \in Int /\ pos.realizedPnl \in Int
    BY DEF Position
  <1>2. ASSUME pos.contracts + qty # 0
        PROVE  Quot(pos.avgPrice * AbsOf(pos.contracts) + price * AbsOf(qty),
                    AbsOf(pos.contracts + qty)) \in Int
    <2>1. PICK b \in Nat \ {0} : b = AbsOf(pos.contracts + qty)
      BY <1>1, <1>2 DEF AbsOf
    <2>2. PICK c \in Int, d \in Int : c = AbsOf(pos.contracts) /\ d = AbsOf(qty)
      BY <1>1 DEF AbsOf
    <2>3. pos.avgPrice * c + price * d \in Int
      BY <1>1
    <2> QED BY <2>1, <2>2, <2>3, QuotIsInt
  <1>3. CASE pos.contracts + qty = 0
    BY <1>3 DEF Entry
  <1>4. CASE pos.contracts + qty # 0
    <2>1. PICK y \in Int : y = Quot(pos.avgPrice * AbsOf(pos.contracts) + price * AbsOf(qty),
                                   AbsOf(pos.contracts + qty))
      BY <1>2, <1>4
    <2>2. Entry(pos, qty, price) \in {y, price, pos.avgPrice}
      BY <1>1, <1>4, <2>1 DEF Entry, Reduces
    <2> QED BY <1>1, <2>2
  <1> QED BY <1>3, <1>4

LEMMA FillIsPosition ==
    ASSUME NEW pos \in Position, NEW qty \in Int, NEW price \in Int, MathAssumption
    PROVE  /\ ApplyFill(pos, qty, price) \in Position
           /\ ApplyFill(pos, qty, price).contracts = pos.contracts + qty
  <1>1. pos.contracts \in Int
    BY DEF Position
  <1>2. Entry(pos, qty, price) \in Int /\ Realized(pos, qty, price) \in Int
    BY EntryIsInt, RealizedIsInt
  <1> QED BY <1>1, <1>2 DEF ApplyFill, Position

LEMMA PnlIsInt ==
    ASSUME NEW pos \in Position, NEW price \in Int, NEW m \in Int, MathAssumption
    PROVE  CashPnl(pos, price, m) \in Int
  <1>1. pos.contracts \in Int /\ pos.avgPrice \in Int /\ pos.realizedPnl \in Int
    BY DEF Position
  <1>2. PICK c \in Int : c = pos.contracts * (price - pos.avgPrice)
    BY <1>1
  <1>3. PICK u \in Int : u = Quot(c, Wad)
    BY QuotIsInt DEF MathAssumption
  <1>4. (pos.realizedPnl + u) * m \in Int
    BY <1>1
  <1> QED BY <1>2, <1>3, <1>4, QuotIsInt DEF CashPnl, MathAssumption


-----------------------------------------------------------------------------
(* Sums and sequences.                                                     *)

LEMMA SeqPatched ==
    ASSUME NEW S, NEW h \in Seq(S), NEW k \in DOMAIN h, NEW v \in S,
           NEW g, g = [h EXCEPT ![k] = v]
    PROVE  /\ g \in Seq(S) /\ DOMAIN g = DOMAIN h /\ Len(g) = Len(h)
           /\ g[k] = v /\ \A n \in DOMAIN h : n # k => g[n] = h[n]
  OBVIOUS

LEMMA SeqExtended ==
    ASSUME NEW S, NEW h \in Seq(S), NEW v \in S, NEW g, g = Append(h, v)
    PROVE  /\ g \in Seq(S) /\ DOMAIN g = DOMAIN h \cup {Len(h) + 1}
           /\ Len(h) + 1 \notin DOMAIN h
           /\ g[Len(h) + 1] = v /\ \A n \in DOMAIN h : g[n] = h[n]
  OBVIOUS

-----------------------------------------------------------------------------
(* A clearing hands out natural amounts.                                   *)

LEMMA ClearedIsNat ==
    ASSUME NEW T, IsFiniteSet(T), NEW ent \in [T -> Int]
    PROVE  /\ Cleared(ent) \in [T -> Nat]
           /\ \A t \in T : Cleared(ent)[t] <= Floored(ent[t])
  <1> DEFINE floor == [t \in T |-> Floored(ent[t])]
             loss == [t \in T |-> Floored(-ent[t])]
  <1>1. \A t \in T : floor[t] \in Nat /\ loss[t] \in Nat
    BY DEF Floored
  <1>2. /\ TotalFloored(ent) = SumFunctionOnSet(floor, T)
        /\ Shortfall(ent) = SumFunctionOnSet(loss, T)
    BY DEF TotalFloored, Shortfall
  <1> HIDE DEF floor, loss
  <1>3. PICK w \in Nat, z \in Nat : w = TotalFloored(ent) /\ z = Shortfall(ent)
    BY <1>1, <1>2, SumIsNat
  <1>4. \A t \in T : floor[t] <= w
    BY <1>1, <1>2, <1>3, SumIsNat
  <1>5. ASSUME NEW t \in T, Floored(ent[t]) > 0
        PROVE  Haircut(Floored(ent[t]), z, w) \in Nat
    <2>1. PICK f \in Nat : f = Floored(ent[t])
      BY DEF Floored
    <2>2. w \in Nat \ {0}
      BY <1>4, <1>5, <2>1 DEF floor
    <2>3. PICK y \in Nat : y = z * f
      OBVIOUS
    <2>4. (y + w - 1) \div w \in Nat
      BY <2>2, SMT
    <2> QED BY <2>1, <2>3, <2>4 DEF Haircut, CeilQuot
  <1>6. ASSUME NEW t \in T
        PROVE  Cleared(ent)[t] \in Nat /\ Cleared(ent)[t] <= Floored(ent[t])
    <2>1. PICK f \in Nat : f = Floored(ent[t])
      BY DEF Floored
    <2>2. Cleared(ent)[t] = IF f > 0 /\ z > 0 THEN Floored(f - Haircut(f, z, w)) ELSE f
      BY <1>3, <2>1 DEF Cleared
    <2>3. CASE f > 0 /\ z > 0
      <3>1. PICK c \in Nat : c = Haircut(f, z, w)
        BY <1>5, <2>1, <2>3
      <3> QED BY <2>1, <2>2, <2>3, <3>1 DEF Floored
    <2>4. CASE ~(f > 0 /\ z > 0)
      BY <2>1, <2>2, <2>4
    <2> QED BY <2>3, <2>4
  <1>7. Cleared(ent) = [t \in T |-> Cleared(ent)[t]]
    BY DEF Cleared
  <1> QED BY <1>6, <1>7


-----------------------------------------------------------------------------
(* Types.                                                                  *)

\* One series' books.
RowTyped(p, c, t) ==
    /\ p \in [Accounts -> Position] /\ c \in [Accounts -> Nat] /\ t \in SUBSET Accounts
    /\ \A a \in Accounts \ t : p[a] = Flat /\ c[a] = 0

BooksTyped(S, P, C, T) ==
    /\ S \in Seq(Series) /\ P \in Seq([Accounts -> Position])
    /\ C \in Seq([Accounts -> Nat]) /\ T \in Seq(SUBSET Accounts)
    /\ DOMAIN P = DOMAIN S /\ DOMAIN C = DOMAIN S /\ DOMAIN T = DOMAIN S
    /\ \A s \in DOMAIN S : \A a \in Accounts \ T[s] : P[s][a] = Flat /\ C[s][a] = 0

CashTyped(w, v) == w \in [Accounts -> Nat] /\ v \in Nat

AdminTyped ==
    /\ owner \in Accounts /\ pendingOwner \in Accounts \cup {NoAddress}
    /\ paused \in BOOLEAN

\* A series is only opened on an index with a print, and prints stay.
Priced == \A s \in SeriesIds : HasPrint(series[s].indexId)

\* The maker takes part in its series from the start.
MakersJoined == \A s \in SeriesIds : series[s].maker \in traders[s]

TInv == IInv /\ TypeOK /\ Priced /\ MakersJoined

LEMMA TypeParts ==
    TypeOK <=> /\ OracleTypeOK /\ AdminTyped /\ BooksTyped(series, positions, collateral, traders)
               /\ fills \in 0..MaxFills /\ CashTyped(wallets, venueBalance)
  BY DEF TypeOK, AdminTyped, BooksTyped, CashTyped, SeriesIds

LEMMA RowOf ==
    ASSUME NEW S, NEW P, NEW C, NEW T, BooksTyped(S, P, C, T), NEW s \in DOMAIN S
    PROVE  RowTyped(P[s], C[s], T[s]) /\ S[s] \in Series
  BY DEF BooksTyped, RowTyped

LEMMA RowChanges ==
    ASSUME NEW S, NEW P, NEW C, NEW T, BooksTyped(S, P, C, T), NEW s \in DOMAIN S,
           NEW x \in Series, NEW p, NEW c, NEW t, RowTyped(p, c, t),
           NEW S2, NEW P2, NEW C2, NEW T2,
           S2 = [S EXCEPT ![s] = x], P2 = [P EXCEPT ![s] = p],
           C2 = [C EXCEPT ![s] = c], T2 = [T EXCEPT ![s] = t]
    PROVE  BooksTyped(S2, P2, C2, T2)
  <1>1. /\ S \in Seq(Series) /\ P \in Seq([Accounts -> Position])
        /\ C \in Seq([Accounts -> Nat]) /\ T \in Seq(SUBSET Accounts)
        /\ DOMAIN P = DOMAIN S /\ DOMAIN C = DOMAIN S /\ DOMAIN T = DOMAIN S
    BY DEF BooksTyped
  <1>2. p \in [Accounts -> Position] /\ c \in [Accounts -> Nat] /\ t \in SUBSET Accounts
    BY DEF RowTyped
  <1>3. S2 \in Seq(Series) /\ DOMAIN S2 = DOMAIN S
    BY <1>1, SeqPatched
  <1>4. /\ P2 \in Seq([Accounts -> Position]) /\ DOMAIN P2 = DOMAIN S
        /\ P2[s] = p /\ \A n \in DOMAIN S : n # s => P2[n] = P[n]
    BY <1>1, <1>2, SeqPatched
  <1>5. /\ C2 \in Seq([Accounts -> Nat]) /\ DOMAIN C2 = DOMAIN S
        /\ C2[s] = c /\ \A n \in DOMAIN S : n # s => C2[n] = C[n]
    BY <1>1, <1>2, SeqPatched
  <1>6. /\ T2 \in Seq(SUBSET Accounts) /\ DOMAIN T2 = DOMAIN S
        /\ T2[s] = t /\ \A n \in DOMAIN S : n # s => T2[n] = T[n]
    BY <1>1, <1>2, SeqPatched
  <1>7. ASSUME NEW n \in DOMAIN S, NEW a \in Accounts \ T2[n]
        PROVE  P2[n][a] = Flat /\ C2[n][a] = 0
    <2>1. CASE n = s
      BY <1>4, <1>5, <1>6, <2>1 DEF RowTyped
    <2>2. CASE n # s
      BY <1>4, <1>5, <1>6, <2>2 DEF BooksTyped
    <2> QED BY <2>1, <2>2
  <1> QED BY <1>3, <1>4, <1>5, <1>6, <1>7 DEF BooksTyped

LEMMA RowOpens ==
    ASSUME NEW S, NEW P, NEW C, NEW T, BooksTyped(S, P, C, T),
           NEW x \in Series, NEW p, NEW c, NEW t, RowTyped(p, c, t),
           NEW S2, NEW P2, NEW C2, NEW T2,
           S2 = Append(S, x), P2 = Append(P, p), C2 = Append(C, c), T2 = Append(T, t)
    PROVE  BooksTyped(S2, P2, C2, T2)
  <1>1. /\ S \in Seq(Series) /\ P \in Seq([Accounts -> Position])
        /\ C \in Seq([Accounts -> Nat]) /\ T \in Seq(SUBSET Accounts)
        /\ DOMAIN P = DOMAIN S /\ DOMAIN C = DOMAIN S /\ DOMAIN T = DOMAIN S
        /\ Len(P) = Len(S) /\ Len(C) = Len(S) /\ Len(T) = Len(S)
    BY DEF BooksTyped
  <1>2. p \in [Accounts -> Position] /\ c \in [Accounts -> Nat] /\ t \in SUBSET Accounts
    BY DEF RowTyped
  <1> DEFINE m == Len(S) + 1
  <1>3. S2 \in Seq(Series) /\ DOMAIN S2 = DOMAIN S \cup {m} /\ m \notin DOMAIN S
    BY <1>1, SeqExtended
  <1>4. /\ P2 \in Seq([Accounts -> Position]) /\ DOMAIN P2 = DOMAIN S \cup {m}
        /\ P2[m] = p /\ \A n \in DOMAIN S : P2[n] = P[n]
    BY <1>1, <1>2, SeqExtended
  <1>5. /\ C2 \in Seq([Accounts -> Nat]) /\ DOMAIN C2 = DOMAIN S \cup {m}
        /\ C2[m] = c /\ \A n \in DOMAIN S : C2[n] = C[n]
    BY <1>1, <1>2, SeqExtended
  <1>6. /\ T2 \in Seq(SUBSET Accounts) /\ DOMAIN T2 = DOMAIN S \cup {m}
        /\ T2[m] = t /\ \A n \in DOMAIN S : T2[n] = T[n]
    BY <1>1, <1>2, SeqExtended
  <1> HIDE DEF m
  <1>7. ASSUME NEW n \in DOMAIN S2, NEW a \in Accounts \ T2[n]
        PROVE  P2[n][a] = Flat /\ C2[n][a] = 0
    <2>1. CASE n = m
      BY <1>4, <1>5, <1>6, <2>1 DEF RowTyped
    <2>2. CASE n \in DOMAIN S
      BY <1>4, <1>5, <1>6, <2>2 DEF BooksTyped
    <2> QED BY <1>3, <2>1, <2>2
  <1> QED BY <1>3, <1>4, <1>5, <1>6, <1>7 DEF BooksTyped


\* The books of one series change, the terms of the series do not.
RowStep(s, x, p, c, t) ==
    /\ s \in SeriesIds /\ x \in Series /\ RowTyped(p, c, t)
    /\ x.indexId = series[s].indexId /\ x.maker = series[s].maker
    /\ traders[s] \subseteq t
    /\ series' = [series EXCEPT ![s] = x] /\ positions' = [positions EXCEPT ![s] = p]
    /\ collateral' = [collateral EXCEPT ![s] = c] /\ traders' = [traders EXCEPT ![s] = t]
    /\ UNCHANGED oracleVars

LEMMA RowStepKeeps ==
    ASSUME TInv, NEW s, NEW x, NEW p, NEW c, NEW t, RowStep(s, x, p, c, t)
    PROVE  /\ BooksTyped(series', positions', collateral', traders')
           /\ SeriesIds' = SeriesIds
           /\ series'[s] = x /\ positions'[s] = p /\ collateral'[s] = c /\ traders'[s] = t
           /\ \A n \in SeriesIds : n # s =>
                /\ series'[n] = series[n] /\ positions'[n] = positions[n]
                /\ collateral'[n] = collateral[n] /\ traders'[n] = traders[n]
           /\ Priced' /\ MakersJoined'
  <1>1. BooksTyped(series, positions, collateral, traders) /\ Priced /\ MakersJoined
    BY TypeParts DEF TInv
  <1>2. /\ s \in DOMAIN series /\ x \in Series /\ RowTyped(p, c, t)
        /\ x.indexId = series[s].indexId /\ x.maker = series[s].maker /\ traders[s] \subseteq t
        /\ series' = [series EXCEPT ![s] = x] /\ positions' = [positions EXCEPT ![s] = p]
        /\ collateral' = [collateral EXCEPT ![s] = c]
        /\ traders' = [traders EXCEPT ![s] = t] /\ history' = history
    BY DEF RowStep, SeriesIds, oracleVars
  <1>3. BooksTyped(series', positions', collateral', traders')
    BY <1>1, <1>2, RowChanges
  <1>4. /\ SeriesIds' = SeriesIds
        /\ series'[s] = x /\ positions'[s] = p /\ collateral'[s] = c /\ traders'[s] = t
        /\ \A n \in SeriesIds : n # s =>
             /\ series'[n] = series[n] /\ positions'[n] = positions[n]
             /\ collateral'[n] = collateral[n] /\ traders'[n] = traders[n]
    BY <1>1, <1>2 DEF BooksTyped, SeriesIds
  <1>5. \A n \in SeriesIds : series'[n].indexId = series[n].indexId
                             /\ series'[n].maker = series[n].maker
                             /\ traders[n] \subseteq traders'[n]
    BY <1>2, <1>4
  <1>6. Priced'
    BY <1>1, <1>2, <1>4, <1>5 DEF Priced, HasPrint
  <1>7. MakersJoined'
    BY <1>1, <1>4, <1>5 DEF MakersJoined
  <1> QED BY <1>3, <1>4, <1>6, <1>7

LEMMA MarkIsNat ==
    ASSUME TInv, NEW s \in SeriesIds
    PROVE  Mark(s) \in Nat
  <1>1. series[s] \in Series
    BY TypeParts, RowOf DEF TInv, SeriesIds
  <1>2. series[s].indexId \in Indices
    BY <1>1 DEF Series
  <1>3. history[series[s].indexId] \in Seq(PrintRecord) /\ history[series[s].indexId] # <<>>
    BY <1>2 DEF TInv, IInv, OracleTypeOK, Priced, HasPrint
  <1>4. LatestPrint(series[s].indexId) \in PrintRecord
    BY <1>3 DEF LatestPrint
  <1> QED BY <1>4 DEF Mark, LatestValue, PrintRecord

LEMMA BooksNow ==
    ASSUME TInv, NEW s \in SeriesIds
    PROVE  /\ RowTyped(positions[s], collateral[s], traders[s]) /\ series[s] \in Series
           /\ series \in Seq(Series) /\ positions \in Seq([Accounts -> Position])
           /\ collateral \in Seq([Accounts -> Nat]) /\ traders \in Seq(SUBSET Accounts)
           /\ DOMAIN positions = DOMAIN series /\ DOMAIN collateral = DOMAIN series
           /\ DOMAIN traders = DOMAIN series /\ s \in DOMAIN series
           /\ fills \in 0..MaxFills /\ CashTyped(wallets, venueBalance)
  <1>1. BooksTyped(series, positions, collateral, traders) /\ s \in DOMAIN series
    BY TypeParts DEF TInv, SeriesIds
  <1>2. RowTyped(positions[s], collateral[s], traders[s]) /\ series[s] \in Series
    BY <1>1, RowOf
  <1>3. fills \in 0..MaxFills /\ CashTyped(wallets, venueBalance)
    BY TypeParts DEF TInv
  <1> QED BY <1>1, <1>2, <1>3 DEF BooksTyped

\* What each operation does to the books of its series.
LEMMA PostStep ==
    ASSUME TInv, NEW a \in Accounts, NEW s \in SeriesIds, NEW amount \in Nat,
           PostCollateral(a, s, amount)
    PROVE  /\ RowStep(s, series[s], positions[s],
                      [collateral[s] EXCEPT ![a] = @ + amount], traders[s] \cup {a})
           /\ CashTyped(wallets', venueBalance')
           /\ UNCHANGED <<fills, venueAdmin>>
  <1>1. /\ RowTyped(positions[s], collateral[s], traders[s]) /\ series[s] \in Series
        /\ series \in Seq(Series) /\ positions \in Seq([Accounts -> Position])
    BY BooksNow
  <1>2. RowTyped(positions[s], [collateral[s] EXCEPT ![a] = @ + amount], traders[s] \cup {a})
    BY <1>1 DEF RowTyped
  <1>3. /\ series' = [series EXCEPT ![s] = series[s]]
        /\ positions' = [positions EXCEPT ![s] = positions[s]]
    BY <1>1 DEF PostCollateral, SeriesIds, books
  <1>4. /\ collateral' = [collateral EXCEPT ![s] = [collateral[s] EXCEPT ![a] = @ + amount]]
        /\ traders' = [traders EXCEPT ![s] = traders[s] \cup {a}]
        /\ UNCHANGED <<oracleVars, venueAdmin, fills>>
    BY DEF PostCollateral, Join
  <1>5. CashTyped(wallets', venueBalance')
    <2>1. CashTyped(wallets, venueBalance)
      BY TypeParts DEF TInv
    <2> QED BY <2>1 DEF CashTyped, PostCollateral
  <1> QED BY <1>1, <1>2, <1>3, <1>4, <1>5 DEF RowStep

LEMMA WithdrawStep ==
    ASSUME TInv, NEW a \in Accounts, NEW s \in SeriesIds, NEW amount \in Nat,
           WithdrawCollateral(a, s, amount)
    PROVE  /\ RowStep(s, series[s], positions[s],
                      [collateral[s] EXCEPT ![a] = @ - amount], traders[s])
           /\ CashTyped(wallets', venueBalance')
           /\ UNCHANGED <<fills, venueAdmin>>
  <1>1. /\ RowTyped(positions[s], collateral[s], traders[s]) /\ series[s] \in Series
        /\ series \in Seq(Series) /\ positions \in Seq([Accounts -> Position])
        /\ traders \in Seq(SUBSET Accounts)
        /\ DOMAIN positions = DOMAIN series /\ DOMAIN traders = DOMAIN series
    BY BooksNow
  <1>0. collateral[s][a] \in Nat /\ collateral[s][a] - amount >= 0
    BY <1>1 DEF WithdrawCollateral, RowTyped
  <1>2. RowTyped(positions[s], [collateral[s] EXCEPT ![a] = @ - amount], traders[s])
    BY <1>0, <1>1 DEF RowTyped
  <1>3. /\ series' = [series EXCEPT ![s] = series[s]]
        /\ positions' = [positions EXCEPT ![s] = positions[s]]
        /\ traders' = [traders EXCEPT ![s] = traders[s]]
    BY <1>1 DEF WithdrawCollateral, SeriesIds
  <1>4. /\ collateral' = [collateral EXCEPT ![s] = [collateral[s] EXCEPT ![a] = @ - amount]]
        /\ UNCHANGED <<oracleVars, venueAdmin, fills>>
    BY DEF WithdrawCollateral
  <1>5. CashTyped(wallets', venueBalance')
    <2>1. CashTyped(wallets, venueBalance)
      BY TypeParts DEF TInv
    <2> QED BY <2>1 DEF CashTyped, WithdrawCollateral
  <1> QED BY <1>1, <1>2, <1>3, <1>4, <1>5 DEF RowStep

Moves(before, after, qty) == after.contracts = before.contracts + qty

LEMMA TradeStep ==
    ASSUME TInv, NEW a \in Accounts, NEW s \in SeriesIds, NEW qty \in Int, Trade(a, s, qty),
           NEW maker, maker = series[s].maker,
           NEW pos, pos = ApplyFill(positions[s][a], qty, Mark(s)),
           NEW mirror, mirror = ApplyFill(positions[s][maker], -qty, Mark(s))
    PROVE  /\ RowStep(s, series[s], [positions[s] EXCEPT ![a] = pos, ![maker] = mirror],
                      collateral[s], traders[s] \cup {a})
           /\ maker \in Accounts /\ maker # a
           /\ Moves(positions[s][a], pos, qty) /\ Moves(positions[s][maker], mirror, -qty)
           /\ fills' \in 0..MaxFills
           /\ UNCHANGED <<money, venueAdmin>>
  <1>1. /\ RowTyped(positions[s], collateral[s], traders[s]) /\ series[s] \in Series
        /\ series \in Seq(Series) /\ collateral \in Seq([Accounts -> Nat])
        /\ DOMAIN collateral = DOMAIN series /\ positions \in Seq([Accounts -> Position])
        /\ DOMAIN positions = DOMAIN series /\ fills \in 0..MaxFills
    BY BooksNow
  <1>2. maker \in Accounts /\ maker # a /\ maker \in traders[s]
    BY <1>1 DEF Trade, Series, TInv, MakersJoined
  <1>3. positions[s][a] \in Position /\ positions[s][maker] \in Position /\ Mark(s) \in Int
    BY <1>1, <1>2, MarkIsNat DEF RowTyped
  <1>4. /\ pos \in Position /\ Moves(positions[s][a], pos, qty)
        /\ mirror \in Position /\ Moves(positions[s][maker], mirror, -qty)
    BY <1>3, FillIsPosition, MathAssumption DEF Moves
  <1>6. RowTyped([positions[s] EXCEPT ![a] = pos, ![maker] = mirror],
                 collateral[s], traders[s] \cup {a})
    BY <1>1, <1>2, <1>4 DEF RowTyped
  <1>7. positions' = [positions EXCEPT ![s][a] = pos, ![s][maker] = mirror]
    BY DEF Trade
  <1>8. positions' = [positions EXCEPT ![s] = [positions[s] EXCEPT ![a] = pos, ![maker] = mirror]]
    BY <1>1, <1>7 DEF SeriesIds
  <1>9. /\ series' = [series EXCEPT ![s] = series[s]]
        /\ collateral' = [collateral EXCEPT ![s] = collateral[s]]
        /\ traders' = [traders EXCEPT ![s] = traders[s] \cup {a}]
        /\ UNCHANGED <<oracleVars, venueAdmin, money>>
    BY <1>1 DEF Trade, Join, SeriesIds
  <1>10. fills' \in 0..MaxFills
    <2>1. fills < MaxFills /\ fills' = fills + 1
      BY DEF Trade
    <2> QED BY <1>1, <2>1, VenueAssumption
  <1> QED BY <1>1, <1>2, <1>4, <1>6, <1>8, <1>9, <1>10 DEF RowStep


\* What the participants of a series are entitled to at a price, before the
\* losers are floored, and the collateral they are left with.
Entitled(s, price) ==
    [t \in traders[s] |->
       collateral[s][t] + CashPnl(positions[s][t], price, series[s].multiplier)]

PaidOut(s, price) ==
    [t \in Accounts |-> IF t \in traders[s] THEN Cleared(Entitled(s, price))[t]
                        ELSE collateral[s][t]]

AtPrice(s, price) == [series[s] EXCEPT !.settled = TRUE, !.settlementPrice = price]

LEMMA EntitledIsInt ==
    ASSUME TInv, NEW s \in SeriesIds, NEW price \in Nat
    PROVE  Entitled(s, price) \in [traders[s] -> Int] /\ IsFiniteSet(traders[s])
  <1>1. RowTyped(positions[s], collateral[s], traders[s]) /\ series[s] \in Series
    BY BooksNow
  <1>2. IsFiniteSet(traders[s]) /\ traders[s] \subseteq Accounts
    BY <1>1, VenueAssumption, FS_Subset DEF RowTyped
  <1>3. ASSUME NEW t \in traders[s]
        PROVE  collateral[s][t] + CashPnl(positions[s][t], price, series[s].multiplier) \in Int
    <2>1. /\ positions[s][t] \in Position /\ collateral[s][t] \in Nat
          /\ series[s].multiplier \in Int
      BY <1>1, <1>2 DEF RowTyped, Series
    <2>2. CashPnl(positions[s][t], price, series[s].multiplier) \in Int
      BY <2>1, PnlIsInt, MathAssumption
    <2> QED BY <2>1, <2>2
  <1> QED BY <1>2, <1>3 DEF Entitled

LEMMA ClearStep ==
    ASSUME TInv, NEW s \in SeriesIds, NEW price \in Nat, Clear(s, price)
    PROVE  /\ RowStep(s, AtPrice(s, price), [a \in Accounts |-> Flat],
                      PaidOut(s, price), traders[s])
           /\ UNCHANGED <<oracleVars, fills, money, venueAdmin>>
  <1>1. /\ RowTyped(positions[s], collateral[s], traders[s]) /\ series[s] \in Series
        /\ traders \in Seq(SUBSET Accounts) /\ DOMAIN traders = DOMAIN series
        /\ s \in DOMAIN series
    BY BooksNow
  <1>2. PaidOut(s, price) \in [Accounts -> Nat]
    <2>1. Cleared(Entitled(s, price)) \in [traders[s] -> Nat]
      BY EntitledIsInt, ClearedIsNat
    <2> QED BY <1>1, <2>1 DEF PaidOut, RowTyped
  <1>3. RowTyped([a \in Accounts |-> Flat], PaidOut(s, price), traders[s])
    <2>1. Flat \in Position
      BY DEF Flat, Position
    <2>2. \A a \in Accounts \ traders[s] : PaidOut(s, price)[a] = 0
      BY <1>1 DEF PaidOut, RowTyped
    <2> QED BY <1>1, <1>2, <2>1, <2>2 DEF RowTyped
  <1>4. /\ AtPrice(s, price) \in Series
        /\ AtPrice(s, price).indexId = series[s].indexId
        /\ AtPrice(s, price).maker = series[s].maker
    BY <1>1 DEF AtPrice, Series
  <1>5. /\ series' = [series EXCEPT ![s] = AtPrice(s, price)]
        /\ collateral' = [collateral EXCEPT ![s] = PaidOut(s, price)]
        /\ positions' = [positions EXCEPT ![s] = [a \in Accounts |-> Flat]]
        /\ UNCHANGED <<oracleVars, venueAdmin, traders, fills, money>>
    BY DEF Clear, AtPrice, PaidOut, Entitled
  <1>6. traders' = [traders EXCEPT ![s] = traders[s]]
    BY <1>1, <1>5
  <1> QED BY <1>1, <1>3, <1>4, <1>5, <1>6 DEF RowStep

\* The venue's steps are steps of its oracle, or leave it alone.
LEMMA StepsTheOracle == [Next]_vars => [OracleNext]_oracleVars
  <1> SUFFICES ASSUME [Next]_vars PROVE [OracleNext]_oracleVars
    OBVIOUS
  <1>1. CASE OracleStep
    BY <1>1 DEF OracleStep, OracleNext
  <1>2. CASE Anybody
    BY <1>2 DEF Anybody, Settle, SettleStale, Clear
  <1>3. ASSUME NEW a \in Accounts, VenueAdmin(a) PROVE UNCHANGED oracleVars
    BY <1>3 DEF VenueAdmin, SetPaused, TransferOwnership, AcceptOwnership, OpenSeries
  <1>4. ASSUME NEW a \in Accounts, Account(a) PROVE UNCHANGED oracleVars
    BY <1>4 DEF Account, PostCollateral, WithdrawCollateral, Trade
  <1>5. CASE UNCHANGED vars
    BY <1>5 DEF vars
  <1> QED BY <1>1, <1>2, <1>3, <1>4, <1>5 DEF Next


LEMMA FirstTyped ==
    ASSUME TInv, NEW i \in Indices, NEW from \in Nat, FoundSince(i, from)
    PROVE  FirstSince(i, from) \in PrintRecord /\ FirstSince(i, from).postedAt >= from
  <1>1. history[i] \in Seq(PrintRecord) /\ Ordered(history[i], now)
    BY DEF TInv, IInv, OracleTypeOK, HistoryIsOrdered, Ordered
  <1>2. PICK k : k = BinarySearch(history[i], from)
    OBVIOUS
  <1>3. k + 1 \in DOMAIN history[i] /\ history[i][k + 1].postedAt >= from
    BY <1>1, <1>2, SearchAnswers DEF FoundSince
  <1> QED BY <1>1, <1>2, <1>3 DEF FirstSince

\* What decides the price of a series that expired at e, of a history h at
\* time t: the first print since e, unless the feed was silent past the grace.
DecidedAt(h, t, e, price) ==
    LET k == BinarySearch(h, e)
    IN  IF k < Len(h) THEN price = h[k + 1].value \/ h[k + 1].postedAt >= e + SettleGrace
        ELSE t >= e + SettleGrace

\* Both doors clear an unsettled series, at the price that is decided.
SettlesAt(s, price) ==
    /\ ~series[s].settled /\ Clear(s, price)
    /\ DecidedAt(history[series[s].indexId], now, series[s].expiryTs, price)

LEMMA SettlePrice ==
    ASSUME TInv, NEW s \in SeriesIds, Settle(s) \/ SettleStale(s)
    PROVE  \E price \in Nat : SettlesAt(s, price)
  <1>1. series[s].indexId \in Indices /\ series[s].expiryTs \in Nat
    BY BooksNow DEF Series
  <1>2. ASSUME FoundSince(series[s].indexId, series[s].expiryTs)
        PROVE  FirstSince(series[s].indexId, series[s].expiryTs).value \in Nat
    BY <1>1, <1>2, FirstTyped DEF PrintRecord
  <1>3. LatestPrint(series[s].indexId).value \in Nat
    BY MarkIsNat DEF Mark, LatestValue
  <1>4. CASE Settle(s)
    BY <1>2, <1>4 DEF Settle, SettlesAt, DecidedAt, FoundSince, FirstSince
  <1>5. CASE SettleStale(s)
    BY <1>2, <1>3, <1>5 DEF SettleStale, SettlesAt, DecidedAt, FoundSince, FirstSince
  <1> QED BY <1>4, <1>5

LEMMA OpenStep ==
    ASSUME TInv, NEW a \in Accounts, NEW i \in Indices, NEW expiry \in Expiries,
           NEW m \in Multipliers, NEW maker \in Makers, OpenSeries(a, i, expiry, m, maker),
           NEW x, x = [indexId |-> i, expiryTs |-> expiry, multiplier |-> m,
                       maker |-> maker, settled |-> FALSE, settlementPrice |-> 0],
           NEW n, n = Len(series) + 1
    PROVE  /\ BooksTyped(series', positions', collateral', traders')
           /\ SeriesIds' = SeriesIds \cup {n} /\ n \notin SeriesIds
           /\ series'[n] = x /\ positions'[n] = [b \in Accounts |-> Flat]
           /\ collateral'[n] = [b \in Accounts |-> 0] /\ traders'[n] = {maker}
           /\ \A s \in SeriesIds :
                /\ series'[s] = series[s] /\ positions'[s] = positions[s]
                /\ collateral'[s] = collateral[s] /\ traders'[s] = traders[s]
           /\ Priced' /\ MakersJoined'
           /\ UNCHANGED <<oracleVars, venueAdmin, fills, money>>
  <1> DEFINE flats == [b \in Accounts |-> Flat]
             nothing == [b \in Accounts |-> 0]
  <1>1. BooksTyped(series, positions, collateral, traders) /\ Priced /\ MakersJoined
    BY TypeParts DEF TInv
  <1>2. x \in Series /\ maker \in Accounts
    BY VenueAssumption DEF Series
  <1>3. RowTyped(flats, nothing, {maker})
    BY <1>2 DEF RowTyped, Flat, Position
  <1>4. /\ series' = Append(series, x) /\ positions' = Append(positions, flats)
        /\ collateral' = Append(collateral, nothing) /\ traders' = Append(traders, {maker})
        /\ HasPrint(i)
        /\ UNCHANGED <<oracleVars, venueAdmin, fills, money>>
    BY DEF OpenSeries
  <1>5. BooksTyped(series', positions', collateral', traders')
    BY <1>1, <1>2, <1>3, <1>4, RowOpens
  <1> HIDE DEF flats, nothing
  <1>6. /\ series \in Seq(Series) /\ positions \in Seq([Accounts -> Position])
        /\ collateral \in Seq([Accounts -> Nat]) /\ traders \in Seq(SUBSET Accounts)
        /\ DOMAIN positions = DOMAIN series /\ DOMAIN collateral = DOMAIN series
        /\ DOMAIN traders = DOMAIN series
        /\ Len(positions) = Len(series) /\ Len(collateral) = Len(series)
        /\ Len(traders) = Len(series)
    BY <1>1 DEF BooksTyped
  <1>7. /\ DOMAIN series' = DOMAIN series \cup {n} /\ n \notin DOMAIN series
        /\ series'[n] = x /\ \A s \in DOMAIN series : series'[s] = series[s]
    BY <1>4, <1>6
  <1>8. positions'[n] = flats /\ \A s \in DOMAIN series : positions'[s] = positions[s]
    BY <1>4, <1>6
  <1>9. collateral'[n] = nothing /\ \A s \in DOMAIN series : collateral'[s] = collateral[s]
    BY <1>4, <1>6
  <1>10. traders'[n] = {maker} /\ \A s \in DOMAIN series : traders'[s] = traders[s]
    BY <1>4, <1>6
  <1>11. history' = history /\ x.indexId = i /\ x.maker = maker
    BY <1>4 DEF oracleVars
  <1>12. Priced'
    BY <1>1, <1>4, <1>7, <1>11 DEF Priced, SeriesIds, HasPrint
  <1>13. MakersJoined'
    BY <1>1, <1>7, <1>10, <1>11 DEF MakersJoined, SeriesIds
  <1> QED BY <1>4, <1>5, <1>7, <1>8, <1>9, <1>10, <1>12, <1>13 DEF SeriesIds, flats, nothing

LEMMA TInvInit == Init => TInv
  <1> SUFFICES ASSUME Init PROVE TInv
    OBVIOUS
  <1>1. IInv /\ OracleTypeOK
    BY InvInit DEF Init, IInv
  <1>2. BooksTyped(series, positions, collateral, traders) /\ SeriesIds = {}
    BY DEF Init, BooksTyped, SeriesIds
  <1>3. AdminTyped /\ fills \in 0..MaxFills /\ CashTyped(wallets, venueBalance)
    <2>1. Deployer \in Accounts /\ Funds \in Nat /\ MaxFills \in Nat
      BY VenueAssumption
    <2>2. AdminTyped
      BY <2>1 DEF Init, AdminTyped
    <2>3. fills \in 0..MaxFills
      BY <2>1 DEF Init
    <2>4. CashTyped(wallets, venueBalance)
      BY <2>1 DEF Init, CashTyped
    <2> QED BY <2>2, <2>3, <2>4
  <1>4. TypeOK
    BY <1>1, <1>2, <1>3, TypeParts
  <1> QED BY <1>1, <1>2, <1>4 DEF TInv, Priced, MakersJoined


\* A posted print is the new last one of its index, dated by its block.
LEMMA PostAppends ==
    ASSUME IInv, NEW signer \in Accounts, NEW p \in PrintInputs, PostPrint(signer, p),
           NEW i \in Indices
    PROVE  \E rec \in PrintRecord :
             /\ rec.postedAt = now
             /\ history'[i] = IF p.indexId = i THEN Append(history[i], rec) ELSE history[i]
  <1> DEFINE rec == [value |-> p.value, timestamp |-> p.timestamp, postedAt |-> now]
  <1>1. rec \in PrintRecord /\ rec.postedAt = now
    <2>1. IsPrintInput(p) /\ now \in Nat
      BY OracleAssumption DEF IInv, OracleTypeOK
    <2> QED BY <2>1 DEF IsPrintInput, PrintRecord
  <1>2. history'[i] = IF p.indexId = i THEN Append(history[i], rec) ELSE history[i]
    BY DEF PostPrint, IInv, OracleTypeOK
  <1> HIDE DEF rec
  <1> QED BY <1>1, <1>2

LEMMA TInvNext == TInv /\ [Next]_vars => TInv'
  <1> SUFFICES ASSUME TInv, [Next]_vars PROVE TInv'
    OBVIOUS
  <1>1. IInv' /\ OracleTypeOK'
    BY InvNext, StepsTheOracle DEF TInv, IInv
  <1>2. /\ AdminTyped /\ BooksTyped(series, positions, collateral, traders)
        /\ fills \in 0..MaxFills /\ CashTyped(wallets, venueBalance)
    BY TypeParts DEF TInv
  <1>3. SUFFICES /\ AdminTyped' /\ BooksTyped(series', positions', collateral', traders')
                 /\ fills' \in 0..MaxFills /\ CashTyped(wallets', venueBalance')
                 /\ Priced' /\ MakersJoined'
    <2>1. TypeOK' <=> /\ OracleTypeOK' /\ AdminTyped'
                      /\ BooksTyped(series', positions', collateral', traders')
                      /\ fills' \in 0..MaxFills /\ CashTyped(wallets', venueBalance')
      BY DEF TypeOK, AdminTyped, BooksTyped, CashTyped, SeriesIds
    <2> QED BY <1>1, <2>1 DEF TInv
  <1>4. ASSUME UNCHANGED <<venueAdmin, books, money>>
        PROVE  /\ AdminTyped' /\ BooksTyped(series', positions', collateral', traders')
               /\ fills' \in 0..MaxFills /\ CashTyped(wallets', venueBalance')
               /\ MakersJoined'
    BY <1>2, <1>4 DEF venueAdmin, books, money, AdminTyped, MakersJoined, SeriesIds, TInv
  <1>5. ASSUME UNCHANGED <<venueAdmin, books, money>>, UNCHANGED oracleVars PROVE Priced'
    BY <1>5 DEF books, oracleVars, Priced, SeriesIds, HasPrint, TInv
  <1>6. CASE OracleStep
    <2>1. UNCHANGED <<venueAdmin, books, money>>
      BY <1>6 DEF OracleStep
    <2>2. ASSUME NEW i \in Indices, HasPrint(i) PROVE HasPrint(i)'
      <3>1. history[i] \in Seq(PrintRecord) /\ history \in [Indices -> Seq(PrintRecord)]
        BY DEF TInv, IInv, OracleTypeOK
      <3>2. ASSUME NEW signer \in Accounts, NEW p \in PrintInputs, PostPrint(signer, p)
            PROVE  history'[i] # <<>>
        <4>1. PICK rec \in PrintRecord :
                history'[i] = IF p.indexId = i THEN Append(history[i], rec) ELSE history[i]
          BY <3>2, PostAppends DEF TInv
        <4> QED BY <2>2, <3>1, <4>1 DEF HasPrint
      <3>3. CASE Tick
        BY <2>2, <3>3 DEF Tick, HasPrint
      <3> QED BY <1>6, <3>2, <3>3 DEF OracleStep, Publish, HasPrint
    <2>3. \A s \in SeriesIds : series[s].indexId \in Indices
      BY BooksNow DEF Series
    <2>4. SeriesIds' = SeriesIds /\ series' = series
      BY <2>1 DEF books, SeriesIds
    <2>5. Priced'
      BY <2>2, <2>3, <2>4 DEF Priced, TInv
    <2> QED BY <1>4, <2>1, <2>5
  <1>7. ASSUME NEW a \in Accounts, VenueAdmin(a)
        PROVE  /\ AdminTyped' /\ BooksTyped(series', positions', collateral', traders')
               /\ fills' \in 0..MaxFills /\ CashTyped(wallets', venueBalance')
               /\ Priced' /\ MakersJoined'
    <2>1. ASSUME NEW i \in Indices, NEW expiry \in Expiries, NEW m \in Multipliers,
                 NEW maker \in Makers, OpenSeries(a, i, expiry, m, maker)
          PROVE  /\ BooksTyped(series', positions', collateral', traders')
                 /\ Priced' /\ MakersJoined' /\ UNCHANGED <<venueAdmin, fills, money>>
      BY <2>1, OpenStep
    <2>2. ASSUME SetPaused(a, TRUE) \/ SetPaused(a, FALSE) \/ AcceptOwnership(a)
                   \/ \E to \in Heirs : TransferOwnership(a, to)
          PROVE  AdminTyped' /\ UNCHANGED <<oracleVars, books, money>>
      <3>1. Heirs \subseteq Accounts
        BY VenueAssumption
      <3>2. ASSUME NEW value \in BOOLEAN, SetPaused(a, value)
            PROVE  AdminTyped' /\ UNCHANGED <<oracleVars, books, money>>
        BY <1>2, <3>2 DEF SetPaused, AdminTyped
      <3>3. CASE AcceptOwnership(a)
        BY <1>2, <3>3, OracleAssumption DEF AcceptOwnership, AdminTyped
      <3>4. ASSUME NEW to \in Heirs, TransferOwnership(a, to)
            PROVE  AdminTyped' /\ UNCHANGED <<oracleVars, books, money>>
        BY <1>2, <3>1, <3>4 DEF TransferOwnership, AdminTyped
      <3> QED BY <2>2, <3>2, <3>3, <3>4
    <2>3. ASSUME AdminTyped', UNCHANGED <<oracleVars, books, money>>
          PROVE  /\ BooksTyped(series', positions', collateral', traders')
                 /\ fills' \in 0..MaxFills /\ CashTyped(wallets', venueBalance')
                 /\ Priced' /\ MakersJoined'
      BY <1>2, <2>3 DEF TInv, books, money, oracleVars, Priced, MakersJoined, SeriesIds, HasPrint
    <2>4. ASSUME UNCHANGED <<venueAdmin, fills, money>>
          PROVE  AdminTyped' /\ fills' \in 0..MaxFills /\ CashTyped(wallets', venueBalance')
      BY <1>2, <2>4 DEF venueAdmin, money, AdminTyped
    <2>5. CASE \E value \in BOOLEAN : SetPaused(a, value)
      BY <2>2, <2>3, <2>5
    <2>6. CASE AcceptOwnership(a) \/ \E to \in Heirs : TransferOwnership(a, to)
      BY <2>2, <2>3, <2>6
    <2>7. CASE \E i \in Indices, expiry \in Expiries, m \in Multipliers, maker \in Makers :
                 OpenSeries(a, i, expiry, m, maker)
      BY <2>1, <2>4, <2>7
    <2> QED BY <1>7, <2>5, <2>6, <2>7 DEF VenueAdmin
  <1>8. ASSUME NEW s \in SeriesIds, NEW x, NEW p, NEW c, NEW t, RowStep(s, x, p, c, t)
        PROVE  /\ BooksTyped(series', positions', collateral', traders')
               /\ Priced' /\ MakersJoined'
    BY <1>8, RowStepKeeps
  <1>9. ASSUME NEW a \in Accounts, Account(a)
        PROVE  /\ AdminTyped' /\ BooksTyped(series', positions', collateral', traders')
               /\ fills' \in 0..MaxFills /\ CashTyped(wallets', venueBalance')
               /\ Priced' /\ MakersJoined'
    <2>0. Amounts \subseteq Nat /\ Quantities \subseteq Int
      BY VenueAssumption
    <2>1. ASSUME NEW s \in SeriesIds, NEW amount \in Amounts, PostCollateral(a, s, amount)
          PROVE  /\ BooksTyped(series', positions', collateral', traders')
                 /\ Priced' /\ MakersJoined' /\ CashTyped(wallets', venueBalance')
                 /\ UNCHANGED <<fills, venueAdmin>>
      BY <1>8, <2>0, <2>1, PostStep
    <2>2. ASSUME NEW s \in SeriesIds, NEW amount \in Amounts, WithdrawCollateral(a, s, amount)
          PROVE  /\ BooksTyped(series', positions', collateral', traders')
                 /\ Priced' /\ MakersJoined' /\ CashTyped(wallets', venueBalance')
                 /\ UNCHANGED <<fills, venueAdmin>>
      BY <1>8, <2>0, <2>2, WithdrawStep
    <2>3. ASSUME NEW s \in SeriesIds, NEW qty \in Quantities, Trade(a, s, qty)
          PROVE  /\ BooksTyped(series', positions', collateral', traders')
                 /\ Priced' /\ MakersJoined' /\ fills' \in 0..MaxFills
                 /\ UNCHANGED <<money, venueAdmin>>
      <3>1. PICK maker, pos, mirror :
              /\ maker = series[s].maker
              /\ pos = ApplyFill(positions[s][a], qty, Mark(s))
              /\ mirror = ApplyFill(positions[s][maker], -qty, Mark(s))
        OBVIOUS
      <3>2. /\ RowStep(s, series[s], [positions[s] EXCEPT ![a] = pos, ![maker] = mirror],
                       collateral[s], traders[s] \cup {a})
            /\ fills' \in 0..MaxFills /\ UNCHANGED <<money, venueAdmin>>
        BY <2>0, <2>3, <3>1, TradeStep
      <3> QED BY <1>8, <3>2
    <2>4. ASSUME UNCHANGED venueAdmin PROVE AdminTyped'
      BY <1>2, <2>4 DEF venueAdmin, AdminTyped
    <2>5. ASSUME UNCHANGED fills PROVE fills' \in 0..MaxFills
      BY <1>2, <2>5
    <2>6. ASSUME UNCHANGED money PROVE CashTyped(wallets', venueBalance')
      BY <1>2, <2>6 DEF money
    <2> QED BY <1>9, <2>1, <2>2, <2>3, <2>4, <2>5, <2>6 DEF Account
  <1>10. CASE Anybody
    <2>1. PICK s \in SeriesIds : Settle(s) \/ SettleStale(s)
      BY <1>10 DEF Anybody
    <2>2. PICK price \in Nat : Clear(s, price)
      BY <2>1, SettlePrice DEF SettlesAt
    <2>3. /\ RowStep(s, AtPrice(s, price), [a \in Accounts |-> Flat],
                     PaidOut(s, price), traders[s])
          /\ UNCHANGED <<oracleVars, fills, money, venueAdmin>>
      BY <2>2, ClearStep
    <2>4. BooksTyped(series', positions', collateral', traders') /\ Priced' /\ MakersJoined'
      BY <1>8, <2>3
    <2>5. AdminTyped' /\ fills' \in 0..MaxFills /\ CashTyped(wallets', venueBalance')
      BY <1>2, <2>3 DEF venueAdmin, money, AdminTyped
    <2> QED BY <2>4, <2>5
  <1>11. CASE UNCHANGED vars
    BY <1>4, <1>5, <1>11 DEF vars
  <1> QED BY <1>6, <1>7, <1>9, <1>10, <1>11 DEF Next

\* Every variable of the venue keeps its type; positions stay integers through
\* every fill and collateral natural through every clearing.
THEOREM VenueTypeCorrect == Spec => []TypeOK
  <1>1. TInv => TypeOK
    BY DEF TInv
  <1> QED BY TInvInit, TInvNext, <1>1, PTL DEF Spec

\* The oracle the venue settles against is the oracle: every behaviour of the
\* venue is one of ACROracle.
THEOREM VenueKeepsTheOracle == Spec => OracleSpec
  <1>1. Init => OracleInit
    BY DEF Init
  <1> QED BY <1>1, StepsTheOracle, PTL DEF Spec, OracleSpec


-----------------------------------------------------------------------------
(* Fills net out.                                                          *)

NetOf(p) == SumFunctionOnSet([t \in Accounts |-> p[t].contracts], Accounts)

LEMMA FlatsNetOut == NetOf([a \in Accounts |-> Flat]) = 0
  <1>1. \A t \in Accounts : [u \in Accounts |-> [a \in Accounts |-> Flat][u].contracts][t] = 0
    BY DEF Flat
  <1> QED BY <1>1, SumOfZeros, VenueAssumption DEF NetOf

\* What a fill adds on one side its mirror takes on the other.
LEMMA MirrorNetsOut ==
    ASSUME NEW p \in [Accounts -> Position], NEW a \in Accounts, NEW m \in Accounts, m # a,
           NEW qty \in Int, NEW x \in Position, NEW y \in Position,
           Moves(p[a], x, qty), Moves(p[m], y, -qty)
    PROVE  NetOf([p EXCEPT ![a] = x, ![m] = y]) = NetOf(p)
  <1> DEFINE f == [t \in Accounts |-> p[t].contracts]
             q == [p EXCEPT ![a] = x, ![m] = y]
             h == [t \in Accounts |-> q[t].contracts]
             g == [f EXCEPT ![a] = x.contracts]
  <1>0. \A z \in Position : z.contracts \in Int
    BY DEF Position
  <1>1. \A t \in Accounts : f[t] \in Int
    BY <1>0
  <1>2. /\ f[a] = p[a].contracts /\ f[m] = p[m].contracts
        /\ g[a] = x.contracts /\ \A t \in Accounts : t # a => g[t] = f[t]
        /\ h[m] = y.contracts /\ \A t \in Accounts : t # m => h[t] = g[t]
    OBVIOUS
  <1> HIDE DEF f, g, h
  <1>3. g[a] \in Int /\ h[m] \in Int /\ \A t \in Accounts : g[t] \in Int
    BY <1>0, <1>1, <1>2
  <1>4. /\ SumFunctionOnSet(f, Accounts) \in Int
        /\ SumFunctionOnSet(g, Accounts) = SumFunctionOnSet(f, Accounts) - f[a] + g[a]
    BY <1>1, <1>2, <1>3, SumChanges, VenueAssumption
  <1>5. SumFunctionOnSet(h, Accounts) = SumFunctionOnSet(g, Accounts) - g[m] + h[m]
    BY <1>2, <1>3, SumChanges, VenueAssumption
  <1>6. f[a] \in Int /\ f[m] \in Int /\ g[m] = f[m]
        /\ g[a] = f[a] + qty /\ h[m] = f[m] - qty
    BY <1>1, <1>2 DEF Moves
  <1>7. SumFunctionOnSet(h, Accounts) = SumFunctionOnSet(f, Accounts)
    BY <1>2, <1>4, <1>5, <1>6
  <1> QED BY <1>7 DEF NetOf, f, h

BInv == TInv /\ NetPositionIsZero

LEMMA RowNets ==
    ASSUME BInv, NEW s \in SeriesIds, NEW x, NEW p, NEW c, NEW t, RowStep(s, x, p, c, t),
           NetOf(p) = 0
    PROVE  NetPositionIsZero'
  <1>1. \A n \in SeriesIds : NetOf(positions[n]) = 0
    BY DEF BInv, NetPositionIsZero, NetOf
  <1>2. /\ SeriesIds' = SeriesIds /\ positions'[s] = p
        /\ \A n \in SeriesIds : n # s => positions'[n] = positions[n]
    BY RowStepKeeps DEF BInv
  <1>3. \A n \in SeriesIds : NetOf(positions'[n]) = 0
    BY <1>1, <1>2
  <1> QED BY <1>2, <1>3 DEF NetPositionIsZero, NetOf

LEMMA NetNext == BInv /\ [Next]_vars => NetPositionIsZero'
  <1> SUFFICES ASSUME BInv, [Next]_vars PROVE NetPositionIsZero'
    OBVIOUS
  <1>0. TInv /\ \A n \in SeriesIds : NetOf(positions[n]) = 0
    BY DEF BInv, NetPositionIsZero, NetOf
  <1>1. ASSUME UNCHANGED books PROVE NetPositionIsZero'
    BY <1>1 DEF books, BInv, NetPositionIsZero, SeriesIds
  <1>2. ASSUME NEW a \in Accounts, VenueAdmin(a) PROVE NetPositionIsZero'
    <2>1. ASSUME NEW i \in Indices, NEW expiry \in Expiries, NEW m \in Multipliers,
                 NEW maker \in Makers, OpenSeries(a, i, expiry, m, maker)
          PROVE  NetPositionIsZero'
      <3>1. PICK n, x : /\ n = Len(series) + 1
                        /\ x = [indexId |-> i, expiryTs |-> expiry, multiplier |-> m,
                                maker |-> maker, settled |-> FALSE, settlementPrice |-> 0]
        OBVIOUS
      <3>2. /\ SeriesIds' = SeriesIds \cup {n} /\ positions'[n] = [b \in Accounts |-> Flat]
            /\ \A s \in SeriesIds : positions'[s] = positions[s]
        BY <1>0, <2>1, <3>1, OpenStep
      <3>3. \A s \in SeriesIds' : NetOf(positions'[s]) = 0
        BY <1>0, <3>2, FlatsNetOut
      <3> QED BY <3>3 DEF NetPositionIsZero, NetOf
    <2>2. CASE \E value \in BOOLEAN : SetPaused(a, value)
      BY <1>1, <2>2 DEF SetPaused
    <2>3. CASE AcceptOwnership(a) \/ \E to \in Heirs : TransferOwnership(a, to)
      BY <1>1, <2>3 DEF AcceptOwnership, TransferOwnership
    <2> QED BY <1>2, <2>1, <2>2, <2>3 DEF VenueAdmin
  <1>3. ASSUME NEW a \in Accounts, Account(a) PROVE NetPositionIsZero'
    <2>0. Amounts \subseteq Nat /\ Quantities \subseteq Int
      BY VenueAssumption
    <2>1. ASSUME NEW s \in SeriesIds, NEW amount \in Amounts,
                 PostCollateral(a, s, amount) \/ WithdrawCollateral(a, s, amount)
          PROVE  NetPositionIsZero'
      <3>1. positions' = positions /\ series' = series
        BY <2>1 DEF PostCollateral, WithdrawCollateral
      <3> QED BY <3>1 DEF BInv, NetPositionIsZero, SeriesIds
    <2>2. ASSUME NEW s \in SeriesIds, NEW qty \in Quantities, Trade(a, s, qty)
          PROVE  NetPositionIsZero'
      <3>1. PICK maker, pos, mirror :
              /\ maker = series[s].maker
              /\ pos = ApplyFill(positions[s][a], qty, Mark(s))
              /\ mirror = ApplyFill(positions[s][maker], -qty, Mark(s))
        OBVIOUS
      <3>2. /\ RowStep(s, series[s], [positions[s] EXCEPT ![a] = pos, ![maker] = mirror],
                       collateral[s], traders[s] \cup {a})
            /\ maker \in Accounts /\ maker # a
            /\ Moves(positions[s][a], pos, qty) /\ Moves(positions[s][maker], mirror, -qty)
        <4>1. TInv /\ qty \in Int
          BY <1>0, <2>0
        <4> QED BY ONLY <4>1, <2>2, <3>1, TradeStep
      <3>3. positions[s] \in [Accounts -> Position] /\ pos \in Position /\ mirror \in Position
        <4>1. RowTyped(positions[s], collateral[s], traders[s])
          BY <1>0, BooksNow
        <4>2. [positions[s] EXCEPT ![a] = pos, ![maker] = mirror] \in [Accounts -> Position]
          BY <3>2 DEF RowStep, RowTyped
        <4>3. positions[s] \in [Accounts -> Position]
          BY <4>1 DEF RowTyped
        <4> QED BY <3>2, <4>2, <4>3
      <3>4. NetOf([positions[s] EXCEPT ![a] = pos, ![maker] = mirror]) = NetOf(positions[s])
        BY <2>0, <3>2, <3>3, MirrorNetsOut
      <3> QED BY <1>0, <3>2, <3>4, RowNets
    <2> QED BY <1>3, <2>1, <2>2 DEF Account
  <1>4. CASE Anybody
    <2>1. PICK s \in SeriesIds : Settle(s) \/ SettleStale(s)
      BY <1>4 DEF Anybody
    <2>2. PICK price \in Nat : Clear(s, price)
      BY <1>0, <2>1, SettlePrice DEF SettlesAt
    <2>3. RowStep(s, AtPrice(s, price), [a \in Accounts |-> Flat],
                  PaidOut(s, price), traders[s])
      BY <1>0, <2>2, ClearStep
    <2> QED BY <2>3, FlatsNetOut, RowNets
  <1>5. CASE OracleStep \/ UNCHANGED vars
    BY <1>1, <1>5 DEF OracleStep, vars
  <1> QED BY <1>2, <1>3, <1>4, <1>5 DEF Next

\* The books balance: whatever is filled, cleared and settled, the positions
\* of a series net out to zero and nobody outside it holds anything in it.
THEOREM BooksStayBalanced == Spec => []BooksBalance
  <1>1. Init => BInv
    BY TInvInit DEF Init, BInv, NetPositionIsZero, SeriesIds
  <1>2. BInv /\ [Next]_vars => BInv'
    BY TInvNext, NetNext DEF BInv
  <1>3. BInv => BooksBalance
    BY DEF BInv, TInv, BooksBalance
  <1> QED BY <1>1, <1>2, <1>3, PTL DEF Spec


-----------------------------------------------------------------------------
(* A settled series is final, and its price is the feed's.                 *)

\* What a step may do to one settled series.
StaysFinal(s) ==
    series[s].settled =>
      /\ series'[s] = series[s] /\ positions'[s] = positions[s]
      /\ \A t \in Accounts : collateral'[s][t] # collateral[s][t] =>
            wallets'[t] - wallets[t] = collateral[s][t] - collateral'[s][t]

LEMMA FinalNext ==
    ASSUME TInv, [Next]_vars, NEW s \in SeriesIds
    PROVE  StaysFinal(s)
  <1>1. ASSUME UNCHANGED books PROVE StaysFinal(s)
    BY <1>1 DEF books, StaysFinal
  <1>2. ASSUME NEW n \in SeriesIds, ~series[n].settled,
               NEW x, NEW p, NEW c, NEW t, RowStep(n, x, p, c, t)
        PROVE  StaysFinal(s)
    BY <1>2, RowStepKeeps DEF StaysFinal
  <1>3. ASSUME NEW a \in Accounts, VenueAdmin(a) PROVE StaysFinal(s)
    <2>1. ASSUME NEW i \in Indices, NEW expiry \in Expiries, NEW m \in Multipliers,
                 NEW maker \in Makers, OpenSeries(a, i, expiry, m, maker)
          PROVE  StaysFinal(s)
      <3>1. PICK n, x : /\ n = Len(series) + 1
                        /\ x = [indexId |-> i, expiryTs |-> expiry, multiplier |-> m,
                                maker |-> maker, settled |-> FALSE, settlementPrice |-> 0]
        OBVIOUS
      <3>2. /\ series'[s] = series[s] /\ positions'[s] = positions[s]
            /\ collateral'[s] = collateral[s]
        BY <2>1, <3>1, OpenStep
      <3> QED BY <3>2 DEF StaysFinal
    <2>2. CASE \E value \in BOOLEAN : SetPaused(a, value)
      BY <1>1, <2>2 DEF SetPaused
    <2>3. CASE AcceptOwnership(a) \/ \E to \in Heirs : TransferOwnership(a, to)
      BY <1>1, <2>3 DEF AcceptOwnership, TransferOwnership
    <2> QED BY <1>3, <2>1, <2>2, <2>3 DEF VenueAdmin
  <1>4. ASSUME NEW a \in Accounts, Account(a) PROVE StaysFinal(s)
    <2>0. Amounts \subseteq Nat /\ Quantities \subseteq Int
      BY VenueAssumption
    <2>1. ASSUME NEW n \in SeriesIds, NEW amount \in Amounts, PostCollateral(a, n, amount)
          PROVE  StaysFinal(s)
      <3>1. RowStep(n, series[n], positions[n],
                    [collateral[n] EXCEPT ![a] = @ + amount], traders[n] \cup {a})
        BY <2>0, <2>1, PostStep
      <3>2. ~series[n].settled
        BY <2>1 DEF PostCollateral
      <3> QED BY <1>2, <3>1, <3>2
    <2>2. ASSUME NEW n \in SeriesIds, NEW amount \in Amounts, WithdrawCollateral(a, n, amount)
          PROVE  StaysFinal(s)
      <3>1. RowTyped(positions[n], collateral[n], traders[n]) /\ CashTyped(wallets, venueBalance)
            /\ collateral \in Seq([Accounts -> Nat]) /\ DOMAIN collateral = DOMAIN series
        BY BooksNow
      <3>2. series' = series /\ positions' = positions
        BY <2>2 DEF WithdrawCollateral
      <3>3. \A t \in Accounts : t # a => collateral'[s][t] = collateral[s][t]
        BY <2>2, <3>1 DEF WithdrawCollateral, SeriesIds
      <3>4. CASE s = n
        <4>1. PICK y \in Nat, w \in Nat, d \in Nat :
                y = collateral[n][a] /\ w = wallets[a] /\ d = amount
          BY <2>0, <3>1 DEF RowTyped, CashTyped
        <4>2. collateral'[s][a] = y - d /\ wallets'[a] = w + d
          BY <2>2, <3>1, <3>4, <4>1 DEF WithdrawCollateral, CashTyped, SeriesIds, RowTyped
        <4>3. wallets'[a] - wallets[a] = collateral[s][a] - collateral'[s][a]
          BY <3>4, <4>1, <4>2
        <4> QED BY <3>2, <3>3, <4>3 DEF StaysFinal
      <3>5. CASE s # n
        <4>1. collateral'[s] = collateral[s]
          BY <2>2, <3>1, <3>5 DEF WithdrawCollateral, SeriesIds
        <4> QED BY <3>2, <4>1 DEF StaysFinal
      <3> QED BY <3>4, <3>5
    <2>3. ASSUME NEW n \in SeriesIds, NEW qty \in Quantities, Trade(a, n, qty)
          PROVE  StaysFinal(s)
      <3>1. PICK maker, pos, mirror :
              /\ maker = series[n].maker
              /\ pos = ApplyFill(positions[n][a], qty, Mark(n))
              /\ mirror = ApplyFill(positions[n][maker], -qty, Mark(n))
        OBVIOUS
      <3>2. RowStep(n, series[n], [positions[n] EXCEPT ![a] = pos, ![maker] = mirror],
                    collateral[n], traders[n] \cup {a})
        BY <2>0, <2>3, <3>1, TradeStep
      <3>3. ~series[n].settled
        BY <2>3 DEF Trade
      <3> QED BY <1>2, <3>2, <3>3
    <2> QED BY <1>4, <2>1, <2>2, <2>3 DEF Account
  <1>5. CASE Anybody
    <2>1. PICK n \in SeriesIds : Settle(n) \/ SettleStale(n)
      BY <1>5 DEF Anybody
    <2>2. PICK price \in Nat : Clear(n, price) /\ ~series[n].settled
      BY <2>1, SettlePrice DEF SettlesAt
    <2>3. RowStep(n, AtPrice(n, price), [a \in Accounts |-> Flat],
                  PaidOut(n, price), traders[n])
      BY <2>2, ClearStep
    <2> QED BY <1>2, <2>2, <2>3
  <1>6. CASE OracleStep \/ UNCHANGED vars
    BY <1>1, <1>6 DEF OracleStep, vars
  <1> QED BY <1>3, <1>4, <1>5, <1>6 DEF Next

\* Nobody unsettles, resettles or reprices a series, and a settled claim only
\* shrinks by its holder's own withdrawal, into its holder's wallet.
THEOREM SettledIsFinal == Spec => SettlementIsFinal
  <1>1. ASSUME TInv, [Next]_vars
        PROVE  [\A s \in SeriesIds : series[s].settled =>
                  /\ series'[s] = series[s] /\ positions'[s] = positions[s]
                  /\ \A t \in Accounts : collateral'[s][t] # collateral[s][t] =>
                        wallets'[t] - wallets[t] = collateral[s][t] - collateral'[s][t]]_vars
    BY <1>1, FinalNext DEF StaysFinal
  <1> QED BY TInvInit, TInvNext, <1>1, PTL DEF Spec, SettlementIsFinal

\* A print posted at t leaves a decided price decided.
LEMMA DecisionStays ==
    ASSUME NEW h \in Seq(PrintRecord), NEW t \in Nat, Ordered(h, t), NEW rec \in PrintRecord,
           rec.postedAt = t, Ordered(Append(h, rec), t), NEW e \in Nat, NEW price,
           DecidedAt(h, t, e, price)
    PROVE  DecidedAt(Append(h, rec), t, e, price)
  <1>1. CASE BinarySearch(h, e) < Len(h)
    <2>1. /\ BinarySearch(Append(h, rec), e) = BinarySearch(h, e)
          /\ BinarySearch(Append(h, rec), e) < Len(Append(h, rec))
          /\ Append(h, rec)[BinarySearch(h, e) + 1] = h[BinarySearch(h, e) + 1]
      BY <1>1, AnswerStays
    <2> QED BY <1>1, <2>1 DEF DecidedAt
  <1>2. CASE ~(BinarySearch(h, e) < Len(h))
    <2> DEFINE g == Append(h, rec)
    <2>1. t >= e + SettleGrace
      BY <1>2 DEF DecidedAt
    <2>2. PICK k : k = BinarySearch(g, e)
      OBVIOUS
    <2>3. g \in Seq(PrintRecord) /\ Len(g) = Len(h) + 1 /\ Len(h) \in Nat
          /\ g[Len(h) + 1] = rec /\ \A n \in DOMAIN h : g[n] = h[n]
      OBVIOUS
    <2> HIDE DEF g
    <2>4. /\ k \in 0..Len(g)
          /\ k < Len(g) => k + 1 \in DOMAIN g /\ g[k + 1].postedAt >= e
      BY <2>2, <2>3, SearchAnswers DEF g
    <2>5. PICK z : z = BinarySearch(h, e)
      OBVIOUS
    <2>6. z \in 0..Len(h) /\ \A n \in DOMAIN h : h[n].postedAt >= e => z < n
      BY <2>5, SearchAnswers
    <2>7. z = Len(h)
      BY <1>2, <2>3, <2>5, <2>6
    <2>8. ASSUME k < Len(g) PROVE g[k + 1].postedAt >= e + SettleGrace
      <3>1. k + 1 \notin DOMAIN h
        BY <2>3, <2>4, <2>6, <2>7, <2>8
      <3>2. k + 1 = Len(h) + 1
        BY <2>3, <2>4, <2>8, <3>1
      <3> QED BY <2>1, <2>3, <3>2
    <2> QED BY <2>1, <2>2, <2>8 DEF DecidedAt, g
  <1> QED BY <1>1, <1>2

PriceDecided ==
    \A s \in SeriesIds : series[s].settled =>
      DecidedAt(history[series[s].indexId], now, series[s].expiryTs, series[s].settlementPrice)


PInv == TInv /\ PriceDecided

\* A settled price, read off the books of one series.
RowDecided(x, h, t) == x.settled => DecidedAt(h, t, x.expiryTs, x.settlementPrice)

LEMMA DecidedNext == PInv /\ [Next]_vars => PriceDecided'
  <1> SUFFICES ASSUME PInv, [Next]_vars PROVE PriceDecided'
    OBVIOUS
  <1>0. TInv /\ \A s \in SeriesIds : RowDecided(series[s], history[series[s].indexId], now)
    BY DEF PInv, PriceDecided, RowDecided
  <1>1. ASSUME \A s \in SeriesIds' :
                 RowDecided(series'[s], history'[series'[s].indexId], now')
        PROVE  PriceDecided'
    BY <1>1 DEF PriceDecided, RowDecided
  <1>2. ASSUME UNCHANGED series, UNCHANGED oracleVars PROVE PriceDecided'
    BY <1>0, <1>1, <1>2 DEF SeriesIds, oracleVars
  <1>3. CASE OracleStep
    <2>1. series' = series /\ SeriesIds' = SeriesIds
      BY <1>3 DEF OracleStep, books, SeriesIds
    <2>2. ASSUME NEW s \in SeriesIds
          PROVE  RowDecided(series[s], history'[series[s].indexId], now')
      <3> DEFINE i == series[s].indexId
                 e == series[s].expiryTs
      <3>1. i \in Indices /\ e \in Nat
        BY <1>0, BooksNow DEF Series
      <3>2. /\ history[i] \in Seq(PrintRecord) /\ Ordered(history[i], now) /\ now \in Nat
            /\ now \in 0..MaxTime
        BY <1>0, <3>1, OracleAssumption DEF TInv, IInv, OracleTypeOK, HistoryIsOrdered, Ordered
      <3>3. IInv'
        BY <1>0, InvNext, StepsTheOracle DEF TInv
      <3>4. Ordered(history'[i], now')
        BY <3>1, <3>3 DEF IInv, HistoryIsOrdered, Ordered
      <3>5. ASSUME NEW signer \in Accounts, NEW p \in PrintInputs, PostPrint(signer, p)
            PROVE  RowDecided(series[s], history'[i], now')
        <4>1. PICK rec \in PrintRecord :
                /\ rec.postedAt = now
                /\ history'[i] = IF p.indexId = i THEN Append(history[i], rec) ELSE history[i]
          BY <1>0, <3>1, <3>5, PostAppends DEF TInv
        <4>2. now' = now
          BY <3>5 DEF PostPrint
        <4>3. CASE p.indexId # i
          <5>1. history'[i] = history[i]
            BY <4>1, <4>3
          <5> QED BY <1>0, <4>2, <5>1
        <4>4. CASE p.indexId = i
          <5>1. history'[i] = Append(history[i], rec)
            BY <4>1, <4>4
          <5>2. Ordered(Append(history[i], rec), now)
            BY <3>4, <4>2, <5>1
          <5>3. ASSUME NEW price, DecidedAt(history[i], now, e, price)
                PROVE  DecidedAt(Append(history[i], rec), now, e, price)
            BY <3>1, <3>2, <4>1, <5>2, <5>3, DecisionStays
          <5> QED BY <1>0, <4>2, <5>1, <5>3 DEF RowDecided
        <4> QED BY <4>3, <4>4
      <3>6. ASSUME Tick PROVE RowDecided(series[s], history'[i], now')
        <4>1. history' = history /\ now' = now + 1
          BY <3>6 DEF Tick
        <4>2. SettleGrace \in Nat
          BY VenueAssumption
        <4> QED BY <1>0, <3>1, <3>2, <4>1, <4>2 DEF RowDecided, DecidedAt
      <3> QED BY <1>3, <3>5, <3>6 DEF OracleStep, Publish
    <2> QED BY <1>1, <2>1, <2>2
  <1>4. ASSUME NEW a \in Accounts, VenueAdmin(a) PROVE PriceDecided'
    <2>1. ASSUME NEW i \in Indices, NEW expiry \in Expiries, NEW m \in Multipliers,
                 NEW maker \in Makers, OpenSeries(a, i, expiry, m, maker)
          PROVE  PriceDecided'
      <3>1. PICK n, x : /\ n = Len(series) + 1
                        /\ x = [indexId |-> i, expiryTs |-> expiry, multiplier |-> m,
                                maker |-> maker, settled |-> FALSE, settlementPrice |-> 0]
        OBVIOUS
      <3>2. /\ SeriesIds' = SeriesIds \cup {n} /\ series'[n] = x
            /\ \A s \in SeriesIds : series'[s] = series[s]
            /\ UNCHANGED oracleVars
        BY <1>0, <2>1, <3>1, OpenStep
      <3>3. ~x.settled
        BY <3>1
      <3>4. history' = history /\ now' = now
        BY <3>2 DEF oracleVars
      <3>5. ASSUME NEW s \in SeriesIds'
            PROVE  RowDecided(series'[s], history'[series'[s].indexId], now')
        BY <1>0, <3>2, <3>3, <3>4 DEF RowDecided
      <3> QED BY <1>1, <3>5
    <2>2. CASE \E value \in BOOLEAN : SetPaused(a, value)
      BY <1>2, <2>2 DEF SetPaused, books
    <2>3. CASE AcceptOwnership(a) \/ \E to \in Heirs : TransferOwnership(a, to)
      BY <1>2, <2>3 DEF AcceptOwnership, TransferOwnership, books
    <2> QED BY <1>4, <2>1, <2>2, <2>3 DEF VenueAdmin
  <1>5. ASSUME NEW a \in Accounts, Account(a) PROVE PriceDecided'
    BY <1>2, <1>5 DEF Account, PostCollateral, WithdrawCollateral, Trade
  <1>6. CASE Anybody
    <2>1. PICK n \in SeriesIds : Settle(n) \/ SettleStale(n)
      BY <1>6 DEF Anybody
    <2>2. PICK price \in Nat :
            /\ Clear(n, price)
            /\ DecidedAt(history[series[n].indexId], now, series[n].expiryTs, price)
      BY <1>0, <2>1, SettlePrice DEF SettlesAt
    <2>3. /\ RowStep(n, AtPrice(n, price), [a \in Accounts |-> Flat],
                     PaidOut(n, price), traders[n])
          /\ UNCHANGED oracleVars
      BY <1>0, <2>2, ClearStep
    <2>4. /\ SeriesIds' = SeriesIds /\ series'[n] = AtPrice(n, price)
          /\ \A s \in SeriesIds : s # n => series'[s] = series[s]
      BY <1>0, <2>3, RowStepKeeps
    <2>5. history' = history /\ now' = now
      BY <2>3 DEF oracleVars
    <2>6. series[n] \in Series
      BY <1>0, BooksNow
    <2>7. /\ AtPrice(n, price).indexId = series[n].indexId
          /\ AtPrice(n, price).expiryTs = series[n].expiryTs
          /\ AtPrice(n, price).settlementPrice = price
      BY <2>6 DEF AtPrice, Series
    <2>8. ASSUME NEW s \in SeriesIds
          PROVE  RowDecided(series'[s], history'[series'[s].indexId], now')
      <3>1. CASE s = n
        BY <2>2, <2>4, <2>5, <2>7, <3>1 DEF RowDecided
      <3>2. CASE s # n
        BY <1>0, <2>4, <2>5, <3>2
      <3> QED BY <3>1, <3>2
    <2> QED BY <1>1, <2>4, <2>8
  <1>7. CASE UNCHANGED vars
    BY <1>2, <1>7 DEF vars, books
  <1> QED BY <1>3, <1>4, <1>5, <1>6, <1>7 DEF Next

\* Whoever settles a series, by whichever door and whenever, the feed having
\* been alive around its expiry, settles it at the first print since expiry.
THEOREM PriceIsFixed == Spec => []PriceFixedByExpiry
  <1>1. Init => PInv
    BY TInvInit DEF Init, PInv, PriceDecided, SeriesIds
  <1>2. PInv /\ [Next]_vars => PInv'
    BY TInvNext, DecidedNext DEF PInv
  <1>3. PInv => PriceFixedByExpiry
    <2> SUFFICES ASSUME PInv, NEW s \in SeriesIds, series[s].settled,
                        FoundSince(series[s].indexId, series[s].expiryTs),
                        FirstSince(series[s].indexId, series[s].expiryTs).postedAt
                          - series[s].expiryTs <= MaxSettleAge
                 PROVE  series[s].settlementPrice
                          = FirstSince(series[s].indexId, series[s].expiryTs).value
      BY DEF PriceFixedByExpiry
    <2>1. series[s].indexId \in Indices /\ series[s].expiryTs \in Nat
      BY BooksNow DEF PInv, Series
    <2>2. FirstSince(series[s].indexId, series[s].expiryTs) \in PrintRecord
      BY <2>1, FirstTyped DEF PInv
    <2>3. FirstSince(series[s].indexId, series[s].expiryTs).postedAt \in Nat
      BY <2>2 DEF PrintRecord
    <2>4. MaxSettleAge \in Nat /\ SettleGrace \in Nat /\ MaxSettleAge < SettleGrace
      BY VenueAssumption
    <2>5. ~(FirstSince(series[s].indexId, series[s].expiryTs).postedAt
              >= series[s].expiryTs + SettleGrace)
      BY <2>1, <2>3, <2>4
    <2>6. DecidedAt(history[series[s].indexId], now, series[s].expiryTs,
                    series[s].settlementPrice)
      BY DEF PInv, PriceDecided
    <2> QED BY <2>5, <2>6 DEF DecidedAt, FoundSince, FirstSince
  <1> QED BY <1>1, <1>2, <1>3, PTL DEF Spec


-----------------------------------------------------------------------------
(* A clearing shares out the pot.                                          *)

\* c is the quotient of x by w, rounded up.
RoundsUp(c, x, w) ==
    /\ c \in Nat /\ x <= w * c /\ w * c <= x + w - 1
    /\ \A d \in Nat : x <= w * d => c <= d

LEMMA CeilRoundsUp ==
    ASSUME NEW x \in Nat, NEW w \in Nat \ {0}
    PROVE  RoundsUp(CeilQuot(x, w), x, w)
  <1> DEFINE q == (x + w - 1) \div w
  <1>1. q \in Nat /\ w * q <= x + w - 1 /\ x + w - 1 < w * q + w
    BY SMT
  <1> HIDE DEF q
  <1>2. x <= w * q
    <2>1. PICK y \in Nat : y = w * q
      BY <1>1
    <2> QED BY <1>1, <2>1
  <1>3. ASSUME NEW c \in Nat, x <= w * c PROVE q <= c
    <2>1. SUFFICES ASSUME c + 1 <= q PROVE FALSE
      BY <1>1
    <2>2. w * (c + 1) <= w * q /\ w * (c + 1) = w * c + w
      <3>1. q - c - 1 \in Nat /\ w * (q - c - 1) \in Nat
        BY <1>1, <2>1
      <3>2. w * (q - c - 1) = w * q - w * (c + 1)
        BY <1>1
      <3> QED BY <1>1, <3>1, <3>2
    <2>3. PICK y \in Nat, u \in Nat : y = w * q /\ u = w * c
      BY <1>1
    <2> QED BY <1>1, <1>3, <2>2, <2>3
  <1> QED BY <1>1, <1>2, <1>3 DEF q, CeilQuot, RoundsUp

\* What a participant entitled to own is left with, of z to be covered by
\* winners entitled to w.
Left(own, z, w) == IF own > 0 /\ z > 0 THEN Floored(own - Haircut(own, z, w)) ELSE own

\* x is a fair part of w - z for own of w, less than one unit short of it.
Fair(x, own, z, w) ==
    /\ x \in Nat /\ x <= own
    /\ z >= w => x = 0
    /\ z < w => /\ w * x <= (w - z) * own
                /\ (w - z) * own <= w * (x + IF own > 0 THEN 1 ELSE 0)

LEMMA LeftIsFair ==
    ASSUME NEW own \in Nat, NEW z \in Nat, NEW w \in Nat, own <= w
    PROVE  Fair(Left(own, z, w), own, z, w)
  <1>1. CASE own = 0
    <2>1. Left(own, z, w) = 0
      BY <1>1 DEF Left
    <2> QED BY <1>1, <2>1 DEF Fair
  <1>2. CASE own > 0 /\ z = 0
    <2>1. Left(own, z, w) = own
      BY <1>2 DEF Left
    <2>2. w * own \in Nat /\ (w - 0) * own = w * own /\ w * (own + 1) = w * own + w
      OBVIOUS
    <2> QED BY <1>2, <2>1, <2>2 DEF Fair
  <1>3. CASE own > 0 /\ z > 0
    <2>1. PICK x \in Nat : x = z * own
      OBVIOUS
    <2>0. w \in Nat \ {0}
      BY <1>3
    <2>2. PICK c \in Nat : c = CeilQuot(x, w)
      BY <2>0, CeilRoundsUp DEF RoundsUp
    <2>3. c \in Nat /\ x <= w * c /\ (\A d \in Nat : x <= w * d => c <= d)
          /\ w * c <= x + w - 1
      BY <2>0, <2>2, CeilRoundsUp DEF RoundsUp
    <2>4. Left(own, z, w) = IF own - c < 0 THEN 0 ELSE own - c
      BY <1>3, <2>1, <2>2 DEF Left, Haircut, Floored
    <2>5. PICK y \in Nat, v \in Nat : y = w * own /\ v = w * c
      BY <2>3
    <2>6. ASSUME z >= w PROVE own <= c
      <3>1. w * own <= z * own
        <4>1. z - w \in Nat /\ (z - w) * own \in Nat /\ (z - w) * own = z * own - w * own
          BY <2>6
        <4> QED BY <4>1
      <3>2. SUFFICES ASSUME c + 1 <= own PROVE FALSE
        OBVIOUS
      <3>3. w * (own - c - 1) \in Nat /\ w * (own - c - 1) = w * own - w * c - w
        BY <3>2
      <3> QED BY <1>3, <2>1, <2>3, <2>5, <3>1, <3>3
    <2>7. ASSUME z < w
          PROVE  /\ c <= own /\ w * (own - c) <= (w - z) * own
                 /\ (w - z) * own <= w * ((own - c) + 1)
      <3>1. z * own <= w * own
        <4>1. w - z \in Nat /\ (w - z) * own \in Nat /\ (w - z) * own = w * own - z * own
          BY <2>7
        <4> QED BY <4>1
      <3>2. c <= own
        BY <2>1, <2>3, <3>1
      <3>3. /\ (w - z) * own = y - x /\ w * (own - c) = y - v
            /\ w * ((own - c) + 1) = y - v + w
        BY <2>1, <2>5
      <3> QED BY <2>3, <2>5, <3>2, <3>3
    <2>8. CASE z >= w
      BY <2>3, <2>4, <2>6, <2>8 DEF Fair
    <2>9. CASE z < w
      <3>1. Left(own, z, w) = own - c
        BY <2>4, <2>7, <2>9
      <3> QED BY <1>3, <2>3, <2>7, <2>9, <3>1 DEF Fair
    <2> QED BY <2>8, <2>9
  <1> QED BY <1>1, <1>2, <1>3

LEMMA LeftKeepsOrder ==
    ASSUME NEW a \in Nat, NEW b \in Nat, NEW z \in Nat, NEW w \in Nat, a <= b, b <= w
    PROVE  Left(a, z, w) <= Left(b, z, w)
  <1>0. Fair(Left(a, z, w), a, z, w) /\ Fair(Left(b, z, w), b, z, w)
    <2>1. a <= w
      OBVIOUS
    <2> QED BY <2>1, LeftIsFair
  <1>1. CASE a = 0
    BY <1>0, <1>1 DEF Left, Fair
  <1>2. CASE z = 0
    BY <1>2 DEF Left
  <1>3. CASE z >= w
    BY <1>0, <1>3 DEF Fair
  <1>4. CASE a > 0 /\ z > 0 /\ z < w
    <2>1. PICK x \in Nat, y \in Nat : x = z * a /\ y = z * b
      OBVIOUS
    <2>0. w \in Nat \ {0}
      BY <1>4
    <2>2. PICK c \in Nat, d \in Nat : c = CeilQuot(x, w) /\ d = CeilQuot(y, w)
      BY <2>0, CeilRoundsUp DEF RoundsUp
    <2>3. c \in Nat /\ d \in Nat /\ x <= w * c /\ \A e \in Nat : y <= w * e => d <= e
      BY <2>0, <2>2, CeilRoundsUp DEF RoundsUp
    <2>4. y <= w * (c + (b - a))
      <3>1. (w - z) * (b - a) \in Nat
            /\ (w - z) * (b - a) = w * b - w * a - z * b + z * a
        BY <1>4
      <3>2. w * (c + (b - a)) = w * c + w * b - w * a
        OBVIOUS
      <3>3. PICK u \in Nat, v \in Nat, k \in Nat : u = w * b /\ v = w * a /\ k = w * c
        OBVIOUS
      <3> QED BY <2>1, <2>3, <3>1, <3>2, <3>3
    <2>5. d <= c + (b - a)
      BY <2>3, <2>4
    <2>6. /\ Left(a, z, w) = IF a - c < 0 THEN 0 ELSE a - c
          /\ Left(b, z, w) = IF b - d < 0 THEN 0 ELSE b - d
      BY <1>4, <2>1, <2>2 DEF Left, Haircut, Floored
    <2> QED BY <2>5, <2>6
  <1> QED BY <1>1, <1>2, <1>3, <1>4


LEMMA CancelFactor ==
    ASSUME NEW w \in Nat \ {0}, NEW a \in Int, NEW b \in Int, w * a <= w * b
    PROVE  a <= b
  <1>1. SUFFICES ASSUME b + 1 <= a PROVE FALSE
    OBVIOUS
  <1>2. a - b - 1 \in Nat /\ w * (a - b - 1) \in Nat
    BY <1>1
  <1>3. w * (a - b - 1) = w * a - w * b - w
    OBVIOUS
  <1>4. PICK x \in Int, y \in Int : x = w * a /\ y = w * b
    OBVIOUS
  <1> QED BY <1>2, <1>3, <1>4

\* A clearing pays losers nothing and winners at most their own; it pays out
\* no more than the entitlements add up to, and at most a unit per winner less;
\* nobody overtakes anybody.  What MCOffchain tries on small clearings holds of
\* every one.
THEOREM ClearingIsFair ==
    ASSUME NEW T, IsFiniteSet(T), NEW ent \in [T -> Int],
           NEW paid, paid = SumFunctionOnSet(Cleared(ent), T),
           NEW pot, pot = SumFunctionOnSet(ent, T)
    PROVE  /\ \A t \in T : 0 <= Cleared(ent)[t] /\ Cleared(ent)[t] <= Floored(ent[t])
           /\ paid <= Floored(pot)
           /\ Floored(pot) - paid <= Cardinality({t \in T : ent[t] > 0})
           /\ \A t, u \in T : ent[t] <= ent[u] => Cleared(ent)[t] <= Cleared(ent)[u]
  <1> DEFINE floor == [t \in T |-> Floored(ent[t])]
             loss == [t \in T |-> Floored(-ent[t])]
             c == Cleared(ent)
             winners == {t \in T : ent[t] > 0}
             one == [t \in T |-> IF t \in winners THEN 1 ELSE 0]
             full == [t \in T |-> c[t] + one[t]]
  <1>1. \A t \in T : floor[t] \in Nat /\ loss[t] \in Nat /\ floor[t] = ent[t] + loss[t]
    BY DEF Floored
  <1>2. /\ TotalFloored(ent) = SumFunctionOnSet(floor, T)
        /\ Shortfall(ent) = SumFunctionOnSet(loss, T)
    BY DEF TotalFloored, Shortfall
  <1>3. \A t \in T : floor[t] = Floored(ent[t]) /\ (floor[t] > 0 <=> t \in winners)
    BY DEF Floored
  <1>4. \A t \in T : one[t] = (IF t \in winners THEN 1 ELSE 0) /\ full[t] = c[t] + one[t]
    OBVIOUS
  <1>5. winners \subseteq T /\ Cardinality(winners) \in Nat
    BY FS_Subset, FS_CardinalityType
  <1> HIDE DEF floor, loss, one, full
  <1>6. PICK w \in Nat, z \in Nat : w = TotalFloored(ent) /\ z = Shortfall(ent)
    BY <1>1, <1>2, SumIsNat
  <1>7. \A t \in T : floor[t] <= w
    BY <1>1, <1>2, <1>6, SumIsNat
  <1>8. ASSUME NEW t \in T PROVE c[t] = Left(floor[t], z, w) /\ Fair(c[t], floor[t], z, w)
    <2>1. c[t] = Left(floor[t], z, w)
      BY <1>3, <1>6 DEF Cleared, Left
    <2> QED BY <1>1, <1>7, <2>1, LeftIsFair
  <1>9. w = pot + z /\ pot \in Int
    <2>1. \A t \in T : ent[t] \in Int /\ loss[t] \in Int /\ floor[t] = ent[t] + loss[t]
      BY <1>1
    <2>2. pot \in Int
      BY <2>1, SumIsInt
    <2> QED BY <1>2, <1>6, <2>1, <2>2, SumOfPairs
  <1> HIDE DEF c, winners
  <1>10. \A t \in T : c[t] \in Nat /\ c[t] <= floor[t]
    BY <1>8 DEF Fair
  <1>11. paid \in Nat /\ paid = SumFunctionOnSet(c, T)
    BY <1>10, SumIsNat DEF c
  <1>12. \A t \in T : 0 <= c[t] /\ c[t] <= Floored(ent[t])
    BY <1>3, <1>10
  <1>13. ASSUME NEW t \in T, NEW u \in T, ent[t] <= ent[u] PROVE c[t] <= c[u]
    <2>1. floor[t] <= floor[u]
      BY <1>3, <1>13 DEF Floored
    <2> QED BY <1>1, <1>7, <1>8, <2>1, LeftKeepsOrder
  <1>14. CASE z >= w
    <2>1. \A t \in T : c[t] = 0
      BY <1>8, <1>14 DEF Fair
    <2>2. paid = 0
      BY <1>11, <2>1, SumOfZeros
    <2>3. Floored(pot) = 0
      BY <1>9, <1>14 DEF Floored
    <2> QED BY <1>5, <1>12, <1>13, <2>2, <2>3 DEF c, winners
  <1>15. CASE z < w
    <2>1. Floored(pot) = w - z
      BY <1>9, <1>15 DEF Floored
    <2>2. w \in Nat \ {0} /\ w - z \in Int
      BY <1>15
    <2>3. paid <= w - z
      <3>1. \A t \in T : c[t] \in Int /\ floor[t] \in Int /\ w * c[t] <= (w - z) * floor[t]
        BY <1>1, <1>8, <1>10, <1>15 DEF Fair
      <3>2. w * SumFunctionOnSet(c, T) <= (w - z) * SumFunctionOnSet(floor, T)
        BY <2>2, <3>1, SumsCompare
      <3>3. w * paid <= (w - z) * w
        BY <1>2, <1>6, <1>11, <3>2
      <3>4. (w - z) * w = w * (w - z)
        OBVIOUS
      <3> QED BY <1>11, <2>2, <3>3, <3>4, CancelFactor
    <2>4. w - z <= paid + Cardinality(winners)
      <3>1. \A t \in T : full[t] \in Int /\ one[t] \in Int
        BY <1>4, <1>10
      <3>2. ASSUME NEW t \in T PROVE (w - z) * floor[t] <= w * full[t]
        <4>1. (w - z) * floor[t] <= w * (c[t] + IF floor[t] > 0 THEN 1 ELSE 0)
          BY <1>8, <1>15 DEF Fair
        <4>2. full[t] = c[t] + IF floor[t] > 0 THEN 1 ELSE 0
          BY <1>3, <1>4
        <4> QED BY <4>1, <4>2
      <3>3. (w - z) * SumFunctionOnSet(floor, T) <= w * SumFunctionOnSet(full, T)
        <4>1. \A t \in T : floor[t] \in Int /\ full[t] \in Int
                           /\ (w - z) * floor[t] <= w * full[t]
          BY <1>1, <3>1, <3>2
        <4>2. PICK k \in Int, m \in Int : k = w - z /\ m = w
          OBVIOUS
        <4>3. \A t \in T : floor[t] \in Int /\ full[t] \in Int /\ k * floor[t] <= m * full[t]
          BY <4>1, <4>2
        <4>4. k * SumFunctionOnSet(floor, T) <= m * SumFunctionOnSet(full, T)
          BY <4>3, SumsCompare
        <4> QED BY <4>2, <4>4
      <3>4. SumFunctionOnSet(one, T) = Cardinality(winners)
        BY <1>4, <1>5, SumCounts
      <3>5. SumFunctionOnSet(full, T) = paid + Cardinality(winners)
        <4>1. \A t \in T : c[t] \in Int /\ one[t] \in Int /\ full[t] = c[t] + one[t]
          BY <1>4, <1>10
        <4> QED BY <1>11, <3>4, <4>1, SumOfPairs
      <3>6. PICK n \in Nat : n = paid + Cardinality(winners)
        BY <1>5, <1>11
      <3>7. (w - z) * w <= w * n /\ (w - z) * w = w * (w - z)
        BY <1>2, <1>6, <3>3, <3>5, <3>6
      <3> QED BY <2>2, <3>6, <3>7, CancelFactor
    <2> QED BY <1>5, <1>11, <1>12, <1>13, <2>1, <2>3, <2>4 DEF c, winners
  <1> QED BY <1>14, <1>15


-----------------------------------------------------------------------------
(* What the venue owes beyond what it holds.                               *)

\* Σ PnL of a series at a price: zero but for what truncation leaves.
NetPnl(s, price) ==
    SumFunctionOnSet([t \in traders[s] |->
                        CashPnl(positions[s][t], price, series[s].multiplier)], traders[s])

TotalOf(C, ids) ==
    SumFunctionOnSet([s \in ids |-> SumFunctionOnSet(C[s], Accounts)], ids)

LEMMA OwedIsNat ==
    ASSUME NEW c \in [Accounts -> Nat]
    PROVE  SumFunctionOnSet(c, Accounts) \in Nat
  BY SumIsNat, VenueAssumption

LEMMA OwedChanges ==
    ASSUME NEW c \in [Accounts -> Nat], NEW a \in Accounts, NEW v \in Nat
    PROVE  SumFunctionOnSet([c EXCEPT ![a] = v], Accounts)
             = SumFunctionOnSet(c, Accounts) - c[a] + v
  <1>1. PICK g : g = [c EXCEPT ![a] = v]
    OBVIOUS
  <1>2. g[a] = v /\ \A x \in Accounts : x # a => g[x] = c[x]
    BY <1>1
  <1>3. IsFiniteSet(Accounts) /\ g[a] \in Int /\ \A x \in Accounts : c[x] \in Int
    BY <1>2, VenueAssumption
  <1>4. SumFunctionOnSet(g, Accounts) = SumFunctionOnSet(c, Accounts) - c[a] + g[a]
    BY <1>2, <1>3, SumChanges
  <1> QED BY <1>1, <1>2, <1>4

LEMMA IdsAreFinite ==
    ASSUME TInv
    PROVE  IsFiniteSet(SeriesIds)
  <1>1. SeriesIds = 1..Len(series) /\ Len(series) \in Nat
    BY TypeParts DEF TInv, BooksTyped, SeriesIds
  <1> QED BY <1>1, FS_Interval

\* From C to E the total moves by what series s moves.
TotalMoves(C, E, ids, s) ==
    /\ TotalOf(C, ids) \in Int
    /\ TotalOf(E, ids) = TotalOf(C, ids) - SumFunctionOnSet(C[s], Accounts)
                            + SumFunctionOnSet(E[s], Accounts)

LEMMA TotalChanges ==
    ASSUME NEW ids, IsFiniteSet(ids), NEW C, NEW E, NEW s \in ids,
           \A n \in ids : C[n] \in [Accounts -> Nat] /\ E[n] \in [Accounts -> Nat],
           \A n \in ids : n # s => E[n] = C[n]
    PROVE  TotalMoves(C, E, ids, s)
  <1> DEFINE f == [n \in ids |-> SumFunctionOnSet(C[n], Accounts)]
             g == [n \in ids |-> SumFunctionOnSet(E[n], Accounts)]
  <1>1. /\ \A n \in ids : f[n] \in Int /\ g[n] \in Int
        /\ \A n \in ids : n # s => g[n] = f[n]
        /\ f[s] = SumFunctionOnSet(C[s], Accounts) /\ g[s] = SumFunctionOnSet(E[s], Accounts)
    <2>1. \A n \in ids : /\ SumFunctionOnSet(C[n], Accounts) \in Nat
                         /\ SumFunctionOnSet(E[n], Accounts) \in Nat
      BY OwedIsNat
    <2> QED BY <2>1
  <1>2. TotalOf(C, ids) = SumFunctionOnSet(f, ids) /\ TotalOf(E, ids) = SumFunctionOnSet(g, ids)
    BY DEF TotalOf
  <1> HIDE DEF f, g
  <1>3. /\ SumFunctionOnSet(f, ids) \in Int
        /\ SumFunctionOnSet(g, ids) = SumFunctionOnSet(f, ids) - f[s] + g[s]
    BY <1>1, SumChanges
  <1> QED BY <1>1, <1>2, <1>3 DEF TotalMoves

\* Clearing a series leaves it owing no more than its collateral and PnL.
LEMMA ClearingPays ==
    ASSUME TInv, NEW s \in SeriesIds, NEW price \in Nat
    PROVE  SumFunctionOnSet(PaidOut(s, price), Accounts)
             <= Floored(Owed(s) + NetPnl(s, price))
  <1> DEFINE T == traders[s]
             ent == Entitled(s, price)
             c == Cleared(ent)
             d == PaidOut(s, price)
             pnl == [t \in T |-> CashPnl(positions[s][t], price, series[s].multiplier)]
             col == collateral[s]
  <1>1. RowTyped(positions[s], col, T) /\ series[s] \in Series
    BY BooksNow
  <1>2. /\ col \in [Accounts -> Nat] /\ T \subseteq Accounts
        /\ \A a \in Accounts : a \notin T => col[a] = 0
    BY <1>1 DEF RowTyped
  <1>3. IsFiniteSet(Accounts) /\ IsFiniteSet(T)
    BY <1>2, VenueAssumption, FS_Subset
  <1>4. ent \in [T -> Int] /\ \A t \in T : ent[t] = col[t] + pnl[t]
    BY EntitledIsInt DEF Entitled
  <1>5. \A t \in T : pnl[t] \in Int
    <2>1. ASSUME NEW t \in T
          PROVE  CashPnl(positions[s][t], price, series[s].multiplier) \in Int
      <3>1. positions[s][t] \in Position /\ series[s].multiplier \in Int
        BY <1>1, <1>2 DEF RowTyped, Series
      <3> QED BY <3>1, PnlIsInt, MathAssumption
    <2> QED BY <2>1
  <1>6. /\ \A t \in T : d[t] = c[t] /\ c[t] \in Nat
        /\ \A a \in Accounts : a \notin T => d[a] = 0
    <2>1. c \in [T -> Nat]
      <3>1. Cleared(Entitled(s, price)) \in [T -> Nat]
        BY <1>3, <1>4, ClearedIsNat
      <3> QED BY <3>1
    <2>2. \A t \in T : d[t] = c[t]
      BY <1>2 DEF PaidOut
    <2>3. \A a \in Accounts : a \notin T => d[a] = 0
      BY <1>2 DEF PaidOut
    <2> QED BY <2>1, <2>2, <2>3
  <1>7. Owed(s) = SumFunctionOnSet(col, Accounts) /\ NetPnl(s, price) = SumFunctionOnSet(pnl, T)
    BY DEF Owed, NetPnl
  <1> HIDE DEF T, ent, c, d, pnl, col
  <1>8. SumFunctionOnSet(col, Accounts) = SumFunctionOnSet(col, T)
    <2>1. ASSUME NEW a \in Accounts PROVE col[a] \in Int /\ (a \notin T => col[a] = 0)
      <3>1. col[a] \in Nat
        BY <1>2
      <3> QED BY <1>2, <3>1
    <2> QED BY <1>2, <1>3, <2>1, SumOfSupport
  <1>9. SumFunctionOnSet(d, Accounts) = SumFunctionOnSet(d, T)
    <2>1. ASSUME NEW a \in Accounts PROVE d[a] \in Int /\ (a \notin T => d[a] = 0)
      <3>1. CASE a \in T
        BY <1>6, <3>1
      <3>2. CASE a \notin T
        BY <1>6, <3>2
      <3> QED BY <3>1, <3>2
    <2> QED BY <1>2, <1>3, <2>1, SumOfSupport
  <1>10. SumFunctionOnSet(d, T) = SumFunctionOnSet(c, T)
    BY <1>3, <1>6, SumOfEqual
  <1>11. SumFunctionOnSet(ent, T) = SumFunctionOnSet(col, T) + SumFunctionOnSet(pnl, T)
    <2>1. \A t \in T : col[t] \in Int /\ pnl[t] \in Int /\ ent[t] = col[t] + pnl[t]
      BY <1>2, <1>4, <1>5
    <2> QED BY <1>3, <2>1, SumOfPairs
  <1>12. PICK paid, pot : paid = SumFunctionOnSet(c, T) /\ pot = SumFunctionOnSet(ent, T)
    OBVIOUS
  <1>13. paid <= Floored(pot)
    BY <1>3, <1>4, <1>12, ClearingIsFair DEF c
  <1>14. pot = Owed(s) + NetPnl(s, price)
    BY <1>7, <1>8, <1>11, <1>12
  <1> QED BY <1>9, <1>10, <1>12, <1>13, <1>14 DEF d


\* What the venue owes its participants beyond what it holds.
Gap == TotalOwed - venueBalance

\* Nothing is settled, and what is owed moves with what is held.
GapStays ==
    /\ Gap' = Gap
    /\ SeriesIds \subseteq SeriesIds'
    /\ \A s \in SeriesIds : series'[s].settled = series[s].settled

\* A series is cleared, and left owing no more than its collateral and PnL.
Cleanly(s) ==
    /\ s \in SeriesIds' /\ ~series[s].settled /\ series'[s].settled
    /\ venueBalance' = venueBalance
    /\ Gap' = Gap - Owed(s) + Owed(s)'
    /\ Owed(s)' <= Floored(Owed(s) + NetPnl(s, series'[s].settlementPrice))

LEMMA TotalIsInt ==
    ASSUME TInv
    PROVE  TotalOwed \in Int /\ TotalOwed = TotalOf(collateral, SeriesIds)
           /\ \A n \in SeriesIds : collateral[n] \in [Accounts -> Nat]
  <1>1. TotalOwed = TotalOf(collateral, SeriesIds)
    BY DEF TotalOwed, TotalOf, Owed
  <1>2. \A n \in SeriesIds : collateral[n] \in [Accounts -> Nat]
    BY BooksNow DEF RowTyped
  <1>3. \A n \in SeriesIds : SumFunctionOnSet(collateral[n], Accounts) \in Int
    <2>1. \A n \in SeriesIds : SumFunctionOnSet(collateral[n], Accounts) \in Nat
      BY <1>2, OwedIsNat
    <2> QED BY <2>1
  <1>4. TotalOf(collateral, SeriesIds) \in Int
    <2> DEFINE f == [n \in SeriesIds |-> SumFunctionOnSet(collateral[n], Accounts)]
    <2>1. \A n \in SeriesIds : f[n] \in Int
      BY <1>3
    <2> HIDE DEF f
    <2>2. SumFunctionOnSet(f, SeriesIds) \in Int
      BY <2>1, IdsAreFinite, SumIsInt
    <2> QED BY <2>2 DEF TotalOf, f
  <1> QED BY <1>1, <1>2, <1>4

\* The total after a step that changes the collateral of one series.
LEMMA RowTotal ==
    ASSUME TInv, NEW s \in SeriesIds, NEW x, NEW p, NEW c, NEW t, RowStep(s, x, p, c, t)
    PROVE  /\ TotalOwed' = TotalOwed - Owed(s) + SumFunctionOnSet(c, Accounts)
           /\ Owed(s)' = SumFunctionOnSet(c, Accounts)
           /\ Owed(s) \in Nat /\ SumFunctionOnSet(c, Accounts) \in Nat
  <1>1. /\ SeriesIds' = SeriesIds /\ collateral'[s] = c
        /\ \A n \in SeriesIds : n # s => collateral'[n] = collateral[n]
    BY RowStepKeeps
  <1>2. c \in [Accounts -> Nat]
    BY DEF RowStep, RowTyped
  <1>3. PICK C, E, ids : C = collateral /\ E = collateral' /\ ids = SeriesIds
    OBVIOUS
  <1>4. \A n \in ids : C[n] \in [Accounts -> Nat] /\ E[n] \in [Accounts -> Nat]
    BY <1>1, <1>2, <1>3, TotalIsInt
  <1>5. TotalMoves(C, E, ids, s)
    <2>1. IsFiniteSet(ids) /\ s \in ids /\ \A n \in ids : n # s => E[n] = C[n]
      BY <1>1, <1>3, IdsAreFinite
    <2> QED BY <1>4, <2>1, TotalChanges
  <1>6. TotalOwed = TotalOf(C, ids)
    BY <1>3, TotalIsInt
  <1>7. TotalOwed' = TotalOf(E, ids)
    BY <1>1, <1>3 DEF TotalOwed, TotalOf, Owed
  <1>8. Owed(s) = SumFunctionOnSet(C[s], Accounts) /\ Owed(s)' = SumFunctionOnSet(E[s], Accounts)
    BY <1>3 DEF Owed
  <1>9. C[s] \in [Accounts -> Nat] /\ E[s] = c
    BY <1>1, <1>3, <1>4
  <1> QED BY <1>2, <1>5, <1>6, <1>7, <1>8, <1>9, OwedIsNat DEF TotalMoves


LEMMA GapNext ==
    ASSUME TInv, [Next]_vars
    PROVE  GapStays \/ \E s \in SeriesIds : Cleanly(s)
  <1>0. TotalOwed \in Int /\ venueBalance \in Nat
    BY TotalIsInt, TypeParts DEF TInv, CashTyped
  <1>1. ASSUME UNCHANGED <<series, collateral, venueBalance>> PROVE GapStays
    BY <1>1 DEF Gap, TotalOwed, Owed, SeriesIds, GapStays
  <1>2. ASSUME NEW s \in SeriesIds, NEW c, NEW p, NEW t, RowStep(s, series[s], p, c, t),
               NEW d \in Int, SumFunctionOnSet(c, Accounts) = Owed(s) + d,
               venueBalance' = venueBalance + d
        PROVE  GapStays
    <2>1. /\ TotalOwed' = TotalOwed - Owed(s) + SumFunctionOnSet(c, Accounts)
          /\ Owed(s) \in Nat
      BY <1>2, RowTotal
    <2>2. Gap' = Gap
      BY <1>0, <1>2, <2>1 DEF Gap
    <2>3. SeriesIds' = SeriesIds /\ \A n \in SeriesIds : series'[n] = series[n]
      BY <1>2, RowStepKeeps
    <2> QED BY <2>2, <2>3 DEF GapStays
  <1>3. ASSUME NEW a \in Accounts, VenueAdmin(a) PROVE GapStays
    <2>1. ASSUME NEW i \in Indices, NEW expiry \in Expiries, NEW m \in Multipliers,
                 NEW maker \in Makers, OpenSeries(a, i, expiry, m, maker)
          PROVE  GapStays
      <3>1. PICK n, x : /\ n = Len(series) + 1
                        /\ x = [indexId |-> i, expiryTs |-> expiry, multiplier |-> m,
                                maker |-> maker, settled |-> FALSE, settlementPrice |-> 0]
        OBVIOUS
      <3>2. /\ SeriesIds' = SeriesIds \cup {n} /\ n \notin SeriesIds
            /\ collateral'[n] = [b \in Accounts |-> 0]
            /\ \A s \in SeriesIds : series'[s] = series[s] /\ collateral'[s] = collateral[s]
            /\ UNCHANGED money
        BY <2>1, <3>1, OpenStep
      <3>3. PICK f, g : /\ f = [s \in SeriesIds |-> Owed(s)]
                        /\ g = [s \in SeriesIds' |-> Owed(s)']
        OBVIOUS
      <3>4. TotalOwed = SumFunctionOnSet(f, SeriesIds)
            /\ TotalOwed' = SumFunctionOnSet(g, SeriesIds')
        BY <3>3 DEF TotalOwed
      <3>5. \A s \in SeriesIds : f[s] = g[s] /\ f[s] \in Int
        <4>1. \A s \in SeriesIds : collateral[s] \in [Accounts -> Nat]
          BY TotalIsInt
        <4>2. ASSUME NEW s \in SeriesIds PROVE f[s] = g[s] /\ f[s] \in Int
          <5>1. SumFunctionOnSet(collateral[s], Accounts) \in Nat
            BY <4>1, OwedIsNat
          <5>2. f[s] = SumFunctionOnSet(collateral[s], Accounts)
                /\ g[s] = SumFunctionOnSet(collateral'[s], Accounts)
            BY <3>2, <3>3 DEF Owed
          <5> QED BY <3>2, <5>1, <5>2
        <4> QED BY <4>2
      <3>6. g[n] = 0
        <4>1. SumFunctionOnSet([b \in Accounts |-> 0], Accounts) = 0
          BY SumOfZeros, VenueAssumption
        <4>2. g[n] = SumFunctionOnSet(collateral'[n], Accounts)
          BY <3>2, <3>3 DEF Owed
        <4> QED BY <3>2, <4>1, <4>2
      <3>7. PICK ids : ids = SeriesIds
        OBVIOUS
      <3>8. SumFunctionOnSet(g, ids) = SumFunctionOnSet(f, ids) /\ IsFiniteSet(ids)
        BY <3>5, <3>7, IdsAreFinite, SumOfEqual
      <3>9. SumFunctionOnSet(g, ids \cup {n}) = SumFunctionOnSet(g, ids) + g[n]
        <4>1. n \notin ids /\ \A id \in ids \cup {n} : g[id] \in Int
          BY <3>2, <3>5, <3>6, <3>7
        <4> QED BY <3>8, <4>1, SumAdds
      <3>10. TotalOwed' = TotalOwed
        BY <1>0, <3>2, <3>4, <3>6, <3>7, <3>8, <3>9
      <3> QED BY <3>2, <3>10 DEF GapStays, Gap, money
    <2>2. CASE \E value \in BOOLEAN : SetPaused(a, value)
      BY <1>1, <2>2 DEF SetPaused, books, money
    <2>3. CASE AcceptOwnership(a) \/ \E to \in Heirs : TransferOwnership(a, to)
      BY <1>1, <2>3 DEF AcceptOwnership, TransferOwnership, books, money
    <2> QED BY <1>3, <2>1, <2>2, <2>3 DEF VenueAdmin
  <1>4. ASSUME NEW a \in Accounts, Account(a) PROVE GapStays
    <2>0. Amounts \subseteq Nat /\ Quantities \subseteq Int
      BY VenueAssumption
    <2>1. ASSUME NEW s \in SeriesIds, NEW amount \in Amounts,
                 PostCollateral(a, s, amount) \/ WithdrawCollateral(a, s, amount)
          PROVE  GapStays
      <3>1. collateral[s] \in [Accounts -> Nat] /\ collateral[s][a] \in Nat /\ amount \in Nat
        BY <2>0, TotalIsInt
      <3>2. Owed(s) = SumFunctionOnSet(collateral[s], Accounts) /\ Owed(s) \in Nat
        BY <3>1, OwedIsNat DEF Owed
      <3>3. CASE PostCollateral(a, s, amount)
        <4>1. RowStep(s, series[s], positions[s],
                      [collateral[s] EXCEPT ![a] = @ + amount], traders[s] \cup {a})
          BY <3>1, <3>3, PostStep
        <4>2. PICK v \in Nat : v = collateral[s][a] + amount
          BY <3>1
        <4>3. [collateral[s] EXCEPT ![a] = @ + amount] = [collateral[s] EXCEPT ![a] = v]
          BY <4>2
        <4>4. SumFunctionOnSet([collateral[s] EXCEPT ![a] = v], Accounts)
                = SumFunctionOnSet(collateral[s], Accounts) - collateral[s][a] + v
          BY <3>1, OwedChanges
        <4>5. SumFunctionOnSet([collateral[s] EXCEPT ![a] = @ + amount], Accounts)
                = Owed(s) + amount
          BY <3>1, <3>2, <4>2, <4>3, <4>4
        <4>6. venueBalance' = venueBalance + amount /\ amount \in Int
          BY <3>1, <3>3 DEF PostCollateral
        <4> QED BY <1>2, <4>1, <4>5, <4>6
      <3>4. CASE WithdrawCollateral(a, s, amount)
        <4>1. RowStep(s, series[s], positions[s],
                      [collateral[s] EXCEPT ![a] = @ - amount], traders[s])
          BY <3>1, <3>4, WithdrawStep
        <4>2. PICK v \in Nat : v = collateral[s][a] - amount
          BY <3>1, <3>4 DEF WithdrawCollateral
        <4>3. [collateral[s] EXCEPT ![a] = @ - amount] = [collateral[s] EXCEPT ![a] = v]
          BY <4>2
        <4>4. SumFunctionOnSet([collateral[s] EXCEPT ![a] = v], Accounts)
                = SumFunctionOnSet(collateral[s], Accounts) - collateral[s][a] + v
          BY <3>1, OwedChanges
        <4>5. PICK d \in Int : d = 0 - amount
          BY <3>1
        <4>6. SumFunctionOnSet([collateral[s] EXCEPT ![a] = @ - amount], Accounts)
                = Owed(s) + d
          BY <3>1, <3>2, <4>2, <4>3, <4>4, <4>5
        <4>7. venueBalance' = venueBalance + d
          BY <1>0, <3>1, <3>4, <4>5 DEF WithdrawCollateral
        <4> QED BY <1>2, <4>1, <4>6, <4>7
      <3> QED BY <2>1, <3>3, <3>4
    <2>2. ASSUME NEW s \in SeriesIds, NEW qty \in Quantities, Trade(a, s, qty)
          PROVE  GapStays
      BY <1>1, <2>2 DEF Trade, money
    <2> QED BY <1>4, <2>1, <2>2 DEF Account
  <1>5. ASSUME Anybody PROVE \E s \in SeriesIds : Cleanly(s)
    <2>1. PICK s \in SeriesIds : Settle(s) \/ SettleStale(s)
      BY <1>5 DEF Anybody
    <2>2. PICK price \in Nat : Clear(s, price) /\ ~series[s].settled
      BY <2>1, SettlePrice DEF SettlesAt
    <2>3. /\ RowStep(s, AtPrice(s, price), [a \in Accounts |-> Flat],
                     PaidOut(s, price), traders[s])
          /\ UNCHANGED money
      BY <2>2, ClearStep
    <2>4. /\ TotalOwed' = TotalOwed - Owed(s) + Owed(s)' /\ Owed(s) \in Nat
          /\ Owed(s)' = SumFunctionOnSet(PaidOut(s, price), Accounts) /\ Owed(s)' \in Nat
      BY <2>3, RowTotal
    <2>5. series'[s] = AtPrice(s, price) /\ series[s] \in Series /\ s \in SeriesIds'
      BY <2>3, RowStepKeeps, BooksNow
    <2>6. series'[s].settled /\ series'[s].settlementPrice = price
      BY <2>5 DEF AtPrice, Series
    <2>7. Owed(s)' <= Floored(Owed(s) + NetPnl(s, price))
      BY <2>4, ClearingPays
    <2>8. venueBalance' = venueBalance
      BY <2>3 DEF money
    <2>9. Gap' = Gap - Owed(s) + Owed(s)'
      BY <1>0, <2>4, <2>8 DEF Gap
    <2> QED BY <2>2, <2>5, <2>6, <2>7, <2>8, <2>9 DEF Cleanly
  <1>6. CASE OracleStep \/ UNCHANGED vars
    BY <1>1, <1>6 DEF OracleStep, vars, books, money
  <1> QED BY <1>3, <1>4, <1>5, <1>6 DEF Next


\* Only a clearing moves what the venue owes against what it holds, and a
\* clearing leaves its series owing no more than its collateral plus its PnL:
\* a series whose truncated PnLs add up to nothing is paid out of its pot.
THEOREM OnlyClearingsMoveTheGap ==
    Spec => [][GapStays \/ \E s \in SeriesIds : Cleanly(s)]_vars
  <1>1. TInv /\ [Next]_vars => [GapStays \/ \E s \in SeriesIds : Cleanly(s)]_vars
    BY GapNext
  <1> QED BY TInvInit, TInvNext, <1>1, PTL DEF Spec

\* Until the first settlement the venue holds exactly what it owes.
BackedUntilSettled == (\A s \in SeriesIds : ~series[s].settled) => TotalOwed = venueBalance

THEOREM VenueIsBacked == Spec => []BackedUntilSettled
  <1> DEFINE GInv == TInv /\ ((\A s \in SeriesIds : ~series[s].settled) => Gap = 0)
  <1>1. Init => GInv
    <2> SUFFICES ASSUME Init PROVE GInv
      OBVIOUS
    <2>1. TInv
      BY TInvInit
    <2>2. SeriesIds = {} /\ venueBalance = 0
      BY DEF Init, SeriesIds
    <2>3. TotalOwed = 0
      BY <2>2, SumOfNothing DEF TotalOwed
    <2> QED BY <2>1, <2>2, <2>3 DEF Gap
  <1>2. GInv /\ [Next]_vars => GInv'
    <2> SUFFICES ASSUME GInv, [Next]_vars, \A s \in SeriesIds' : ~series'[s].settled
                 PROVE  Gap' = 0
      BY TInvNext
    <2>1. GapStays \/ \E s \in SeriesIds : Cleanly(s)
      BY GapNext
    <2>2. GapStays
      BY <2>1 DEF Cleanly
    <2> QED BY <2>2 DEF GapStays
  <1>3. GInv => BackedUntilSettled
    BY TotalIsInt, TypeParts DEF BackedUntilSettled, Gap, TInv, CashTyped
  <1> HIDE DEF GInv
  <1> QED BY <1>1, <1>2, <1>3, PTL DEF Spec
=============================================================================
