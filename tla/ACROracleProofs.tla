--------------------------- MODULE ACROracleProofs ---------------------------
(***************************************************************************)
(* The oracle's history is ordered, for every set of accounts, indices and *)
(* signed prints.  The history alone is inductive together with the types: *)
(* a new print is later than the last one by FollowsPrevious, and the last *)
(* one is later than all before it; the clock only grows.                  *)
(***************************************************************************)
EXTENDS ACROracle, CommonLemmas

\* The order of one index's history, as the inductive step needs it.
Ordered(h, t) ==
    /\ \A m, n \in DOMAIN h : m < n =>
          /\ h[m].postedAt <= h[n].postedAt
          /\ h[m].timestamp < h[n].timestamp
    /\ \A n \in DOMAIN h :
          /\ h[n].postedAt <= t
          /\ h[n].timestamp <= h[n].postedAt + MaxTsSkew

IInv == OracleTypeOK /\ HistoryIsOrdered

\* A print posted now, dated after the last one and within the skew, extends
\* an ordered history.
LEMMA AppendOrdered ==
    ASSUME NEW h \in Seq(PrintRecord), NEW t \in Nat, NEW r \in PrintRecord,
           MaxTsSkew \in Nat, Ordered(h, t), r.postedAt = t,
           r.timestamp <= t + MaxTsSkew,
           h # <<>> => r.timestamp > h[Len(h)].timestamp
    PROVE  Append(h, r) \in Seq(PrintRecord) /\ Ordered(Append(h, r), t)
<1> DEFINE g == Append(h, r)
<1>1. /\ g \in Seq(PrintRecord) /\ Len(g) = Len(h) + 1 /\ Len(h) \in Nat
      /\ DOMAIN g = 1..(Len(h) + 1) /\ DOMAIN h = 1..Len(h)
      /\ g[Len(h) + 1] = r
      /\ \A n \in 1..Len(h) : g[n] = h[n] /\ h[n] \in PrintRecord
  OBVIOUS
<1>2. \A n \in DOMAIN g : g[n] \in PrintRecord
  BY <1>1
<1>3. \A q \in PrintRecord : q.postedAt \in Nat /\ q.timestamp \in Nat
  BY DEF PrintRecord
<1>4. \A n \in 1..Len(h) : h[n].timestamp < r.timestamp /\ h[n].postedAt <= t
  <2> SUFFICES ASSUME NEW n \in 1..Len(h)
               PROVE  h[n].timestamp < r.timestamp /\ h[n].postedAt <= t
    OBVIOUS
  <2>1. h[n].postedAt <= t
    BY <1>1 DEF Ordered
  <2>2. Len(h) \in DOMAIN h /\ n \in DOMAIN h /\ n <= Len(h) /\ h # <<>>
    BY <1>1
  <2>3. h[n].timestamp <= h[Len(h)].timestamp
    <3>1. CASE n = Len(h)
      BY <3>1, <1>1, <1>3
    <3>2. CASE n < Len(h)
      <4>1. h[n].timestamp < h[Len(h)].timestamp
        BY <3>2, <2>2 DEF Ordered
      <4>2. h[n].timestamp \in Nat /\ h[Len(h)].timestamp \in Nat
        BY <2>2, <1>1, <1>3
      <4> QED BY <4>1, <4>2
    <3> QED BY <3>1, <3>2, <2>2, <1>1
  <2>4. h[Len(h)].timestamp < r.timestamp
    BY <2>2
  <2> QED BY <2>1, <2>2, <2>3, <2>4, <1>1, <1>3
<1>5. ASSUME NEW m \in DOMAIN g, NEW n \in DOMAIN g, m < n
      PROVE  g[m].postedAt <= g[n].postedAt /\ g[m].timestamp < g[n].timestamp
  <2>1. m \in 1..Len(h) /\ g[m] = h[m]
    BY <1>1, <1>5
  <2>2. CASE n = Len(h) + 1
    BY <2>1, <2>2, <1>1, <1>4
  <2>3. CASE n \in 1..Len(h)
    BY <2>1, <2>3, <1>1, <1>5 DEF Ordered
  <2> QED BY <2>2, <2>3, <1>1
<1>6. ASSUME NEW n \in DOMAIN g
      PROVE  g[n].postedAt <= t /\ g[n].timestamp <= g[n].postedAt + MaxTsSkew
  <2>1. CASE n = Len(h) + 1
    BY <2>1, <1>1, <1>3
  <2>2. CASE n \in 1..Len(h)
    BY <2>2, <1>1 DEF Ordered
  <2> QED BY <2>1, <2>2, <1>1
<1> QED BY <1>1, <1>5, <1>6 DEF Ordered

\* Time passing keeps a history ordered.
LEMMA LaterOrdered ==
    ASSUME NEW h \in Seq(PrintRecord), NEW t \in Nat, NEW u \in Nat, t <= u,
           Ordered(h, t)
    PROVE  Ordered(h, u)
<1>1. \A n \in DOMAIN h : h[n] \in PrintRecord
  OBVIOUS
<1>2. \A n \in DOMAIN h : h[n].postedAt \in Nat
  BY <1>1 DEF PrintRecord
<1> QED BY <1>2 DEF Ordered

LEMMA InvInit == OracleInit => IInv
<1> SUFFICES ASSUME OracleInit PROVE IInv
  OBVIOUS
<1> USE OracleAssumption
<1>1. OracleTypeOK
  <2>1. now \in 0..MaxTime
    BY DEF OracleInit
  <2>2. history \in [Indices -> Seq(PrintRecord)]
    BY DEF OracleInit
  <2> QED BY <2>1, <2>2 DEF OracleInit, OracleTypeOK
<1>2. HistoryIsOrdered
  BY DEF OracleInit, HistoryIsOrdered
<1> QED BY <1>1, <1>2 DEF IInv

LEMMA InvNext == IInv /\ [OracleNext]_oracleVars => IInv'
<1> SUFFICES ASSUME IInv, [OracleNext]_oracleVars PROVE IInv'
  OBVIOUS
<1> USE OracleAssumption
<1>1. OracleTypeOK /\ \A i \in Indices : Ordered(history[i], now)
  BY DEF IInv, HistoryIsOrdered, Ordered
<1>2. ASSUME OracleTypeOK', \A i \in Indices : Ordered(history'[i], now')
      PROVE  IInv'
  BY <1>2 DEF IInv, HistoryIsOrdered, Ordered
<1>3. ASSUME NEW signer \in Accounts, NEW p \in PrintInputs, PostPrint(signer, p)
      PROVE  IInv'
  <2> DEFINE i == p.indexId
             r == [value |-> p.value, timestamp |-> p.timestamp, postedAt |-> now]
  <2>1. i \in Indices /\ p.value \in Nat /\ p.timestamp \in Nat /\ now \in Nat
    <3>1. IsPrintInput(p)
      OBVIOUS
    <3>2. now \in Nat
      BY <1>1 DEF OracleTypeOK
    <3> QED BY <3>1, <3>2 DEF IsPrintInput
  <2>2. r \in PrintRecord /\ history[i] \in Seq(PrintRecord)
    BY <1>1, <2>1 DEF PrintRecord, OracleTypeOK
  <2>3. r.timestamp <= now + MaxTsSkew
        /\ (history[i] # <<>> => r.timestamp > history[i][Len(history[i])].timestamp)
    BY <1>3 DEF PostPrint, NotInFuture, FollowsPrevious, HasPrint, LatestPrint
  <2>4. Append(history[i], r) \in Seq(PrintRecord) /\ Ordered(Append(history[i], r), now)
    BY <2>1, <2>2, <2>3, <1>1, AppendOrdered
  <2>5. history' = [history EXCEPT ![i] = Append(@, r)] /\ UNCHANGED <<now, oracleAdmin>>
    BY <1>3 DEF PostPrint
  <2> HIDE DEF r
  <2>6. \A k \in Indices : Ordered(history'[k], now') /\ history'[k] \in Seq(PrintRecord)
    BY <2>1, <2>4, <2>5, <1>1 DEF OracleTypeOK
  <2>7. OracleTypeOK'
    BY <2>5, <2>6, <1>1 DEF OracleTypeOK, oracleAdmin
  <2> QED BY <2>1, <2>5, <2>6, <2>7, <1>2
<1>4. CASE Tick
  <2>1. now \in Nat /\ now' \in Nat /\ now <= now' /\ history' = history
    BY <1>1, <1>4 DEF Tick, OracleTypeOK
  <2>2. \A k \in Indices : Ordered(history'[k], now')
    BY <2>1, <1>1, LaterOrdered DEF OracleTypeOK
  <2>3. OracleTypeOK'
    BY <1>1, <1>4 DEF Tick, OracleTypeOK, oracleAdmin
  <2> QED BY <2>1, <2>2, <2>3, <1>2
<1>5. ASSUME NEW s \in Accounts, Administer(s)
      PROVE  IInv'
  <2>1. UNCHANGED <<now, history>>
    BY <1>5 DEF Administer, SetSigner, SetOraclePaused, TransferOracle, AcceptOracle
  <2>2. OracleTypeOK'
    <3>1. ASSUME NEW signer \in Accounts, NEW allowed \in BOOLEAN, SetSigner(s, signer, allowed)
          PROVE  OracleTypeOK'
      BY <3>1, <1>1 DEF SetSigner, OracleTypeOK
    <3>2. ASSUME NEW value \in BOOLEAN, SetOraclePaused(s, value)
          PROVE  OracleTypeOK'
      BY <3>2, <1>1 DEF SetOraclePaused, OracleTypeOK
    <3>3. ASSUME NEW to \in Accounts \cup {NoAddress}, TransferOracle(s, to)
          PROVE  OracleTypeOK'
      BY <3>3, <1>1 DEF TransferOracle, OracleTypeOK
    <3>4. CASE AcceptOracle(s)
      BY <3>4, <1>1 DEF AcceptOracle, OracleTypeOK
    <3> QED BY <1>5, <3>1, <3>2, <3>3, <3>4 DEF Administer
  <2> QED BY <2>1, <2>2, <1>1, <1>2 DEF OracleTypeOK
<1>6. CASE UNCHANGED oracleVars
  BY <1>6, <1>1, <1>2 DEF oracleVars, oracleAdmin, OracleTypeOK
<1> QED BY <1>3, <1>4, <1>5, <1>6 DEF OracleNext, Publish

\* The oracle's variables keep their types.
THEOREM OracleTypeCorrect == OracleSpec => []OracleTypeOK
<1>1. IInv => OracleTypeOK
  BY DEF IInv
<1> QED BY InvInit, InvNext, <1>1, PTL DEF OracleSpec

\* The history of every index is ordered by block time and by economic time,
\* and no print is dated beyond the skew: what the settlement search and the
\* monotonicity rule of postPrint rest on.
THEOREM HistoryStaysOrdered == OracleSpec => []HistoryIsOrdered
<1>1. IInv => HistoryIsOrdered
  BY DEF IInv
<1> QED BY InvInit, InvNext, <1>1, PTL DEF OracleSpec


-----------------------------------------------------------------------------
(* The settlement search.  firstPrintPostedAtOrAfter halves an interval    *)
(* until it is empty; on an ordered history it stops at the first print of *)
(* a moment or later.  The recursion has a solution because the answer,    *)
(* defined outright, satisfies it; every solution gives that answer by the *)
(* shortest interval on which it would not.                                *)

\* k is where the search of the interval from lo to hi should stop.
StopsAt(h, from, k, lo, hi) ==
    /\ k \in lo..hi
    /\ \A j \in lo..(k - 1) : h[j + 1].postedAt < from
    /\ k = hi \/ h[k + 1].postedAt >= from

Answer(h, from, lo, hi) ==
    IF lo >= hi THEN lo ELSE CHOOSE k : StopsAt(h, from, k, lo, hi)

\* search is a solution of the loop's recursion.
Searches(search, h, from) ==
    search = [r \in Intervals(Len(h)) |->
                LET mid == (r[1] + r[2]) \div 2
                IN  IF r[1] >= r[2] THEN r[1]
                    ELSE IF h[mid + 1].postedAt < from THEN search[<<mid + 1, r[2]>>]
                    ELSE search[<<r[1], mid>>]]

PostedInOrder(h) == \A m, n \in DOMAIN h : m < n => h[m].postedAt <= h[n].postedAt

LEMMA StopExists ==
    ASSUME NEW h \in Seq(PrintRecord), NEW from \in Nat, NEW lo \in 0..Len(h),
           NEW hi \in 0..Len(h), lo <= hi
    PROVE  \E k : StopsAt(h, from, k, lo, hi)
  <1> DEFINE W == {k \in lo..hi : k = hi \/ h[k + 1].postedAt >= from}
  <1>1. W \subseteq Nat /\ hi \in W
    OBVIOUS
  <1>2. PICK k \in W : \A e \in W : ~(e < k)
    <2> HIDE DEF W
    <2> QED BY <1>1, LeastNatural
  <1>3. ASSUME NEW j \in lo..(k - 1) PROVE h[j + 1].postedAt < from
    <2>1. j \in lo..hi /\ j < k /\ j \notin W
      BY <1>2
    <2>2. ~(h[j + 1].postedAt >= from) /\ j + 1 \in DOMAIN h
      BY <1>2, <2>1
    <2>3. h[j + 1] \in PrintRecord
      BY <2>2
    <2>4. h[j + 1].postedAt \in Nat
      BY <2>3 DEF PrintRecord
    <2> QED BY <2>2, <2>4
  <1> QED BY <1>2, <1>3 DEF StopsAt

\* Halving keeps the stop: the half the loop keeps has the stop of the whole.
LEMMA HalfKeepsTheStop ==
    ASSUME NEW h \in Seq(PrintRecord), PostedInOrder(h), NEW from \in Nat,
           NEW lo \in 0..Len(h), NEW hi \in 0..Len(h), lo < hi,
           NEW mid, mid = (lo + hi) \div 2, NEW k
    PROVE  /\ mid \in lo..(hi - 1) /\ mid \in 0..Len(h) /\ mid + 1 \in 0..Len(h)
           /\ h[mid + 1].postedAt < from /\ StopsAt(h, from, k, mid + 1, hi)
                => StopsAt(h, from, k, lo, hi)
           /\ ~(h[mid + 1].postedAt < from) /\ StopsAt(h, from, k, lo, mid)
                => StopsAt(h, from, k, lo, hi)
  <1>1. mid \in lo..(hi - 1) /\ mid \in 0..Len(h) /\ mid + 1 \in 1..Len(h)
    BY SMT
  <1>2. \A j \in 0..(Len(h) - 1) : h[j + 1].postedAt \in Nat
    <2>1. \A j \in 0..(Len(h) - 1) : h[j + 1] \in PrintRecord
      OBVIOUS
    <2> QED BY <2>1 DEF PrintRecord
  <1>3. ASSUME h[mid + 1].postedAt < from, StopsAt(h, from, k, mid + 1, hi)
        PROVE  StopsAt(h, from, k, lo, hi)
    <2>1. k \in lo..hi
      BY <1>1, <1>3 DEF StopsAt
    <2>2. ASSUME NEW j \in lo..(k - 1) PROVE h[j + 1].postedAt < from
      <3>1. CASE j \in (mid + 1)..(k - 1)
        BY <1>3, <3>1 DEF StopsAt
      <3>2. CASE j = mid
        BY <1>3, <3>2
      <3>3. CASE j < mid
        <4>1. j + 1 \in DOMAIN h /\ mid + 1 \in DOMAIN h /\ j + 1 < mid + 1
          BY <1>1, <2>1, <3>3
        <4>2. h[j + 1].postedAt <= h[mid + 1].postedAt
          BY <4>1 DEF PostedInOrder
        <4> QED BY <1>1, <1>2, <1>3, <2>1, <3>3, <4>2
      <3> QED BY <1>1, <2>1, <3>1, <3>2, <3>3
    <2> QED BY <1>3, <2>1, <2>2 DEF StopsAt
  <1>4. ASSUME ~(h[mid + 1].postedAt < from), StopsAt(h, from, k, lo, mid)
        PROVE  StopsAt(h, from, k, lo, hi)
    <2>1. h[mid + 1].postedAt >= from
      BY <1>1, <1>2, <1>4
    <2> QED BY <1>1, <1>4, <2>1 DEF StopsAt
  <1> QED BY <1>1, <1>3, <1>4

LEMMA StopIsUnique ==
    ASSUME NEW h \in Seq(PrintRecord), NEW from \in Nat, NEW lo \in 0..Len(h),
           NEW hi \in 0..Len(h), NEW k, NEW e,
           StopsAt(h, from, k, lo, hi), StopsAt(h, from, e, lo, hi)
    PROVE  k = e
  <1>1. k \in lo..hi /\ e \in lo..hi
    BY DEF StopsAt
  <1>2. \A j \in 0..(Len(h) - 1) : h[j + 1].postedAt \in Nat
    <2>1. \A j \in 0..(Len(h) - 1) : h[j + 1] \in PrintRecord
      OBVIOUS
    <2> QED BY <2>1 DEF PrintRecord
  <1>3. ASSUME NEW a \in lo..hi, NEW b \in lo..hi, a < b,
               StopsAt(h, from, a, lo, hi), StopsAt(h, from, b, lo, hi)
        PROVE  FALSE
    <2>1. h[a + 1].postedAt < from
      BY <1>3 DEF StopsAt
    <2>2. h[a + 1].postedAt >= from
      BY <1>3 DEF StopsAt
    <2> QED BY <1>2, <1>3, <2>1, <2>2
  <1> QED BY <1>1, <1>3

LEMMA AnswerStops ==
    ASSUME NEW h \in Seq(PrintRecord), NEW from \in Nat, NEW lo \in 0..Len(h),
           NEW hi \in 0..Len(h), lo <= hi
    PROVE  StopsAt(h, from, Answer(h, from, lo, hi), lo, hi)
  <1>1. CASE lo = hi
    <2>1. Answer(h, from, lo, hi) = lo
      BY <1>1 DEF Answer
    <2> QED BY <1>1, <2>1 DEF StopsAt
  <1>2. CASE lo < hi
    <2>1. Answer(h, from, lo, hi) = CHOOSE k : StopsAt(h, from, k, lo, hi)
      BY <1>2 DEF Answer
    <2> QED BY <2>1, StopExists
  <1> QED BY <1>1, <1>2

LEMMA SearchExists ==
    ASSUME NEW h \in Seq(PrintRecord), PostedInOrder(h), NEW from \in Nat
    PROVE  \E search : Searches(search, h, from)
  <1> DEFINE n == Len(h)
             A == [r \in Intervals(Len(h)) |-> Answer(h, from, r[1], r[2])]
  <1>1. ASSUME NEW lo \in 0..n, NEW hi \in 0..n, lo < hi,
               NEW mid, mid = (lo + hi) \div 2
        PROVE  Answer(h, from, lo, hi) = IF h[mid + 1].postedAt < from
                                         THEN A[<<mid + 1, hi>>] ELSE A[<<lo, mid>>]
    <2>1. mid \in lo..(hi - 1) /\ mid \in 0..n /\ mid + 1 \in 0..n /\ mid + 1 <= hi
      BY <1>1, HalfKeepsTheStop
    <2>2. A[<<mid + 1, hi>>] = Answer(h, from, mid + 1, hi)
          /\ A[<<lo, mid>>] = Answer(h, from, lo, mid)
      BY <2>1 DEF Intervals
    <2>3. /\ StopsAt(h, from, Answer(h, from, mid + 1, hi), mid + 1, hi)
          /\ StopsAt(h, from, Answer(h, from, lo, mid), lo, mid)
          /\ StopsAt(h, from, Answer(h, from, lo, hi), lo, hi)
      BY <1>1, <2>1, AnswerStops
    <2> HIDE DEF A
    <2>4. CASE h[mid + 1].postedAt < from
      <3>1. StopsAt(h, from, Answer(h, from, mid + 1, hi), lo, hi)
        BY <1>1, <2>3, <2>4, HalfKeepsTheStop
      <3> QED BY <2>2, <2>3, <2>4, <3>1, StopIsUnique
    <2>5. CASE ~(h[mid + 1].postedAt < from)
      <3>1. StopsAt(h, from, Answer(h, from, lo, mid), lo, hi)
        BY <1>1, <2>3, <2>5, HalfKeepsTheStop
      <3> QED BY <2>2, <2>3, <2>5, <3>1, StopIsUnique
    <2> QED BY <2>4, <2>5
  <1>2. ASSUME NEW r \in Intervals(Len(h))
        PROVE  Answer(h, from, r[1], r[2]) =
                 LET mid == (r[1] + r[2]) \div 2
                 IN  IF r[1] >= r[2] THEN r[1]
                     ELSE IF h[mid + 1].postedAt < from THEN A[<<mid + 1, r[2]>>]
                     ELSE A[<<r[1], mid>>]
    <2> HIDE DEF A
    <2>0. r[1] \in 0..n /\ r[2] \in 0..n
      BY DEF Intervals
    <2>1. CASE r[1] >= r[2]
      BY <2>1 DEF Answer
    <2>2. CASE r[1] < r[2]
      <3>1. ~(r[1] >= r[2])
        BY <2>0, <2>2
      <3> QED BY <1>1, <2>0, <2>2, <3>1
    <2> QED BY <2>0, <2>1, <2>2
  <1>3. Searches(A, h, from)
    BY <1>2 DEF Searches
  <1> QED BY <1>3

LEMMA SearchStops ==
    ASSUME NEW h \in Seq(PrintRecord), PostedInOrder(h), NEW from \in Nat
    PROVE  StopsAt(h, from, BinarySearch(h, from), 0, Len(h))
  <1> DEFINE n == Len(h)
             S == CHOOSE search : Searches(search, h, from)
  <1>1. BinarySearch(h, from) = S[<<0, n>>]
    BY DEF BinarySearch, Searches
  <1>2. Searches(S, h, from)
    BY SearchExists
  <1> HIDE DEF S
  <1>3. ASSUME NEW lo \in 0..n, NEW hi \in 0..n, NEW mid, mid = (lo + hi) \div 2
        PROVE  S[<<lo, hi>>] = IF lo >= hi THEN lo
                               ELSE IF h[mid + 1].postedAt < from THEN S[<<mid + 1, hi>>]
                               ELSE S[<<lo, mid>>]
    <2>1. <<lo, hi>> \in Intervals(Len(h))
      BY DEF Intervals
    <2> QED BY <1>2, <1>3, <2>1 DEF Searches
  <1> DEFINE Wrong(lo, hi) == ~StopsAt(h, from, S[<<lo, hi>>], lo, hi)
             W == {d \in Nat : \E lo, hi \in 0..n : lo <= hi /\ hi - lo = d /\ Wrong(lo, hi)}
  <1>4. W = {}
    <2>1. SUFFICES ASSUME W # {} PROVE FALSE
      OBVIOUS
    <2>2. PICK d \in W : \A e \in W : ~(e < d)
      <3>1. W \subseteq Nat
        OBVIOUS
      <3> HIDE DEF W
      <3> QED BY <2>1, <3>1, LeastNatural
    <2>3. PICK lo \in 0..n, hi \in 0..n : lo <= hi /\ hi - lo = d /\ Wrong(lo, hi)
      BY <2>2
    <2>4. ASSUME NEW a \in 0..n, NEW b \in 0..n, a <= b, b - a < d
          PROVE  ~Wrong(a, b)
      <3> HIDE DEF Wrong
      <3>1. b - a \in Nat
        BY <2>4
      <3>2. b - a \notin W
        <4> HIDE DEF W
        <4> QED BY <2>2, <2>4
      <3>3. ASSUME Wrong(a, b) PROVE b - a \in W
        BY <2>4, <3>1, <3>3
      <3> QED BY <3>2, <3>3
    <2> HIDE DEF W
    <2>5. lo # hi
      <3>1. CASE lo = hi
        <4> PICK mid : mid = (lo + hi) \div 2
          OBVIOUS
        <4>0. lo >= hi
          BY <3>1
        <4>1. S[<<lo, hi>>] = lo
          BY <1>3, <4>0
        <4>2. StopsAt(h, from, lo, lo, hi)
          BY <3>1 DEF StopsAt
        <4> QED BY <2>3, <4>1, <4>2
      <3> QED BY <3>1
    <2>6. PICK mid : mid = (lo + hi) \div 2
      OBVIOUS
    <2>7. mid \in lo..(hi - 1) /\ mid \in 0..n /\ mid + 1 \in 0..n /\ lo < hi
      <3>1. lo < hi
        BY <2>3, <2>5
      <3> QED BY <2>6, <3>1, HalfKeepsTheStop
    <2>8. S[<<lo, hi>>] = IF h[mid + 1].postedAt < from THEN S[<<mid + 1, hi>>]
                          ELSE S[<<lo, mid>>]
      <3>1. ~(lo >= hi)
        BY <2>7
      <3> QED BY <1>3, <2>6, <3>1
    <2>9. ~Wrong(mid + 1, hi) /\ ~Wrong(lo, mid)
      <3> HIDE DEF Wrong
      <3>1. /\ mid + 1 <= hi /\ hi - (mid + 1) < d /\ lo <= mid /\ mid - lo < d
        BY <2>3, <2>7
      <3> QED BY <2>4, <2>7, <3>1
    <2>10. StopsAt(h, from, S[<<lo, hi>>], lo, hi)
      <3>1. CASE h[mid + 1].postedAt < from
        <4>1. S[<<lo, hi>>] = S[<<mid + 1, hi>>]
          BY <2>8, <3>1
        <4> QED BY <2>6, <2>7, <2>9, <3>1, <4>1, HalfKeepsTheStop
      <3>2. CASE ~(h[mid + 1].postedAt < from)
        <4>1. S[<<lo, hi>>] = S[<<lo, mid>>]
          BY <2>8, <3>2
        <4> QED BY <2>6, <2>7, <2>9, <3>2, <4>1, HalfKeepsTheStop
      <3> QED BY <3>1, <3>2
    <2> QED BY <2>3, <2>10
  <1>5. n - 0 \notin W /\ n - 0 \in Nat /\ 0 \in 0..n /\ n \in 0..n /\ 0 <= n
    <2> HIDE DEF W
    <2> QED BY <1>4
  <1>6. ~Wrong(0, n)
    <2> HIDE DEF Wrong
    <2> QED BY <1>5
  <1> QED BY <1>1, <1>6


\* The postings of an ordered history are in order.
LEMMA OrderedIsPosted ==
    ASSUME NEW h, NEW t, Ordered(h, t)
    PROVE  PostedInOrder(h)
  BY DEF Ordered, PostedInOrder

\* What the search found in an ordered history is in its range, at or after
\* the moment, and nothing before it is.
LEMMA SearchAnswers ==
    ASSUME NEW h \in Seq(PrintRecord), NEW t, Ordered(h, t), NEW from \in Nat,
           NEW k, k = BinarySearch(h, from)
    PROVE  /\ k \in 0..Len(h)
           /\ k < Len(h) => k + 1 \in DOMAIN h /\ h[k + 1].postedAt >= from
           /\ \A n \in DOMAIN h : h[n].postedAt >= from => k < n
  <1>1. StopsAt(h, from, k, 0, Len(h))
    BY OrderedIsPosted, SearchStops
  <1>2. k \in 0..Len(h)
    BY <1>1 DEF StopsAt
  <1>3. ASSUME k < Len(h) PROVE k + 1 \in DOMAIN h /\ h[k + 1].postedAt >= from
    BY <1>1, <1>2, <1>3 DEF StopsAt
  <1>4. ASSUME NEW n \in DOMAIN h, h[n].postedAt >= from PROVE k < n
    <2>1. SUFFICES ASSUME n - 1 \in 0..(k - 1) PROVE FALSE
      BY <1>2
    <2>2. h[(n - 1) + 1].postedAt < from
      BY <1>1, <2>1 DEF StopsAt
    <2>3. (n - 1) + 1 = n /\ h[n] \in PrintRecord
      OBVIOUS
    <2>4. h[n].postedAt \in Nat
      BY <2>3 DEF PrintRecord
    <2> QED BY <1>4, <2>2, <2>3, <2>4
  <1> QED BY <1>2, <1>3, <1>4

\* A later print leaves the answer to an answered question alone.
LEMMA AnswerStays ==
    ASSUME NEW h \in Seq(PrintRecord), NEW t, Ordered(h, t),
           NEW r \in PrintRecord, NEW u, Ordered(Append(h, r), u),
           NEW from \in Nat, BinarySearch(h, from) < Len(h)
    PROVE  /\ BinarySearch(Append(h, r), from) = BinarySearch(h, from)
           /\ BinarySearch(Append(h, r), from) < Len(Append(h, r))
           /\ Append(h, r)[BinarySearch(h, from) + 1] = h[BinarySearch(h, from) + 1]
  <1> DEFINE g == Append(h, r)
             k == BinarySearch(h, from)
             e == BinarySearch(g, from)
  <1>1. /\ g \in Seq(PrintRecord) /\ Len(g) = Len(h) + 1 /\ Len(h) \in Nat
        /\ \A n \in 1..Len(h) : g[n] = h[n] /\ n \in DOMAIN h /\ n \in DOMAIN g
    OBVIOUS
  <1>2. StopsAt(h, from, k, 0, Len(h)) /\ StopsAt(g, from, e, 0, Len(g))
    BY <1>1, OrderedIsPosted, SearchStops
  <1>3. k \in 0..Len(h) /\ k < Len(h)
    BY <1>2 DEF StopsAt
  <1> HIDE DEF k, e, g
  <1>4. StopsAt(g, from, k, 0, Len(g))
    <2>1. k \in 0..Len(g) /\ g[k + 1] = h[k + 1]
      BY <1>1, <1>3
    <2>2. g[k + 1].postedAt >= from
      BY <1>2, <1>3, <2>1 DEF StopsAt
    <2>3. ASSUME NEW j \in 0..(k - 1) PROVE g[j + 1].postedAt < from
      <3>1. g[j + 1] = h[j + 1]
        BY <1>1, <1>3
      <3> QED BY <1>2, <3>1 DEF StopsAt
    <2> QED BY <2>1, <2>2, <2>3 DEF StopsAt
  <1>5. e = k
    <2>1. 0 \in 0..Len(g) /\ Len(g) \in 0..Len(g)
      BY <1>1
    <2> QED BY <1>1, <1>2, <1>4, <2>1, StopIsUnique
  <1>6. k < Len(g) /\ g[k + 1] = h[k + 1]
    BY <1>1, <1>3
  <1> QED BY <1>5, <1>6 DEF g, k, e

\* firstPrintPostedAtOrAfter finds the first print of a moment or later, and
\* finds one exactly when there is one.
THEOREM SearchIsRight == OracleSpec => []SearchFindsTheFirst
  <1>1. IInv => SearchFindsTheFirst
    <2> SUFFICES ASSUME IInv, NEW i \in Indices, NEW from \in 0..(MaxTime + 1)
                 PROVE  LET since == {n \in DOMAIN history[i] :
                                        history[i][n].postedAt >= from}
                        IN  /\ FoundSince(i, from) <=> since # {}
                            /\ \A n \in since :
                                 FirstSince(i, from).timestamp <= history[i][n].timestamp
      BY DEF SearchFindsTheFirst
    <2> DEFINE h == history[i]
               since == {n \in DOMAIN h : h[n].postedAt >= from}
    <2>0. h \in Seq(PrintRecord) /\ Ordered(h, now) /\ from \in Nat
      BY OracleAssumption DEF IInv, OracleTypeOK, HistoryIsOrdered, Ordered
    <2>1. PICK k : k = BinarySearch(h, from)
      OBVIOUS
    <2>2. /\ FoundSince(i, from) <=> k < Len(h)
          /\ FirstSince(i, from) = h[k + 1]
      BY <2>1 DEF FoundSince, FirstSince
    <2> HIDE DEF h
    <2>3. /\ k \in 0..Len(h)
          /\ k < Len(h) => k + 1 \in DOMAIN h /\ h[k + 1].postedAt >= from
          /\ \A n \in DOMAIN h : h[n].postedAt >= from => k < n
      BY <2>0, <2>1, SearchAnswers
    <2>4. FoundSince(i, from) => since # {}
      BY <2>2, <2>3
    <2>5. ASSUME NEW n \in since
          PROVE  FoundSince(i, from) /\ FirstSince(i, from).timestamp <= h[n].timestamp
      <3>1. n \in DOMAIN h /\ k < n /\ n <= Len(h) /\ n \in Nat /\ Len(h) \in Nat
        BY <2>0, <2>3
      <3>2. k < Len(h) /\ k + 1 \in DOMAIN h /\ (k + 1 = n \/ k + 1 < n)
        BY <2>0, <2>3, <3>1
      <3>3. CASE k + 1 = n
        <4>1. h[n] \in PrintRecord
          BY <2>0, <3>1
        <4>2. h[n].timestamp \in Nat
          BY <4>1 DEF PrintRecord
        <4> QED BY <2>2, <3>2, <3>3, <4>2
      <3>4. CASE k + 1 < n
        <4>1. h[k + 1].timestamp < h[n].timestamp
          BY <2>0, <3>1, <3>2, <3>4 DEF Ordered
        <4>2. h[n] \in PrintRecord /\ h[k + 1] \in PrintRecord
          BY <2>0, <3>1, <3>2
        <4>3. h[n].timestamp \in Nat /\ h[k + 1].timestamp \in Nat
          BY <4>2 DEF PrintRecord
        <4> QED BY <2>2, <3>2, <4>1, <4>3
      <3> QED BY <3>2, <3>3, <3>4
    <2> QED BY <2>4, <2>5 DEF h
  <1> QED BY InvInit, InvNext, <1>1, PTL DEF OracleSpec

\* What one step leaves of the first print of a moment.
KeepsFirst(i, from) ==
    FoundSince(i, from) =>
      FoundSince(i, from)' /\ FirstSince(i, from)' = FirstSince(i, from)

\* Once a moment has a first print no posting changes it: the price of a
\* series is fixed by its expiry, not by who settles it and when.
THEOREM FirstPrintStays == OracleSpec => FirstPrintIsFixed
  <1>1. ASSUME IInv, IInv', [OracleNext]_oracleVars,
               NEW i \in Indices, NEW from \in 0..MaxTime
        PROVE  KeepsFirst(i, from)
    <2> USE OracleAssumption
    <2>0. /\ history[i] \in Seq(PrintRecord) /\ Ordered(history[i], now)
          /\ history'[i] \in Seq(PrintRecord) /\ Ordered(history'[i], now')
          /\ from \in Nat
      BY <1>1 DEF IInv, OracleTypeOK, HistoryIsOrdered, Ordered
    <2>1. CASE history'[i] = history[i]
      BY <2>1 DEF KeepsFirst, FoundSince, FirstSince
    <2>2. ASSUME NEW signer \in Accounts, NEW p \in PrintInputs, PostPrint(signer, p),
                 FoundSince(i, from), p.indexId = i
          PROVE  FoundSince(i, from)' /\ FirstSince(i, from)' = FirstSince(i, from)
      <3> DEFINE r == [value |-> p.value, timestamp |-> p.timestamp, postedAt |-> now]
      <3>1. r \in PrintRecord
        <4>1. IsPrintInput(p) /\ now \in Nat
          BY <1>1 DEF IInv, OracleTypeOK
        <4> QED BY <4>1 DEF IsPrintInput, PrintRecord
      <3>2. history'[i] = Append(history[i], r)
        BY <1>1, <2>2 DEF PostPrint, IInv, OracleTypeOK
      <3> HIDE DEF r
      <3>3. /\ BinarySearch(history'[i], from) = BinarySearch(history[i], from)
            /\ BinarySearch(history'[i], from) < Len(history'[i])
            /\ history'[i][BinarySearch(history[i], from) + 1]
                 = history[i][BinarySearch(history[i], from) + 1]
        <4>1. PICK h, g : h = history[i] /\ g = history'[i]
          OBVIOUS
        <4>2. h \in Seq(PrintRecord) /\ Ordered(h, now) /\ Ordered(g, now')
              /\ g = Append(h, r) /\ BinarySearch(h, from) < Len(h)
          BY <2>0, <2>2, <3>2, <4>1 DEF FoundSince
        <4>3. Ordered(Append(h, r), now')
          BY <4>2
        <4>4. PICK u : u = now'
          OBVIOUS
        <4>5. Ordered(Append(h, r), u)
          BY <4>3, <4>4
        <4>6. /\ BinarySearch(Append(h, r), from) = BinarySearch(h, from)
              /\ BinarySearch(Append(h, r), from) < Len(Append(h, r))
              /\ Append(h, r)[BinarySearch(h, from) + 1] = h[BinarySearch(h, from) + 1]
          BY ONLY from \in Nat, <2>0, <3>1, <4>2, <4>5, AnswerStays
        <4> QED BY <4>1, <4>2, <4>6
      <3> QED BY <3>3 DEF FoundSince, FirstSince
    <2>3. ASSUME NEW signer \in Accounts, NEW p \in PrintInputs, PostPrint(signer, p),
                 p.indexId # i
          PROVE  history'[i] = history[i]
      BY <1>1, <2>3 DEF PostPrint, IInv, OracleTypeOK
    <2>4. ASSUME NEW s \in Accounts, Administer(s) PROVE history' = history
      BY <2>4 DEF Administer, SetSigner, SetOraclePaused, TransferOracle, AcceptOracle
    <2>5. CASE Tick \/ UNCHANGED oracleVars
      BY <2>1, <2>5 DEF Tick, oracleVars
    <2>6. CASE Publish
      BY <2>1, <2>2, <2>3, <2>6 DEF Publish, KeepsFirst
    <2> QED BY <1>1, <2>1, <2>4, <2>5, <2>6 DEF OracleNext
  <1>2. IInv /\ IInv' /\ [OracleNext]_oracleVars =>
          [\A i \in Indices, from \in 0..MaxTime :
             FoundSince(i, from) =>
               FoundSince(i, from)' /\ FirstSince(i, from)' = FirstSince(i, from)]_oracleVars
    BY <1>1 DEF KeepsFirst
  <1> QED BY InvInit, InvNext, <1>2, PTL DEF OracleSpec, FirstPrintIsFixed
=============================================================================
