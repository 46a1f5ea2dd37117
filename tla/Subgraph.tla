------------------------------ MODULE Subgraph ------------------------------
(***************************************************************************)
(* The public tape (graph/src): the mappings that turn the events of the   *)
(* oracles, ReceiptMirror, HumanIdMirror and ACRFutures into prints,       *)
(* settlements benchmarked against the print their payer could have seen,  *)
(* and the totals and human counts a rating reads.  The contracts' guards  *)
(* are here as far as they decide which events can follow which; an event  *)
(* is indexed in the block that emits it, so each action is a transaction  *)
(* together with its handler.                                              *)
(***************************************************************************)
EXTENDS Integers, Sequences, FiniteSets, FiniteSetsExt

CONSTANTS Null, Payers, Paid, Settlements, Clusters, Values, Quantities,
          RingDepth, Window, StaleArrival, MirrorLag, EndOfTime, MaxPrints

(* chain: what the contracts remember; tape: prints and the arrival ring;   *)
(* books: the entities a settlement and a resolution touch; venue: the fills *)
VARIABLES now, chain, tape, books, venue
subgraphVars == <<now, chain, tape, books, venue>>

Bp == 10000
TenthBp == 10 * Bp
Abs(x) == IF x < 0 THEN -x ELSE x
WindowOf(t) == t \div Window
-----------------------------------------------------------------------------
(* tca.ts: the arrival ring, and the measure taken against it.              *)
PushPrint(ring, print) ==
  LET newer == SelectSeq(ring, LAMBDA p : p.at > print.at)
      older == SelectSeq(ring, LAMBDA p : p.at <= print.at)
  IN  newer \o <<print>> \o SubSeq(older, 1, Min({Len(older), RingDepth - Len(newer) - 1}))

PickArrival(ring, t) ==
  LET seen == {i \in DOMAIN ring : ring[i].at <= t} IN IF seen = {} THEN 0 ELSE Min(seen)

UnbenchmarkedReason(ring) ==
  IF Len(ring) < RingDepth THEN "NO_PRINT_YET" ELSE "RING_UNDERFLOW"

DivRound(num, den) ==
  IF den = 0 THEN 0
  ELSE LET q == (2 * Abs(num) + Abs(den)) \div (2 * Abs(den))
       IN  IF (num < 0) # (den < 0) THEN -q ELSE q

SlippageBp(paid, arrival) ==
  IF arrival <= 0 THEN 0 ELSE DivRound((paid - arrival) * Bp, arrival)

BucketOf(bp) == Cardinality({edge \in {-100, 0, 50, 100, 200, 500} : bp >= edge})
-----------------------------------------------------------------------------
(* oracle.ts: a posting by oracle v1 or v2 of the economic print `epoch`.   *)
Posted(ep, version, value) ==
  IF ep = Null THEN [value |-> value, at |-> now, mask |-> {version}, divergent |-> FALSE]
  ELSE [ep EXCEPT !.divergent = ep.divergent \/ ep.value # value, !.mask = @ \cup {version}]

(* The oracles refuse a print that is not newer than their last one.        *)
PostPrint(version, epoch, value) ==
  /\ epoch > chain.lastEpoch[version]
  /\ epoch <= Len(tape.prints) + 1 /\ epoch <= MaxPrints
  /\ LET first == epoch > Len(tape.prints)
         ep == Posted(IF first THEN Null ELSE tape.prints[epoch], version, value)
     IN tape' = [tape EXCEPT
          !.prints = IF first THEN Append(tape.prints, ep) ELSE [tape.prints EXCEPT ![epoch] = ep],
          !.ring = IF first THEN PushPrint(tape.ring, [epoch |-> epoch, at |-> now, value |-> value])
                   ELSE tape.ring]
  /\ chain' = [chain EXCEPT !.lastEpoch[version] = epoch, !.latest[version] = value]
  /\ UNCHANGED <<now, books, venue>>
-----------------------------------------------------------------------------
(* parties.ts and rollup.ts: what one finalized settlement adds up into.    *)
NewPayer == [cluster |-> Null, window |-> Null, late |-> FALSE, lastSettled |-> Null,
             volume |-> 0, benchmarked |-> 0, slip |-> 0, count |-> 0]
NewSeller == [volume |-> 0, benchmarked |-> 0, slip |-> 0, count |-> 0, payers |-> {}]
NewWindow == [volume |-> 0, human |-> 0, payers |-> {}, humans |-> {}, sandbox |-> 0]
NewDay == [volume |-> 0, human |-> 0, bmVolume |-> 0, slip |-> 0, n |-> 0, nAll |-> 0,
           nStale |-> 0, buckets |-> [b \in 0..6 |-> 0]]
NewPayerDay == [spent |-> 0, bmSpent |-> 0, slip |-> 0, overpay |-> 0, n |-> 0, nAll |-> 0]

\* Mutant: a cluster outlives its window.
ClusterOfAnyWindow(payer, window) == payer.cluster

(* A cluster is only meaningful inside the window it was minted for.        *)
ClusterFor(payer, window) == IF payer.window = window THEN payer.cluster ELSE Null

LinkSellerWindow(sw, who, cluster, amount, sandbox) ==
  [volume |-> sw.volume + amount, payers |-> sw.payers \cup {who},
   human |-> sw.human + (IF cluster = Null THEN 0 ELSE amount),
   humans |-> sw.humans \cup ({cluster} \ {Null}),
   sandbox |-> sw.sandbox
     + (IF cluster # Null /\ cluster \notin sw.humans /\ sandbox THEN 1 ELSE 0)]

RollUpDay(d, s, bucket) ==
  [volume |-> d.volume + s.amount, human |-> d.human + (IF s.human THEN s.amount ELSE 0),
   nAll |-> d.nAll + 1, nStale |-> d.nStale + (IF s.stale THEN 1 ELSE 0),
   bmVolume |-> d.bmVolume + (IF s.slip = Null THEN 0 ELSE s.amount),
   slip |-> d.slip + (IF s.slip = Null THEN 0 ELSE s.amount * s.slip),
   n |-> d.n + (IF s.slip = Null THEN 0 ELSE 1),
   buckets |-> [b \in 0..6 |-> d.buckets[b] + (IF b = bucket THEN 1 ELSE 0)]]

RollUpPayerDay(d, s) ==
  [spent |-> d.spent + s.amount, nAll |-> d.nAll + 1,
   bmSpent |-> d.bmSpent + (IF s.slip = Null THEN 0 ELSE s.amount),
   slip |-> d.slip + (IF s.slip = Null THEN 0 ELSE s.amount * s.slip),
   n |-> d.n + (IF s.slip = Null THEN 0 ELSE 1),
   overpay |-> d.overpay + (IF s.slip # Null /\ s.slip > 0
                            THEN (s.amount * s.slip) \div TenthBp ELSE 0)]
-----------------------------------------------------------------------------
(* Phase 1.  The contract: once per id, not in the future, not older than   *)
(* the payer's last, and inside the lag unless the owner opens it late.     *)
OpenSettlement(id, payer, settledAt, late) ==
  /\ books.pending[id] = Null /\ id = Cardinality({s \in Settlements : books.pending[s] # Null}) + 1
  /\ settledAt <= now /\ settledAt >= chain.lastSettledAt[payer]
  /\ late \/ now - settledAt <= MirrorLag
  /\ LET i == PickArrival(tape.ring, settledAt)
     IN books' = [books EXCEPT !.pending[id] =
          [payer |-> payer, amount |-> Paid[payer], at |-> settledAt, openedAt |-> now,
           arrival |-> IF i = 0 THEN Null ELSE tape.ring[i],
           reason |-> IF i = 0 THEN UnbenchmarkedReason(tape.ring) ELSE Null,
           finalized |-> FALSE]]
  /\ chain' = [chain EXCEPT !.lastSettledAt[payer] = settledAt]
  /\ UNCHANGED <<now, tape, venue>>

(* Phase 2: the quantity, the slippage, and every total it belongs to.      *)
FinalizeSettlement(id, quantity) ==
  /\ books.pending[id] # Null /\ ~books.pending[id].finalized
  /\ LET ps == books.pending[id]
         w  == WindowOf(now)
         payer == books.payers[ps.payer]
         cluster == ClusterFor(payer, w)
         unitPrice == ps.amount \div quantity
         slip == IF ps.arrival # Null /\ ps.arrival.value > 0
                 THEN DivRound((unitPrice - ps.arrival.value) * TenthBp, ps.arrival.value)
                 ELSE Null
         s == [amount |-> ps.amount, payer |-> ps.payer, day |-> now, window |-> w,
               arrival |-> ps.arrival, slip |-> slip, human |-> cluster # Null, cluster |-> cluster,
               stale |-> ps.arrival # Null /\ ps.at - ps.arrival.at > StaleArrival]
         Counted(total) == [total EXCEPT !.volume = total.volume + s.amount, !.count = total.count + 1,
                              !.benchmarked = total.benchmarked + (IF slip = Null THEN 0 ELSE s.amount),
                              !.slip = total.slip + (IF slip = Null THEN 0 ELSE s.amount * slip)]
     IN books' = [books EXCEPT
          !.pending[id].finalized = TRUE,
          !.settled[id] = s,
          !.payers[ps.payer] = [Counted(payer) EXCEPT !.lastSettled = w],
          !.seller = [Counted(books.seller) EXCEPT !.payers = @ \cup {ps.payer}],
          !.windows[w] = LinkSellerWindow(books.windows[w], ps.payer, cluster, s.amount,
                           cluster # Null /\ books.clusters[cluster].sandbox),
          !.days[now] = RollUpDay(books.days[now], s,
                          IF slip = Null THEN -1 ELSE BucketOf(DivRound(slip, 10))),
          !.payerDays[ps.payer][now] = RollUpPayerDay(books.payerDays[ps.payer][now], s)]
  /\ UNCHANGED <<now, chain, tape, venue>>
-----------------------------------------------------------------------------
(* HumanIdMirror.record, and the handler of its event.                      *)
ResolveHuman(wallet, cluster, provenance) ==
  LET w == WindowOf(now)  payer == books.payers[wallet] IN
  /\ chain.clusterOf[wallet][w] = Null
  /\ chain.provenance[cluster] \in {Null, provenance}
  /\ chain' = [chain EXCEPT !.clusterOf[wallet][w] = cluster, !.provenance[cluster] = provenance]
  /\ LET c == IF books.clusters[cluster] = Null
              THEN [window |-> w, sandbox |-> provenance = "sandbox", wallets |-> 0] ELSE books.clusters[cluster]
         alreadyHere == payer.cluster = cluster /\ payer.window = w
     IN books' = [books EXCEPT
          !.clusters[cluster] = [c EXCEPT !.wallets = c.wallets + (IF alreadyHere THEN 0 ELSE 1)],
          !.payers[wallet] = [payer EXCEPT !.cluster = cluster, !.window = w,
                                !.late = payer.late \/ payer.lastSettled = w]]
  /\ UNCHANGED <<now, tape, venue>>

(* ownerRebind: any window, any cluster the contract has heard of, or none; *)
(* the handler moves the payer only while it carries that window.           *)
Rebind(wallet, w, to) ==
  LET payer == books.payers[wallet]  from == chain.clusterOf[wallet][w]
      moves == payer.window = w IN
  /\ to \in ({Null} \cup {c \in Clusters : chain.provenance[c] # Null}) \ {from}
  /\ chain' = [chain EXCEPT !.clusterOf[wallet][w] = to, !.rebinds = @ + 1]
  /\ chain.rebinds < 1
  /\ books' = IF ~moves THEN books
              ELSE [books EXCEPT
                     !.clusters = [c \in Clusters |->
                        IF books.clusters[c] = Null THEN Null
                        ELSE [books.clusters[c] EXCEPT !.wallets = @
                               + (IF c = to THEN 1 ELSE 0) - (IF c = payer.cluster THEN 1 ELSE 0)]],
                     !.payers[wallet] = [payer EXCEPT !.cluster = to,
                                           !.window = IF to = Null THEN Null ELSE w]]
  /\ UNCHANGED <<now, tape, venue>>
-----------------------------------------------------------------------------
(* futures.ts: a fill at the mark of the oracle the venue reads.            *)
HandleTraded(oracle) ==
  /\ venue.fills < 1 /\ chain.latest[oracle] # Null
  /\ LET i == PickArrival(tape.ring, now)
     IN venue' = [venue EXCEPT !.fills = @ + 1,
          !.last = [epoch |-> chain.lastEpoch[oracle], mark |-> chain.latest[oracle],
                    arrival |-> IF i = 0 THEN Null ELSE tape.ring[i].epoch,
                    slip |-> IF i = 0 THEN Null
                             ELSE SlippageBp(chain.latest[oracle], tape.ring[i].value)]]
  /\ UNCHANGED <<now, chain, tape, books>>

(* Blocks may share a second.                                               *)
Tick ==
  /\ now < EndOfTime /\ now' = now + 1
  /\ UNCHANGED <<chain, tape, books, venue>>

Init ==
  /\ now = 0
  /\ chain = [lastEpoch |-> [v \in {1, 2} |-> 0], latest |-> [v \in {1, 2} |-> Null],
              lastSettledAt |-> [p \in Payers |-> 0], rebinds |-> 0,
              clusterOf |-> [p \in Payers |-> [w \in 0..WindowOf(EndOfTime) |-> Null]],
              provenance |-> [c \in Clusters |-> Null]]
  /\ tape = [prints |-> <<>>, ring |-> <<>>]
  /\ books = [pending |-> [s \in Settlements |-> Null], settled |-> [s \in Settlements |-> Null],
              payers |-> [p \in Payers |-> NewPayer], seller |-> NewSeller,
              clusters |-> [c \in Clusters |-> Null],
              windows |-> [w \in 0..WindowOf(EndOfTime) |-> NewWindow],
              days |-> [d \in 0..EndOfTime |-> NewDay],
              payerDays |-> [p \in Payers |-> [d \in 0..EndOfTime |-> NewPayerDay]]]
  /\ venue = [fills |-> 0, last |-> Null]

Settle ==
  \/ \E id \in Settlements, p \in Payers, t \in 0..now, late \in BOOLEAN :
       OpenSettlement(id, p, t, late)
  \/ \E id \in Settlements, q \in Quantities : FinalizeSettlement(id, q)
Identify ==
  \/ \E p \in Payers, c \in Clusters, k \in {"real", "sandbox"} : ResolveHuman(p, c, k)
  \/ \E p \in Payers, w \in 0..WindowOf(EndOfTime), c \in Clusters \cup {Null} : Rebind(p, w, c)
Next ==
  \/ \E v \in {1, 2}, e \in 1..MaxPrints, x \in Values : PostPrint(v, e, x)
  \/ Settle
  \/ Identify
  \/ \E v \in {1, 2} : HandleTraded(v)
  \/ Tick
Spec == Init /\ [][Next]_subgraphVars
-----------------------------------------------------------------------------
Done == {s \in Settlements : books.settled[s] # Null}
Sum(S, f(_)) == MapThenSumSet(f, S)
AmountOf(s) == books.settled[s].amount
Days == 0..EndOfTime
Windows == 0..WindowOf(EndOfTime)

(* The print a settlement is measured against is the newest one anybody had *)
(* posted when its payer paid, whenever it is mirrored, however late it is  *)
(* finalized and whatever the second oracle posts later; it goes without a  *)
(* benchmark only when no print preceded it or the ring has rolled past it. *)
(* (A print landing later in the very second of the payment is no longer    *)
(* seen by one already opened.)  A futures fill shows slippage only while   *)
(* the venue's oracle is behind, or in disagreement with, the first posting *)
(* of the print - the zero futures.ts calls structural is so only then.     *)
ArrivalIsWhatThePayerSaw ==
  /\ \A s \in Settlements : LET ps == books.pending[s] IN
       ps # Null /\ ps.openedAt > ps.at =>
         LET seen == {e \in DOMAIN tape.prints : tape.prints[e].at <= ps.at}
             since == {e \in DOMAIN tape.prints : tape.prints[e].at > ps.at}
         IN IF ps.arrival = Null
            THEN seen = {} \/ Cardinality(since) >= RingDepth
            ELSE ps.arrival.epoch = Max(seen)
                 /\ ps.arrival.value = tape.prints[ps.arrival.epoch].value
                 /\ books.settled[s] # Null => books.settled[s].arrival = ps.arrival
  /\ LET f == venue.last IN
       f # Null /\ f.slip \notin {Null, 0} =>
         f.epoch # f.arrival \/ tape.prints[f.arrival].divergent

(* Every settlement is counted once in its seller's, its payer's, its day's *)
(* and its rotation window's figures, so the published totals agree with    *)
(* each other; unbenchmarked ones are in no bucket.  Without a correction   *)
(* by the owner, human flow is flow of wallets resolved in that window, no  *)
(* window has more humans than payers, a cluster's wallets are the chain's, *)
(* and flow that was resolved too late to be stamped is flagged.            *)
RatingsAddUp ==
  /\ LET volume == Sum(Done, AmountOf)
         priced == {s \in Done : books.settled[s].slip # Null}
         slip == Sum(priced, LAMBDA s : books.settled[s].amount * books.settled[s].slip)
     IN /\ books.seller.volume = volume /\ books.seller.count = Cardinality(Done)
        /\ Sum(Payers, LAMBDA p : books.payers[p].volume) = volume
        /\ Sum(Days, LAMBDA d : books.days[d].volume) = volume
        /\ Sum(Windows, LAMBDA w : books.windows[w].volume) = volume
        /\ Sum(Payers, LAMBDA p : Sum(Days, LAMBDA d : books.payerDays[p][d].spent)) = volume
        /\ books.seller.slip = slip /\ Sum(Days, LAMBDA d : books.days[d].slip) = slip
        /\ Sum(Payers, LAMBDA p : Sum(Days, LAMBDA d : books.payerDays[p][d].slip)) = slip
        /\ Sum(Days, LAMBDA d : Sum(0..6, LAMBDA b : books.days[d].buckets[b])) = Cardinality(priced)
        /\ Sum(Days, LAMBDA d : books.days[d].human) = Sum(Windows, LAMBDA w : books.windows[w].human)
  /\ chain.rebinds = 0 =>
       /\ \A s \in Done : LET t == books.settled[s]  c == chain.clusterOf[t.payer][t.window] IN
            IF t.human THEN c = t.cluster ELSE c = Null \/ books.payers[t.payer].late
       /\ \A w \in Windows : Cardinality(books.windows[w].humans) <= Cardinality(books.windows[w].payers)
       /\ \A c \in Clusters : books.clusters[c] # Null => books.clusters[c].wallets =
            Cardinality({<<p, w>> \in Payers \X Windows : chain.clusterOf[p][w] = c})
=============================================================================
