--------------------------- MODULE HumanGateProofs ---------------------------
(***************************************************************************)
(* The gate pays on its treasurer's word only, and its ledger tells the    *)
(* chain, for any number of payments, checkpoints and restarts.  What ties *)
(* the two sides together is who is busy with a checkpoint: before it is   *)
(* parked nobody is, while it is open nothing is on its way, and once the  *)
(* worker has finished with it for another reason than a late receipt      *)
(* nothing is on its way either.                                           *)
(***************************************************************************)
EXTENDS HumanGate, TLAPS

\* Its payment was made or is on its way.
Outstanding(i) == i \in sent \/ chain[i].status = "consumed"

Busy(i) == worker.pc # "idle" /\ worker.id = i

Filed(i) == \E p \in log : p.id = i

Untouched(i) == ~Outstanding(i) /\ ~Filed(i) /\ ~Busy(i)

UnopenedIsUntouched ==
    \A i \in Ids : chain[i].status = "none" =>
        gate[i] = "unknown" /\ Untouched(i) /\ \A r \in Requests : opening[r] # i

OpeningIsUntouched ==
    /\ \A r \in Requests : opening[r] # 0 => gate[opening[r]] = "unknown" /\ Untouched(opening[r])
    /\ \A q, r \in Requests : opening[q] = opening[r] /\ opening[r] # 0 => q = r

OpenIsUntouched == \A i \in Ids : gate[i] = "open" => Untouched(i)

WorkerHoldsItsCheckpoint ==
    /\ worker.pc # "idle" => ~Filed(worker.id)
    /\ worker.pc \in {"claimed", "waiting"} => answer[worker.id] = "treasurer" /\ worker.id \in redeemed
    /\ worker.pc = "claimed" => ~Outstanding(worker.id)
    /\ worker.pc = "finish" /\ worker.why # "late" => ~Outstanding(worker.id)

WordIsGiven == \A i \in Ids : Outstanding(i) => answer[i] = "treasurer" /\ i \in redeemed

PaidOnce ==
    \A i, j \in Ids : /\ chain[i].status = "consumed" /\ chain[j].status = "consumed"
                      /\ chain[i].req = chain[j].req
                      => i = j

RowsAreTrue ==
    /\ \A p, q \in log : p.id = q.id => p = q
    /\ \A p \in log : p.recorded => chain[p.id].status = p.event
    /\ \A p \in log : p.event # "consumed" /\ Outstanding(p.id) => p.why = "late"

IInv ==
    /\ TypeOK /\ UnopenedIsUntouched /\ OpeningIsUntouched /\ OpenIsUntouched
    /\ WorkerHoldsItsCheckpoint /\ WordIsGiven /\ PaidOnce /\ RowsAreTrue

\* A checkpoint whose time runs out keeps the type of a checkpoint.
LEMMA LiveKeepsType ==
    ASSUME NEW R, NEW S, NEW c \in [req : R, status : S, live : BOOLEAN], NEW b \in BOOLEAN
    PROVE  [c EXCEPT !.live = b] \in [req : R, status : S, live : BOOLEAN]
OBVIOUS

\* A new id is nobody's: it was never in the gate, on its way or in the ledger.
LEMMA OpenParksKeeps ==
    ASSUME NEW r \in Requests, NEW i \in Ids, IInv, OpenParks(r, i) PROVE IInv'
<1>1. TypeOK'
  BY DEF IInv, TypeOK, Ids, Refusals, Outcomes, Reasons, OpenParks
<1>2. UnopenedIsUntouched'
  BY DEF IInv, TypeOK, UnopenedIsUntouched, Untouched, Outstanding, Filed, Busy, OpenParks, IsNext
<1>3. OpeningIsUntouched'
  BY DEF IInv, TypeOK, OpeningIsUntouched, UnopenedIsUntouched, Untouched, Outstanding, Filed,
     Busy, Ids, OpenParks, IsNext
<1>4. OpenIsUntouched'
  BY DEF IInv, TypeOK, OpenIsUntouched, Untouched, Outstanding, Filed, Busy, OpenParks, IsNext
<1>5. WorkerHoldsItsCheckpoint'
  BY DEF IInv, TypeOK, WorkerHoldsItsCheckpoint, Outstanding, Filed, OpenParks, IsNext
<1>6. WordIsGiven'
  BY DEF IInv, TypeOK, WordIsGiven, Outstanding, OpenParks, IsNext
<1>7. PaidOnce'
  BY DEF IInv, TypeOK, PaidOnce, OpenParks
<1>8. RowsAreTrue'
  BY DEF IInv, TypeOK, RowsAreTrue, UnopenedIsUntouched, Outstanding, Untouched, Filed, Busy,
     Ids, OpenParks, IsNext
<1> QED BY <1>1, <1>2, <1>3, <1>4, <1>5, <1>6, <1>7, <1>8 DEF IInv

\* The gate takes up a checkpoint nothing has happened to yet.
LEMMA OpenStartsKeeps ==
    ASSUME NEW r \in Requests, IInv, OpenStarts(r) PROVE IInv'
<1>1. TypeOK'
  BY DEF IInv, TypeOK, Ids, Refusals, Outcomes, Reasons, OpenStarts
<1>2. UnopenedIsUntouched'
  BY DEF IInv, TypeOK, UnopenedIsUntouched, Untouched, Outstanding, Filed, Busy, Ids, OpenStarts
<1>3. OpeningIsUntouched'
  BY DEF IInv, TypeOK, OpeningIsUntouched, Untouched, Outstanding, Filed, Busy, OpenStarts
<1>4. OpenIsUntouched'
  BY DEF IInv, TypeOK, OpenIsUntouched, OpeningIsUntouched, Untouched, Outstanding, Filed,
     Busy, OpenStarts
<1>5. WorkerHoldsItsCheckpoint'
  BY DEF IInv, TypeOK, WorkerHoldsItsCheckpoint, OpeningIsUntouched, Outstanding, Filed,
     Untouched, Busy, OpenStarts
<1>6. WordIsGiven'
  BY DEF IInv, TypeOK, WordIsGiven, OpeningIsUntouched, Outstanding, Untouched, Filed, Busy,
     OpenStarts
<1>7. PaidOnce' /\ RowsAreTrue'
  BY DEF IInv, OpenStarts, PaidOnce, RowsAreTrue, Outstanding
<1> QED BY <1>1, <1>2, <1>3, <1>4, <1>5, <1>6, <1>7 DEF IInv

\* A checkpoint that open() leaves behind is never taken up.
LEMMA OpenRaisesKeeps ==
    ASSUME NEW r \in Requests, IInv, OpenRaises(r) PROVE IInv'
<1>1. TypeOK'
  BY DEF IInv, TypeOK, Ids, Refusals, Outcomes, Reasons, OpenRaises
<1>2. UnopenedIsUntouched'
  BY DEF IInv, TypeOK, UnopenedIsUntouched, Untouched, Outstanding, Filed, Busy, Ids, OpenRaises
<1>3. OpeningIsUntouched'
  BY DEF IInv, TypeOK, OpeningIsUntouched, Untouched, Outstanding, Filed, Busy, OpenRaises
<1>4. OpenIsUntouched' /\ WorkerHoldsItsCheckpoint' /\ WordIsGiven' /\ PaidOnce' /\ RowsAreTrue'
  BY DEF IInv, OpenRaises, OpenIsUntouched, Untouched, Outstanding, Filed, Busy,
     WorkerHoldsItsCheckpoint, WordIsGiven, PaidOnce, RowsAreTrue
<1> QED BY <1>1, <1>2, <1>3, <1>4 DEF IInv

\* A word once given is not taken back.
LEMMA PersonAnswersKeeps ==
    ASSUME NEW i \in Ids, NEW a \in {"no", "lapsed", "treasurer", "stranger"}, IInv, PersonAnswers(i, a) PROVE IInv'
<1>1. TypeOK'
  BY DEF IInv, TypeOK, Ids, Refusals, Outcomes, Reasons, PersonAnswers
<1>2. WorkerHoldsItsCheckpoint'
  BY DEF IInv, TypeOK, WorkerHoldsItsCheckpoint, Outstanding, Filed, PersonAnswers
<1>3. WordIsGiven'
  BY DEF IInv, TypeOK, WordIsGiven, Outstanding, PersonAnswers
<1>4. UnopenedIsUntouched' /\ OpeningIsUntouched' /\ OpenIsUntouched' /\ PaidOnce' /\ RowsAreTrue'
  BY DEF IInv, PersonAnswers, UnopenedIsUntouched, Untouched, Outstanding, Filed, Busy,
     OpeningIsUntouched, OpenIsUntouched, PaidOnce, RowsAreTrue
<1> QED BY <1>1, <1>2, <1>3, <1>4 DEF IInv

\* What the worker finishes was open, so that nothing of it is on its way.
LEMMA PatienceEndsKeeps ==
    ASSUME NEW i \in Ids, IInv, PatienceEnds(i) PROVE IInv'
<1>1. TypeOK'
  BY DEF IInv, TypeOK, Ids, Refusals, Outcomes, Reasons, PatienceEnds, Due, Finishes
<1>2. UnopenedIsUntouched'
  BY DEF IInv, TypeOK, UnopenedIsUntouched, Untouched, Outstanding, Filed, Busy, PatienceEnds,
     Due, Finishes
<1>3. OpeningIsUntouched'
  BY DEF IInv, TypeOK, OpeningIsUntouched, Untouched, Outstanding, Filed, Busy, PatienceEnds,
     Due, Finishes
<1>4. OpenIsUntouched'
  BY DEF IInv, TypeOK, OpenIsUntouched, Untouched, Outstanding, Filed, Busy, PatienceEnds, Due,
     Finishes
<1>5. WorkerHoldsItsCheckpoint'
  BY DEF IInv, TypeOK, WorkerHoldsItsCheckpoint, OpenIsUntouched, Outstanding, Filed,
     Untouched, Busy, PatienceEnds, Due, Finishes
<1>6. WordIsGiven' /\ PaidOnce' /\ RowsAreTrue'
  BY DEF IInv, PatienceEnds, WordIsGiven, Outstanding, PaidOnce, RowsAreTrue
<1> QED BY <1>1, <1>2, <1>3, <1>4, <1>5, <1>6 DEF IInv

\* The same when the provider stops the attempt.
LEMMA PollStopsKeeps ==
    ASSUME NEW i \in Ids, NEW o \in Refusals, IInv, PollStops(i, o) PROVE IInv'
<1>1. TypeOK'
  BY DEF IInv, TypeOK, Ids, Refusals, Outcomes, Reasons, PollStops, Due, Finishes
<1>2. UnopenedIsUntouched'
  BY DEF IInv, TypeOK, UnopenedIsUntouched, Untouched, Outstanding, Filed, Busy, PollStops,
     Due, Finishes
<1>3. OpeningIsUntouched'
  BY DEF IInv, TypeOK, OpeningIsUntouched, Untouched, Outstanding, Filed, Busy, PollStops, Due,
     Finishes
<1>4. OpenIsUntouched'
  BY DEF IInv, TypeOK, OpenIsUntouched, Untouched, Outstanding, Filed, Busy, Refusals,
     PollStops, Due, Finishes
<1>5. WorkerHoldsItsCheckpoint'
  BY DEF IInv, TypeOK, WorkerHoldsItsCheckpoint, OpenIsUntouched, Outstanding, Filed,
     Untouched, Busy, PollStops, Due, Finishes
<1>6. WordIsGiven' /\ PaidOnce' /\ RowsAreTrue'
  BY DEF IInv, PollStops, WordIsGiven, Outstanding, PaidOnce, RowsAreTrue
<1> QED BY <1>1, <1>2, <1>3, <1>4, <1>5, <1>6 DEF IInv

\* A token that is lost changes nothing but that it is given out.
LEMMA PollThrowsKeeps ==
    ASSUME NEW i \in Ids, IInv, PollThrows(i) PROVE IInv'
<1>1. TypeOK'
  BY DEF IInv, TypeOK, Ids, Refusals, Outcomes, Reasons, PollThrows, Due, HasToken
<1>2. WorkerHoldsItsCheckpoint'
  BY DEF IInv, TypeOK, WorkerHoldsItsCheckpoint, Outstanding, Filed, PollThrows, Due, HasToken
<1>3. WordIsGiven'
  BY DEF IInv, TypeOK, WordIsGiven, Outstanding, PollThrows, Due, HasToken
<1>4. UnopenedIsUntouched' /\ OpeningIsUntouched' /\ OpenIsUntouched' /\ PaidOnce' /\ RowsAreTrue'
  BY DEF IInv, PollThrows, UnopenedIsUntouched, Untouched, Outstanding, Filed, Busy,
     OpeningIsUntouched, OpenIsUntouched, PaidOnce, RowsAreTrue
<1> QED BY <1>1, <1>2, <1>3, <1>4 DEF IInv

\* A proof that does not hold finishes an open checkpoint.
LEMMA BadProofKeeps ==
    ASSUME NEW i \in Ids, IInv, BadProof(i) PROVE IInv'
<1>1. TypeOK'
  BY DEF IInv, TypeOK, Ids, Refusals, Outcomes, Reasons, BadProof, Due, HasToken, Finishes
<1>2. UnopenedIsUntouched'
  BY DEF IInv, TypeOK, UnopenedIsUntouched, Untouched, Outstanding, Filed, Busy, BadProof, Due,
     HasToken, Finishes
<1>3. OpeningIsUntouched'
  BY DEF IInv, TypeOK, OpeningIsUntouched, Untouched, Outstanding, Filed, Busy, BadProof, Due,
     HasToken, Finishes
<1>4. OpenIsUntouched'
  BY DEF IInv, TypeOK, OpenIsUntouched, Untouched, Outstanding, Filed, Busy, BadProof, Due,
     HasToken, Finishes
<1>5. WorkerHoldsItsCheckpoint'
  BY DEF IInv, TypeOK, WorkerHoldsItsCheckpoint, OpenIsUntouched, Outstanding, Filed,
     Untouched, Busy, BadProof, Due, HasToken, Finishes
<1>6. WordIsGiven'
  BY DEF IInv, TypeOK, WordIsGiven, Outstanding, BadProof, Due, HasToken, Finishes
<1>7. PaidOnce' /\ RowsAreTrue'
  BY DEF IInv, BadProof, PaidOnce, RowsAreTrue, Outstanding
<1> QED BY <1>1, <1>2, <1>3, <1>4, <1>5, <1>6, <1>7 DEF IInv

\* A claim is made on the treasurer's token, of an open checkpoint.
LEMMA ClaimsKeeps ==
    ASSUME NEW i \in Ids, IInv, Claims(i) PROVE IInv'
<1>1. TypeOK'
  <2>1. worker' \in [pc : {"idle", "claimed", "waiting", "finish"}, id : Ids \union {0},
                     outcome : Refusals, why : Reasons] /\ worker'.id \in Ids
    BY DEF IInv, TypeOK, Claims
  <2> QED BY <2>1 DEF IInv, TypeOK, Claims
<1>2. UnopenedIsUntouched'
  BY DEF IInv, TypeOK, UnopenedIsUntouched, Untouched, Outstanding, Filed, Busy, Claims, Due,
     HasToken
<1>3. OpeningIsUntouched'
  BY DEF IInv, TypeOK, OpeningIsUntouched, Untouched, Outstanding, Filed, Busy, Claims, Due,
     HasToken
<1>4. OpenIsUntouched'
  BY DEF IInv, TypeOK, OpenIsUntouched, Untouched, Outstanding, Filed, Busy, Claims, Due,
     HasToken
<1>5. WorkerHoldsItsCheckpoint'
  BY DEF IInv, TypeOK, WorkerHoldsItsCheckpoint, OpenIsUntouched, Outstanding, Filed,
     Untouched, Busy, Claims, Due, HasToken
<1>6. WordIsGiven'
  BY DEF IInv, TypeOK, WordIsGiven, Outstanding, Claims, Due, HasToken
<1>7. PaidOnce' /\ RowsAreTrue'
  BY DEF IInv, Claims, PaidOnce, RowsAreTrue, Outstanding
<1> QED BY <1>1, <1>2, <1>3, <1>4, <1>5, <1>6, <1>7 DEF IInv

\* Only what is claimed is sent.
LEMMA SendsKeeps ==
    ASSUME IInv, Sends PROVE IInv'
<1>1. TypeOK'
  BY DEF IInv, TypeOK, Ids, Refusals, Outcomes, Reasons, Sends, Payable
<1>2. UnopenedIsUntouched'
  BY DEF IInv, TypeOK, UnopenedIsUntouched, Untouched, Outstanding, Filed, Busy, Sends,
     Payable, Paid
<1>3. OpeningIsUntouched'
  BY DEF IInv, TypeOK, OpeningIsUntouched, Untouched, Outstanding, Filed, Busy, Sends, Payable
<1>4. OpenIsUntouched'
  BY DEF IInv, TypeOK, OpenIsUntouched, Untouched, Outstanding, Filed, Busy, Sends, Payable
<1>5. WorkerHoldsItsCheckpoint'
  BY DEF IInv, TypeOK, WorkerHoldsItsCheckpoint, Outstanding, Filed, Sends, Payable
<1>6. WordIsGiven'
  BY DEF IInv, TypeOK, WordIsGiven, WorkerHoldsItsCheckpoint, Outstanding, Filed, Sends,
     Payable, Paid
<1>7. RowsAreTrue'
  BY DEF IInv, TypeOK, RowsAreTrue, WorkerHoldsItsCheckpoint, Outstanding, Filed, Sends,
     Payable, Paid
<1>8. PaidOnce'
  BY DEF IInv, Sends, PaidOnce
<1> QED BY <1>1, <1>2, <1>3, <1>4, <1>5, <1>6, <1>7, <1>8 DEF IInv

\* What was not sent is not on its way.
LEMMA SendIsRefusedKeeps ==
    ASSUME IInv, SendIsRefused PROVE IInv'
<1>1. TypeOK'
  BY DEF IInv, TypeOK, Ids, Refusals, Outcomes, Reasons, SendIsRefused, Finishes
<1>2. UnopenedIsUntouched'
  BY DEF IInv, TypeOK, UnopenedIsUntouched, Untouched, Outstanding, Filed, Busy, SendIsRefused,
     Finishes
<1>3. OpeningIsUntouched'
  BY DEF IInv, TypeOK, OpeningIsUntouched, Untouched, Outstanding, Filed, Busy, SendIsRefused,
     Finishes
<1>4. OpenIsUntouched'
  BY DEF IInv, TypeOK, OpenIsUntouched, Untouched, Outstanding, Filed, Busy, SendIsRefused,
     Finishes
<1>5. WorkerHoldsItsCheckpoint'
  BY DEF IInv, TypeOK, WorkerHoldsItsCheckpoint, Outstanding, Filed, SendIsRefused, Finishes
<1>6. WordIsGiven' /\ PaidOnce' /\ RowsAreTrue'
  BY DEF IInv, SendIsRefused, WordIsGiven, Outstanding, PaidOnce, RowsAreTrue
<1> QED BY <1>1, <1>2, <1>3, <1>4, <1>5, <1>6 DEF IInv

\* The vault pays what was on its way, and a request once.
LEMMA ExecuteMinedKeeps ==
    ASSUME NEW i \in Ids, IInv, ExecuteMined(i) PROVE IInv'
<1>1. TypeOK'
  BY DEF IInv, TypeOK, Ids, Refusals, Outcomes, Reasons, ExecuteMined, Payable
<1>2. UnopenedIsUntouched'
  BY DEF IInv, TypeOK, UnopenedIsUntouched, Untouched, Outstanding, Filed, Busy, ExecuteMined,
     Payable
<1>3. OpeningIsUntouched'
  BY DEF IInv, TypeOK, OpeningIsUntouched, Untouched, Outstanding, Filed, Busy, ExecuteMined,
     Payable
<1>4. OpenIsUntouched'
  BY DEF IInv, TypeOK, OpenIsUntouched, Untouched, Outstanding, Filed, Busy, ExecuteMined,
     Payable
<1>5. WorkerHoldsItsCheckpoint'
  BY DEF IInv, TypeOK, WorkerHoldsItsCheckpoint, Outstanding, Filed, ExecuteMined, Payable
<1>6. WordIsGiven'
  BY DEF IInv, TypeOK, WordIsGiven, Outstanding, ExecuteMined, Payable
<1>7. PaidOnce'
  BY DEF IInv, TypeOK, PaidOnce, ExecuteMined, Payable, Paid
<1>8. RowsAreTrue'
  BY DEF IInv, TypeOK, RowsAreTrue, Outstanding, Outcomes, Refusals, ExecuteMined, Payable
<1> QED BY <1>1, <1>2, <1>3, <1>4, <1>5, <1>6, <1>7, <1>8 DEF IInv

\* A transaction that reverts or is dropped pays nothing.
LEMMA ExecuteRevertsKeeps ==
    ASSUME NEW i \in Ids, IInv, ExecuteReverts(i) PROVE IInv'
<1>1. TypeOK'
  BY DEF IInv, TypeOK, Ids, Refusals, Outcomes, Reasons, ExecuteReverts
<1>2. UnopenedIsUntouched'
  BY DEF IInv, TypeOK, UnopenedIsUntouched, Untouched, Outstanding, Filed, Busy, ExecuteReverts
<1>3. OpeningIsUntouched'
  BY DEF IInv, TypeOK, OpeningIsUntouched, Untouched, Outstanding, Filed, Busy, ExecuteReverts
<1>4. OpenIsUntouched'
  BY DEF IInv, TypeOK, OpenIsUntouched, Untouched, Outstanding, Filed, Busy, ExecuteReverts
<1>5. WorkerHoldsItsCheckpoint'
  BY DEF IInv, TypeOK, WorkerHoldsItsCheckpoint, Outstanding, Filed, ExecuteReverts
<1>6. WordIsGiven'
  BY DEF IInv, TypeOK, WordIsGiven, Outstanding, ExecuteReverts
<1>7. RowsAreTrue'
  BY DEF IInv, TypeOK, RowsAreTrue, Outstanding, ExecuteReverts
<1>8. PaidOnce'
  BY DEF IInv, ExecuteReverts, PaidOnce
<1> QED BY <1>1, <1>2, <1>3, <1>4, <1>5, <1>6, <1>7, <1>8 DEF IInv

\* A deadline changes no status.
LEMMA ChainExpiresKeeps ==
    ASSUME NEW i \in Ids, IInv, ChainExpires(i) PROVE IInv'
<1>1. TypeOK'
  <2>1. [chain[i] EXCEPT !.live = FALSE] \in
            [req : Requests \union {Nobody}, status : {"none", "open"} \union Outcomes, live : BOOLEAN]
    <3> DEFINE S == {"none", "open"} \union Outcomes
    <3> DEFINE R == Requests \union {Nobody}
    <3>1. chain[i] \in [req : R, status : S, live : BOOLEAN]
      BY DEF IInv, TypeOK
    <3> HIDE DEF S, R
    <3>2. [chain[i] EXCEPT !.live = FALSE] \in [req : R, status : S, live : BOOLEAN]
      BY <3>1, LiveKeepsType
    <3> QED BY <3>2 DEF S, R
  <2>2. chain' = [chain EXCEPT ![i] = [chain[i] EXCEPT !.live = FALSE]]
    BY DEF ChainExpires
  <2> QED BY <2>1, <2>2 DEF IInv, TypeOK, ChainExpires
<1>2. UnopenedIsUntouched'
  BY DEF IInv, TypeOK, UnopenedIsUntouched, Untouched, Outstanding, Filed, Busy, ChainExpires
<1>3. OpeningIsUntouched'
  BY DEF IInv, TypeOK, OpeningIsUntouched, Untouched, Outstanding, Filed, Busy, ChainExpires
<1>4. OpenIsUntouched'
  BY DEF IInv, TypeOK, OpenIsUntouched, Untouched, Outstanding, Filed, Busy, ChainExpires
<1>5. WorkerHoldsItsCheckpoint'
  BY DEF IInv, TypeOK, WorkerHoldsItsCheckpoint, Outstanding, Filed, ChainExpires
<1>6. WordIsGiven'
  BY DEF IInv, TypeOK, WordIsGiven, Outstanding, ChainExpires
<1>7. PaidOnce'
  BY DEF IInv, TypeOK, PaidOnce, ChainExpires
<1>8. RowsAreTrue'
  BY DEF IInv, TypeOK, RowsAreTrue, Outstanding, ChainExpires
<1> QED BY <1>1, <1>2, <1>3, <1>4, <1>5, <1>6, <1>7, <1>8 DEF IInv

\* The row of a payment follows its receipt.
LEMMA ReceiptPaidKeeps ==
    ASSUME IInv, ReceiptPaid PROVE IInv'
<1>1. TypeOK'
  <2>1. worker.id \in Ids
    BY DEF IInv, TypeOK, ReceiptPaid
  <2> DEFINE paid == [id |-> worker.id, event |-> "consumed", recorded |-> TRUE, why |-> "approved"]
  <2>2. log' \subseteq [id : Ids, event : Outcomes, recorded : BOOLEAN, why : Reasons]
    <3>1. paid \in [id : Ids, event : Outcomes, recorded : BOOLEAN, why : Reasons]
      BY <2>1 DEF Outcomes, Reasons
    <3>2. log' = log \union {paid} \/ log' = log
      BY DEF Appends, ReceiptPaid
    <3> QED BY <3>1, <3>2 DEF IInv, TypeOK
  <2>3. worker' \in [pc : {"idle", "claimed", "waiting", "finish"}, id : Ids \union {0},
                     outcome : Refusals, why : Reasons] /\ worker'.pc = "idle"
    BY DEF Idle, Refusals, Reasons, ReceiptPaid
  <2>4. gate' \in [Ids -> {"unknown", "open", "claimed"} \union Outcomes]
    BY <2>1 DEF IInv, TypeOK, Outcomes, ReceiptPaid
  <2> QED BY <2>2, <2>3, <2>4 DEF IInv, TypeOK, ReceiptPaid
<1>2. UnopenedIsUntouched'
  BY DEF IInv, TypeOK, UnopenedIsUntouched, Untouched, Outstanding, Filed, Busy, ReceiptPaid,
     Appends, Idle
<1>3. OpeningIsUntouched'
  BY DEF IInv, TypeOK, OpeningIsUntouched, Untouched, Outstanding, Filed, Busy, ReceiptPaid,
     Appends, Idle
<1>4. OpenIsUntouched'
  BY DEF IInv, TypeOK, OpenIsUntouched, Untouched, Outstanding, Filed, Busy, ReceiptPaid,
     Appends, Idle
<1>5. WorkerHoldsItsCheckpoint'
  BY DEF IInv, TypeOK, WorkerHoldsItsCheckpoint, Outstanding, Filed, ReceiptPaid, Appends, Idle
<1>6. RowsAreTrue'
  <2> DEFINE paid == [id |-> worker.id, event |-> "consumed", recorded |-> TRUE, why |-> "approved"]
  <2>1. \A p \in log : p.id # worker.id
    BY DEF IInv, WorkerHoldsItsCheckpoint, Filed, ReceiptPaid
  <2>2. \A p \in log' : p \in log \/ p = paid
    BY DEF Appends, ReceiptPaid
  <2>3. paid.id = worker.id /\ paid.event = "consumed" /\ chain[worker.id].status = "consumed"
    BY DEF ReceiptPaid
  <2>4. chain' = chain /\ sent' = sent
    BY DEF ReceiptPaid
  <2> HIDE DEF paid
  <2>5. \A p, q \in log' : p.id = q.id => p = q
    BY <2>1, <2>2, <2>3 DEF IInv, RowsAreTrue
  <2>6. \A p \in log' : p.recorded => chain[p.id].status = p.event
    BY <2>2, <2>3 DEF IInv, RowsAreTrue
  <2>7. \A p \in log' : p.event # "consumed" /\ Outstanding(p.id) => p.why = "late"
    BY <2>2, <2>3 DEF IInv, RowsAreTrue
  <2> QED BY <2>4, <2>5, <2>6, <2>7 DEF RowsAreTrue, Outstanding
<1>7. WordIsGiven' /\ PaidOnce'
  BY DEF IInv, ReceiptPaid, WordIsGiven, Outstanding, PaidOnce
<1> QED BY <1>1, <1>2, <1>3, <1>4, <1>5, <1>6, <1>7 DEF IInv

\* What has a receipt is not on its way.
LEMMA ReceiptRevertedKeeps ==
    ASSUME IInv, ReceiptReverted PROVE IInv'
<1>1. TypeOK'
  BY DEF IInv, TypeOK, Ids, Refusals, Outcomes, Reasons, ReceiptReverted, Finishes
<1>2. UnopenedIsUntouched'
  BY DEF IInv, TypeOK, UnopenedIsUntouched, Untouched, Outstanding, Filed, Busy,
     ReceiptReverted, Finishes
<1>3. OpeningIsUntouched'
  BY DEF IInv, TypeOK, OpeningIsUntouched, Untouched, Outstanding, Filed, Busy,
     ReceiptReverted, Finishes
<1>4. OpenIsUntouched'
  BY DEF IInv, TypeOK, OpenIsUntouched, Untouched, Outstanding, Filed, Busy, ReceiptReverted,
     Finishes
<1>5. WorkerHoldsItsCheckpoint'
  BY DEF IInv, TypeOK, WorkerHoldsItsCheckpoint, Outstanding, Filed, ReceiptReverted, Finishes
<1>6. WordIsGiven' /\ PaidOnce' /\ RowsAreTrue'
  BY DEF IInv, ReceiptReverted, WordIsGiven, Outstanding, PaidOnce, RowsAreTrue
<1> QED BY <1>1, <1>2, <1>3, <1>4, <1>5, <1>6 DEF IInv

\* Only a late receipt finishes what may be on its way.
LEMMA ReceiptLateKeeps ==
    ASSUME IInv, ReceiptLate PROVE IInv'
<1>1. TypeOK'
  BY DEF IInv, TypeOK, Ids, Refusals, Outcomes, Reasons, ReceiptLate, Finishes
<1>2. UnopenedIsUntouched'
  BY DEF IInv, TypeOK, UnopenedIsUntouched, Untouched, Outstanding, Filed, Busy, ReceiptLate,
     Finishes
<1>3. OpeningIsUntouched'
  BY DEF IInv, TypeOK, OpeningIsUntouched, Untouched, Outstanding, Filed, Busy, ReceiptLate,
     Finishes
<1>4. OpenIsUntouched'
  BY DEF IInv, TypeOK, OpenIsUntouched, Untouched, Outstanding, Filed, Busy, ReceiptLate,
     Finishes
<1>5. WorkerHoldsItsCheckpoint'
  BY DEF IInv, TypeOK, WorkerHoldsItsCheckpoint, Outstanding, Filed, ReceiptLate, Finishes
<1>6. WordIsGiven' /\ PaidOnce' /\ RowsAreTrue'
  BY DEF IInv, ReceiptLate, WordIsGiven, Outstanding, PaidOnce, RowsAreTrue
<1> QED BY <1>1, <1>2, <1>3, <1>4, <1>5, <1>6 DEF IInv

\* A recorded refusal is the chain's, and takes the place of what was on its way.
LEMMA ResolvesKeeps ==
    ASSUME IInv, Resolves PROVE IInv'
<1>1. TypeOK'
  <2>1. Row(TRUE) \in [id : Ids, event : Outcomes, recorded : BOOLEAN, why : Reasons]
    BY DEF IInv, TypeOK, Row, Outcomes, Resolves
  <2>2. log' \subseteq [id : Ids, event : Outcomes, recorded : BOOLEAN, why : Reasons]
    BY <2>1 DEF IInv, TypeOK, Appends, Resolves
  <2>3. worker' \in [pc : {"idle", "claimed", "waiting", "finish"}, id : Ids \union {0},
                     outcome : Refusals, why : Reasons] /\ worker'.pc = "idle"
    BY DEF Idle, Refusals, Reasons, Resolves
  <2>4. chain' \in [Ids -> [req : Requests \union {Nobody}, status : {"none", "open"} \union Outcomes,
                            live : BOOLEAN]] /\ sent' \subseteq Ids
    BY DEF IInv, TypeOK, Resolution, Outcomes, Resolves
  <2> QED BY <2>2, <2>3, <2>4 DEF IInv, TypeOK, Resolves
<1>2. UnopenedIsUntouched'
  BY DEF IInv, TypeOK, UnopenedIsUntouched, Untouched, Outstanding, Filed, Busy, Refusals,
     Resolves, Resolution, Row, Appends, Idle
<1>3. OpeningIsUntouched'
  BY DEF IInv, TypeOK, OpeningIsUntouched, Untouched, Outstanding, Filed, Busy, Resolves,
     Resolution, Row, Appends, Idle
<1>4. OpenIsUntouched'
  BY DEF IInv, TypeOK, OpenIsUntouched, Untouched, Outstanding, Filed, Busy, Resolves,
     Resolution, Row, Appends, Idle
<1>5. WorkerHoldsItsCheckpoint'
  BY DEF IInv, TypeOK, WorkerHoldsItsCheckpoint, Outstanding, Filed, Resolves, Resolution, Row,
     Appends, Idle
<1>6. WordIsGiven'
  BY DEF IInv, TypeOK, WordIsGiven, Outstanding, Refusals, Resolves, Resolution, Row, Appends,
     Idle
<1>7. PaidOnce'
  BY DEF IInv, TypeOK, PaidOnce, Refusals, Resolves, Resolution, Row, Appends, Idle
<1>8. RowsAreTrue'
  <2>1. \A p \in log : p.id # worker.id
    BY DEF IInv, WorkerHoldsItsCheckpoint, Filed, Resolves
  <2>2. \A p \in log' : p \in log \/ p = Row(TRUE)
    BY DEF Appends, Resolves
  <2>3. Row(TRUE).id = worker.id /\ Row(TRUE).event = worker.outcome /\ Row(TRUE).why = worker.why
        /\ Row(TRUE).recorded = TRUE
    BY DEF Row
  <2>4. worker.id \in Ids /\ worker.outcome \in Refusals /\ \A p \in log : p.id \in Ids
    BY DEF IInv, TypeOK, Resolves
  <2>5. \A j \in Ids : j # worker.id => chain'[j] = chain[j] /\ (j \in sent' <=> j \in sent)
    BY <2>4 DEF IInv, TypeOK, Resolution, Resolves
  <2>6. \A p, q \in log' : p.id = q.id => p = q
    BY <2>1, <2>2, <2>3 DEF IInv, RowsAreTrue
  <2>7. ASSUME NEW p \in log
        PROVE  /\ p.recorded => chain'[p.id].status = p.event
               /\ p.event # "consumed" /\ Outstanding(p.id)' => p.why = "late"
    BY <2>1, <2>4, <2>5 DEF IInv, RowsAreTrue, Outstanding
  <2>8. /\ Row(TRUE).recorded => chain'[worker.id].status = worker.outcome
        /\ worker.id \in sent' \/ chain'[worker.id].status = "consumed" => worker.why = "late"
    <3>1. worker.id \in sent' \/ chain'[worker.id].status = "consumed" => Outstanding(worker.id)
      BY <2>4 DEF IInv, TypeOK, Outstanding, Resolution, Refusals, Resolves
    <3>2. Outstanding(worker.id) => worker.why = "late"
      BY DEF IInv, WorkerHoldsItsCheckpoint, Resolves
    <3> QED BY <3>1, <3>2, <2>3, <2>4 DEF IInv, TypeOK, Resolution, Resolves
  <2> QED BY <2>2, <2>3, <2>6, <2>7, <2>8 DEF RowsAreTrue, Outstanding
<1> QED BY <1>1, <1>2, <1>3, <1>4, <1>5, <1>6, <1>7, <1>8 DEF IInv

\* A refusal the chain may not have recorded is filed as not recorded.
LEMMA ResolveRaisesKeeps ==
    ASSUME IInv, ResolveRaises PROVE IInv'
<1>1. TypeOK'
  <2>1. Row(FALSE) \in [id : Ids, event : Outcomes, recorded : BOOLEAN, why : Reasons]
    BY DEF IInv, TypeOK, Row, Outcomes, ResolveRaises
  <2>2. log' \subseteq [id : Ids, event : Outcomes, recorded : BOOLEAN, why : Reasons]
    BY <2>1 DEF IInv, TypeOK, Appends, ResolveRaises
  <2>3. worker' \in [pc : {"idle", "claimed", "waiting", "finish"}, id : Ids \union {0},
                     outcome : Refusals, why : Reasons] /\ worker'.pc = "idle"
    BY DEF Idle, Refusals, Reasons, ResolveRaises
  <2>4. chain' \in [Ids -> [req : Requests \union {Nobody}, status : {"none", "open"} \union Outcomes,
                            live : BOOLEAN]] /\ sent' \subseteq Ids
    BY DEF IInv, TypeOK, Resolution, Outcomes, ResolveRaises
  <2> QED BY <2>2, <2>3, <2>4 DEF IInv, TypeOK, ResolveRaises
<1>2. UnopenedIsUntouched'
  BY DEF IInv, TypeOK, UnopenedIsUntouched, Untouched, Outstanding, Filed, Busy, Refusals,
     ResolveRaises, Resolution, Row, Appends, Idle
<1>3. OpeningIsUntouched'
  BY DEF IInv, TypeOK, OpeningIsUntouched, Untouched, Outstanding, Filed, Busy, ResolveRaises,
     Resolution, Row, Appends, Idle
<1>4. OpenIsUntouched'
  BY DEF IInv, TypeOK, OpenIsUntouched, Untouched, Outstanding, Filed, Busy, ResolveRaises,
     Resolution, Row, Appends, Idle
<1>5. WorkerHoldsItsCheckpoint'
  BY DEF IInv, TypeOK, WorkerHoldsItsCheckpoint, Outstanding, Filed, ResolveRaises, Resolution,
     Row, Appends, Idle
<1>6. WordIsGiven'
  BY DEF IInv, TypeOK, WordIsGiven, Outstanding, Refusals, ResolveRaises, Resolution, Row,
     Appends, Idle
<1>7. PaidOnce'
  BY DEF IInv, TypeOK, PaidOnce, Refusals, ResolveRaises, Resolution, Row, Appends, Idle
<1>8. RowsAreTrue'
  <2>1. \A p \in log : p.id # worker.id
    BY DEF IInv, WorkerHoldsItsCheckpoint, Filed, ResolveRaises
  <2>2. \A p \in log' : p \in log \/ p = Row(FALSE)
    BY DEF Appends, ResolveRaises
  <2>3. Row(FALSE).id = worker.id /\ Row(FALSE).event = worker.outcome /\ Row(FALSE).why = worker.why
        /\ Row(FALSE).recorded = FALSE
    BY DEF Row
  <2>4. worker.id \in Ids /\ worker.outcome \in Refusals /\ \A p \in log : p.id \in Ids
    BY DEF IInv, TypeOK, ResolveRaises
  <2>5. \A j \in Ids : j # worker.id => chain'[j] = chain[j] /\ (j \in sent' <=> j \in sent)
    BY <2>4 DEF IInv, TypeOK, Resolution, ResolveRaises
  <2>6. \A p, q \in log' : p.id = q.id => p = q
    BY <2>1, <2>2, <2>3 DEF IInv, RowsAreTrue
  <2>7. ASSUME NEW p \in log
        PROVE  /\ p.recorded => chain'[p.id].status = p.event
               /\ p.event # "consumed" /\ Outstanding(p.id)' => p.why = "late"
    BY <2>1, <2>4, <2>5 DEF IInv, RowsAreTrue, Outstanding
  <2>8. /\ Row(FALSE).recorded => chain'[worker.id].status = worker.outcome
        /\ worker.id \in sent' \/ chain'[worker.id].status = "consumed" => worker.why = "late"
    <3>1. worker.id \in sent' \/ chain'[worker.id].status = "consumed" => Outstanding(worker.id)
      BY <2>4 DEF IInv, TypeOK, Outstanding, Resolution, Refusals, ResolveRaises
    <3>2. Outstanding(worker.id) => worker.why = "late"
      BY DEF IInv, WorkerHoldsItsCheckpoint, ResolveRaises
    <3> QED BY <3>1, <3>2, <2>3, <2>4 DEF IInv, TypeOK, Resolution, ResolveRaises
  <2> QED BY <2>2, <2>3, <2>6, <2>7, <2>8 DEF RowsAreTrue, Outstanding
<1> QED BY <1>1, <1>2, <1>3, <1>4, <1>5, <1>6, <1>7, <1>8 DEF IInv

\* After a restart the gate holds nothing, and so finishes nothing.
LEMMA RestartKeeps ==
    ASSUME IInv, Restart PROVE IInv'
<1>1. TypeOK'
  BY DEF IInv, TypeOK, Ids, Refusals, Outcomes, Reasons, Restart, Idle
<1>2. UnopenedIsUntouched'
  BY DEF IInv, TypeOK, UnopenedIsUntouched, Untouched, Outstanding, Filed, Busy, Ids, Restart,
     Idle
<1>3. OpeningIsUntouched'
  BY DEF IInv, TypeOK, OpeningIsUntouched, Untouched, Outstanding, Filed, Busy, Restart, Idle
<1>4. OpenIsUntouched'
  BY DEF IInv, TypeOK, OpenIsUntouched, Untouched, Outstanding, Filed, Busy, Restart, Idle
<1>5. WorkerHoldsItsCheckpoint'
  BY DEF IInv, TypeOK, WorkerHoldsItsCheckpoint, Outstanding, Filed, Restart, Idle
<1>6. WordIsGiven' /\ PaidOnce' /\ RowsAreTrue'
  BY DEF IInv, Restart, WordIsGiven, Outstanding, PaidOnce, RowsAreTrue
<1> QED BY <1>1, <1>2, <1>3, <1>4, <1>5, <1>6 DEF IInv

\* Nothing is parked, sent or filed at the start.
LEMMA InitHolds == Init => IInv
BY DEF Init, Idle, IInv, TypeOK, UnopenedIsUntouched, OpeningIsUntouched, OpenIsUntouched,
   WorkerHoldsItsCheckpoint, WordIsGiven, PaidOnce, RowsAreTrue, Untouched, Outstanding, Filed,
   Busy, Ids, Refusals, Outcomes, Reasons

\* Every step of the gate, the provider, the chain or the host keeps IInv.
LEMMA StepHolds == IInv /\ [Next]_vars => IInv'
<1> SUFFICES ASSUME IInv, [Next]_vars PROVE IInv'
  OBVIOUS
<1>1. CASE Opens
  <2> SUFFICES ASSUME NEW r \in Requests,
                      (\E i \in Ids : OpenParks(r, i)) \/ OpenStarts(r) \/ OpenRaises(r)
               PROVE  IInv'
    BY <1>1 DEF Opens
  <2> QED BY OpenParksKeeps, OpenStartsKeeps, OpenRaisesKeeps
<1>2. CASE Polls
  <2> SUFFICES ASSUME NEW i \in Ids,
                      \/ PatienceEnds(i) \/ (\E o \in Refusals : PollStops(i, o))
                      \/ PollThrows(i) \/ BadProof(i) \/ Claims(i)
               PROVE  IInv'
    BY <1>2 DEF Polls
  <2> QED BY PatienceEndsKeeps, PollStopsKeeps, PollThrowsKeeps, BadProofKeeps, ClaimsKeeps
<1>3. CASE Releases
  BY <1>3, SendsKeeps, SendIsRefusedKeeps, ReceiptPaidKeeps, ReceiptRevertedKeeps,
     ReceiptLateKeeps DEF Releases
<1>4. CASE Resolves
  BY <1>4, ResolvesKeeps
<1>5. CASE ResolveRaises
  BY <1>5, ResolveRaisesKeeps
<1>6. CASE Environment
  <2>1. CASE \E i \in Ids : ExecuteMined(i) \/ ExecuteReverts(i) \/ ChainExpires(i)
    BY <2>1, ExecuteMinedKeeps, ExecuteRevertsKeeps, ChainExpiresKeeps
  <2>2. CASE \E i \in Ids, a \in {"no", "lapsed", "treasurer", "stranger"} : PersonAnswers(i, a)
    BY <2>2, PersonAnswersKeeps
  <2> QED BY <1>6, <2>1, <2>2 DEF Environment
<1>7. CASE Restart
  BY <1>7, RestartKeeps
<1>8. CASE UNCHANGED vars
  BY <1>8 DEF vars, IInv, TypeOK, UnopenedIsUntouched, OpeningIsUntouched, OpenIsUntouched,
     WorkerHoldsItsCheckpoint, WordIsGiven, PaidOnce, RowsAreTrue, Untouched, Outstanding, Filed, Busy
<1> QED BY <1>1, <1>2, <1>3, <1>4, <1>5, <1>6, <1>7, <1>8 DEF Next

\* IInv says what the two properties of the gate say.
LEMMA IInvSays == IInv => TypeOK /\ PaidOnATreasurersWord /\ LedgerTellsTheChain
<1> SUFFICES ASSUME IInv PROVE TypeOK /\ PaidOnATreasurersWord /\ LedgerTellsTheChain
  OBVIOUS
<1>1. PaidOnATreasurersWord
  BY DEF IInv, WordIsGiven, PaidOnce, Outstanding, PaidOnATreasurersWord
<1>2. LedgerTellsTheChain
  BY DEF IInv, RowsAreTrue, Outstanding, LedgerTellsTheChain
<1> QED BY <1>1, <1>2 DEF IInv

\* The gate's variables keep their types.
THEOREM GateTypeCorrect == Spec => []TypeOK
BY InitHolds, StepHolds, IInvSays, PTL DEF Spec

\* No payment is released but on the treasurer's word, and a request once.
THEOREM TreasurersWordHolds == Spec => []PaidOnATreasurersWord
BY InitHolds, StepHolds, IInvSays, PTL DEF Spec

\* The checkpoint ledger tells the chain, but for payments whose receipt is late.
THEOREM LedgerHolds == Spec => []LedgerTellsTheChain
BY InitHolds, StepHolds, IInvSays, PTL DEF Spec
==============================================================================
