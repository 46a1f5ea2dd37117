------------------------------ MODULE HumanGate ------------------------------
(***************************************************************************)
(* The human checkpoint (index_api/floatgate.py): a payment the vault      *)
(* escalates is parked on chain, a person is asked through a device grant, *)
(* and the worker polls for the answer and releases the payment or records *)
(* why not.  The vault's side is what FloatVault.sol does to a checkpoint; *)
(* the identity provider is external.                                      *)
(*                                                                         *)
(* Three clocks run apart: the chain's (`live`), the host's patience and   *)
(* the provider's; none is compared with another, so each passes its       *)
(* limit at any time.  Answers "pending" and "slow down" change only when  *)
(* the next poll is due, and any poll may be due at any time.              *)
(***************************************************************************)
EXTENDS Integers

CONSTANTS
    Requests,        \* the hashes of payments that may be parked
    MaxCheckpoints,  \* bound on nextCheckpointId
    MaxRestarts,     \* bound on restarts of the service
    Nobody           \* the request of an id that was never opened

VARIABLES
    chain,     \* checkpoints: per id its request, status, and whether its time runs
    gate,      \* _cps: the status this process holds of an id, "unknown" if none
    opening,   \* per request, the id an unfinished open() has parked, or 0
    answer,    \* at the provider: what the person said to the device code of an id
    redeemed,  \* at the provider: the codes whose token was given out
    worker,    \* the poll under way, under _tick_lock
    sent,      \* executeApproved transactions on their way
    log,       \* the checkpoint ledger's outcome rows
    restarts

vars == <<chain, gate, opening, answer, redeemed, worker, sent, log, restarts>>

Ids == 1..MaxCheckpoints
Refusals == {"denied", "expired", "failed"}
Outcomes == Refusals \union {"consumed"}
Reasons == {"patience", "said", "proof", "refused", "late", "approved"}
Idle == [pc |-> "idle", id |-> 0, outcome |-> "failed", why |-> "said"]

TypeOK ==
    /\ chain \in [Ids -> [req : Requests \union {Nobody}, status : {"none", "open"} \union Outcomes,
                          live : BOOLEAN]]
    /\ gate \in [Ids -> {"unknown", "open", "claimed"} \union Outcomes]
    /\ opening \in [Requests -> Ids \union {0}]
    /\ answer \in [Ids -> {"none", "waiting", "no", "lapsed", "treasurer", "stranger"}]
    /\ redeemed \subseteq Ids
    /\ worker \in [pc : {"idle", "claimed", "waiting", "finish"}, id : Ids \union {0},
                   outcome : Refusals, why : Reasons]
    /\ worker.pc # "idle" => worker.id \in Ids
    /\ sent \subseteq Ids
    /\ log \subseteq [id : Ids, event : Outcomes, recorded : BOOLEAN, why : Reasons]
    /\ restarts \in Nat

Init ==
    /\ chain = [i \in Ids |-> [req |-> Nobody, status |-> "none", live |-> TRUE]]
    /\ gate = [i \in Ids |-> "unknown"]
    /\ opening = [r \in Requests |-> 0]
    /\ answer = [i \in Ids |-> "none"]
    /\ redeemed = {} /\ worker = Idle /\ sent = {} /\ log = {} /\ restarts = 0

-----------------------------------------------------------------------------
(* open(): the checkpoint first, then the device flow.                     *)

\* The vault burns a request's nonce when it pays it.
Paid(r) == \E i \in Ids : chain[i].req = r /\ chain[i].status = "consumed"

\* nextCheckpointId.
IsNext(i) == \A j \in Ids : j < i <=> chain[j].status # "none"

\* preflight and classify let it through (any other verdict parks nothing),
\* and openCheckpoint is mined.
OpenParks(r, i) ==
    /\ opening[r] = 0 /\ IsNext(i) /\ ~Paid(r)
    /\ chain' = [chain EXCEPT ![i] = [req |-> r, status |-> "open", live |-> TRUE]]
    /\ opening' = [opening EXCEPT ![r] = i]
    /\ UNCHANGED <<gate, answer, redeemed, worker, sent, log, restarts>>

OpenStarts(r) ==
    LET i == opening[r] IN
    /\ i # 0
    /\ gate' = [gate EXCEPT ![i] = "open"]
    /\ answer' = [answer EXCEPT ![i] = "waiting"]
    /\ opening' = [opening EXCEPT ![r] = 0]
    /\ UNCHANGED <<chain, redeemed, worker, sent, log, restarts>>

\* The receipt is late or the provider refuses: open() raises, and the
\* checkpoint stays on chain.
OpenRaises(r) ==
    /\ opening[r] # 0
    /\ opening' = [opening EXCEPT ![r] = 0]
    /\ UNCHANGED <<chain, gate, answer, redeemed, worker, sent, log, restarts>>

PersonAnswers(i, a) ==
    /\ answer[i] = "waiting"
    /\ answer' = [answer EXCEPT ![i] = a]
    /\ UNCHANGED <<chain, gate, opening, redeemed, worker, sent, log, restarts>>

-----------------------------------------------------------------------------
(* poll_once: one look of the worker at one open checkpoint.               *)

Due(i) == worker.pc = "idle" /\ gate[i] = "open"
HasToken(i) == answer[i] \in {"treasurer", "stranger"} /\ i \notin redeemed

\* The head of _finish: the status is set before the chain is told.
Finishes(i, outcome, why) ==
    /\ gate' = [gate EXCEPT ![i] = outcome]
    /\ worker' = [pc |-> "finish", id |-> i, outcome |-> outcome, why |-> why]

PatienceEnds(i) ==
    /\ Due(i) /\ Finishes(i, "expired", "patience")
    /\ UNCHANGED <<chain, opening, answer, redeemed, sent, log, restarts>>

\* The provider stops the attempt.  It may always be unavailable; a code
\* whose token was given out is rejected.
PollStops(i, outcome) ==
    /\ Due(i)
    /\ outcome = "denied" => answer[i] = "no"
    /\ outcome = "expired" => answer[i] = "lapsed"
    /\ Finishes(i, outcome, "said")
    /\ UNCHANGED <<chain, opening, answer, redeemed, sent, log, restarts>>

\* The provider gives the token out and the poll throws: its answer was lost,
\* or the keys to check it with could not be fetched.
PollThrows(i) ==
    /\ Due(i) /\ HasToken(i)
    /\ redeemed' = redeemed \union {i}
    /\ UNCHANGED <<chain, gate, opening, answer, worker, sent, log, restarts>>

\* A token that is another person's, stale, or of another class.
BadProof(i) ==
    /\ Due(i) /\ HasToken(i)
    /\ redeemed' = redeemed \union {i}
    /\ Finishes(i, "failed", "proof")
    /\ UNCHANGED <<chain, opening, answer, sent, log, restarts>>

\* Mutant: any verified person's token will do.
ClaimsForAnybody(i) ==
    /\ Due(i) /\ HasToken(i)
    /\ redeemed' = redeemed \union {i}
    /\ gate' = [gate EXCEPT ![i] = "claimed"]
    /\ worker' = [worker EXCEPT !.pc = "claimed", !.id = i]
    /\ UNCHANGED <<chain, opening, answer, sent, log, restarts>>

Claims(i) ==
    /\ Due(i) /\ HasToken(i) /\ answer[i] = "treasurer"
    /\ redeemed' = redeemed \union {i}
    /\ gate' = [gate EXCEPT ![i] = "claimed"]
    /\ worker' = [worker EXCEPT !.pc = "claimed", !.id = i]
    /\ UNCHANGED <<chain, opening, answer, sent, log, restarts>>

-----------------------------------------------------------------------------
(* The claimed payment: sign, send, and wait for the receipt.              *)

\* executeApproved pays an open checkpoint in time, once per request.
Payable(i) == chain[i].status = "open" /\ chain[i].live /\ ~Paid(chain[i].req)

Sends ==
    /\ worker.pc = "claimed" /\ Payable(worker.id)
    /\ sent' = sent \union {worker.id}
    /\ worker' = [worker EXCEPT !.pc = "waiting"]
    /\ UNCHANGED <<chain, gate, opening, answer, redeemed, log, restarts>>

\* The vault may refuse at any time: the print moved, the cap is used up, it
\* is paused, its approver was rotated.
SendIsRefused ==
    /\ worker.pc = "claimed" /\ Finishes(worker.id, "failed", "refused")
    /\ UNCHANGED <<chain, opening, answer, redeemed, sent, log, restarts>>

ExecuteMined(i) ==
    /\ i \in sent /\ Payable(i)
    /\ sent' = sent \ {i}
    /\ chain' = [chain EXCEPT ![i].status = "consumed"]
    /\ UNCHANGED <<gate, opening, answer, redeemed, worker, log, restarts>>

ExecuteReverts(i) ==
    /\ i \in sent
    /\ sent' = sent \ {i}
    /\ UNCHANGED <<chain, gate, opening, answer, redeemed, worker, log, restarts>>

\* A row of the ledger; a disk that refuses it stops nothing.
Appends(row) == log' = log \union {row} \/ log' = log

ReceiptPaid ==
    LET i == worker.id IN
    /\ worker.pc = "waiting" /\ i \notin sent /\ chain[i].status = "consumed"
    /\ gate' = [gate EXCEPT ![i] = "consumed"]
    /\ Appends([id |-> i, event |-> "consumed", recorded |-> TRUE, why |-> "approved"])
    /\ worker' = Idle
    /\ UNCHANGED <<chain, opening, answer, redeemed, sent, restarts>>

ReceiptReverted ==
    LET i == worker.id IN
    /\ worker.pc = "waiting" /\ i \notin sent /\ chain[i].status # "consumed"
    /\ Finishes(i, "failed", "refused")
    /\ UNCHANGED <<chain, opening, answer, redeemed, sent, log, restarts>>

\* After two minutes the client raises, whatever became of the transaction.
ReceiptLate ==
    /\ worker.pc = "waiting" /\ Finishes(worker.id, "failed", "late")
    /\ UNCHANGED <<chain, opening, answer, redeemed, sent, log, restarts>>

-----------------------------------------------------------------------------
(* The tail of _finish: resolveCheckpoint, then the row.                   *)

Row(recorded) ==
    [id |-> worker.id, event |-> worker.outcome, recorded |-> recorded, why |-> worker.why]

\* The resolution is mined.  It has the nonce of an execution still on its
\* way, which it then replaces.
Resolution ==
    /\ chain[worker.id].status = "open"
    /\ chain' = [chain EXCEPT ![worker.id].status = worker.outcome]
    /\ sent' = sent \ {worker.id}

\* Mutant: what the chain refuses to record is filed as recorded.
ResolvesInAnyCase ==
    /\ worker.pc = "finish"
    /\ Resolution \/ (chain[worker.id].status # "open" /\ UNCHANGED <<chain, sent>>)
    /\ Appends(Row(TRUE))
    /\ worker' = Idle
    /\ UNCHANGED <<gate, opening, answer, redeemed, restarts>>

Resolves ==
    /\ worker.pc = "finish" /\ Resolution
    /\ Appends(Row(TRUE))
    /\ worker' = Idle
    /\ UNCHANGED <<gate, opening, answer, redeemed, restarts>>

\* It reverts, cannot be sent, or is mined after its receipt was given up.
ResolveRaises ==
    /\ worker.pc = "finish"
    /\ Resolution \/ UNCHANGED <<chain, sent>>
    /\ Appends(Row(FALSE))
    /\ worker' = Idle
    /\ UNCHANGED <<gate, opening, answer, redeemed, restarts>>

-----------------------------------------------------------------------------

ChainExpires(i) ==
    /\ chain[i].status = "open" /\ chain[i].live
    /\ chain' = [chain EXCEPT ![i].live = FALSE]
    /\ UNCHANGED <<gate, opening, answer, redeemed, worker, sent, log, restarts>>

\* _cps, _codes, the worker and the requests under way are this process's.
Restart ==
    /\ restarts < MaxRestarts
    /\ restarts' = restarts + 1
    /\ gate' = [i \in Ids |-> "unknown"]
    /\ opening' = [r \in Requests |-> 0]
    /\ worker' = Idle
    /\ UNCHANGED <<chain, answer, redeemed, sent, log>>

Opens == \E r \in Requests : (\E i \in Ids : OpenParks(r, i)) \/ OpenStarts(r) \/ OpenRaises(r)

Polls ==
    \E i \in Ids :
        \/ PatienceEnds(i) \/ (\E o \in Refusals : PollStops(i, o))
        \/ PollThrows(i) \/ BadProof(i) \/ Claims(i)

Releases == Sends \/ SendIsRefused \/ ReceiptPaid \/ ReceiptReverted \/ ReceiptLate

Environment ==
    \/ \E i \in Ids : ExecuteMined(i) \/ ExecuteReverts(i) \/ ChainExpires(i)
    \/ \E i \in Ids, a \in {"no", "lapsed", "treasurer", "stranger"} : PersonAnswers(i, a)

Next == Opens \/ Polls \/ Releases \/ Resolves \/ ResolveRaises \/ Environment \/ Restart

Spec == Init /\ [][Next]_vars

-----------------------------------------------------------------------------

\* No payment is released but on the enrolled treasurer's word for its own
\* checkpoint, given out once, and a request parked twice is paid once,
\* through restarts and late receipts (poll_once, executeApproved).
PaidOnATreasurersWord ==
    \A i \in Ids : chain[i].status = "consumed" =>
        /\ answer[i] = "treasurer" /\ i \in redeemed
        /\ \A j \in Ids : chain[j].status = "consumed" /\ chain[j].req = chain[i].req => i = j

\* A checkpoint has one outcome in the ledger.  What the ledger says was paid
\* was; what it says was refused and recorded is so on the chain; a payment
\* it says was refused may have been made only if its receipt was late, and
\* then the row says that the chain does not record the refusal (_finish).
LedgerTellsTheChain ==
    /\ \A p, q \in log : p.id = q.id => p = q
    /\ \A p \in log :
        /\ p.recorded => chain[p.id].status = p.event
        /\ p.event # "consumed" /\ chain[p.id].status = "consumed" => p.why = "late"
=============================================================================
