------------------------------ MODULE ACROracle ------------------------------
(***************************************************************************)
(* contracts/src/ACROracle.sol and ACROracleV2.sol: the feed that other    *)
(* contracts settle against.  An authorized signer signs a print, anybody  *)
(* relays it, and the contract keeps every print with the block time it    *)
(* arrived.  Version 2 adds the policy and window of a print and a bound   *)
(* on how far one print moves from the one before; IsV2 selects it.        *)
(*                                                                         *)
(* A signature is modelled by letting any relayer submit, at any time,     *)
(* any print any account has signed: prints may be delayed, reordered and  *)
(* submitted twice.  A print's confidence interval, bound, policy and      *)
(* window are checked when it is posted and read by no contract, so they   *)
(* are not stored.  _latest is the last element of _history: postPrint     *)
(* writes both.                                                            *)
(***************************************************************************)
EXTENDS Integers, Sequences

CONSTANTS Accounts, OracleDeployer, NoAddress,
          Indices,         \* index identifiers
          PrintInputs,     \* prints that accounts sign
          NoPolicy,        \* bytes32(0) as a policy hash
          IsV2,            \* which contract
          MaxTsSkew,       \* MAX_TS_SKEW
          MaxWindowSpan, MaxWindowLag,
          MoveScale, MaxMoveBps, \* 10 000 and MAX_MOVE_BPS
          MaxPrints,       \* bound on the history of an index
          MaxTime          \* bound on the clock

\* The prints an account can sign.
IsPrintInput(p) ==
    /\ p.indexId \in Indices
    /\ {p.value, p.ciLo, p.ciHi, p.attackCostPerBp, p.humanAdjustedBound,
        p.timestamp, p.windowStart, p.windowEnd} \subseteq Nat

ASSUME OracleAssumption ==
    /\ OracleDeployer \in Accounts /\ NoAddress \notin Accounts
    /\ \A p \in PrintInputs : IsPrintInput(p)
    /\ IsV2 \in BOOLEAN
    /\ {MaxTsSkew, MaxWindowSpan, MaxWindowLag, MoveScale, MaxMoveBps, MaxPrints, MaxTime}
         \subseteq Nat
    /\ MaxMoveBps > 0 /\ MaxMoveBps <= MoveScale

VARIABLES now,                \* block.timestamp
          oracleOwner, oraclePendingOwner, oraclePaused,
          isSigner,           \* the set of authorized signers
          history             \* _history, per index

oracleAdmin == <<oracleOwner, oraclePendingOwner, oraclePaused, isSigner>>
oracleVars == <<now, oracleAdmin, history>>

PrintRecord == [value : Nat, timestamp : Nat, postedAt : Nat]

OracleInit ==
    /\ now = 0
    /\ oracleOwner = OracleDeployer /\ oraclePendingOwner = NoAddress
    /\ oraclePaused = FALSE
    /\ isSigner = {OracleDeployer}
    /\ history = [i \in Indices |-> <<>>]

-----------------------------------------------------------------------------
(* Reads.                                                                  *)

HasPrint(i) == history[i] # <<>>
LatestPrint(i) == history[i][Len(history[i])]
LatestValue(i) == LatestPrint(i).value

\* The loop of firstPrintPostedAtOrAfter: the position it stops at, as a
\* function of the interval r from lo to hi still to be searched.
Intervals(n) == (0..n) \X (0..n)

\* Mutant: the half that is kept loses the print it should end at.
KeepsTooLittle(h, from) ==
    LET search[r \in Intervals(Len(h))] ==
            LET mid == (r[1] + r[2]) \div 2
            IN  IF r[1] >= r[2] THEN r[1]
                ELSE IF h[mid + 1].postedAt <= from THEN search[<<mid + 1, r[2]>>]
                ELSE search[<<r[1], mid>>]
    IN  search[<<0, Len(h)>>]

BinarySearch(h, from) ==
    LET search[r \in Intervals(Len(h))] ==
            LET mid == (r[1] + r[2]) \div 2
            IN  IF r[1] >= r[2] THEN r[1]
                ELSE IF h[mid + 1].postedAt < from THEN search[<<mid + 1, r[2]>>]
                ELSE search[<<r[1], mid>>]
    IN  search[<<0, Len(h)>>]

\* firstPrintPostedAtOrAfter: `found` and the print (history is 1-indexed).
FoundSince(i, from) == BinarySearch(history[i], from) < Len(history[i])
FirstSince(i, from) == history[i][BinarySearch(history[i], from) + 1]

-----------------------------------------------------------------------------
(* Administration.                                                         *)

SetSigner(sender, signer, allowed) ==
    /\ sender = oracleOwner
    /\ isSigner' = IF allowed THEN isSigner \cup {signer} ELSE isSigner \ {signer}
    /\ UNCHANGED <<now, oracleOwner, oraclePendingOwner, oraclePaused, history>>

SetOraclePaused(sender, value) ==
    /\ sender = oracleOwner
    /\ oraclePaused' = value
    /\ UNCHANGED <<now, oracleOwner, oraclePendingOwner, isSigner, history>>

TransferOracle(sender, to) ==
    /\ sender = oracleOwner
    /\ to # NoAddress
    /\ oraclePendingOwner' = to
    /\ UNCHANGED <<now, oracleOwner, oraclePaused, isSigner, history>>

\* Mutant: anybody accepts a transfer, started or not.
AcceptByAnybody(sender) ==
    /\ oracleOwner' = oraclePendingOwner
    /\ oraclePendingOwner' = NoAddress
    /\ UNCHANGED <<now, oraclePaused, isSigner, history>>

AcceptOracle(sender) ==
    /\ sender = oraclePendingOwner
    /\ oracleOwner' = oraclePendingOwner
    /\ oraclePendingOwner' = NoAddress
    /\ UNCHANGED <<now, oraclePaused, isSigner, history>>

-----------------------------------------------------------------------------
(* Posting.                                                                *)

ValueSupported(p) ==
    /\ p.value > 0
    /\ p.ciLo <= p.value /\ p.value <= p.ciHi
    /\ p.attackCostPerBp > 0

NotInFuture(p) == p.timestamp <= now + MaxTsSkew

\* Version 2: the print says how it was made, over a window it may summarize.
Reproducible(p) ==
    /\ p.policyHash # NoPolicy
    /\ p.windowStart < p.windowEnd
    /\ p.windowEnd <= p.timestamp
    /\ p.windowEnd - p.windowStart <= MaxWindowSpan
    /\ p.timestamp - p.windowEnd <= MaxWindowLag
    /\ p.humanAdjustedBound = 0 \/ p.humanAdjustedBound >= p.attackCostPerBp

Distance(a, b) == IF a > b THEN a - b ELSE b - a

\* Mutant: a print may repeat the last timestamp.
FollowsLoosely(p) ==
    HasPrint(p.indexId) =>
        LET prev == LatestPrint(p.indexId)
        IN  /\ p.timestamp >= prev.timestamp
            /\ IsV2 => Distance(p.value, prev.value) * MoveScale <= prev.value * MaxMoveBps

FollowsPrevious(p) ==
    HasPrint(p.indexId) =>
        LET prev == LatestPrint(p.indexId)
        IN  /\ p.timestamp > prev.timestamp
            /\ IsV2 => Distance(p.value, prev.value) * MoveScale <= prev.value * MaxMoveBps

\* Mutant: a print in the same block replaces the last one.
PostPrintAmending(signer, p) ==
    LET h == history[p.indexId]
        kept == IF HasPrint(p.indexId) /\ LatestPrint(p.indexId).postedAt = now
                THEN SubSeq(h, 1, Len(h) - 1) ELSE h
    IN  /\ ~oraclePaused /\ ValueSupported(p) /\ NotInFuture(p)
        /\ IsV2 => Reproducible(p)
        /\ FollowsPrevious(p) /\ signer \in isSigner
        /\ Len(h) < MaxPrints
        /\ history' = [history EXCEPT ![p.indexId] = Append(kept,
                         [value |-> p.value, timestamp |-> p.timestamp, postedAt |-> now])]
        /\ UNCHANGED <<now, oracleAdmin>>

PostPrint(signer, p) ==
    /\ ~oraclePaused
    /\ ValueSupported(p)
    /\ NotInFuture(p)
    /\ IsV2 => Reproducible(p)
    /\ FollowsPrevious(p)
    /\ signer \in isSigner
    /\ Len(history[p.indexId]) < MaxPrints
    /\ history' = [history EXCEPT ![p.indexId] = Append(@,
                     [value |-> p.value, timestamp |-> p.timestamp, postedAt |-> now])]
    /\ UNCHANGED <<now, oracleAdmin>>

Tick ==
    /\ now < MaxTime
    /\ now' = now + 1
    /\ UNCHANGED <<oracleAdmin, history>>

Publish == \E signer \in Accounts, p \in PrintInputs : PostPrint(signer, p)

Administer(s) ==
    \/ \E signer \in Accounts, allowed \in BOOLEAN : SetSigner(s, signer, allowed)
    \/ \E value \in BOOLEAN : SetOraclePaused(s, value)
    \/ \E to \in Accounts \cup {NoAddress} : TransferOracle(s, to)
    \/ AcceptOracle(s)

OracleNext == Publish \/ Tick \/ \E s \in Accounts : Administer(s)

OracleSpec == OracleInit /\ [][OracleNext]_oracleVars

-----------------------------------------------------------------------------
(* What a consumer of the feed relies on.                                  *)

\* Every variable has its type.
OracleTypeOK ==
    /\ now \in 0..MaxTime
    /\ oracleOwner \in Accounts /\ oraclePendingOwner \in Accounts \cup {NoAddress}
    /\ oraclePaused \in BOOLEAN
    /\ isSigner \subseteq Accounts
    /\ history \in [Indices -> Seq(PrintRecord)]

\* The history binary search relies on: block times never decrease, economic
\* timestamps strictly increase, no print claims to be further ahead of the
\* block it came in than the skew (so that the monotonicity rule cannot shut
\* honest prints out for longer than that).
HistoryIsOrdered ==
    \A i \in Indices :
        /\ \A m, n \in DOMAIN history[i] : m < n =>
              /\ history[i][m].postedAt <= history[i][n].postedAt
              /\ history[i][m].timestamp < history[i][n].timestamp
        /\ \A n \in DOMAIN history[i] :
              /\ history[i][n].postedAt <= now
              /\ history[i][n].timestamp <= history[i][n].postedAt + MaxTsSkew

\* firstPrintPostedAtOrAfter answers what its name says, for every moment.
SearchFindsTheFirst ==
    \A i \in Indices, from \in 0..(MaxTime + 1) :
        LET since == {n \in DOMAIN history[i] : history[i][n].postedAt >= from}
        IN  /\ FoundSince(i, from) <=> since # {}
            /\ \A n \in since : FirstSince(i, from).timestamp <= history[i][n].timestamp

\* "so the price is fixed by expiry, not by who calls settle and when": once a
\* moment has a first print it keeps it, whatever is posted later.
FirstPrintIsFixed ==
    [][\A i \in Indices, from \in 0..MaxTime :
          FoundSince(i, from) =>
            FoundSince(i, from)' /\ FirstSince(i, from)' = FirstSince(i, from)]_oracleVars
=============================================================================
