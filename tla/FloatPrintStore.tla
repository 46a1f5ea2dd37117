--------------------------- MODULE FloatPrintStore ---------------------------
(***************************************************************************)
(* FloatPrintStore.sol: the price of each compute model, every price under *)
(* an id of its own.  Index names, the confidence interval and the         *)
(* two-step change of owner are left out; a price is a number of steps of  *)
(* one 1e18-th.                                                            *)
(***************************************************************************)
EXTENDS Integers, Sequences

CONSTANTS Indices,      \* models with a price
          Prices,       \* prices a signer posts
          Signers,      \* keys that may be allowed to post
          MaxPrints     \* bound on the prints of an index

ASSUME PrintStoreAssumption == Prices \subseteq Nat /\ MaxPrints \in Nat

VARIABLES now,          \* block.timestamp
          isSigner,     \* the set of allowed signers
          storePaused,
          latest,       \* _latest
          history       \* _history

storeVars == <<isSigner, storePaused, latest, history>>

PrintStruct == [price : Nat, id : Nat, at : Nat]
NoPrint == [price |-> 0, id |-> 0, at |-> 0]

StoreInit ==
    /\ isSigner = {} /\ storePaused = FALSE
    /\ latest = [index \in Indices |-> NoPrint]
    /\ history = [index \in Indices |-> <<>>]

SetSigner(signer, allowed) ==
    /\ isSigner' = IF allowed THEN isSigner \cup {signer} ELSE isSigner \ {signer}
    /\ UNCHANGED <<storePaused, latest, history>>

SetStorePaused(paused) ==
    /\ storePaused' = paused
    /\ UNCHANGED <<isSigner, latest, history>>

\* Mutant: a keeper that posts twice in one block amends its print.
SetPrintAmending(signer, index, price) ==
    LET last == latest[index]
        p == [price |-> price, at |-> now,
              id |-> IF last.at = now /\ last.id > 0 THEN last.id ELSE last.id + 1]
    IN  /\ ~storePaused /\ signer \in isSigner
        /\ price > 0
        /\ Len(history[index]) < MaxPrints
        /\ latest' = [latest EXCEPT ![index] = p]
        /\ history' = [history EXCEPT ![index] = Append(@, p)]
        /\ UNCHANGED <<isSigner, storePaused>>

SetPrint(signer, index, price) ==
    LET p == [price |-> price, id |-> latest[index].id + 1, at |-> now]
    IN  /\ ~storePaused /\ signer \in isSigner
        /\ price > 0
        /\ Len(history[index]) < MaxPrints
        /\ latest' = [latest EXCEPT ![index] = p]
        /\ history' = [history EXCEPT ![index] = Append(@, p)]
        /\ UNCHANGED <<isSigner, storePaused>>

\* latest: a paused store reads as one that never printed.
Latest(index) == IF storePaused THEN NoPrint ELSE latest[index]

StoreNext ==
    \/ \E signer \in Signers, allowed \in BOOLEAN : SetSigner(signer, allowed)
    \/ \E paused \in BOOLEAN : SetStorePaused(paused)
    \/ \E signer \in Signers, index \in Indices, price \in Prices :
          SetPrint(signer, index, price)

StoreTypeOK ==
    /\ isSigner \subseteq Signers /\ storePaused \in BOOLEAN
    /\ latest \in [Indices -> PrintStruct] /\ history \in [Indices -> Seq(PrintStruct)]
=============================================================================
