--------------------------- MODULE RequestLedger ---------------------------
(***************************************************************************)
(* What a treasury promises about the requests it is sent: each is decided *)
(* at most once, for payment or refusal, and what was decided stands,      *)
(* whatever happens to prices, budgets and people in between.              *)
(***************************************************************************)
CONSTANT Nonces
VARIABLE decided

LedgerInit == decided = [n \in Nonces |-> "open"]

Decide(n) ==
    /\ decided[n] = "open"
    /\ \E outcome \in {"paid", "refused"} :
          decided' = [decided EXCEPT ![n] = outcome]

LedgerSpec == LedgerInit /\ [][\E n \in Nonces : Decide(n)]_decided
=============================================================================
