--------------------------- MODULE MCTransferRetry ---------------------------
(* Two requests with one key, the client's retry racing the first attempt,  *)
(* and a third one that goes the other way between the same wallets.        *)
EXTENDS TransferInvariant, TLC

CONSTANTS r1, r2, r3, k1, k2, alice, bob, rev

MCKind == [r \in Requests |-> "P2P"]
MCKey == r1 :> k1 @@ r2 :> k1 @@ r3 :> k2
MCFrom == r1 :> alice @@ r2 :> alice @@ r3 :> bob
MCTo == r1 :> bob @@ r2 :> bob @@ r3 :> alice
MCAmount == r1 :> 2 @@ r2 :> 2 @@ r3 :> 1
MCFee == r1 :> 1 @@ r2 :> 1 @@ r3 :> 0
MCBalance == alice :> 6 @@ bob :> 1 @@ rev :> 0
=============================================================================
