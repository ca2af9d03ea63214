--------------------------- MODULE MCTransferCross ---------------------------
(* Two senders credit one receiver, who starts frozen below zero, while one *)
(* of them also moves money to her savings, under the key the other sends.   *)
EXTENDS TransferInvariant, TLC

CONSTANTS r1, r2, r3, k1, k2, alice, bob, carol, savings, rev

MCKind == r1 :> "P2P" @@ r2 :> "P2P" @@ r3 :> "INTERNAL"
MCKey == r1 :> k1 @@ r2 :> k2 @@ r3 :> k2
MCFrom == r1 :> alice @@ r2 :> carol @@ r3 :> alice
MCTo == r1 :> bob @@ r2 :> bob @@ r3 :> savings
MCAmount == r1 :> 2 @@ r2 :> 2 @@ r3 :> 2
MCFee == r1 :> 1 @@ r2 :> 1 @@ r3 :> 0
MCBalance == alice :> 4 @@ bob :> -1 @@ carol :> 3 @@ savings :> 0 @@ rev :> 0
=============================================================================
