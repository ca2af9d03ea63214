--------------------------- MODULE AtomicTransfer ---------------------------
(***************************************************************************)
(* What a transfer promises its users: it happens at once and in full or   *)
(* not at all, only when the sender can pay it, and at most once for a     *)
(* sender and an idempotency key.  Module Transfer is shown to implement   *)
(* this specification.                                                     *)
(***************************************************************************)
EXTENDS Integers

CONSTANTS Requests, Wallets, Revenue, Key, From, To, Amount, Fee,
          InitialBalance

VARIABLES
    balance,    \* the money in each wallet
    done        \* the requests that have been carried out

Net(r, w) ==
    IF w = From[r] THEN -(Amount[r] + Fee[r])
    ELSE IF w = To[r] THEN Amount[r]
    ELSE IF w = Revenue THEN Fee[r] ELSE 0

Init ==
    /\ balance = InitialBalance
    /\ done = {}

Execute(r) ==
    /\ \A q \in done : ~(Key[q] = Key[r] /\ From[q] = From[r])
    /\ balance[From[r]] >= Amount[r] + Fee[r]
    /\ balance' = [w \in Wallets |-> balance[w] + Net(r, w)]
    /\ done' = done \cup {r}

Next == \E r \in Requests : Execute(r)

Spec == Init /\ [][Next]_<<balance, done>>
=============================================================================
