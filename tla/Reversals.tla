------------------------------ MODULE Reversals ------------------------------
(***************************************************************************)
(* ReversalService.initiateReversal: an admin takes a completed transfer   *)
(* back.  The reversal is recorded as PENDING before the transaction, so   *)
(* that a unique index keeps others out, and COMPLETED by the transaction. *)
(* Any error marks it FAILED, also one that comes after the commit.        *)
(***************************************************************************)
EXTENDS Fees

VARIABLES
    reversal,   \* status of the record each job has created
    seen,       \* the wallets each job read before its transaction
    reversed    \* jobs whose transaction has committed

reversalState == <<reversal, seen, reversed>>

ReversalsInit ==
    /\ reversal = [j \in Jobs |-> "NONE"]
    /\ seen = [j \in Jobs |-> [receiver |-> 0, receiverVersion |-> 0,
                               senderVersion |-> 0]]
    /\ reversed = {}

\* mutant: completed reversals are not looked for
Pending_Only(t) ==
    \E i \in Jobs : Trf(i) = t /\ reversal[i] = "PENDING"

\* What the first check looks for, and the partial unique index excludes.
Reversing(t) ==
    \E i \in Jobs : Trf(i) = t /\ reversal[i] \in {"PENDING", "COMPLETED"}

ReverseCheck(j) ==
    /\ Starting(j, "reverse")
    /\ Goto(j, IF Reversing(Trf(j)) THEN "failed"
               ELSE IF Job(j).withFee THEN "reverseFee" ELSE "reverseRead")
    /\ UNCHANGED <<workload, held, stale, wallets, vaults, net, refs, idem, outbox>>
    /\ UNCHANGED reversalState

ReverseCheckFee(j) ==
    /\ At(j, "reverseFee")
    /\ Goto(j, IF accrual[Trf(j)] = "WAIVED" THEN "failed" ELSE "reverseRead")
    /\ UNCHANGED <<workload, held, stale, wallets, vaults, net, refs, idem, outbox>>
    /\ UNCHANGED reversalState

ReverseRead(j) ==
    /\ At(j, "reverseRead")
    /\ seen' = [seen EXCEPT ![j] =
                  [receiver |-> wallets[Job(j).peer].available,
                   receiverVersion |-> wallets[Job(j).peer].version,
                   senderVersion |-> wallets[Usr(j)].version]]
    /\ Goto(j, "reverseCreate")
    /\ UNCHANGED <<workload, held, stale, wallets, vaults, net, refs, idem, outbox>>
    /\ UNCHANGED <<reversal, reversed>>

ReverseCreate(j) ==
    /\ At(j, "reverseCreate")
    /\ IF Reversing(Trf(j))
       THEN Goto(j, "failed") /\ UNCHANGED reversal
       ELSE /\ reversal' = [reversal EXCEPT ![j] = "PENDING"]
            /\ Goto(j, "reverse")
    /\ UNCHANGED <<workload, held, stale, wallets, vaults, net, refs, idem, outbox>>
    /\ UNCHANGED <<seen, reversed>>

FeeBack(j) == IF Job(j).withFee THEN Fee(j) ELSE 0

\* The receiver and the revenue account pay, the sender is paid.
ReversalLegs(j) ==
    [NoLegs EXCEPT ![Job(j).peer] = -Amt(j), ![Revenue] = -FeeBack(j),
                   ![Usr(j)] = Amt(j) + FeeBack(j)]

ReversalDocs(j) ==
    {Usr(j), Job(j).peer} \cup IF Job(j).withFee THEN {Revenue} ELSE {}

Unchanged(j) ==
    /\ wallets[Job(j).peer].version = seen[j].receiverVersion
    /\ wallets[Usr(j)].version = seen[j].senderVersion

\* mutant: nobody is told of a wallet that goes below zero
Announced_ReversalOnly(j) == {"TRANSFER_REVERSED"}

\* What the transaction announces; the balance is the one read before it.
Announced(j) ==
    {"TRANSFER_REVERSED"} \cup
    IF seen[j].receiver - Amt(j) < 0 THEN {"WALLET_NEGATIVE_BALANCE"} ELSE {}

TakeBack(j) ==
    /\ Entries(ReversalLegs(j))
    /\ wallets' = WalletsAfter(ReversalLegs(j), ReversalDocs(j))
    /\ reversal' = [reversal EXCEPT ![j] = "COMPLETED"]
    /\ reversed' = reversed \cup {j}
    /\ refs' = refs \cup {<<"reversal", j>>}
    /\ Emit(Announced(j), j)
    /\ Touch(j, ReversalDocs(j))

NothingTakenBack ==
    UNCHANGED <<net, wallets, reversal, reversed, refs, outbox, stale>>

ReverseCommit(j) ==
    /\ At(j, "reverse")
    /\ IF Unchanged(j) /\ Free(j, ReversalDocs(j))
       THEN TakeBack(j) /\ Goto(j, "reverseReadBack")
       ELSE NothingTakenBack /\ Goto(j, "reverseFail")
    /\ UNCHANGED <<workload, held, vaults, idem, seen>>

\* commitTransaction itself fails, with an unknown outcome; abortTransaction
\* then throws inside the catch block and nothing marks the record.
ReverseCommitError(j) ==
    /\ May("error")
    /\ At(j, "reverse")
    /\ Unchanged(j) /\ Free(j, ReversalDocs(j))
    /\ TakeBack(j) \/ NothingTakenBack
    /\ Goto(j, "failed")
    /\ UNCHANGED <<workload, held, vaults, idem, seen>>

\* The record is read back for the answer.
ReverseReadBack(j) ==
    /\ At(j, "reverseReadBack")
    /\ \/ Goto(j, "done")
       \/ May("readback") /\ Goto(j, "reverseFail")
    /\ UNCHANGED <<workload, held, stale, wallets, vaults, net, refs, idem, outbox>>
    /\ UNCHANGED reversalState

\* mutant: the error is answered and the record left as it is
ReverseMarkFailed_Not(j) ==
    /\ At(j, "reverseFail")
    /\ Goto(j, "failed")
    /\ UNCHANGED <<workload, held, stale, wallets, vaults, net, refs, idem, outbox>>
    /\ UNCHANGED reversalState

ReverseMarkFailed(j) ==
    /\ At(j, "reverseFail")
    /\ reversal' = [reversal EXCEPT ![j] = "FAILED"]
    /\ Goto(j, "failed")
    /\ UNCHANGED <<workload, held, stale, wallets, vaults, net, refs, idem, outbox>>
    /\ UNCHANGED <<seen, reversed>>

ReversalStep(j) ==
    \/ ReverseCheck(j) \/ ReverseCheckFee(j) \/ ReverseRead(j)
    \/ ReverseCreate(j) \/ ReverseCommit(j) \/ ReverseCommitError(j)
    \/ ReverseReadBack(j) \/ ReverseMarkFailed(j)
=============================================================================
