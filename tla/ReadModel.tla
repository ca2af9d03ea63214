------------------------------ MODULE ReadModel ------------------------------
(***************************************************************************)
(* What the app shows as balances: read models, written from events and    *)
(* not from the wallets.  A committed transfer carries the balances it     *)
(* left; once its consumer has processed it, it is published as confirmed  *)
(* and the projection consumer sets the read model to them, with no regard *)
(* to the order of the events.  A reversal is added to the read model by   *)
(* its own consumer.  Events are named by the job that emitted them.       *)
(***************************************************************************)
EXTENDS Reversals

VARIABLES
    changes,    \* how often the balance of each user's wallet has changed
    payload,    \* in each event: balances left, and the changes they stand for
    published,  \* events on the topic of confirmed events
    projection, \* record of the projection consumer for each event
    projected,  \* how often each event has been projected
    readModel,  \* UserWallet.balance, and mainBalance of the summary
    shown       \* the change each read model is at, -1 when at none

readModelState == <<published, projection, projected, readModel, shown>>
eventState == <<changes, payload>>

ReadModelInit ==
    /\ changes = [u \in Users |-> 0]
    /\ payload = [e \in Jobs |-> [u \in Users |-> [balance |-> 0, change |-> 0]]]
    /\ published = {}
    /\ projection = [e \in Jobs |-> "NONE"]
    /\ projected = [e \in Jobs |-> 0]
    /\ readModel = [u \in Users |-> InitialBalance[u]]
    /\ shown = [u \in Users |-> 0]

BalanceEvents == {"TRANSACTION_COMPLETED", "FUNDING_CREDITED", "TRANSFER_REVERSED"}

Emitted(e) == \E t \in BalanceEvents : <<t, e>> \in outbox

\* The row of j carries the balances read in the session after the $inc.
RecordEvent(j) ==
    LET moved == {u \in Users : wallets'[u].available # wallets[u].available} IN
    /\ changes' = [u \in Users |-> changes[u] + (IF u \in moved THEN 1 ELSE 0)]
    /\ payload' = IF Emitted(j)' /\ ~Emitted(j)
                  THEN [payload EXCEPT ![j] =
                          [u \in Users |->
                             [balance |-> wallets'[u].available,
                              change |-> IF u \in moved THEN changes'[u] ELSE 0]]]
                  ELSE payload

Concerns(e) == {u \in Users : payload[e][u].change > 0}

\* handleTransactionCompleted, handleFundingProjection: absolute balances.
Show(e) ==
    /\ readModel' = [u \in Users |-> IF u \in Concerns(e) THEN payload[e][u].balance
                                     ELSE readModel[u]]
    /\ shown' = [u \in Users |-> IF u \in Concerns(e) THEN payload[e][u].change
                                 ELSE shown[u]]
    /\ projected' = [projected EXCEPT ![e] = @ + 1]

\* mutant: the fee given back is not shown
ReversalShown_NoFee(e) ==
    [NoLegs EXCEPT ![Job(e).peer] = -Amt(e), ![Usr(e)] = Amt(e)]

\* The amounts of TRANSFER_REVERSED: with the fee for the sender.
ReversalShown(e) ==
    [NoLegs EXCEPT ![Job(e).peer] = -Amt(e), ![Usr(e)] = Amt(e) + FeeBack(e)]

\* processReversalEvent: $inc.
ShowReversal(e) ==
    /\ readModel' = [u \in Users |-> readModel[u] + ReversalShown(e)[u]]
    /\ shown' = [u \in Users |->
                   IF u \notin Concerns(e) THEN shown[u]
                   ELSE IF shown[u] = payload[e][u].change - 1
                   THEN payload[e][u].change ELSE -1]
    /\ projected' = [projected EXCEPT ![e] = @ + 1]

\* onEventConfirmed gives up quietly after its attempts.
Publish(e) ==
    \/ published' = published \cup {e}
    \/ May("lost") /\ UNCHANGED published

\* mutant: the record is not looked at
Projectable_Again(e) == e \in published

\* Only a COMPLETED record keeps the projection consumer from an event; one
\* it has failed on stays PROCESSING and is taken up once stale, if the event
\* is published again with the same retry count.
Projectable(e) == e \in published /\ projection[e] # "COMPLETED"

Project(j, e) ==
    /\ Starting(j, "consume")
    /\ Projectable(e)
    /\ Show(e)
    /\ projection' = [projection EXCEPT ![e] = "COMPLETED"]
    /\ UNCHANGED published

\* The handler or its commit fails: its errors are not marked transient, so
\* the event goes to confirmed.transfer.events.dlq, which nobody reads.
ProjectFail(j, e) ==
    /\ May("dead")
    /\ Starting(j, "consume")
    /\ Projectable(e)
    /\ projection' = [projection EXCEPT ![e] = "PROCESSING"]
    /\ published' = published \ {e}
    /\ UNCHANGED <<projected, readModel, shown>>

ReadModelStep(j) == \E e \in Jobs : Project(j, e) \/ ProjectFail(j, e)
=============================================================================
