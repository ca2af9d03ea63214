----------------------------- MODULE DeadLetters -----------------------------
(***************************************************************************)
(* What becomes of an event: its consumer processes it (the protocol of    *)
(* that is EventConsumer's; here an event is processed, dead-lettered, or  *)
(* both), the DLQ sink files what is dead, and admins replay the letters   *)
(* or dismiss them.  Replay and dismissal read the letter, act, and write  *)
(* its status whatever it has become.                                      *)
(***************************************************************************)
EXTENDS Mail, ReadModel

VARIABLES
    taken,      \* events the consumers are done with
    applied,    \* how often each event has been processed and committed
    letter,     \* status of its failed_events document
    target,     \* the letter each request is at
    todo,       \* the letters each replayTopic has yet to replay
    revived,    \* events a replay has processed
    overtaken   \* <<request, letter>>: another one wrote it while it was there

LetterStatuses == {"NONE", "PENDING", "REPLAYED", "REPLAY_FAILED", "DISMISSED"}
letterState == <<taken, applied, letter, target, todo, revived, overtaken>>
aftermath == <<mailState, readModelState, letterState>>

LettersInit ==
    /\ taken = {}
    /\ applied = [e \in Jobs |-> 0]
    /\ letter = [e \in Jobs |-> "NONE"]
    /\ target = [j \in Jobs |-> j]
    /\ todo = [j \in Jobs |-> {}]
    /\ revived = {}
    /\ overtaken = {}

\* Processing writes a mail for a transfer between users, a funding and a
\* system funding; none for a deposit, a refund or a reversal.
Mailed(e) == Job(e).kind \in {"transfer", "funding", "fund"}

\* mutant: the row is written without looking for one of its jobId
Processable_Always(e) == TRUE

\* jobId is unique.  writeToEmailOutbox means to skip a duplicate, but the
\* error has aborted the transaction.
Processable(e) == Mailed(e) => mail[e].status = "NONE"

\* processTransferEvents, processFundingEvents, processReversalEvent.
Process(e) ==
    /\ applied' = [applied EXCEPT ![e] = @ + 1]
    /\ mail' = IF Mailed(e)
               THEN [mail EXCEPT ![e] = [status |-> "PENDING", attempts |-> 0]]
               ELSE mail

NotProcessed == UNCHANGED <<applied, mail>>

\* dlq.consumer.ts subscribes to no topic of reversals.
File(e) ==
    letter' = [letter EXCEPT ![e] = IF Job(e).kind = "reverse" THEN "NONE" ELSE "PENDING"]

Takeable(j, e) ==
    /\ Starting(j, "consume")
    /\ Emitted(e) /\ e \notin taken

\* Processed, and then published as confirmed or shown.
Consume(j, e) ==
    /\ Takeable(j, e)
    /\ taken' = taken \cup {e}
    /\ Process(e)
    /\ IF Job(e).kind = "reverse"
       THEN ShowReversal(e) /\ UNCHANGED published
       ELSE Publish(e) /\ UNCHANGED <<readModel, shown, projected>>
    /\ UNCHANGED <<projection, letter, target, todo, revived, overtaken>>

\* Dead-lettered unprocessed, or after the offset of a processed event could
\* not be committed: by the consumer, before it has published it, or by the
\* retry consumer, after.
ConsumeDead(j, e) ==
    /\ May("dead")
    /\ Takeable(j, e)
    /\ Job(e).kind # "reverse"
    /\ taken' = taken \cup {e}
    /\ \/ NotProcessed /\ UNCHANGED published
       \/ Process(e) /\ published' \in {published, published \cup {e}}
    /\ File(e)
    /\ UNCHANGED <<projection, projected, readModel, shown, target, todo, revived,
                   overtaken>>

\* A reversal that is dead-lettered is lost to the read model; one whose
\* offset the retry consumer could not commit is processed by the next level.
ReversalDead(j, e) ==
    /\ May("dead")
    /\ Takeable(j, e)
    /\ Job(e).kind = "reverse"
    /\ \/ taken' = taken \cup {e} /\ NotProcessed /\ UNCHANGED <<readModel, shown, projected>>
       \/ applied[e] = 0 /\ Process(e) /\ ShowReversal(e) /\ UNCHANGED taken
    /\ File(e)
    /\ UNCHANGED <<published, projection, target, todo, revived, overtaken>>

-----------------------------------------------------------------------------
(* DLQAdminService.                                                        *)

Replaying == {"replayRun", "replayConfirm", "replayMark", "replayFail", "dismiss"}

Filed(e) == letter[e] # "NONE"
Pending(e) == Filed(e) /\ letter[e] # "REPLAYED"

\* Letters are written by j: other requests at them do not know.
Overtake(j, es) ==
    overtaken' = overtaken \cup
        {<<i, target[i]>> : i \in {k \in Jobs \ {j} : pc[k] \in Replaying
                                                      /\ target[k] \in es}}

Write(j, status) ==
    /\ letter' = [letter EXCEPT ![target[j]] = status]
    /\ Overtake(j, {target[j]})

\* replayTopic goes on to the next letter, replayEvent answers.
Proceed(j) == Goto(j, IF Job(j).kind = "replayTopic" THEN "topic" ELSE "done")

\* mutant: a letter that is REPLAYED is replayed again
Replayable_Again(e) == Filed(e)

Replayable(e) == Pending(e)

\* findOne by the event's id; EVENT_ALREADY_REPLAYED, or none found.
ReplayRead(j, e) ==
    /\ Starting(j, "replay")
    /\ Filed(e)
    /\ target' = [target EXCEPT ![j] = e]
    /\ Goto(j, IF Replayable(e) THEN "replayRun" ELSE "failed")
    /\ UNCHANGED <<taken, applied, letter, todo, revived, overtaken, mail, published>>

TopicRead(j) ==
    LET pending == {e \in Jobs : Pending(e)} IN
    /\ Starting(j, "replayTopic")
    /\ pending # {}
    /\ todo' = [todo EXCEPT ![j] = pending]
    /\ Goto(j, "topic")
    /\ UNCHANGED <<taken, applied, letter, target, revived, overtaken, mail, published>>

TopicNext(j, e) ==
    /\ At(j, "topic")
    /\ e \in todo[j]
    /\ todo' = [todo EXCEPT ![j] = @ \ {e}]
    /\ target' = [target EXCEPT ![j] = e]
    /\ Goto(j, IF Replayable(e) THEN "replayRun" ELSE "topic")
    /\ UNCHANGED <<taken, applied, letter, revived, overtaken, mail, published>>

TopicDone(j) ==
    /\ At(j, "topic")
    /\ todo[j] = {}
    /\ Goto(j, "done")
    /\ UNCHANGED <<letterState, mail, published>>

\* The transaction around the registry's processor.
ReplayRun(j) ==
    LET e == target[j] IN
    /\ At(j, "replayRun")
    /\ \/ /\ Processable(e)
          /\ Process(e)
          /\ revived' = revived \cup {e}
          /\ Goto(j, "replayConfirm")
       \/ /\ ~Processable(e) \/ May("error")
          /\ Goto(j, "replayFail")
          /\ UNCHANGED <<revived, applied, mail>>
    /\ UNCHANGED <<taken, letter, target, todo, overtaken, published>>

\* onSuccess, an onEventConfirmed.
ReplayConfirm(j) ==
    /\ At(j, "replayConfirm")
    /\ Publish(target[j])
    /\ Goto(j, "replayMark")
    /\ UNCHANGED <<letterState, mail>>

\* mutant: the status is left to the next replay
ReplayMark_Not(j) ==
    /\ At(j, "replayMark")
    /\ Proceed(j)
    /\ UNCHANGED <<letterState, mail, published>>

\* An error here is caught with those of the processor.
ReplayMark(j) ==
    /\ At(j, "replayMark")
    /\ \/ Write(j, "REPLAYED") /\ Proceed(j)
       \/ May("error") /\ Goto(j, "replayFail") /\ UNCHANGED <<letter, overtaken>>
    /\ UNCHANGED <<taken, applied, target, todo, revived, mail, published>>

ReplayMarkFailed(j) ==
    /\ At(j, "replayFail")
    /\ Write(j, "REPLAY_FAILED")
    /\ Proceed(j)
    /\ UNCHANGED <<taken, applied, target, todo, revived, mail, published>>

\* dismissEvent: a letter that is REPLAYED when read is refused.
DismissRead(j, e) ==
    /\ Starting(j, "dismiss")
    /\ Filed(e)
    /\ target' = [target EXCEPT ![j] = e]
    /\ Goto(j, IF Pending(e) THEN "dismiss" ELSE "failed")
    /\ UNCHANGED <<taken, applied, letter, todo, revived, overtaken, mail, published>>

DismissWrite(j) ==
    /\ At(j, "dismiss")
    /\ Write(j, "DISMISSED")
    /\ Goto(j, "done")
    /\ UNCHANGED <<taken, applied, target, todo, revived, mail, published>>

\* mutant: the filter names the events only
Dismissible_Any == {e \in Jobs : Filed(e)}

\* The filter of bulkDismiss.
Dismissible == {e \in Jobs : Pending(e)}

BulkDismiss(j) ==
    /\ Starting(j, "bulkDismiss")
    /\ \E e \in Jobs : Filed(e)
    /\ letter' = [e \in Jobs |-> IF e \in Dismissible THEN "DISMISSED" ELSE letter[e]]
    /\ Overtake(j, Dismissible)
    /\ Goto(j, "done")
    /\ UNCHANGED <<taken, applied, target, todo, revived, mail, published>>

AdminStep(j) ==
    \/ \E e \in Jobs : ReplayRead(j, e) \/ TopicNext(j, e) \/ DismissRead(j, e)
    \/ TopicRead(j) \/ TopicDone(j)
    \/ ReplayRun(j) \/ ReplayConfirm(j) \/ ReplayMark(j) \/ ReplayMarkFailed(j)
    \/ DismissWrite(j) \/ BulkDismiss(j)

ConsumeStep(j) ==
    \E e \in Jobs : Consume(j, e) \/ ConsumeDead(j, e) \/ ReversalDead(j, e)

\* The steps after the outbox, each with what it leaves alone.
AftermathStep(j) ==
    \/ /\ ConsumeStep(j)
       /\ UNCHANGED <<pc, queue, sent, hand, mishaps>>
    \/ /\ ReadModelStep(j)
       /\ UNCHANGED <<pc, mailState, letterState>>
    \/ /\ MailStep(j)
       /\ UNCHANGED <<readModelState, letterState>>
    \/ /\ AdminStep(j)
       /\ UNCHANGED <<projection, projected, readModel, shown,
                      queue, sent, hand, mishaps>>
=============================================================================
