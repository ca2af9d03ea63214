--------------------------- MODULE EventConsumer ---------------------------
(***************************************************************************)
(* The Kafka consumers: the transfer consumer (the consumers of the other  *)
(* topics have the same handler) and the retry consumer behind it.  Kafka  *)
(* delivers a message again until its offset is committed; the handler     *)
(* commits by hand, and the processed_events collection is to keep a       *)
(* redelivered message from being processed twice.  A message that fails   *)
(* goes to the next retry topic or to the dead letter topic.               *)
(*                                                                         *)
(* Level 0 is the main topic and level i the topic retry.i.  Every level   *)
(* has a record of its own: the consumer group, the topic and the          *)
(* retryCount of a record are functions of the level.                      *)
(***************************************************************************)
EXTENDS Integers

CONSTANTS
    Events,         \* the events published by the outbox
    Workers,        \* handlers that run at a time (three per process)
    MaxRetries,     \* number of retry topics (5 in retry.policy.ts)
    Deliveries,     \* copies of an event Debezium may publish
    MaxVersion,     \* bound on the takeovers of one record
    Garbled,        \* events that do not parse
    Malformed,      \* events that parse but violate the schema
    Unsubscribed,   \* events whose retry topics nobody reads
    FaultSets       \* the combinations of faults a behaviour may have

ASSUME LevelAssumption ==
    /\ MaxRetries \in Nat \ {0}
    /\ Deliveries \in Nat \ {0}
    /\ MaxVersion \in Nat
ASSUME EventAssumption ==
    /\ Events # {}
    /\ Garbled \subseteq Events
    /\ Malformed \subseteq Events
    /\ Unsubscribed \subseteq Events
ASSUME FaultAssumption ==
    FaultSets \subseteq SUBSET
        {"crash",      \* a process dies
         "rebalance",  \* a partition moves while it is worked on
         "commit",     \* commitOffsets fails
         "database",   \* initIdempotency, failIdempotency throw
         "broker",     \* publishing fails
         "slow"}       \* a record gets older than the threshold

Levels == 0..MaxRetries
Messages == Events \X Levels
EventOf(m) == m[1]
LevelOf(m) == m[2]
NextLevel(m) == <<m[1], m[2] + 1>>

VARIABLES
    pending,   \* copies of each message whose offset is not committed
    record,    \* the processed_events document of each message
    effects,   \* how often the processing of a message has been committed
    dlq,       \* events published to the dead letter topic
    pc,        \* the next step of each worker's handler
    msg,       \* the message it works on
    version,   \* the record version initIdempotency gave it
    fenced,    \* its partition has moved to another worker
    faults     \* what may go wrong in this behaviour; it never changes

vars == <<pending, record, effects, dlq, pc, msg, version, fenced, faults>>
kafka == <<pending, dlq>>
job == <<msg, version, fenced>>

Steps == {"idle", "read", "init", "takeover", "process", "done",
          "failRetry", "failDlq", "retry", "dlq", "commit"}
Status == {"NONE", "PROCESSING", "COMPLETED", "FAILED"}
Record == [status : Status, version : Nat, stale : BOOLEAN]
Rec(status, v, stale) == [status |-> status, version |-> v, stale |-> stale]

Init ==
    /\ \E n \in 1..Deliveries :
         pending = [m \in Messages |-> IF LevelOf(m) = 0 THEN n ELSE 0]
    /\ record = [m \in Messages |-> Rec("NONE", 0, FALSE)]
    /\ effects = [m \in Messages |-> 0]
    /\ dlq = {}
    /\ pc = [w \in Workers |-> "idle"]
    /\ msg = [w \in Workers |-> CHOOSE m \in Messages : TRUE]
    /\ version = [w \in Workers |-> 0]
    /\ fenced = [w \in Workers |-> FALSE]
    /\ faults \in FaultSets

Goto(w, l) == pc' = [pc EXCEPT ![w] = l]
Holds(w, m) == pc[w] # "idle" /\ msg[w] = m

-----------------------------------------------------------------------------
(* The handler.                                                            *)

\* Kafka hands out a message none of whose copies is being worked on by the
\* owner of its partition (copies have the same key, hence one partition).
Take(w, m) ==
    /\ pc[w] = "idle"
    /\ pending[m] > 0
    /\ \A q \in Workers : Holds(q, m) => fenced[q]
    /\ LevelOf(m) > 0 => EventOf(m) \notin Unsubscribed
    /\ msg' = [msg EXCEPT ![w] = m]
    /\ fenced' = [fenced EXCEPT ![w] = FALSE]
    /\ Goto(w, "read")
    /\ UNCHANGED <<kafka, record, effects, version>>

\* A message that does not parse is committed unread; one that violates the
\* schema makes the handler throw before its try; on the last retry topic
\* nothing is processed any more.
Read(w) ==
    LET e == EventOf(msg[w]) IN
    /\ pc[w] = "read"
    /\ Goto(w, IF LevelOf(msg[w]) = MaxRetries THEN "dlq"
               ELSE IF LevelOf(msg[w]) = 0 /\ e \in Garbled THEN "commit"
               ELSE IF LevelOf(msg[w]) = 0 /\ e \in Malformed THEN "idle"
               ELSE "init")
    /\ UNCHANGED <<kafka, record, effects, job>>

\* mutant: a skipped message is not committed
Decision_NoCommit(r) ==
    IF r.status = "PROCESSING" /\ r.stale THEN "takeover" ELSE "idle"

\* mutant: a finished record is not recognised
Decision_NoSkip(r) ==
    IF r.status = "PROCESSING" /\ ~r.stale THEN "commit" ELSE "process"

\* Only a PROCESSING record older than the threshold may be taken over; any
\* other is skipped, and the message committed.
Decision(r) ==
    IF r.status = "PROCESSING" /\ r.stale THEN "takeover" ELSE "commit"

\* Insert the record, or read the one there is.
InitIdempotency(w) ==
    LET r == record[msg[w]] IN
    /\ pc[w] = "init"
    /\ IF r.status = "NONE"
       THEN /\ record' = [record EXCEPT ![msg[w]] = Rec("PROCESSING", 0, FALSE)]
            /\ version' = [version EXCEPT ![w] = 0]
            /\ Goto(w, "process")
       ELSE /\ version' = [version EXCEPT ![w] = r.version]
            /\ Goto(w, Decision(r))
            /\ UNCHANGED record
    /\ UNCHANGED <<kafka, effects, msg, fenced>>

\* mutant: the update does not compare versions
Matches_StatusOnly(w) == record[msg[w]].status = "PROCESSING"

\* The filter of the takeover and of completeIdempotency.
Matches(w) ==
    /\ record[msg[w]].status = "PROCESSING"
    /\ record[msg[w]].version = version[w]

\* The takeover is an update of its own after the read.
TakeOver(w) ==
    /\ pc[w] = "takeover"
    /\ IF Matches(w)
       THEN /\ record' = [record EXCEPT ![msg[w]] =
                            Rec("PROCESSING", version[w] + 1, FALSE)]
            /\ version' = [version EXCEPT ![w] = @ + 1]
            /\ Goto(w, "process")
       ELSE Goto(w, "commit") /\ UNCHANGED <<record, version>>
    /\ UNCHANGED <<kafka, effects, msg, fenced>>

\* The error path of the handler: on the main topic a transient error is
\* retried and any other goes to the dead letters; the retry consumer
\* retries whatever the error is.
ErrorPaths(m) == IF LevelOf(m) = 0 THEN {"failRetry", "failDlq"}
                 ELSE {"failRetry"}
UnknownError(m) == IF LevelOf(m) = 0 THEN "failDlq" ELSE "failRetry"

\* mutant: completeIdempotency is not part of the transaction
Process_OutsideTransaction(w) ==
    LET m == msg[w] IN
    /\ pc[w] = "process"
    /\ Matches(w)
    /\ effects' = [effects EXCEPT ![m] = @ + 1]
    /\ record' \in {record, [record EXCEPT ![m] =
                               Rec("COMPLETED", version[w] + 1, FALSE)]}
    /\ Goto(w, "done")
    /\ UNCHANGED <<kafka, job>>

\* The processor's writes and completeIdempotency are one Mongo transaction,
\* which fails when the record is no longer the worker's.
Process(w) ==
    LET m == msg[w] IN
    /\ pc[w] = "process"
    /\ \/ /\ Matches(w)
          /\ effects' = [effects EXCEPT ![m] = @ + 1]
          /\ record' = [record EXCEPT ![m] =
                          Rec("COMPLETED", version[w] + 1, FALSE)]
          /\ Goto(w, "done")
       \/ /\ ~Matches(w)
          /\ Goto(w, UnknownError(m))
          /\ UNCHANGED <<effects, record>>
    /\ UNCHANGED <<kafka, job>>

\* The processor throws; its transaction is rolled back.
ProcessorError(w) ==
    /\ pc[w] = "process"
    /\ \E l \in ErrorPaths(msg[w]) : Goto(w, l)
    /\ UNCHANGED <<kafka, record, effects, job>>

\* mutant: the filter asks for no version
FailIdempotency_AnyVersion(w) ==
    LET m == msg[w] IN
    /\ pc[w] \in {"failRetry", "failDlq"}
    /\ record' = [record EXCEPT ![m] = Rec("FAILED", @.version + 1, @.stale)]
    /\ Goto(w, IF pc[w] = "failRetry" THEN "retry" ELSE "dlq")
    /\ UNCHANGED <<kafka, effects, job>>

\* failIdempotency compares the version alone.
FailIdempotency(w) ==
    LET m == msg[w] IN
    /\ pc[w] \in {"failRetry", "failDlq"}
    /\ record' = [record EXCEPT ![m] =
                    IF @.version = version[w]
                    THEN Rec("FAILED", @.version + 1, @.stale) ELSE @]
    /\ Goto(w, IF pc[w] = "failRetry" THEN "retry" ELSE "dlq")
    /\ UNCHANGED <<kafka, effects, job>>

\* mutant: the retry topic is looked up one too low
SendToRetry_SameLevel(w) ==
    /\ pc[w] = "retry"
    /\ pending' = [pending EXCEPT ![msg[w]] = @ + 1]
    /\ Goto(w, "commit")
    /\ UNCHANGED <<dlq, record, effects, job>>

\* sendToRetry.  When the broker fails, an open circuit breaker pretends that
\* the message was sent; a closed one lets the error through (the message may
\* have been sent all the same), which retryOrDLQ answers with the dead letter
\* topic and the retry consumer does not catch.
SendToRetry(w) ==
    LET n == NextLevel(msg[w]) IN
    /\ pc[w] = "retry"
    /\ \/ /\ pending' = [pending EXCEPT ![n] = @ + 1]
          /\ Goto(w, "commit")
       \/ /\ "broker" \in faults
          /\ UNCHANGED pending
          /\ Goto(w, "commit")
       \/ /\ "broker" \in faults
          /\ \E sent \in {0, 1} : pending' = [pending EXCEPT ![n] = @ + sent]
          /\ Goto(w, IF LevelOf(msg[w]) = 0 THEN "dlq" ELSE "idle")
    /\ UNCHANGED <<dlq, record, effects, job>>

\* sendToDLQ logs every failure and never throws.
SendToDLQ(w) ==
    /\ pc[w] = "dlq"
    /\ \/ dlq' = dlq \cup {EventOf(msg[w])}
       \/ "broker" \in faults /\ UNCHANGED dlq
    /\ Goto(w, "commit")
    /\ UNCHANGED <<pending, record, effects, job>>

\* mutant: a commit is accepted from anyone
MayCommit_Anyone(w) == pc[w] \in {"done", "commit"}

\* The broker accepts a commit from the owner of the partition.
MayCommit(w) == ~fenced[w]
CommitFails(w) == fenced[w] \/ "commit" \in faults

\* The commit after processing is inside the try: when it fails the message
\* takes the error path although it has been processed.
CommitProcessed(w) ==
    /\ pc[w] = "done"
    /\ \/ /\ MayCommit(w)
          /\ pending' = [pending EXCEPT ![msg[w]] = @ - 1]
          /\ Goto(w, "idle")
       \/ /\ CommitFails(w)
          /\ Goto(w, UnknownError(msg[w]))
          /\ UNCHANGED pending
    /\ UNCHANGED <<dlq, record, effects, job>>

\* The other commits are the handler's last step.
CommitOffset(w) ==
    /\ pc[w] = "commit"
    /\ \/ /\ MayCommit(w)
          /\ pending' = [pending EXCEPT ![msg[w]] = @ - 1]
       \/ CommitFails(w) /\ UNCHANGED pending
    /\ Goto(w, "idle")
    /\ UNCHANGED <<dlq, record, effects, job>>

-----------------------------------------------------------------------------
(* What goes wrong around the handler.                                     *)

\* A call to the collection throws, and so does the handler.
DatabaseError(w) ==
    /\ "database" \in faults
    /\ pc[w] \in {"init", "takeover", "failRetry", "failDlq"}
    /\ Goto(w, "idle")
    /\ UNCHANGED <<kafka, record, effects, job>>

\* The process dies and is started again.
Crash(w) ==
    /\ "crash" \in faults
    /\ pc[w] # "idle"
    /\ Goto(w, "idle")
    /\ UNCHANGED <<kafka, record, effects, job>>

\* The group rebalances (a handler that outlives the session timeout is
\* enough): the worker carries on with a message that is no longer its own.
Rebalance(w) ==
    /\ "rebalance" \in faults
    /\ pc[w] # "idle"
    /\ fenced' = [fenced EXCEPT ![w] = TRUE]
    /\ UNCHANGED <<kafka, record, effects, pc, msg, version>>

\* STALE_THRESHOLD_MS passes.
BecomeStale(m) ==
    /\ "slow" \in faults
    /\ record[m].status = "PROCESSING"
    /\ record[m].version < MaxVersion
    /\ record' = [record EXCEPT ![m].stale = TRUE]
    /\ UNCHANGED <<kafka, effects, pc, job, faults>>

Handle(w) ==
    \/ Read(w)           \/ InitIdempotency(w)  \/ TakeOver(w)
    \/ Process(w)        \/ ProcessorError(w)   \/ FailIdempotency(w)
    \/ SendToRetry(w)    \/ SendToDLQ(w)
    \/ CommitProcessed(w) \/ CommitOffset(w)

Work(w) ==
    /\ Handle(w) \/ \E m \in Messages : Take(w, m)
    /\ UNCHANGED faults

Fail(w) ==
    /\ DatabaseError(w) \/ Crash(w) \/ Rebalance(w)
    /\ UNCHANGED faults

\* No handler runs and no message is waiting for one.
AtRest ==
    /\ \A w \in Workers : pc[w] = "idle"
    /\ \A m \in Messages :
         pending[m] > 0 => LevelOf(m) > 0 /\ EventOf(m) \in Unsubscribed
    /\ UNCHANGED vars

Next ==
    \/ \E w \in Workers : Work(w) \/ Fail(w)
    \/ \E m \in Messages : BecomeStale(m)
    \/ AtRest

Spec == Init /\ [][Next]_vars

\* kafkajs keeps polling, and a handler that runs goes on.
FairSpec == Spec /\ \A w \in Workers : WF_vars(Work(w))

-----------------------------------------------------------------------------
(* Properties.                                                             *)

\* Every variable has its type; in particular no offset is committed twice.
TypeOK ==
    /\ pending \in [Messages -> Nat]
    /\ record \in [Messages -> Record]
    /\ effects \in [Messages -> Nat]
    /\ dlq \subseteq Events
    /\ pc \in [Workers -> Steps]
    /\ msg \in [Workers -> Messages]
    /\ version \in [Workers -> Nat]
    /\ fenced \in [Workers -> BOOLEAN]
    /\ faults \in FaultSets

\* A record is COMPLETED exactly when the effects of its message have been
\* committed, and they are committed once: takeovers, late failures of the
\* previous owner and redeliveries included.
CompletedOnce ==
    \A m \in Messages :
      effects[m] = IF record[m].status = "COMPLETED" THEN 1 ELSE 0

\* Two workers that run the processor on one message do so under different
\* record versions, so that one of them at most can complete it.
OneLeaseholder ==
    \A w, q \in Workers :
      /\ pc[w] = "process" /\ pc[q] = "process"
      /\ msg[w] = msg[q] /\ version[w] = version[q]
      => w = q

\* Takeovers neither repeat nor hide an effect, however many owners a message
\* has had (initIdempotency, markCompleted).
LeaseProtects == CompletedOnce /\ OneLeaseholder

Processed(e) == \E m \in Messages : EventOf(m) = e /\ effects[m] > 0
Busy(e) ==
    \/ \E m \in Messages : EventOf(m) = e /\ pending[m] > 0
    \/ \E w \in Workers : pc[w] # "idle" /\ EventOf(msg[w]) = e

\* No process dies and no call to the database or the broker fails.
Reliable == faults \cap {"crash", "database", "broker"} = {}
\* Nobody acts for a partition it has lost, and commits succeed.
NoZombies == faults \cap {"rebalance", "commit"} = {}

\* An event that parses ends up processed or among the dead letters: when its
\* last offset is committed and no handler has it, one of the two holds.
EventsKept ==
    \A e \in Events \ Garbled : Busy(e) \/ Processed(e) \/ e \in dlq

\* Rebalances, commits that fail, slow handlers and duplicates lose no event.
NothingLost == Reliable => EventsKept

\* The effects of an event are applied once over all the topics it goes
\* through, crashes and broker failures included.
EffectOncePerEvent ==
    NoZombies =>
      \A m, n \in Messages :
        EventOf(m) = EventOf(n) /\ effects[m] > 0 /\ effects[n] > 0
        => m = n /\ effects[m] = 1

\* A dead letter has not been processed, so that an operator may replay it.
DeadLettersUnprocessed ==
    NoZombies /\ "broker" \notin faults => \A e \in dlq : ~Processed(e)

\* Wherever an event is found, its effects are there once at most: on one
\* topic, or in what an operator makes of its dead letter.
AppliedOnce == EffectOncePerEvent /\ DeadLettersUnprocessed

\* While handlers run to their end, every event comes to rest: its messages
\* get committed on every topic.
EventsSettle ==
    faults \subseteq {"broker", "slow"} => \A e \in Events : <>[]~Busy(e)
=============================================================================
