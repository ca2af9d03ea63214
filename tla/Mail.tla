--------------------------------- MODULE Mail ---------------------------------
(***************************************************************************)
(* Mails: a row of email_outbox is written in the transaction that         *)
(* processes an event, the poller claims it and adds a BullMQ job of the   *)
(* row's id, the worker sends and marks the row DELIVERED.  Poller and     *)
(* worker are one container each.  An event with two mails (both parties   *)
(* of a transfer) writes two rows that never meet; one is modelled.        *)
(***************************************************************************)
EXTENDS Books

CONSTANTS
    MailAttempts,   \* MAX_ATTEMPTS of the poller
    QueueAttempts,  \* attempts of a BullMQ job
    MaxMishaps      \* failing calls, crashes and losses on this side

ASSUME MailAssumption ==
    /\ {MailAttempts, QueueAttempts} \subseteq Nat \ {0}
    /\ MaxMishaps \in Nat
\* docker-compose.yml starts one poller.
ASSUME PollerAssumption ==
    \A w \in Workloads : \A i, j \in Jobs :
        (Request[w.asks[i]].kind = "poll" /\ Request[w.asks[j]].kind = "poll") => i = j

VARIABLES
    mail,       \* the email_outbox row of each event
    queue,      \* the BullMQ job of each row
    sent,       \* how often the provider has accepted each mail
    hand,       \* the row poller and worker are at
    mishaps     \* mishaps so far

mailState == <<mail, queue, sent, hand, mishaps>>

Mailers == {"poll", "mail"}

MailStatuses == {"NONE", "PENDING", "PROCESSING", "ENQUEUED", "DELIVERED", "FAILED"}
MailDoc == [status : MailStatuses, attempts : 0..MailAttempts]
QueueJob == [state : {"none", "waiting", "active", "completed", "failed"},
             tries : 0..QueueAttempts, stalled : BOOLEAN]
NoQueueJob == [state |-> "none", tries |-> 0, stalled |-> FALSE]

MailInit ==
    /\ mail = [e \in Jobs |-> [status |-> "NONE", attempts |-> 0]]
    /\ queue = [e \in Jobs |-> NoQueueJob]
    /\ sent = [e \in Jobs |-> 0]
    /\ hand = [j \in Jobs |-> j]
    /\ mishaps = 0

SetMail(e, status) == mail' = [mail EXCEPT ![e].status = status]
SetQueue(e, state) == queue' = [queue EXCEPT ![e].state = state]

Mishap == mishaps < MaxMishaps /\ mishaps' = mishaps + 1

-----------------------------------------------------------------------------
(* pollOnce.                                                               *)

\* mutant: rows that were left PROCESSING are not claimed again
Claimable_Pending(e) ==
    /\ mail[e].status = "PENDING"
    /\ mail[e].attempts < MailAttempts

\* What the filter finds: PENDING rows, and PROCESSING ones, which may be old
\* enough at any time.  The schema has neither nextRetryAt nor enqueuedAt, so
\* that neither is ever stored: no backoff applies, and the branch for rows
\* left ENQUEUED matches none.
Claimable(e) ==
    /\ mail[e].status \in {"PENDING", "PROCESSING"}
    /\ mail[e].attempts < MailAttempts

PollClaim(j, e) ==
    /\ Starting(j, "poll")
    /\ Claimable(e)
    /\ SetMail(e, "PROCESSING")
    /\ hand' = [hand EXCEPT ![j] = e]
    /\ Goto(j, "pollAdd")
    /\ UNCHANGED <<queue, sent, mishaps>>

\* A job of this id that is still there, whatever has become of it, is kept.
PollAdd(j) ==
    LET e == hand[j] IN
    /\ At(j, "pollAdd")
    /\ \/ /\ queue' = IF queue[e].state = "none"
                      THEN [queue EXCEPT ![e] = [NoQueueJob EXCEPT !.state = "waiting"]]
                      ELSE queue
          /\ Goto(j, "pollMark")
          /\ UNCHANGED mishaps
       \/ /\ Mishap
          /\ Goto(j, "pollFail")
          /\ UNCHANGED queue
    /\ UNCHANGED <<mail, sent, hand>>

\* Whatever the worker has written in the meantime.
PollMark(j) ==
    /\ At(j, "pollMark")
    /\ \/ SetMail(hand[j], "ENQUEUED") /\ Goto(j, "start") /\ UNCHANGED mishaps
       \/ Mishap /\ Goto(j, "pollFail") /\ UNCHANGED mail
    /\ UNCHANGED <<queue, sent, hand>>

PollFail(j) ==
    LET attempts == mail[hand[j]].attempts + 1 IN
    /\ At(j, "pollFail")
    /\ mail' = [mail EXCEPT ![hand[j]] =
                  [status |-> IF attempts >= MailAttempts THEN "FAILED" ELSE "PENDING",
                   attempts |-> attempts]]
    /\ Goto(j, "start")
    /\ UNCHANGED <<queue, sent, hand, mishaps>>

-----------------------------------------------------------------------------
(* The worker.                                                             *)

WorkTake(j, e) ==
    /\ Starting(j, "mail")
    /\ queue[e].state = "waiting"
    /\ SetQueue(e, "active")
    /\ hand' = [hand EXCEPT ![j] = e]
    /\ Goto(j, "send")
    /\ UNCHANGED <<mail, sent, mishaps>>

\* A funding mail is a CREDIT mail, which is sent to recipientEmail, and its
\* row has only an email: the provider refuses it.
Addressed(e) == Job(e).kind # "funding"

\* mutant: no idempotencyKey is sent along
Accepted_Each(e) == sent[e] + 1

\* The idempotencyKey is the id of the job: a mail is accepted once.
Accepted(e) == IF sent[e] = 0 THEN 1 ELSE sent[e]

\* A repeat of the key is answered or refused: the body holds the time of the
\* attempt.
WorkSend(j) ==
    LET e == hand[j] IN
    /\ At(j, "send")
    /\ Addressed(e)
    /\ sent' = [sent EXCEPT ![e] = Accepted(e)]
    /\ \/ Goto(j, "sendMark")
       \/ sent[e] > 0 /\ Goto(j, "sendFail")
    /\ UNCHANGED <<mail, queue, hand, mishaps>>

\* The breaker is open, the provider refuses, or its answer is lost.
WorkSendError(j) ==
    LET e == hand[j] IN
    /\ At(j, "send")
    /\ \/ ~Addressed(e) /\ UNCHANGED <<sent, mishaps>>
       \/ Addressed(e) /\ Mishap /\ sent' \in {sent, [sent EXCEPT ![e] = Accepted(e)]}
    /\ Goto(j, "sendFail")
    /\ UNCHANGED <<mail, queue, hand>>

\* An error here is logged and swallowed.
WorkMark(j) ==
    /\ At(j, "sendMark")
    /\ \/ SetMail(hand[j], "DELIVERED") /\ UNCHANGED mishaps
       \/ Mishap /\ UNCHANGED mail
    /\ Goto(j, "sendDone")
    /\ UNCHANGED <<queue, sent, hand>>

WorkDone(j) ==
    LET e == hand[j] IN
    /\ At(j, "sendDone")
    /\ queue' = IF queue[e].state = "active"
                THEN [queue EXCEPT ![e].state = "completed"] ELSE queue
    /\ Goto(j, "start")
    /\ UNCHANGED <<mail, sent, hand, mishaps>>

WorkFail(j) ==
    LET e == hand[j]
        tries == queue[e].tries + 1
    IN
    /\ At(j, "sendFail")
    /\ queue' = IF queue[e].state # "active" THEN queue
                ELSE [queue EXCEPT ![e].tries = tries,
                                   ![e].state = IF tries >= QueueAttempts
                                                THEN "failed" ELSE "waiting"]
    /\ Goto(j, "start")
    /\ UNCHANGED <<mail, sent, hand, mishaps>>

-----------------------------------------------------------------------------
(* Crashes of either container, and Redis.                                 *)

MailCrash(j) ==
    /\ Job(j).kind \in Mailers
    /\ pc[j] \notin {"start", "down"}
    /\ Mishap
    /\ Goto(j, "down")
    /\ UNCHANGED <<mail, queue, sent, hand>>

\* restart: unless-stopped.  The new worker finds the job it was at stalled,
\* and puts a job back once.
Stalled(q) ==
    CASE q.state = "active" /\ q.stalled -> [q EXCEPT !.state = "failed"]
      [] q.state = "active" /\ ~q.stalled ->
             [q EXCEPT !.state = "waiting", !.stalled = TRUE]
      [] OTHER -> q

MailRestart(j) ==
    /\ At(j, "down")
    /\ queue' = IF Job(j).kind = "mail"
                THEN [queue EXCEPT ![hand[j]] = Stalled(@)] ELSE queue
    /\ Goto(j, "start")
    /\ UNCHANGED <<mail, sent, hand, mishaps>>

\* removeOnComplete; a failed job stays.
QueueForget(e) ==
    /\ queue[e].state = "completed"
    /\ queue' = [queue EXCEPT ![e] = NoQueueJob]
    /\ UNCHANGED <<pc, mail, sent, hand, mishaps>>

RedisLoss ==
    /\ \E e \in Jobs : queue[e].state # "none"
    /\ Mishap
    /\ queue' = [e \in Jobs |-> NoQueueJob]
    /\ UNCHANGED <<pc, mail, sent, hand>>

MailStep(j) ==
    \/ \E e \in Jobs : PollClaim(j, e) \/ WorkTake(j, e)
    \/ PollAdd(j) \/ PollMark(j) \/ PollFail(j)
    \/ WorkSend(j) \/ WorkSendError(j) \/ WorkMark(j) \/ WorkDone(j) \/ WorkFail(j)
    \/ MailRestart(j)
=============================================================================
