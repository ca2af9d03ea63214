--------------------------- MODULE PaymentFunding ---------------------------
(***************************************************************************)
(* Funding a wallet from outside: a request initializes a payment with the *)
(* provider, the user pays on the provider's page, and the money reaches   *)
(* the wallet by the provider's webhook or, when that does not arrive, by  *)
(* the reaper, which polls the provider for payments that stay PENDING.    *)
(* Webhook handlers, reaper runs, requests and cancellations share the     *)
(* payment_initializations collection and nothing else.                    *)
(***************************************************************************)
EXTENDS Integers

CONSTANTS
    Payments,          \* requests to initialize a payment, each its payment
    Key,               \* the client's idempotency key of a request
    Target,            \* the wallet to be funded
    Asked,             \* the amount a payment asks for
    Paid,              \* the amount the user pays, or would
    Hooks,             \* webhook handlers that run at a time
    Reapers,           \* reaper jobs that run at a time
    MaxRetryAttempts,  \* MAX_RETRY_ATTEMPTS of the reaper
    MaxRetry,          \* bound on retryAttempts
    Echoes             \* the provider's reference is ours (Paystack), or not

ASSUME ActorAssumption == Hooks \cap Reapers = {}
ASSUME RetryAssumption ==
    /\ MaxRetryAttempts \in Nat \ {0}
    /\ MaxRetry \in Nat
    /\ MaxRetryAttempts <= MaxRetry
ASSUME EchoAssumption == Echoes \in BOOLEAN

Actors == Hooks \cup Reapers

VARIABLES
    status,      \* the status of each payment, NONE before it is created
    referenced,  \* payments whose providerReference has been saved
    retry,       \* retryAttempts
    charge,      \* what the provider knows of the payment
    posted,      \* transactionRefs of the ledger: payment and reference used
    credits,     \* how often the wallet has been credited for the payment
    outbox,      \* payment events: payment and type
    req,         \* the next step of each request
    pc,          \* the next step of each webhook handler and reaper job
    on,          \* the payment it works on
    seen,        \* retryAttempts as the reaper job read them
    cancelling,  \* payments a cancellation has read as PENDING
    reaped       \* payments a reaper job has credited (for a property)

vars == <<status, referenced, retry, charge, posted, credits, outbox, req,
          pc, on, seen, cancelling, reaped>>
records == <<status, referenced, retry>>
money == <<charge, posted, credits, reaped>>
actors == <<pc, on, seen>>

Statuses == {"NONE", "PENDING", "SUCCESS", "FAILED", "ABANDONED", "CANCELLED"}

Init ==
    /\ status = [p \in Payments |-> "NONE"]
    /\ referenced = {}
    /\ retry = [p \in Payments |-> 0]
    /\ charge = [p \in Payments |-> "open"]
    /\ posted = {}
    /\ credits = [p \in Payments |-> 0]
    /\ outbox = {}
    /\ req = [p \in Payments |-> "new"]
    /\ pc = [a \in Actors |-> "idle"]
    /\ on = [a \in Actors |-> CHOOSE p \in Payments : TRUE]
    /\ seen = [r \in Reapers |-> 0]
    /\ cancelling = {}
    /\ reaped = {}

\* The update of a payment that asks for status PENDING.
IfPending(p, s) == status' = [status EXCEPT ![p] = IF @ = "PENDING" THEN s ELSE @]
Emit(p, type) == outbox' = outbox \cup {<<p, type>>}
Reply(p, l) == req' = [req EXCEPT ![p] = l]
Goto(a, l) == pc' = [pc EXCEPT ![a] = l]

-----------------------------------------------------------------------------
(* A request to initialize a payment.                                      *)

SameKey(p) == {q \in Payments : Key[q] = Key[p] /\ status[q] # "NONE"}

\* A key the user has used before is answered with its payment.
CheckExisting(p) ==
    /\ req[p] = "new"
    /\ Reply(p, IF SameKey(p) # {} THEN "done" ELSE "existing")
    /\ UNCHANGED <<records, money, outbox, actors, cancelling>>

\* One payment at a time may be pending for a wallet.  The checks of the
\* user, the wallet, its cap and the daily limit may refuse the request too.
CheckPending(p) ==
    /\ req[p] = "existing"
    /\ \/ /\ \A q \in Payments : Target[q] = Target[p] => status[q] # "PENDING"
          /\ Reply(p, "create")
       \/ Reply(p, "done")
    /\ UNCHANGED <<records, money, outbox, actors, cancelling>>

\* mutant: the index on the user and the key is not unique
Create_NotUnique(p) ==
    /\ req[p] = "create"
    /\ status' = [status EXCEPT ![p] = "PENDING"]
    /\ Reply(p, "provider")
    /\ UNCHANGED <<referenced, retry, money, outbox, actors, cancelling>>

\* The unique index on the user and the key has the last word.
Create(p) ==
    /\ req[p] = "create"
    /\ IF SameKey(p) # {}
       THEN Reply(p, "done") /\ UNCHANGED status
       ELSE /\ status' = [status EXCEPT ![p] = "PENDING"]
            /\ Reply(p, "provider")
    /\ UNCHANGED <<referenced, retry, money, outbox, actors, cancelling>>

CallProvider(p) ==
    /\ req[p] = "provider"
    /\ \E l \in {"save", "refused"} : Reply(p, l)
    /\ UNCHANGED <<records, money, outbox, actors, cancelling>>

\* The provider's answer is saved whatever has become of the payment.
SaveReference(p) ==
    /\ req[p] = "save"
    /\ referenced' = referenced \cup {p}
    /\ Reply(p, "initiated")
    /\ UNCHANGED <<status, retry, money, outbox, actors, cancelling>>

\* The provider's failure is written over any status.
ProviderFailed(p) ==
    /\ req[p] = "refused"
    /\ status' = [status EXCEPT ![p] = "FAILED"]
    /\ Reply(p, "failed")
    /\ UNCHANGED <<referenced, retry, money, outbox, actors, cancelling>>

\* The last step: the event, outside any transaction.
EmitInitialization(p) ==
    /\ req[p] \in {"initiated", "failed"}
    /\ Emit(p, IF req[p] = "failed" THEN "FAILED" ELSE "INITIATED")
    /\ Reply(p, "done")
    /\ UNCHANGED <<records, money, actors, cancelling>>

\* The request fails with an error, or its process dies.
RequestDies(p) ==
    /\ req[p] \notin {"new", "done"}
    /\ Reply(p, "done")
    /\ UNCHANGED <<records, money, outbox, actors, cancelling>>

\* The user cancels: what it reads and what it writes are two calls, and the
\* second asks for no status.
BeginCancel(p) ==
    /\ status[p] = "PENDING"
    /\ cancelling' = cancelling \cup {p}
    /\ UNCHANGED <<records, money, outbox, req, actors>>

Cancel(p) ==
    /\ p \in cancelling
    /\ cancelling' = cancelling \ {p}
    /\ status' = [status EXCEPT ![p] = "CANCELLED"]
    /\ UNCHANGED <<referenced, retry, money, outbox, req, actors>>

-----------------------------------------------------------------------------
(* The provider.                                                           *)

\* The user has the page once it has been saved: from the reply, or from the
\* reply to a retry.  An abandoned page can still be paid.
Pay(p) ==
    /\ p \in referenced
    /\ \/ charge[p] = "open" /\ \E c \in {"paid", "failed", "abandoned"} :
                                  charge' = [charge EXCEPT ![p] = c]
       \/ charge[p] = "abandoned" /\ charge' = [charge EXCEPT ![p] = "paid"]
    /\ UNCHANGED <<records, posted, credits, reaped, outbox, req, actors, cancelling>>

-----------------------------------------------------------------------------
(* Crediting the wallet, by a webhook handler or a reaper job.             *)

\* Where an exception leads: the reaper job catches it and goes on.
Thrown(a) == IF a \in Reapers THEN "failed" ELSE "idle"

\* mutant: each source posts under a key of its own
FundingRef_PerSource(a) == IF a \in Hooks THEN "provider" ELSE "payment"

\* The idempotency key of the funding: the webhook uses the provider's
\* reference, the reaper the payment's own.
FundingRef(a) == IF a \in Hooks /\ ~Echoes THEN "provider" ELSE "payment"

\* mutant: the payment is marked before the money has moved
CheckPosted_MarksFirst(a) ==
    /\ pc[a] = "credit"
    /\ IfPending(on[a], "SUCCESS")
    /\ Goto(a, IF <<on[a], FundingRef(a)>> \in posted THEN "succeed" ELSE "post")
    /\ UNCHANGED <<referenced, retry, money, outbox, req, on, seen, cancelling>>

\* The ledger is asked for the key before the transaction is opened.
CheckPosted(a) ==
    /\ pc[a] = "credit"
    /\ Goto(a, IF <<on[a], FundingRef(a)>> \in posted THEN "succeed" ELSE "post")
    /\ UNCHANGED <<records, money, outbox, req, on, seen, cancelling>>

\* The transaction: ledger entries, under a unique key, and the wallet, with
\* the amount asked for.
Post(a) ==
    LET p == on[a] IN
    /\ pc[a] = "post"
    /\ IF <<p, FundingRef(a)>> \in posted
       THEN Goto(a, Thrown(a)) /\ UNCHANGED <<posted, credits, reaped>>
       ELSE /\ posted' = posted \cup {<<p, FundingRef(a)>>}
            /\ credits' = [credits EXCEPT ![p] = @ + 1]
            /\ reaped' = IF a \in Reapers THEN reaped \cup {p} ELSE reaped
            /\ Goto(a, "succeed")
    /\ UNCHANGED <<records, charge, outbox, req, on, seen, cancelling>>

\* Whether the update found the payment PENDING is not looked at.
MarkSuccess(a) ==
    /\ pc[a] = "succeed"
    /\ IfPending(on[a], "SUCCESS")
    /\ retry' = [retry EXCEPT ![on[a]] =
                   IF a \in Reapers /\ status[on[a]] = "PENDING" /\ @ < MaxRetry
                   THEN @ + 1 ELSE @]
    /\ Goto(a, "emit")
    /\ UNCHANGED <<referenced, money, outbox, req, on, seen, cancelling>>

EmitSuccess(a) ==
    /\ pc[a] = "emit"
    /\ Emit(on[a], "SUCCEEDED")
    /\ Goto(a, "idle")
    /\ UNCHANGED <<records, money, req, on, seen, cancelling>>

\* The handler fails, at whatever call, or its process dies: the webhook is
\* delivered again and the payment polled again.
Dies(a) ==
    /\ pc[a] \notin {"idle", "failed"}
    /\ Goto(a, Thrown(a))
    /\ UNCHANGED <<records, money, outbox, req, on, seen, cancelling>>

-----------------------------------------------------------------------------
(* The webhook.                                                            *)

\* The provider delivers the outcome of a charge, as often as it likes.
Deliver(h, p) ==
    /\ pc[h] = "idle"
    /\ charge[p] \in {"paid", "failed"}
    /\ on' = [on EXCEPT ![h] = p]
    /\ Goto(h, "find")
    /\ UNCHANGED <<records, money, outbox, req, seen, cancelling>>

\* mutant: the amount of the webhook is not compared
Find_AnyAmount(h) ==
    LET p == on[h] IN
    /\ h \in Hooks /\ pc[h] = "find"
    /\ Goto(h, IF status[p] # "PENDING" THEN "idle"
               ELSE IF charge[p] = "failed" THEN "reject"
               ELSE "credit")
    /\ UNCHANGED <<records, money, outbox, req, on, seen, cancelling>>

\* A payment that is not PENDING is acknowledged and forgotten, one of another
\* amount than was asked for is refused.
Find(h) ==
    LET p == on[h] IN
    /\ h \in Hooks /\ pc[h] = "find"
    /\ Goto(h, IF status[p] # "PENDING" THEN "idle"
               ELSE IF Paid[p] # Asked[p] \/ charge[p] = "failed" THEN "reject"
               ELSE "credit")
    /\ UNCHANGED <<records, money, outbox, req, on, seen, cancelling>>

\* markInitializationFailed.
Reject(h) ==
    /\ h \in Hooks /\ pc[h] = "reject"
    /\ IfPending(on[h], "FAILED")
    /\ Goto(h, "idle")
    /\ UNCHANGED <<referenced, retry, money, outbox, req, on, seen, cancelling>>

-----------------------------------------------------------------------------
(* The reaper.                                                             *)

\* A run reads the payments that have been PENDING for a while and works on
\* each with what it has read.  Without a reference the provider's call is
\* taken never to have completed.
Scan(r, p) ==
    /\ pc[r] = "idle"
    /\ status[p] = "PENDING"
    /\ retry[p] < MaxRetryAttempts
    /\ on' = [on EXCEPT ![r] = p]
    /\ seen' = [seen EXCEPT ![r] = retry[p]]
    /\ Goto(r, IF p \in referenced THEN "verify" ELSE "abandon")
    /\ UNCHANGED <<records, money, outbox, req, cancelling>>

\* mutant: a payment the provider cannot tell of yet counts as paid
Verdict_PaidUnlessFailed(c) ==
    CASE c = "failed" -> "fail" [] c = "abandoned" -> "abandon" [] OTHER -> "credit"

\* mutant: the provider's own words come through
Verdict_Untranslated(c) ==
    CASE c = "paid" -> "credit" [] c = "failed" -> "fail" [] OTHER -> c

\* The branch of the provider's answer, of which the amount is not read.
Verdict(c) ==
    CASE c = "paid" -> "credit"
      [] c = "failed" -> "fail"
      [] c = "abandoned" -> "abandon"
      [] OTHER -> "pending"

Verify(r) ==
    /\ r \in Reapers /\ pc[r] = "verify"
    /\ Goto(r, Verdict(charge[on[r]]))
    /\ UNCHANGED <<records, money, outbox, req, on, seen, cancelling>>

Attempt(p) == retry' = [retry EXCEPT ![p] = IF @ < MaxRetry THEN @ + 1 ELSE @]

\* A rejection (4xx, 5xx) uses up an attempt; a timeout does not (Dies).
VerifyRejected(r) ==
    /\ r \in Reapers /\ pc[r] = "verify"
    /\ Attempt(on[r])
    /\ Goto(r, "idle")
    /\ UNCHANGED <<status, referenced, money, outbox, req, on, seen, cancelling>>

\* The next payment, or the next run, after one that threw.
NextPayment(r) ==
    /\ r \in Reapers /\ pc[r] = "failed"
    /\ Goto(r, "idle")
    /\ UNCHANGED <<records, money, outbox, req, on, seen, cancelling>>

\* mutant: a poll that finds the payment pending is not counted
StillPending_NotCounted(r) ==
    /\ r \in Reapers /\ pc[r] = "pending"
    /\ Goto(r, IF seen[r] + 1 >= MaxRetryAttempts THEN "abandon" ELSE "idle")
    /\ UNCHANGED <<records, money, outbox, req, on, seen, cancelling>>

\* The attempt that was read decides; the counter is raised unconditionally.
StillPending(r) ==
    /\ r \in Reapers /\ pc[r] = "pending"
    /\ IF seen[r] + 1 >= MaxRetryAttempts
       THEN Goto(r, "abandon") /\ UNCHANGED retry
       ELSE Goto(r, "idle") /\ Attempt(on[r])
    /\ UNCHANGED <<status, referenced, money, outbox, req, on, seen, cancelling>>

\* handleReaperFailed and handleReaperAbandoned.
GiveUp(r) ==
    LET p == on[r] IN
    /\ r \in Reapers /\ pc[r] \in {"fail", "abandon"}
    /\ IfPending(p, IF pc[r] = "fail" THEN "FAILED" ELSE "ABANDONED")
    /\ IF status[p] = "PENDING" THEN Attempt(p) ELSE UNCHANGED retry
    /\ Goto(r, "idle")
    /\ UNCHANGED <<referenced, money, outbox, req, on, seen, cancelling>>

-----------------------------------------------------------------------------
Request(p) ==
    \/ CheckExisting(p)  \/ CheckPending(p)    \/ Create(p)
    \/ CallProvider(p)   \/ SaveReference(p)   \/ ProviderFailed(p)
    \/ EmitInitialization(p)                   \/ RequestDies(p)

Credit(a) ==
    CheckPosted(a) \/ Post(a) \/ MarkSuccess(a) \/ EmitSuccess(a)

Hook(h) == Find(h) \/ Reject(h) \/ \E p \in Payments : Deliver(h, p)

Reap(r) ==
    \/ Verify(r)  \/ StillPending(r)  \/ GiveUp(r)  \/ NextPayment(r)
    \/ \E p \in Payments : Scan(r, p)

Next ==
    \/ \E p \in Payments : Request(p) \/ BeginCancel(p) \/ Cancel(p) \/ Pay(p)
    \/ \E a \in Actors : Credit(a) \/ Dies(a)
    \/ \E h \in Hooks : Hook(h)
    \/ \E r \in Reapers : Reap(r) \/ VerifyRejected(r)

Spec == Init /\ [][Next]_vars

\* The reaper job runs every five minutes and goes through what it finds.
FairSpec == Spec /\ \A r \in Reapers : WF_vars(Reap(r) \/ Credit(r))
-----------------------------------------------------------------------------
(* Properties.                                                             *)

\* Every variable has its type.
TypeOK ==
    /\ status \in [Payments -> Statuses]
    /\ referenced \subseteq Payments
    /\ retry \in [Payments -> 0..MaxRetry]
    /\ charge \in [Payments -> {"open", "paid", "failed", "abandoned"}]
    /\ posted \subseteq Payments \X {"payment", "provider"}
    /\ credits \in [Payments -> Nat]
    /\ outbox \subseteq Payments \X {"INITIATED", "FAILED", "SUCCEEDED"}
    /\ req \in [Payments -> {"new", "existing", "create", "provider", "save",
                             "refused", "initiated", "failed", "done"}]
    /\ pc \in [Actors -> {"idle", "find", "credit", "post", "succeed", "emit",
                          "reject", "verify", "pending", "fail", "abandon",
                          "failed"}]
    /\ on \in [Actors -> Payments]
    /\ seen \in [Reapers -> 0..MaxRetry]
    /\ cancelling \subseteq Payments
    /\ reaped \subseteq Payments

\* The wallet is credited at most once for a payment, however many webhooks
\* and reaper jobs find it PENDING at the same time, provided that the
\* reference they credit it under is the same.
CreditedOnce == Echoes => \A p \in Payments : credits[p] <= 1

\* What is credited has been paid, and in the amount that is credited, unless
\* it was a reaper job that credited it.
CreditedWasPaid ==
    \A p \in Payments :
      credits[p] > 0 => charge[p] = "paid" /\ (Paid[p] = Asked[p] \/ p \in reaped)

\* A payment that is SUCCESS, or announced as succeeded, is in the wallet.
SuccessIsCredited ==
    \A p \in Payments :
      status[p] = "SUCCESS" \/ <<p, "SUCCEEDED">> \in outbox => credits[p] > 0

\* The wallet and the payment agree: credited once, for what was paid (by a
\* reaper job: for what was asked), and before anybody is told that it succeeded.
CreditMatchesPayment == CreditedOnce /\ CreditedWasPaid /\ SuccessIsCredited

\* The requests of one key share one payment, and so one charge.
OnePaymentPerKey ==
    \A p, q \in Payments :
      status[p] # "NONE" /\ status[q] # "NONE" /\ Key[p] = Key[q] => p = q

\* The attempts of the reaper are used up and the payment is PENDING.
Stranded(p) == status[p] = "PENDING" /\ retry[p] >= MaxRetryAttempts

\* A PENDING payment, which keeps the user from starting another one for the
\* wallet, is resolved as soon as the reaper's calls stop failing, unless
\* rejections by the provider have stranded it.
PendingResolves ==
    (\A r \in Reapers : <>[](pc[r] # "failed")) =>
      \A p \in Payments :
        status[p] = "PENDING" ~> status[p] # "PENDING" \/ Stranded(p)

\* A payment the wallet was credited for is never closed as unpaid: "only
\* PENDING can be cancelled", and ABANDONED says "user never completed".
CreditedNotWrittenOff ==
    \A p \in Payments : credits[p] > 0 => status[p] \in {"PENDING", "SUCCESS"}
=============================================================================
