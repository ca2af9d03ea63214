# Zely: a TLA+ verification

Zely is a wallet application. Its backend (`src/Backend-Api`, TypeScript on
Node, MongoDB, Redis, Kafka) moves money between wallets and vaults, funds them
through a payment provider, and tells the rest of the system what happened
through an outbox that Debezium publishes to Kafka; its web application
(`src/zely-fintech-app`) signs users in with a pair of tokens. This directory holds TLA+ models of
the parts where many actors touch the same money, the TLC runs that check
them on small instances, and TLAPS proofs of what matters most for every value
of the constants.

Paths below are relative to `src/Backend-Api/src` unless they begin with `src/`.

The models fall into six families, each composed and checked on its own:
transfers, the daily limit, event consumers, payments, the *back office*
(everything else that moves money, and what follows from the events it leaves),
and *access* (sessions, credentials and the browser).

## 1. What is here

| Module | Kind | Models |
|---|---|---|
| `AtomicTransfer` | abstract specification | what a transfer promises |
| `Transfer` | component | `modules/transfer`, idempotency keys, the receiver's cap, wallet resolution, ledger builder, outbox row |
| `TransferInvariant` | definitions | the inductive invariants of `Transfer` |
| `TransferProofs` | proofs | about `Transfer` |
| `Limits` | component | the daily limit of `modules/transactionLimit`, in Redis and in MongoDB |
| `LimitsProofs` | invariant and proofs | about `Limits` |
| `EventConsumer` | component | `kafka/consumer`, `events/idempotency.ts`, retry topics, dead letters |
| `EventConsumerInvariant` | definitions | the inductive invariants of `EventConsumer` |
| `EventConsumerProofs` | proofs | about `EventConsumer` |
| `PaymentFunding` | component | `modules/payments`, `modules/fee/funding` |
| `PaymentFundingProofs` | invariant and proofs | about `PaymentFunding` |
| `Books` | shared state | wallets, vaults, ledger, idempotency keys and outbox of the back office |
| `Vaults` | component | `modules/vault`, `transferToVault` |
| `Fees` | component | `modules/fee/fee.admin.service.ts` |
| `Reversals` | component | `modules/reversal ` |
| `SystemFunding` | component | `modules/ledger/system ledger` |
| `Reconciliation` | component | `modules/reconciliation` |
| `ReadModel` | component | `kafka/projections`, the projection consumer, `events/reversalProcessor.evt.ts` |
| `Mail` | component | `kafka/emails`, `workers/email.*`, the BullMQ queue |
| `DeadLetters` | component | `dlq.consumer.ts`, `modules/admin/dlq`, the processors as they write mails |
| `BackOffice` | composition | the nine modules above on the same documents, and their properties |
| `BackOfficeInvariant` | definitions | the inductive invariants of `BackOffice` |
| `BackOfficeFrames`, `BackOfficeProofs` | proofs | types and frames of `BackOffice`; its safety properties |
| `Sums` | lemmas | sums over finite sets, for `LimitsProofs` and `BackOfficeProofs` |
| `Sessions` | component | tokens, login, refresh, what Redis keeps of them |
| `Revocations` | component | `requireAuth`, logout, kill, change of password, the blacklist and its rebuilding |
| `Credentials` | component | one-time codes, password reset, e-mail verification, transaction PIN |
| `Browser` | component | `src/zely-fintech-app/src/api/client.ts`, `auth/AuthProvider.tsx` |
| `Access` | composition | the four modules above, and their properties |
| `AccessInvariant` | definitions | the inductive invariants of `Access` |
| `AccessProofs` | proofs | types of `Access`; its safety properties |
| `MC*` | instances | constants of the runs |

`PROJECT.json` lists the components, the runs, for every property a mutant of
the model that breaks it, the source lines each definition stands for, the
hazards and the theorems. A definition named `X_Something` with a comment
starting with `mutant:` is a plausible bug in `X` and is used by no
specification.

## 2. Inventory of the system

For each part: its state, its operations, whom it talks to, what is hard, and
what makes it correct. *(M)* modelled, *(P)* partly.

**Transfers** *(M)*, `modules/transfer`. State: none of its own; it writes
wallets, ledger, keys, fee accruals and outbox, and reserves its amount of the
day's limit before and settles or returns it after. `p2pTransfer` and
`transferInternal` are `Transfer`, `transferToVault` is in `Vaults`. Hard: two requests
with one key, two directions between two wallets, an error or a crash at each
await, the lost reply of a commit. Correct when money moves at most once per
key, the ledger and the balances agree, nobody is overdrawn, the receiver's cap
holds, and the event is committed with the transfer.

**Idempotency keys** *(M)*, `modules/helpers/ext.idempotence.ts`. One document
per key, written outside any session. Correct when the key of a committed
transfer is completed and when a duplicate is told the truth.

**Wallet resolution and locking** *(P)*, `modules/helpers/resolvers.ts`. Reads
status and balance in the transaction, then reserves the funds in the wallet
document (`available` to `locked`). Hard: everything checked is stale when the
transaction commits unless the wallet document is written as well.

**Transaction limits** *(P)*, `modules/transactionLimit`. Two counters per user,
currency and day. The Redis key is raised, by a script that compares first,
before the transaction and lowered on the error path; the `TransactionUsage`
document in MongoDB takes its place when Redis does not answer, and is told of a
reservation made in Redis only after its transfer has committed. A key that is
missing is set to what the document says, and all keys are purged after a
reconnect. Hard: Redis fails, or loses a key, between reservation and
settlement; a seed is read before another's settlement and written after it; a
command that timed out was carried out; a reservation is returned on another day
or to a key that never had it. Correct when what goes out on a day is within
the limit, or above it only by what one of these has hidden.

**Redis client and breaker** *(P)*, `infrastructure/cache/redis.cli.ts`,
`infrastructure/resilience/breakers`. Every command runs inside one circuit
breaker, and a failure is answered by the caller's fallback, never thrown.
'ready' rehydrates what the sessions need, once, whether the breaker is closed
or not. Hard: a fallback looks like a success, so that what was skipped is
found only by what the properties of sessions and limits say.

**Ledger** *(P)*, `modules/ledger`. Double entry: a builder checks that an
operation balances and inserts its entries in the caller's session.

**Wallets** *(P)*, `modules/wallet`. Balance and status; a credit that lifts a
frozen wallet's balance above zero recovers it.

**Vault** *(M)*, `modules/vault`. Locked savings with a maturity date, a
penalty and a ten-second lock in the document. Hard: `markCompleted` comes
after the commit of a withdrawal, and a closing reads the vault, withdraws what
it read and cancels it whatever has happened since. Correct when no vault is
overdrawn, two withdrawals are a lock's lifetime apart, and money is left in a
closed vault only for the reason `StrandedForCause` names.

**Payments** *(P)*, `modules/payments`. A document per payment with a status;
`initializePayment` (request), `handleWebhook` (provider), the reaper (a
BullMQ job) and the cancellation work on it concurrently. Hard: the same
payment found PENDING by several of them; the provider's calls between two
writes. Correct when the wallet is credited once, for a payment that was paid,
and a payment does not stay PENDING for ever.

**Funding** *(P)*, `modules/fee/funding`. Credits a wallet from an external
source, once per reference.

**Reversals** *(P)*, `modules/reversal ` (the directory's name ends in a space).
A record PENDING, then a transaction that takes the transfer back, with or
without its fee, and may leave the receiver below zero. Hard: check-then-create,
FAILED after a commit, balances and the fee's accrual read before the
transaction. Correct when a transfer is reversed once and its fee given back
once, and a wallet below zero is announced.

**Fees** *(P)*. `transfer.fee.engine.ts` is a function of the request in the
model. `fee.admin.service.ts` waives, refunds and sweeps accrued fees; all three
read the accrual and write its status later, whatever it has become.

**System ledger** *(P)*, `modules/ledger/system ledger`. The treasury pays a
user, under an idempotency key.

**Reconciliation** *(P)*, `modules/reconciliation`. A scheduled job under a
Redis lock compares each wallet with the sum of its ledger entries and freezes
what claims too much; an admin resolves the drift later, by an entry or by
rewriting the cached balance, while money moves. Hard: two unsynchronised
reads, a lock whose token is one per process, a correction hours after its
report. Correct when a correction removes the drift of its moment, a freeze has
a cause, and runs overlap only when the lock has expired.

**Outbox** *(P)*. A row in the transaction of the business operation; Debezium
(external) publishes each committed row at least once.

**Event consumers** *(P)*, `kafka/consumer`. Manual offset commits, a record
per event, topic and retry in `processed_events`, five retry topics, a dead
letter topic. Transfer and retry consumer are modelled. The auth, payment,
funding and reversal consumers have the same handler around another
processor. Variants not modelled: vault and reconciliation validate after
taking the record, kyc, pin and password reset do not mark it FAILED, password
reset runs outside a transaction.

**Event processors** *(P)*, `events`. One atomic effect in `EventConsumer`; the
mail it writes is in `DeadLetters`, what a reversal adds to the balances shown
in `ReadModel`, what a mail does to a one-time code in `Credentials`.

**Projections** *(P)*, `kafka/projections`. Balance summaries and transaction
lists for the user interface. A transfer or a funding sets the balances its
event carries, a reversal adds to what is there; nothing puts the events of a
wallet in order. Correct when an event is projected once and the latest
change, once shown, shows the wallet's balance.

**DLQ sink and administration** *(M)*, `dlq.consumer.ts`, `modules/admin/dlq`.
Stores dead letters; an admin replays or dismisses them. Hard: a replay knows
nothing of the event's own record, and two admins work on one letter. Correct
when an event's mail is written once and a letter says what became of it.

**Email outbox** *(P)*, `kafka/emails`, `workers/email.*`. A poller claims rows
and adds BullMQ jobs, a worker sends and marks the rows. Hard: crashes on both
sides, jobs that stall or are lost with Redis, answers of the provider that are
lost. Correct when a mail is accepted once, and in the end at all.

**Sessions and tokens** *(M)*, `infrastructure/helpers/session.helper.ts`,
`token.helper.ts`, `shared/middleware/auth.middleware.ts`. A session per device
in MongoDB, its tokens, their blacklist and confirmations in Redis. Hard: every
fact is in two places written one after the other, and Redis may be down.
Correct when a refresh token is exchanged once, a revoked one is refused once
the revocation is through, and nobody is signed out everywhere for a race.

**Authentication, codes, PIN** *(P, M, M)*, `modules/auth`,
`modules/helpers/otp.manager.ts`, `modules/pin`. Attempt counters, locks and
codes read and then set. Correct when a code or a reset token is used once, and
failures lock.

**Browser client** *(P)*, `src/zely-fintech-app/src/api/client.ts`. Calls that
get a 401 wait for one shared refresh and are retried. Correct when every call
is answered.

**Left out**: KYC, users, notifications, websockets, audit listings,
administration (single-document updates and reads; the one that matters to
money, freezing a wallet, is an action of `Transfer`); the inside of the circuit
breakers (a library's state machine); start-up, configuration and middleware; the screens of the React front end.

How they interact: a request handler writes business documents and an outbox
row in one MongoDB transaction; idempotency keys, Redis counters and the
`payment_initializations` documents are written outside it. Debezium turns the
row into a Kafka message; a consumer processes it in its own transaction with
its `processed_events` record, writes a row of `email_outbox`, and publishes a
confirmed event for the projections; what it cannot process goes to a dead
letter topic and from there to a collection admins work on. Scheduled jobs
(reaper, reconciliation, email poller) work on the same documents with no lock
in common with the handlers.

## 3. The models

### Transfer

*State.* `idem` is the documents outside any transaction; `wallets`, `ledgerNet` (the sum of each account's entries), `posted`, `outbox`
and `accrued` are what is committed. Each request has a program counter `pc`,
the transaction's `view` of the wallets, the documents it holds (`writes`), the
documents others have committed since its snapshot (`missed`), its uncommitted
`entries`, `event` and reference.

*MongoDB* (external) is snapshot isolation with write conflicts: a write to a
document that another open transaction holds or that has changed since the
snapshot throws (`Conflict`), and the commit publishes everything at once.
`commitTransaction` may succeed and its reply be lost. A dead process's
transaction is ended by the server (`ServerAbort`).

*Actions* are the pieces between two awaits whose order matters:

| Action | Code |
|---|---|
| `CheckKey` | `extEnsureIdempotence` in the service |
| `Begin` | session start, wallets read and checked (`ensureWalletsAreActive`) |
| `Reserve` | `enforceTransactionLimits`, `enforceReceiverBalanceCap` |
| `LockFunds` | `lockWalletFunds` |
| `CheckKeyAgain`, `Post`, `CreditRevenue`, `MarkCompleted` | `transfer.engine.ts` |
| `Apply`, `EmitEvent`, `Commit`, `Settle` | the rest of the service |
| `Throw`, `Abort` | the catch block and what leads to it |
| `Crash`, `ServerAbort`, `FreezeWallet` | the environment |

`extEnsureIdempotence` decides whether a key is new by comparing two
timestamps that nothing but `markCompleted` moves apart: its IN_PROGRESS branch
and the takeover behind it are out of reach, so *every* request with a key is let in until
one completes it. What then keeps them from both committing is the model's main
question. The answer, and the heart of the proof: both debit the same wallet
document, so the second to write it has missed the first one's commit, or finds
the key completed when it checks again; and a request that finds it completed
there has no reference, so its outbox row is refused and it aborts.

A wallet, its account and its ledger account are one name. The fee is a constant
of the request. The sender's limits are a step that lets the transfer through or
not, since nothing of theirs is read by it again; what becomes of them is the
next model.

### AtomicTransfer

One action: a transfer happens at once and in full, only when the sender can
pay amount and fee, and at most once per sender wallet and key. `Transfer`
implements it with `balance` read as available plus locked funds of the
committed documents, and `done` as `posted`.

### Limits

*State.* Of each day the Redis `key` and the `doc`ument in MongoDB, both
`Counter`s: whether it is there, the total it holds, and (for the properties)
the requests it is made of. `flights` are the reads of the document that a
process shares between its requests (`coalesce`). Of each request its step, the
day it reserved on, the store it reserved in (`reservation.daily`) and what it
has read to set the key to. `healthy` is the connection; `faults` what may go
wrong in this behaviour, with an open breaker as a failing `"command"`.

*Actions.* `Enforce`, `Look`, `ReadSeed`, `SetSeed`, `Confirm` are the awaits of
`ensureDailyKey`; `Reserve` is the script and `ReserveInMongo` the fallback,
which an answer that comes too late leads to as well, the script having counted;
`CheckHour` is the limit per hour, whose refusal returns what was reserved;
`Send` and `Abort` are the transfer (`Transfer` in detail); `Settle` is
`commitTransactionLimits` and `GiveBack` `rollbackTransactionLimits`, both on the
day it is by then. `Outage`, `Ready` and `Purge` are the connection and what
follows a reconnect, `KeyGoes` the expiry or the loss of a key, `Midnight`,
`MongoError` and `Crash` the rest. The ghosts say who was let through by a
counter that did not know of whom (`missed`), and why: a key went before its
reservations were settled (`forgotten`), a key was made of an older count
(`overlooked`), a reservation was returned (`returned`), or off a counter that
did not have it (`debts`).

### EventConsumer

*State.* How many uncommitted copies of each message there are; the
`processed_events` record of each (status, version, and whether it is older
than the threshold); how often its effects were committed; the dead letters;
for each worker its step, message and record version, and whether its partition
has moved to another worker (`fenced`). A message is an event and a level:
level 0 is the main topic, level *i* the retry topic *i*.

*Actions.* `Take`, `Read` (parse and validate), `InitIdempotency`, `TakeOver`
(the second write of the stale takeover), `Process` (the transaction: effects
and `completeIdempotency`), `ProcessorError`, `FailIdempotency`,
`SendToRetry`, `SendToDLQ`, `CommitProcessed`, `CommitOffset`; and the faults
`DatabaseError`, `Crash`, `Rebalance`, `BecomeStale`, with the commit and broker
failures inside the actions they hit. `faults` is chosen once and says which
faults the behaviour may have, so that a property can say which of them it
excuses.

### PaymentFunding

*State.* Per payment: `status`, whether the provider's reference is saved,
`retryAttempts`, what the provider knows (`charge`), how often the wallet was
credited, the request's step; `posted`, the references under which the ledger
has a transaction; the outbox; per handler and reaper its step, its payment
and what it has read.

*Actions.* The request: `CheckExisting`, `CheckPending`, `Create` (the unique
index decides), `CallProvider`, `SaveReference`, `ProviderFailed`,
`EmitInitialization`, `RequestDies`. The cancellation: `BeginCancel`, `Cancel`.
The webhook: `Deliver`, `Find`, `Reject`. The reaper: `Scan`, `Verify`,
`VerifyRejected`, `StillPending`, `GiveUp`. Both credit by
`CheckPosted`, `Post`, `MarkSuccess`, `EmitSuccess`; either may die anywhere
(`Dies`; the reaper's job catches the exception and goes on, `NextPayment`).
`Pay` is the user and the provider (external).

`Echoes` says whether the provider reports our reference back (Paystack, which
is given it) or one of its own (the mock provider). The webhook takes the
funding's key from what the provider reports and the reaper from the payment,
so with `Echoes = FALSE` they differ and nothing keeps a payment from being
credited by both. `CreditedOnce` says so: it is stated for `Echoes = TRUE`, the
provider that takes real payments, and no run sets it to FALSE. `Asked` and
`Paid` are the amounts of a payment, which the webhook compares (`Find`) and the
reaper does not (`Verify`); `reaped` remembers what a reaper has credited.

### BackOffice

*How it is composed.* `Books` declares the documents the services share and the
operations they have in common. Each service is a module that extends it with
its own variables, actions and a disjunction of them (`VaultStep`, `FeeStep`,
...); `BackOffice` conjoins each with what the others leave unchanged. Every
step of a service also records (`RecordEvent`) the balances a new outbox row
carries, from which `ReadModel`, `Mail` and `DeadLetters` go on.

*Jobs and workloads.* A behaviour has a few jobs: requests, scheduled runs or
workers, each a coroutine that gives way to the others at an await. Which jobs
meet, and which faults there may be, is the behaviour's `workload`, chosen in
`Init`: 34 of them, each the two or three actors that touch the same documents
(see `MCBackOffice`), rather than all at once.

*Transactions.* A MongoDB transaction whose decisive reads are of documents it
also writes is one step: first-writer-wins either lets it find at the commit what
it read, or aborts it. One that awaits something outside the transaction after
its writes (`markCompleted`, Redis) has a step for each, and holds its documents
(`held`) from one to the next; `stale` says, for each job, what others have
written since it began, which is how a property can tell a decision made on old
data from one made on none. Transfers and fundings beside the services are one
step (`OtherTransfer`, `OtherFunding`): that is what `Transfer` is proved to
implement.

| Module | State of its own | Actions and code |
|---|---|---|
| `Vaults` | amounts asked, titles, lock expiries, withdrawals | `Create*`, `Deposit*`, `Withdraw*`, `Close*`, `Edit*`: the steps of the operation of that name, `CompleteKey` for `markCompleted`; `VaultLockExpires`, `VaultMatures` for the clock |
| `Fees` | accruals, sweeps, settlements | `WaiverRead`, `WaiveWrite`, `RefundCommit` (`waiveFee`, `waiveAndRefund`); `SweepRead` to `SweepFail` (`sweepAccruals`) |
| `Reversals` | records, what was read before the transaction | `ReverseCheck` to `ReverseMarkFailed`, one for each await of `initiateReversal` |
| `SystemFunding` | none | `FundCheckKey`, `FundMove`, `FundCompleteKey`, `FundCommit` |
| `Reconciliation` | the Redis lock, reports, sums, freezes | `RunLock` to `RunRelease` and `RunUnlock`, the get and the del of the lock (`runReconciliation`); `ResolveByEntry`, `ResolveBySync`, `ResolveOnly`, `ResolveRefused` (`resolveDrift`) |
| `ReadModel` | balances in the events and in the read model, the projection's records | `Publish` (`onEventConfirmed`), `Project`, `ProjectFail` (projection consumer), `ShowReversal` (`processReversalEvent`) |
| `Mail` | `email_outbox` rows, BullMQ jobs, what the provider accepted | `Poll*` (poller), `Work*` (worker), `MailCrash`, `MailRestart`, `QueueForget`, `RedisLoss` |
| `DeadLetters` | `failed_events`, what has been processed | `Consume`, `ConsumeDead`, `ReversalDead` (what `EventConsumer` does in detail, in one step); `Replay*`, `Topic*`, `Dismiss*`, `BulkDismiss` (`DLQAdminService`) |

A transfer to be reversed or whose fee is settled is a name with a fee and an
accrual; its own commit is in the past. Events are named by the job that left
them. The mail of an event is one row: the second mail of a transfer between
two users takes the same way and never meets the first.

### Access

One user with a session on each of two devices, in browsers with tabs.
`Sessions` holds the MongoDB documents (`user`, `sessions`), the keys of Redis
(`redis`: the latest token of each session, the blacklist, confirmations,
rotation markers, the password's version), cookies and
the access token of each tab. A token pair is named by the job that issued it.
A Redis command is a call that falls back as `redis.cli.ts` does (`Redis`) unless
commands get `redis.up`: the connection is there (`ready`) and the breaker is
closed. `RedisDown` loses the connection, `RedisReady` brings it back with the
breaker closed or still open and starts the rehydration, `BreakerOpens` is
commands that time out on a connection that stands, and `BreakerCloses` the end
of its fifteen seconds. A rehydration is `Whole` if no command has failed since
it began. The actions are named by the function they are a
step of: `Login*`, `Refresh*`, `Verify*`, `Issue`; in `Revocations` `Auth*`
(`requireAuth` and its repair), `End*` (`revokeSessionFull`), `Revoke*`
(`revokeAllSessionsFull`), `Change*` (`changePassword`), `Rehydrate*`; in
`Credentials` `Code*` (`OTPManager` and the mail processors; `CodeStuck` is a
withdrawal that fails or a consumer that dies over it), `Reset*`,
`Email*`, `Pin*`; in `Browser` `Intercept`, `Settle`, `Resume*` (the
interceptor). `log` and `acts` are history: what the properties remember.
Faults (Redis down, answers lost, clocks running out, mails failing) are chosen
per workload, of which there are 32.

## 4. The runs

All runs finish in under five minutes with two workers. Eight have to pass, and
four show a disagreement of section 7.

| Run | Instance | States | Asks |
|---|---|---|---|
| `transfer_retry` | 3 requests: a retry of r1 (r2, same key, Alice to Bob) against r3 (Bob to Alice); both wallets freezable | 91,526 | keys, frozen wallets |
| `transfer_cross` | 3 requests: two p2p credits with a fee race into Bob, who starts frozen below zero, and an internal transfer to savings with another sender's key | 27,422 | balances against ledger, overdraft, cap, outbox, refinement, locks let go |
| `transfer_duplicate_reply` | as `transfer_retry` | violation | see section 7 |
| `limits` | 2 transfers, of 2 and of 1, a limit of 2, two days, all faults | 1.28 M | the limit, the reasons it is exceeded for |
| `consumer_faults` | 2 events (one malformed), 2 workers, 2 retry topics, one takeover, all faults; symmetric workers | 1.81 M | one effect per completed record, one leaseholder, nothing lost |
| `consumer_topics` | 1 event published twice, 2 workers, 3 retry topics | 1.03 M | one effect over all topics, dead letters unprocessed, events settle |
| `payment_funding` | 2 requests with one key for one wallet, one of them paid with another amount; 2 webhook handlers, 1 reaper, 3 attempts | 248,512 | one credit, for what was paid (or by a reaper), before SUCCESS; one payment per key; PENDING resolves |
| `payment_written_off` | 1 payment, 1 webhook handler | violation | see section 7 |
| `back_office` | 35 workloads of two to four jobs over 3 users, 2 vaults, 2 transfers with a fee, 2 keys; accounts with and without a drift at the start | 54,382 | books agree; deposits, withdrawals, reversals, settlements once or for the reason named; freezes and runs; mails, read models and dead letters; reversals and mails settle |
| `fee_refund` | a reversal with its fee beside a waiver with refund | violation | see section 7 |
| `access` | 32 workloads of two to six requests on 2 devices with 3 tabs; 2 attempts lock, 2 codes an hour; Redis fails at most twice | 252,343 | tokens and codes used once, revocations, caches, locks, calls settle |
| `pin_guesses` | the workloads of codes and PINs of `access` | violation | see section 7 |

*Why these bounds are enough.* Every conflict in the code is between two actors
on one document, and the third request (or handler) is the one that commits
between the two reads of another. Three requests give a retry, its original
and an independent transfer through the same wallets in the opposite
direction. In the consumer two workers are the slow owner and its successor;
`MaxVersion = 1` allows one takeover, and a second repeats the first with other
numbers; two retry topics are a step up and a last one, three are used where
the number of rounds matters; two copies show a duplicate on every level. In
`payment_funding` two webhook handlers and one reaper are all the pairs that
may credit one payment; three attempts are the code's own limit
(`MAX_RETRY_ATTEMPTS`), and `MaxRetry` caps the counter at the same number,
beyond which the code never looks at it again. `Freezable`, `Deliveries`,
`MaxVersion` and `MaxRetry` are the only bounds of behaviours there; everything
proved in section 6 holds without choosing their values.

In `back_office` and `access` the bound is the workload: the requests that
share documents, in every interleaving. Three requests are a pair that
conflicts and one that commits between their steps; a third withdrawal or
refresh repeats the second with other numbers. The amounts are chosen so that
guards fall on both sides: a reversal that leaves its receiver below zero, a
withdrawal that takes a penalty, an account that claims more than its entries
and one that claims less. `MaxAttempts` and `MaxPerHour` are 2 instead of 5
and 3 or 5: one failure or code counted wrongly shows at either. `MaxMishaps` = 2
allows a crash, a failing call or a loss on both sides of the mail queue,
`MailAttempts` and `QueueAttempts` = 2 a retry and a last try of each (5 of each
in the code). The expiries of a vault's lock and of the run lock are bounded by
the jobs there are to take it. `MaxOutages` = 2 lets Redis fail once, come back
with its breaker open and, a failure counting as one whether connection or
breaker, fail again over the rehydration; a third repeats one of them.

In `limits` each of the two transfers fits alone and they do not together, which
is the least that a fault between them has to hide; being two they leave room
for all faults at once, and a counter that lets one too many through already
does so with the second. `LastDay` = 2 is a day and the one that a late
settlement or return falls on.
No run has a garbled event (it is committed and dropped by design) or one with
an unsubscribed retry topic (it would be lost by construction).

*Fairness.* `transfer_cross`: a request that has begun goes on or crashes (Node
runs its continuations), and the server ends the transaction of a dead client
(`transactionLifetimeLimitSeconds`); no client has to send its request.
`consumer_topics`: a worker that has something to do does it, kafkajs's poll
loop. `payment_funding`: the reaper's job runs, as it is scheduled every five
minutes; webhooks need not arrive and users need not pay. All weak.
`EventsSettle` supposes that no handler dies for ever and names the faults it
allows; `PendingResolves` supposes that a reaper's calls fail only finitely
often. `back_office`: a request that can go on does (the event loop), and
poller and worker, which are processes of their own that Docker restarts
(`restart: unless-stopped`), each go on for ever; no fault, no expiry and no
admin is promised. `access`: a request that can go on does and a callback that
may run is run; nothing is said of outages and clocks.

*Deadlock* is checked in the transfer and consumer runs, with an explicit
action for the state where all is done. The other runs set `CHECK_DEADLOCK
FALSE`: when the requests are answered and nothing is pending, the system
really stops.

*Symmetry* is used for the workers of `consumer_faults`, which checks safety
only.

## 5. The properties

*Transfers.* `KeySpentOnce`: a key moves money out of a wallet once, and is
completed when it has.
`BlockedWalletsUntouched` (action property): no debit of a wallet that is frozen
*at the commit*, no change of one under reconciliation, though the status was
read before. `CommitsAreWhole`: at every committed state balances, entries and
events agree and nobody is overdrawn; `CapHoldsAtCommit`: the receiver's cap.
`ImplementsAtomicTransfer`: the refinement. `LocksReleased`: liveness.

*The daily limit.* `LimitHolds`: what a sender gets out on a day is at most the
limit, the amounts that some counter did not know of when it let another
through, and those taken off a counter that had never had them. Its other half,
`ExcessForCause`, says when that can be, and thereby that it cannot otherwise: a counter let *q*
through without knowing of *r* only if the two reserved in different stores, if
the key was lost before *r* was settled or made of a count older than *r*'s, or
if *r* had been returned; and a reservation is taken off a counter without it
only on another day or after such a loss. That is what two counters
and a late settlement can promise; that the limit simply holds, they cannot
(section 7).

*Event consumers.* `LeaseProtects`: effects and records move together, and of
two workers on one message only one can complete it. `NothingLost`: without
crashes and failing calls, an event is in flight, processed or a dead letter.
`AppliedOnce`: one effect over all topics, none behind a dead letter, when
nobody acts for a partition it has lost and commits succeed (section 7
says what happens else). `EventsSettle`: no event circulates for ever.

*Payments.* `CreditMatchesPayment`: credited once, after it was paid, in the
amount paid unless a reaper did it, and before it is SUCCESS.
`OnePaymentPerKey`, `PendingResolves`. A
payment whose attempts were used up by rejections of the provider is
`Stranded`: the reaper never looks at it again, it stays PENDING and
`initializePayment` refuses its wallet another payment. `PendingResolves`
excludes that case by name.

*Back office.* `BooksHold`: no request makes a drift and no entry is without its
counterpart, whatever is interrupted and corrected meanwhile. `DepositOnce`;
`VaultsHold` (no vault overdrawn, unless a resolution wrote a ledger sum below
zero into one that claimed more than its entries; two withdrawals a lock's
lifetime apart); `StrandedForCause`: a closed vault holds money only if another
request wrote it between the closing's read and its write, if the closing's key
had been completed before, or if a resolution found money there. `ReversedOnce`: a transfer is
taken back once, unless a reversal that committed was marked FAILED.
`NegativeAnnounced` (action property): a wallet a reversal takes below zero is
announced, although the balance was read before, unless the resolution of a
drift, which bumps no version, came in between. `ReversalSettled`: no reversal stays
PENDING unless its process dies or its commit fails. `SettledTwiceOnlyBlindly`:
a fee is settled twice only where one wrote over what another had written since
it read. `RunsHold`: a wallet that agrees with its entries is frozen only if a
commit fell between its two reads, and runs overlap only as often as their lock
expired, although its release may delete another's lock. `AnnouncedOnce`: the provider accepts a mail once, an event is projected
once and processed once if it has a mail, DELIVERED was accepted, REPLAYED was
processed. `ReadModelFollows`: a read model at the latest change of its wallet
shows what the wallet holds. `MisfiledForCause`: a letter whose event a replay
has processed is REPLAYED, unless another request was at work on the same letter
(`overtaken`), or an error or a crash came in between.
`MailSettles`: every mail is accepted, given up, left failed, or `Orphaned`.

Several of these have the form "this happens only for that reason". The reason
is a weakness the code has (a status written blindly, a read outside the
transaction); the property says that it is the only one, and a mutant shows
that removing another guard is found.

*Access.* `SecretsSingleUse`: a refresh token is exchanged once, a code lets one
request through, a reset token sets one password. `ReuseForCause`: a token shown
twice signs the user out everywhere only if no marker could tell the harmless
race. `RevocationsHold`: a token whose revocation is through is refused; where
Redis has failed, once a rehydration in which no command failed has rebuilt the
blacklist, and unless a login has replaced the document it is rebuilt from; a
live one is not blacklisted. `PasswordCacheFresh`: Redis is behind the
password's version only while a change is under way, until such a rehydration,
or where a request wrote the older version it had read. `CodesHold`: no two
live codes unless created side by side, and a reset is taken for a duplicate
only of a code that was sent or is on its way, or whose withdrawal failed or
whose consumer died over it. `PinLockHolds`: failures lock, where none of them
was counted over another. `LockEndsForCause`: a lock ends by its time, by a
reset, or because a request overlapped the failure. `CallsSettle`: every call of the
application is answered, unless the refresh it awaits gets a 401 itself.

## 6. The proofs

TLAPS checks everything below for every value of the constants that satisfies
the assumptions stated in the modules: any number of requests, keys and
wallets, any amounts, any opening balances, any number of workers, retry topics
and copies, any set of faults, any number of webhook handlers and reapers.

**Transfer.** `TransferProofs!TypeCorrect` proves the type invariant. The safety
properties follow from `IInv` (`TransferInvariant`), three layers each inductive
relative to the ones before:

1. `LockInv`: who holds which document. No document is held twice, and from
   `LockFunds` on a request holds its sender's wallet.
2. `KeyInv`: what a completed key tells. A request between its second look at
   the key and its commit (`IsFirst`) is the first under its key and sender: a
   competitor that committed meanwhile would have had to hold the same wallet.
   `AtMostOncePerKey` alone is not inductive: a step of `Commit` keeps it only
   because of this, and `IsFirst` survives the steps of others only because of
   `LockInv`.
3. `MoneyInv`: what a transaction sees of the wallets it holds follows from the
   committed ones (`WritesOf`), so that the checks it made on its snapshot,
   status, cap and balance, still hold when it commits.

From it follow `AtMostOnce`, `KeyCompleted`, `EventCommitted`, `LedgerAgrees`,
`NeverOverdrawn`, `CapHolds`, `BlockedUntouched`, from these `KeySpent` and
`WholeCommits`, which state `KeySpentOnce` and `CommitsAreWhole`, and
`Refinement` (initial states map to initial states, `Commit` to `Execute`, every
other step to a stutter).

**Limits.** `LimitHolds` counts who has *sent*; a step that lets a request
through happens long before it sends, so `IInv` (`LimitsProofs`) has the same
bound for all that have reserved and may still send (`Room`). A counter that
lets *r* through compares its total, so the total has to be worth the requests
it is made of: `CountersSound` says that of key, document, seeds and flights
alike, short of it by the debts at most. What `Room` gains by *r* is then in the
counter or recorded as `missed`. `ExcessForCause` needs to know where a
reservation is at every moment until it is lost: `Kept` says that one in Redis is
in the key, or, if the key is gone, in the document, or the ghosts name what
became of it. `Inductive` proves the five together, `TypesHold` and
`DayHasALimit` follow. They assume what `Limits` states:
a finite set of requests, none of them for more than the limit of a day (the
seeded limit per transfer is below it).

**EventConsumer.** `EventConsumerProofs!Inductive` rests on two facts: the
version a worker holds is at most the record's, and of a record that is
PROCESSING at most one worker holds the current version (`OwnerInv`,
`LeaseInv`). `EffectsOnce` and `Lease` follow, with all faults allowed, and
together are `Protected` (`LeaseProtects`).
`EventConsumerProofs!Delivered` proves `NothingLost`: for an event in flight it names
the *place* where it can be found (`PlaceInv`) and shows that from every level
it is processed, a dead letter, or waiting on a level above (`KeptInv`).
`EventConsumerProofs!Once` proves `AppliedOnce` from `OnceInv`, which follows an
event up its ladder of topics: a handler sends a message on only after its
record is FAILED (`HandOf`), so a message exists only where all those below it
have failed (`ChainOf`), and no message of a dead event can be begun (`DeadOf`).

**PaymentFunding.** `PaymentFundingProofs!Inductive`: the ledger has a
transaction for a payment exactly when it was credited, under one reference
(`LedgerInv`); what a handler at each step may rely on (`HandlerInv`); what each
request has established (`RequestInv`); a webhook that is to credit has compared
the amounts, a reaper that has credited is remembered. `TypeCorrect`, `Credited` and
`PaymentPerKey` follow. They assume `Payments # {}`.

**BackOffice.** `BackOfficeFrames` proves the types (`TypeCorrect`). They are not
inductive alone: `PcInv` (which kind of job may be at which label) and `MailInv`
(what the poller and the workers still try has a try left) go with them, as
`Typed`. `Moves` splits `Next` into the steps of one job of one service, so that
every later lemma has one case for each service.

`BackOfficeProofs` proves each safety property for all services running
together. A request of the back office holds no lock on what it has read, so
each part of `BackOfficeInvariant` says what it may rely on *unless another has
written the document since*, which the model records as `stale`:

| Property | Theorem | Rests on |
|---|---|---|
| `BooksAgree`, `BooksHold` | `BooksStayInAgreement`, `BooksAreBalanced` | every step leaves each drift alone or removes it, and the total of the entries alone |
| `DepositOnce` | `DepositIsBookedOnce` | `DepositInv`: a deposit that commits has completed its key, alone of those that carry it |
| `VaultsHold` | `VaultsAreSafe` | `HeldInv` and `SpacedInv`: the lock of the last withdrawal is there until it has expired |
| `StrandedForCause` | `MoneyIsStrandedForCause` | `CloseInv`, `StrandedInv`: what a closing knows of its vault |
| `SettledTwiceOnlyBlindly` | `FeesAreSettledTwiceOnlyBlindly` | `FeeInv`: what is about to be settled is ACCRUED or stale |
| `ReversedOnce` | `TransfersAreReversedOnce` | `ReversalInv`: the partial unique index, and each record at its request's step |
| `NegativeAnnounced` | `NegativesAreAnnounced` | `SeenInv`: at the version read, the balance is at least the one read |
| `RunsHold` | `RunsAreSafe` | `FreezeInv`, and `RunsInv`, which counts runs against the lock and its lapses: a run that deletes another's lock has itself outlived its own |
| `AnnouncedOnce` | `EventsAreAnnouncedOnce` | `MailInv`, `LetterInv`, `ProjectionInv` |
| `MisfiledForCause` | `LettersAreMisfiledForCause` | `MisfiledInv`: whoever is at a letter that is REPLAYED was overtaken |
| `ReadModelFollows` | `ReadModelsFollow` | `ToldInv`: which event told which balance after which change |

The theorems assume what `Books` and `Mail` state: finite sets of accounts and jobs,
accounts that are told apart, well-formed requests whose amounts and fees are
in Nat, nobody reversing a transfer to oneself, vaults that are not overdrawn
at the start, and empty if they are closed, at least one try for a mail, and
the one poller of `docker-compose.yml`.

**Access.** Types are inductive only with `Wellformed`: which kind of request may
be at a step (`Located`), that past `Send` a request carries a token (`Carries`),
and that the slots of a call wait for the call (`SlotsInv`). `AccessProofs` first
shows of every step whose it is and what it leaves alone: it is the work of one
request, or a step of time or of a tab in which nobody works (`Quiet`), and few
steps write the sessions, the user, the blacklist or the codes (the lemmas named
`...Frame`). Each property is then a case split over those few.

| Property | Theorem | Rests on |
|---|---|---|
| `TypeOK` | `AccessIsTyped` | `Wellformed`, and `PinInv` for the count of wrong PINs |
| `PasswordCacheFresh` | `PasswordCacheIsFresh` | `OutageInv`, `VersionInv`: nobody has read a version that is yet to come |
| `PinLockHolds` | `WrongPinsLock` | `PinInv`: what a request that has not been overlapped has read is the PIN's count and lock |
| `LockEndsForCause` (action property) | `LocksEndForCause` | `LockInv`, `PinInv`: who is about to fail or pass found no lock |
| `CodesHold` | `CodesDoHold` | `OverlapInv`: a code that was not deleted before an insertion came in between; `SentInv`: a code that throttles was sent, is on its way, or is one that `CodeStuck` names |
| `SecretsSingleUse` | `SecretsAreSingleUse` | `ExchangeInv`, `UsedInv` and `ResetsInv`: what was spent stays spent, and who is about to spend has compared |
| `ReuseForCause` | `ReuseIsForCause` | `HomesInv`, `MarkedInv`, `SupersededInv`: a token that left its document was recorded before |
| `RevocationsHold` | `RevocationsDoHold` | `DeadInv`: what is blacklisted is issued and of no active session, and no token comes back; `ToldInv`, `RebuiltInv`: what the blacklist knows before Redis fails and after a rehydration that was `Whole` |

They assume what `Sessions` states: requests that are well formed (a reset of
the password carries the token of some confirmation), tokens of devices and of
jobs that are told apart, and the two slots of each call, for its refresh and
its retry, apart from those of the others. Redis fails `MaxOutages` times, any
number in the theorems; each 'ready' starts the rehydration from its beginning,
one that is under way included.

**Sums.** `Total`, `MapThenSumSet` and the other folds of the community modules
are CHOOSE-defined functions over subsets. The induction theorems of the library
take operators and cannot be used; `Sums` gets around them with the least
counterexample: a set of naturals that is not empty has a least element
(`LeastNat`), hence a set of subsets closed upwards from proper subsets is all of
them (`SubsetInduction`), hence the fold exists and takes its elements in any
order (`SumRemove`), and may be split (`SumSplit`). `BooksAreBalanced` and
`DayHasALimit` rest on it.

TLC has checked every inductive invariant on the instance of the run whose
properties it supports, as additional invariants.

*Only model-checked:* `LocksReleased`, `EventsSettle`, `PendingResolves`,
`ReversalSettled`, `MailSettles` and `CallsSettle`, liveness under fairness,
which is out of the prover's reach. Every other property of a passing run is
stated by a theorem. The violations of section 7 are TLC's counterexamples.
No module with a theorem declares or reaches a RECURSIVE operator.

## 7. Where the code and its documents disagree

- `transfer_duplicate_reply` violates `DuplicateReplyIsTrue`. The engine marks
  the key COMPLETED outside the session (`transfer.engine.ts:218`) before the
  service commits. A transfer that then aborts or crashes leaves a completed
  key, and the client's retry is told "Duplicate request — original transfer
  already processed" (`transfer.controller.ts:77`). The same order is what
  `AtMostOncePerKey` and `PostedKeyIsCompleted` rest on: safety of the money is
  bought with the truth of the answer.
- `payment_written_off` violates `CreditedNotWrittenOff`. The cancellation
  checks PENDING and then updates by id (`payment.controller.ts:166`), to a
  status the enum does not have; the webhook may have credited the wallet in
  between. In the shortest trace the credited payment has not been marked yet;
  marked SUCCESS, it is written over just the same.
- `fee_refund` violates `FeeRefundedOnce`. The guard "already waived — prevent
  double refund" (`modules/reversal /reversal.service.ts:108`) reads the accrual
  outside the reversal's transaction; `waiveAndRefund` neither writes a document
  the reversal looks at again nor reads one the reversal writes. Side by side
  both commit, and the payer gets the fee twice.
- `pin_guesses` violates `MaxPinAttempts`. Wrong PINs side by side count as one
  (`pin.middleware.ts:198`), so that `MAX_PIN_ATTEMPTS` (:13) of them need not
  lock.

Met while proving, each a state no run had reached, by which a property was
narrowed (section 5):

- `updateCachedBalance` (`modules/reconciliation/reconciliation.helpers.ts:712`)
  sets a cached balance without bumping the document's version. A reversal that
  read the wallet before passes its version check on a balance it has not seen,
  and takes the wallet below zero without announcing it (`NegativeAnnounced`).
- The same write puts the ledger's sum into a vault whatever it is: where the
  vault claimed more than its entries and the difference was withdrawn, the
  balance becomes negative (`VaultsHold`).
- A closing whose key an earlier withdrawal has completed withdraws nothing and
  cancels the vault (`KeyTaken` in `StrandedForCause`).
- `rehydrateBlacklistOnRedisReconnect`
  (`infrastructure/helpers/session.helper.ts:421`) rebuilds the blacklist from
  session documents that are not active. A login has the document of its device
  carry the new token (`Login*`): if a logout could not reach Redis during the
  outage and a login follows, the token logged out is in no document and is not
  blacklisted again. Where a request that found it alive before is still at its
  repair (`shared/middleware/auth.middleware.ts:188`), it writes the old token
  as the latest (`RevocationsHold`, `BlacklistDue`).
- Two operators at one dead letter may each write over what the other has
  written, `replayTopic` long after it has listed its letters
  (`MisfiledForCause`).

Met while modelling. A property that passes names each of these as what it
leaves out; without the name, and on an instance that has the fault, TLC finds
the trace described:

- A crash loses an event: the redelivered message finds a PROCESSING record
  younger than the threshold, is skipped (`events/idempotency.ts:151`) and its
  offset committed. The backend's README (line 388) promises that no event is
  lost (`Reliable` in `NothingLost`).
- The offset commit after a successful processor is inside the `try`
  (`retry.consumer.ts:364`): when it fails, the message goes on to the next retry
  topic, where its record is another one and its effect is applied again. The
  backend's README (line 391) calls the records "safe across restarts,
  rebalances, and retries" (`NoZombies` in `AppliedOnce`).
- A reservation made in Redis reaches MongoDB when its transfer has committed,
  and the fallback looks at MongoDB alone: "check AND increment in one operation"
  (`transactionLimit.service.ts:250`) is true of each counter and not of the two.
  If Redis is lost between a commit and its settlement, the next transfer is
  measured against a day on which nothing was sent, and both go through
  (`missed` in `LimitHolds`).
- The webhook refuses a payment of another amount ("Refuse to credit",
  `payment.service.ts:409`) and the mock provider counts on its caller to compare
  (`payment.provider.mock.ts:75`); the reaper reads the status and credits the
  amount asked for (`payments.reaper.ts:239`; `reaped` in
  `CreditMatchesPayment`).
- "Only release the lock if this instance still owns it"
  (`reconciliation.service.ts:250`) is a get, an await and a del: the lock may
  expire and be taken in between, and another's is deleted (`lapses` in
  `RunsHold`).
- The rehydration runs when the connection is back (`redis.cli.ts:170`), through
  a breaker that may still be open; its commands then fall back, it is logged as
  complete (`session.helper.ts:449`) and not repeated before the next reconnect,
  and a token revoked during the outage is let in (`Whole` in `RevocationsHold`
  and `PasswordCacheFresh`).
- A throttled reset is dropped as a "genuine duplicate"
  (`resetPasswordProcessor.evt.ts:45`), also when the code it duplicates stayed
  behind because its withdrawal failed (:93, which logs that "the user will never
  get an email") or its consumer died (`stuck` in `CodesHold`).
- The comment in `src/zely-fintech-app/src/auth/AuthProvider.tsx:58` expects a
  page without a valid cookie to get a 401 and fall through. The refresh passes
  the interceptor it is meant to serve (`src/zely-fintech-app/src/api/client.ts:45`),
  which on a 401 waits for the refresh in progress: itself, or one that waits
  likewise (`Unanswerable` in `CallsSettle`).

Met while modelling besides:

- `kafka/emails/email.poller.ts:93` means to find rows whose job Redis has lost.
  Neither `enqueuedAt` nor `nextRetryAt` is in the schema of `email_outbox`, so
  Mongoose stores neither: no row that says ENQUEUED is ever found again, and no
  backoff applies. `MailSettles` names such a row `Orphaned`. The poller also
  writes ENQUEUED over the DELIVERED of a worker that was faster, for good.
- A funding mail is a CREDIT mail and is sent to `recipientEmail`, which its row
  does not have (`events/fundingProcessor.evt.ts:56`): the provider refuses it
  and its job fails (`Addressed`).
- A duplicate row is "safe to skip" (`kafka/emails/write.email.ts:51`), but the
  duplicate key error has aborted the transaction it was met in: a replay of an
  event whose mail has been written fails (`Processable`). That is what keeps
  `applied` at one in `AnnouncedOnce`.
- A projection that fails is not tried again (`ProjectFail`), a reversal that is
  dead-lettered has no sink (`File`), and one whose offset the retry consumer
  could not commit is shown twice (`ReversalDead`); the read model then stays
  wrong until the next absolute event.
- Withdrawals from vaults and corrections of a cached balance change a wallet
  with no event that carries its balance.

## 8. Not modelled, and the plan

Within the modelled parts: the limit per transfer, which compares two numbers,
and the count of transfers per hour, which is kept as the day's total is and is
a refusal at any time in the model; the seven days after which an idempotency
key expires; a purge that removes some keys and then fails (`Purge` is all or
nothing; `KeyGoes` removes single ones); a late PAID after a payment was
written off; the listings; the
validation of inputs; the payload of events other than balances; the wallet
recovery inside a funding; `initiateManualCredit`, which calls the funding
service; the suspension of a wallet by a reversal event; the balances of vaults
in the read model, and its transaction list; the comparison of reconciliation
with the provider's settlements; `register`, one transaction; the stall of a mail
worker that is alive; the rate limiters.

Left out whole: KYC, users and administration (workflows of single-document
updates with no partner to race), notifications and websockets (best effort,
nothing depends on them), audit listings, the inside of the circuit breakers (a
library's state machine), start-up and configuration. More than half of the repository's lines
are screens, tables and texts of the front end: markup around calls of the API
with no state that outlives the page, so that there is nothing to check beyond
`Browser`.

Left to prove is what lies behind the liveness properties and can be said
without ENABLED: that each step of a request takes it on (a rank of its steps
that falls), for transfers, reversals and calls of the application, and that who
waits for a document or a refresh waits for somebody who can go on. The first
candidates are `LocksReleased`, where the order of the locked documents excludes
a cycle, and `CallsSettle`, whose one exception (`Unanswerable`) is such a
cycle.
