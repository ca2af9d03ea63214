------------------------------ MODULE BackOffice ------------------------------
(***************************************************************************)
(* The services that move money beside transfers and payments, at work on  *)
(* the same wallets, vaults and ledger, and what follows from the events   *)
(* they leave in the outbox.  Each request is a job of one service; the    *)
(* state of the others stays as it is in its steps.                        *)
(***************************************************************************)
EXTENDS Vaults, SystemFunding, Reconciliation, DeadLetters, Functions

documents == <<workload, held, stale, wallets, vaults, net, refs, idem, outbox>>
services == <<vaultState, feeState, reversalState, reconciliationState>>
vars == <<pc, documents, services, eventState, aftermath>>

Init ==
    /\ BooksInit
    /\ VaultsInit
    /\ FeesInit
    /\ ReversalsInit
    /\ ReconciliationInit
    /\ MailInit
    /\ ReadModelInit
    /\ LettersInit

ServiceStep(j) ==
    \/ /\ OtherTransfer(j) \/ OtherFunding(j) \/ FundStep(j)
       /\ UNCHANGED <<vaultState, feeState, reversalState, reconciliationState>>
    \/ /\ VaultStep(j)
       /\ UNCHANGED <<feeState, reversalState, reconciliationState>>
    \/ /\ FeeStep(j)
       /\ UNCHANGED <<vaultState, reversalState, reconciliationState>>
    \/ /\ ReversalStep(j)
       /\ UNCHANGED <<vaultState, feeState, reconciliationState>>
    \/ /\ ReconciliationStep(j)
       /\ UNCHANGED <<vaultState, feeState, reversalState>>

\* A row that a service leaves in the outbox carries the balances it has left.
Step(j) ==
    \/ ServiceStep(j) /\ RecordEvent(j) /\ UNCHANGED aftermath
    \/ AftermathStep(j) /\ UNCHANGED <<documents, services, eventState>>

Fault(j) ==
    \/ /\ TxnError(j) \/ CrashJob(j)
       /\ UNCHANGED <<services, eventState, aftermath>>
    \/ /\ MailCrash(j)
       /\ UNCHANGED <<documents, services, eventState, readModelState, letterState>>

Clock ==
    \/ /\ \/ VaultClock /\ UNCHANGED <<feeState, reversalState, reconciliationState>>
          \/ RunLockExpires /\ UNCHANGED <<vaultState, feeState, reversalState>>
       /\ UNCHANGED <<eventState, aftermath>>
    \/ /\ RedisLoss
       /\ UNCHANGED <<documents, services, eventState, readModelState, letterState>>

Forget ==
    /\ \E e \in Jobs : QueueForget(e)
    /\ UNCHANGED <<documents, services, eventState, readModelState, letterState>>

Next ==
    \/ \E j \in Jobs : Step(j) \/ Fault(j)
    \/ Clock \/ Forget

Spec == Init /\ [][Next]_vars

Progress == \E j \in Jobs : Job(j).kind \notin Mailers /\ Step(j)

MailProgress(kind) ==
    /\ \E j \in Jobs : Job(j).kind = kind /\ MailStep(j)
    /\ UNCHANGED <<documents, services, eventState, readModelState, letterState>>

\* The event loop runs what was awaited: as long as any request can go on one
\* does, and a request takes finitely many steps, so all of them end; poller
\* and worker go on for ever, each in a container of its own.  No fault and no
\* expiry is promised.
FairSpec ==
    /\ Spec
    /\ WF_vars(Progress)
    /\ \A kind \in Mailers : WF_vars(MailProgress(kind))

-----------------------------------------------------------------------------
(* Properties.                                                             *)

WalletDoc == [available : Int, version : Nat,
              status : {"ACTIVE", "RECONCILING"}]

\* Where a request can be.
Labels ==
    Ended \cup
    {"created", "depositLock", "depositKey", "depositCommit", "withdraw",
     "withdrawKey", "closeWithdraw", "cancel", "closeEmit", "editWrite",
     "waive", "refund", "sweepCreate", "sweepMark", "sweepComplete",
     "reverseFee", "reverseRead", "reverseCreate", "reverse",
     "reverseReadBack", "reverseFail", "fundMove", "fundKey", "fundCommit",
     "sum", "compare", "freeze", "alert", "finish", "announce", "release",
     "unlock", "replayRun", "replayConfirm", "replayMark", "replayFail", "topic",
     "dismiss", "pollAdd", "pollMark", "pollFail", "send", "sendMark",
     "sendDone", "sendFail", "down"}

\* Types of the documents.
BooksTypeOK ==
    /\ workload \in Workloads
    /\ pc \in [Jobs -> Labels]
    /\ held \in [Jobs -> SUBSET Documents]
    /\ stale \in [Jobs -> SUBSET Documents]
    /\ wallets \in [Wallets -> WalletDoc]
    /\ vaults \in [VaultIds -> VaultDoc]
    /\ net \in [Accounts -> Int]
    /\ idem \in [Keys -> {"NONE", "IN_PROGRESS", "COMPLETED"}]

\* Types of what the services keep.
ServicesTypeOK ==
    /\ asked \in [Jobs -> Int]
    /\ expiries \in [VaultIds -> Nat]
    /\ accrual \in [Transfers -> AccrualStatuses]
    /\ sweeps \in [Jobs -> [members : SUBSET Transfers,
                            status : {"NONE", "PENDING", "COMPLETED", "FAILED"}]]
    /\ reversal \in [Jobs -> {"NONE", "PENDING", "COMPLETED", "FAILED"}]
    /\ seen \in [Jobs -> [receiver : Int, receiverVersion : Nat,
                          senderVersion : Nat]]
    /\ reversed \subseteq Jobs
    /\ lapses \in Nat
    /\ sum \in [Jobs -> Int]
    /\ reports \in [Jobs -> [status : {"NONE", "RUNNING", "COMPLETED", "FAILED"},
                             drift : Int, resolved : BOOLEAN]]
    /\ torn \subseteq Jobs

\* Types of what the workers keep.
AftermathTypeOK ==
    /\ mail \in [Jobs -> MailDoc]
    /\ queue \in [Jobs -> QueueJob]
    /\ sent \in [Jobs -> Nat]
    /\ hand \in [Jobs -> Jobs]
    /\ mishaps \in 0..MaxMishaps
    /\ changes \in [Users -> Nat]
    /\ payload \in [Jobs -> [Users -> [balance : Int, change : Nat]]]
    /\ {published, taken, revived} \subseteq SUBSET Jobs
    /\ projection \in [Jobs -> {"NONE", "PROCESSING", "COMPLETED"}]
    /\ {projected, applied} \subseteq [Jobs -> Nat]
    /\ {readModel, shown} \subseteq [Users -> Int]
    /\ letter \in [Jobs -> LetterStatuses]
    /\ target \in [Jobs -> Jobs]
    /\ todo \in [Jobs -> SUBSET Jobs]

TypeOK == BooksTypeOK /\ ServicesTypeOK /\ AftermathTypeOK

\* Whatever the services do, together and interrupted, the cached balance of
\* a wallet or vault differs from its entries by what it differed at the
\* start, or not at all: no request makes a drift, and a correction made while
\* money moves does not overshoot (reconciliation.service.ts recomputes the
\* drift in its transaction).
BooksAgree ==
    \A a \in Cached : LiveDrift(a) \in {0, InitialDrift[a]}

Total(f) == FoldFunctionOnSet(+, 0, f, Accounts)

\* Double entry: what one account gains others lose, so that the entries of
\* all accounts together stay as they were (ledger.transaction.builder.ts).
LedgerBalanced == Total(net) = Total(NetInit)

\* The books hold: no drift is made, and no entry without its counterpart.
BooksHold == BooksAgree /\ LedgerBalanced

\* However often a deposit into a vault is sent, interrupted and retried with
\* one key, it is booked once.
DepositOnce ==
    \A r1, r2 \in refs :
        /\ r1[1] = "vault" /\ r2[1] = "vault"
        /\ Job(r1[2]).key = Job(r2[2]).key
        => r1 = r2

\* No vault is overdrawn, although a closing asks for a balance it has read
\* before its transaction; only a resolution can write a balance below zero,
\* into a vault that claimed more than its entries.
VaultsNotOverdrawn ==
    \A v \in VaultIds :
        vaults[v].balance >= 0 \/ (InitialDrift[v] > 0 /\ Corrected(v))

\* Two withdrawals from one vault, be it of one key, are at least a lock's
\* lifetime apart: the only thing that stops a request that has passed the
\* check of the key when the first withdrawal completes it after its commit.
WithdrawalsSpaced ==
    \A w1, w2 \in withdrawn :
        w1[1] # w2[1] /\ Vlt(w1[1]) = Vlt(w2[1]) => w1[2] # w2[2]

\* A vault gives what it holds, and to one request at a time.
VaultsHold == VaultsNotOverdrawn /\ WithdrawalsSpaced

\* The key of j is completed and j itself has withdrawn nothing.
KeyTaken(j) == Completed(Job(j).key) /\ \A w \in withdrawn : w[1] # j

\* A closed vault holds money only if some other request has written the
\* vault between the closing's read and its write, or a resolution has later
\* found money there, or the closing took its key, completed by an earlier
\* request, for a withdrawal of its own.
StrandedForCause ==
    \A v \in VaultIds :
        vaults[v].status = "CANCELLED" /\ vaults[v].balance > 0 =>
            \/ Corrected(v)
            \/ \E j \in Jobs :
                /\ Job(j).kind = "close" /\ Vlt(j) = v
                /\ v \in stale[j] \/ KeyTaken(j)

\* A transfer is taken back once, except that a reversal marked FAILED after
\* it had committed can be repeated.
ReversedOnce ==
    \A i, j \in reversed :
        /\ Trf(i) = Trf(j)
        /\ reversal[i] # "FAILED" /\ reversal[j] # "FAILED"
        => i = j

\* No reversal takes a wallet below zero without announcing it, although it
\* looks at a balance read before its transaction: what lowers a balance bumps
\* the version, all but the resolution of a drift.
NegativeAnnounced ==
    [][\A w \in Users :
         /\ wallets[w].available >= 0 /\ wallets'[w].available < 0
         /\ reversed' # reversed
         => \/ \E j \in reversed' \ reversed :
                  <<"WALLET_NEGATIVE_BALANCE", j>> \in outbox'
            \/ InitialDrift[w] > 0 /\ Corrected(w)]_vars

\* The fee of a transfer is settled twice (waived, refunded or swept by two
\* requests) only if one of them wrote over what another had written since
\* it read the accrual.
SettledTwiceOnlyBlindly ==
    \A s1, s2 \in settled :
        s1[1] = s2[1] /\ s1[2] # s2[2] => s1[3] \/ s2[3]

\* The guard of reversal.service.ts:108 is there to "prevent double refund":
\* the payer gets the fee of a transfer back at most once.
FeeRefundedOnce ==
    \A j \in reversed :
        Job(j).withFee => <<"refund", Trf(j)>> \notin refs

\* A run freezes a wallet that has been in agreement with its entries only if
\* a commit fell between its two reads: one that falls later cannot make it.
FrozenForCause ==
    \A f \in frozen : f[1] \in torn \/ InitialDrift[f[2]] > 0

Running == {j \in Jobs : reports[j].status # "NONE" /\ pc[j] \notin Ended}

\* There are as many runs at a time, beside the first, as locks have expired
\* at the most.  A run whose lock has expired can delete that of another,
\* which lets in a third, but only while it ends itself: what a lapse has let
\* overlap goes on overlapping, and does not grow.
RunsOverlapOnlyAfterLapse == Cardinality(Running) <= 1 + lapses

\* Runs freeze for cause, and one at a time but for lapses of the lock.
RunsHold == FrozenForCause /\ RunsOverlapOnlyAfterLapse

PendingReversal == \E j \in Jobs : reversal[j] = "PENDING"

\* A reversal does not stay PENDING, which would refuse every later one of its
\* transfer, unless its process dies or its commit fails.
ReversalSettled ==
    PendingReversal /\ ~May("crash") /\ ~May("error") ~> ~PendingReversal

\* However often an event is delivered, dead-lettered and replayed, and its
\* mail claimed, queued and retried: the provider accepts the mail once, the
\* event is projected once, a mail that is DELIVERED has been accepted, and
\* a letter that is REPLAYED has been processed by a replay.
AnnouncedOnce ==
    \A e \in Jobs :
        /\ sent[e] <= 1
        /\ Mailed(e) => applied[e] <= 1
        /\ Job(e).kind # "reverse" => projected[e] <= 1
        /\ mail[e].status = "DELIVERED" => sent[e] = 1
        /\ letter[e] = "REPLAYED" => e \in revived

\* Nothing puts the events of a wallet in order, but a read model that is at
\* the latest change of its wallet shows what the wallet holds.
ReadModelFollows ==
    \A u \in Users :
        shown[u] = changes[u] => readModel[u] = wallets[u].available

\* When all requests are over, a letter whose event a replay has processed is
\* REPLAYED, unless another request wrote it while one was at work on it.
MisfiledForCause ==
    \A e \in revived :
        \/ letter[e] = "REPLAYED"
        \/ May("error") \/ May("crash")
        \/ \E j \in Jobs :
              <<j, e>> \in overtaken \/ (target[j] = e /\ pc[j] \in Replaying)

\* There are a poller and a worker.
Serviced == Mailers \subseteq {Job(j).kind : j \in Jobs}

\* The row of a mail says ENQUEUED, and Redis has lost its job.
Orphaned(e) == mail[e].status = "ENQUEUED" /\ queue[e].state = "none" /\ mishaps > 0

\* Every mail is in the end accepted by the provider, given up by the poller,
\* left failed in the queue, or lost with Redis: the poller, which means to
\* claim such a row again, finds none (email.poller.ts).
MailSettles ==
    Serviced =>
        <>[](\A e \in Jobs :
                \/ mail[e].status \in {"NONE", "FAILED"}
                \/ sent[e] = 1
                \/ queue[e].state = "failed"
                \/ Orphaned(e))
=============================================================================
