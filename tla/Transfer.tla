------------------------------ MODULE Transfer ------------------------------
(***************************************************************************)
(* Money transfers between wallets: POST /transfer/p2p and /transfer/      *)
(* internal.  One request is one run of TransferService.p2pTransfer or     *)
(* transferBetweenWallet, a coroutine that gives way to every other        *)
(* request at each await.  Two stores are shared:                          *)
(*   - the idempotency records, read and written outside any transaction;  *)
(*   - the documents a Mongo transaction reads at its snapshot, writes     *)
(*     under first-writer-wins locks and publishes at commit: wallets,     *)
(*     accounts, ledger entries and the outbox.                            *)
(* A wallet and its account and ledger account are one to one, so one name *)
(* stands for the three.  The daily limit of the sender is the subject of  *)
(* module Limits: here a transfer may be refused at that step as at any    *)
(* other.  Requests are constants: a retry by the client is another        *)
(* request with the same key.                                              *)
(***************************************************************************)
EXTENDS Integers, FiniteSets, FiniteSetsExt

CONSTANTS
    Requests,        \* the requests clients send, retries included
    Keys,            \* values of the Idempotency-Key header
    Wallets,         \* wallets (with their account and ledger account)
    Revenue,         \* the SYSTEM_REVENUE wallet, credited with fees
    Kind,            \* Kind[r]: "P2P" or "INTERNAL"
    Key,             \* Key[r]: the idempotency key r carries
    From, To,        \* the sending and the receiving wallet of r
    Amount, Fee,     \* what r moves, and its fee (0 for internal transfers)
    InitialBalance,  \* availableBalance of each wallet at the start
    Freezable,       \* the wallets others may freeze (a bound on the runs)
    BalanceCap       \* maxWalletBalance of the receiver's tier

ASSUME RequestAssumption ==
    /\ Kind \in [Requests -> {"P2P", "INTERNAL"}]
    /\ Key \in [Requests -> Keys]
    /\ From \in [Requests -> Wallets \ {Revenue}]
    /\ To \in [Requests -> Wallets \ {Revenue}]
    /\ \A r \in Requests : From[r] # To[r]
ASSUME AmountAssumption ==
    /\ Amount \in [Requests -> Nat]
    /\ Fee \in [Requests -> Nat]
    /\ \A r \in Requests : Kind[r] = "INTERNAL" => Fee[r] = 0
ASSUME WalletAssumption ==
    /\ Revenue \in Wallets
    /\ InitialBalance \in [Wallets -> Int]
    /\ Freezable \subseteq Wallets \ {Revenue}
    /\ BalanceCap \in Nat

VARIABLES
    \* outside every Mongo transaction
    idem,         \* the extIdempotence record of each key
    \* committed documents
    wallets,      \* the wallet documents
    ledgerNet,    \* credits minus debits of each ledger account's entries
    posted,       \* requests whose ledger transactions are committed
    outbox,       \* requests whose transfer.events row is committed
    accrued,      \* requests with a FeeAccrual document
    \* per request: the coroutine and its Mongo transaction
    pc,           \* the next step of the request
    view,         \* wallets as the transaction sees them
    writes,       \* documents the transaction has written (and locks)
    missed,       \* documents others committed since its snapshot
    entries,      \* ledger transactions it has inserted
    hasRef,       \* the engine returned a transactionRef
    event         \* it has inserted its outbox row

committed == <<wallets, ledgerNet, posted, outbox, accrued>>
txn == <<view, writes, missed, entries, hasRef, event>>
vars == <<idem, wallets, ledgerNet, posted, outbox, accrued,
          pc, view, writes, missed, entries, hasRef, event>>

Statuses == {"ACTIVE", "FROZEN", "RECONCILING"}
WalletDoc == [available : Int, locked : Nat, status : Statuses]
Doc(available, locked, status) ==
    [available |-> available, locked |-> locked, status |-> status]
IdemDoc == [status : {"NONE", "IN_PROGRESS", "COMPLETED"}, touched : BOOLEAN]
Docs == {"wallet", "account"} \X Wallets

Running == {"begin", "reserve", "lock", "ensure", "post", "fee", "complete",
            "apply", "emit", "commit"}
Finished == {"idle", "done", "failed", "duplicate", "crashed"}
Total(r) == Amount[r] + Fee[r]
NoView == [w \in Wallets |-> Doc(0, 0, "ACTIVE")]

\* mutant: the fee entry debits nobody
EntryNet_FeeNotDebited(r, s, w) ==
    (IF "TRANSFER" \notin s THEN 0
     ELSE IF w = From[r] THEN -Amount[r]
     ELSE IF w = To[r] THEN Amount[r] ELSE 0)
    + (IF "FEE" \in s /\ w = Revenue THEN Fee[r] ELSE 0)

\* What the ledger transactions of r in the set s add to account w.
EntryNet(r, s, w) ==
    (IF "TRANSFER" \notin s THEN 0
     ELSE IF w = From[r] THEN -Amount[r]
     ELSE IF w = To[r] THEN Amount[r] ELSE 0)
    + (IF "FEE" \notin s THEN 0
       ELSE IF w = From[r] THEN -Fee[r]
       ELSE IF w = Revenue THEN Fee[r] ELSE 0)

Init ==
    /\ idem = [k \in Keys |-> [status |-> "NONE", touched |-> FALSE]]
    /\ wallets = [w \in Wallets |-> Doc(InitialBalance[w], 0,
                      IF InitialBalance[w] < 0 THEN "FROZEN" ELSE "ACTIVE")]
    /\ ledgerNet = [w \in Wallets |-> InitialBalance[w]]
    /\ posted = {}
    /\ outbox = {}
    /\ accrued = {}
    /\ pc = [r \in Requests |-> "idle"]
    /\ view = [r \in Requests |-> NoView]
    /\ writes = [r \in Requests |-> {}]
    /\ missed = [r \in Requests |-> {}]
    /\ entries = [r \in Requests |-> {}]
    /\ hasRef = [r \in Requests |-> FALSE]
    /\ event = [r \in Requests |-> FALSE]

-----------------------------------------------------------------------------
(* Mongo transactions.                                                     *)

Goto(r, l) == pc' = [pc EXCEPT ![r] = l]

\* Writing d would be a write conflict: another open transaction holds it,
\* or a version newer than the snapshot is committed.
Conflict(r, d) ==
    d \in missed[r] \/ \E q \in Requests \ {r} : d \in writes[q]

\* Every transaction open now has a snapshot older than the documents ds.
MissedBy(ds) ==
    [r \in Requests |-> IF pc[r] \in Running \ {"begin"}
                        THEN missed[r] \cup ds ELSE missed[r]]

\* The transaction of r is over: its locks and uncommitted versions go.
Forget(r) ==
    /\ view' = [view EXCEPT ![r] = NoView]
    /\ entries' = [entries EXCEPT ![r] = {}]
    /\ hasRef' = [hasRef EXCEPT ![r] = FALSE]
    /\ event' = [event EXCEPT ![r] = FALSE]

Unlock(r) == writes' = [writes EXCEPT ![r] = {}]

-----------------------------------------------------------------------------
(* Idempotency records (ext.idempotence.ts).  touched: lastUpdatedAt has   *)
(* moved away from createdAt.  Nothing but markCompleted moves it, so the  *)
(* IN_PROGRESS and takeover branches behind !isNew are out of reach and    *)
(* markFailed has no caller; the record keeps two statuses.                *)

IsNew(k) == ~idem[k].touched
AlreadyCompleted(k) == ~IsNew(k) /\ idem[k].status = "COMPLETED"

\* The upsert: $setOnInsert writes only where there is no record yet.
UpsertKey(k) ==
    idem' = [idem EXCEPT ![k] = IF @.status = "NONE"
               THEN [status |-> "IN_PROGRESS", touched |-> FALSE] ELSE @]

\* mutant: lastUpdatedAt is left as it was
CompleteKey_KeepsTimestamp(k) ==
    idem' = [idem EXCEPT ![k] = [status |-> "COMPLETED", touched |-> FALSE]]

CompleteKey(k) ==
    idem' = [idem EXCEPT ![k] = IF @.status = "IN_PROGRESS"
               THEN [status |-> "COMPLETED", touched |-> TRUE] ELSE @]

-----------------------------------------------------------------------------
(* The steps of a request.                                                 *)

\* First await of the service: the key is checked before the transaction.
CheckKey(r) ==
    /\ pc[r] = "idle"
    /\ UpsertKey(Key[r])
    /\ Goto(r, IF AlreadyCompleted(Key[r]) THEN "duplicate" ELSE "begin")
    /\ UNCHANGED <<committed, txn>>

\* mutant: a blocked wallet may receive whatever blocks it
MayTransfer_AnyReceiver(r) ==
    /\ wallets[From[r]].status = "ACTIVE"
    /\ Kind[r] = "P2P" \/ wallets[To[r]].status = "ACTIVE"

\* ensureWalletsAreActive: a frozen receiver may still be credited by p2p;
\* findWalletByType wants both ACTIVE.
MayTransfer(r) ==
    /\ wallets[From[r]].status = "ACTIVE"
    /\ wallets[To[r]].status \in
         IF Kind[r] = "P2P" THEN {"ACTIVE", "FROZEN"} ELSE {"ACTIVE"}

\* The first read of the transaction fixes its snapshot.
Begin(r) ==
    /\ pc[r] = "begin"
    /\ view' = [view EXCEPT ![r] = wallets]
    /\ Goto(r, IF ~MayTransfer(r) THEN "abort"
               ELSE IF Kind[r] = "P2P" THEN "reserve" ELSE "lock")
    /\ UNCHANGED <<idem, committed, writes, missed, entries, hasRef, event>>

\* mutant: the balance before the credit is compared
BelowCap_Before(r) == view[r][To[r]].available <= BalanceCap

\* enforceReceiverBalanceCap, on the snapshot.
BelowCap(r) == view[r][To[r]].available + Amount[r] <= BalanceCap

\* enforceTransactionLimits lets the transfer through (Throw is its refusal).
Reserve(r) ==
    /\ pc[r] = "reserve"
    /\ Goto(r, IF BelowCap(r) THEN "lock" ELSE "abort")
    /\ UNCHANGED <<idem, committed, txn>>

\* mutant: the fee is not part of what the sender must have
Affordable_WithoutFee(r) == view[r][From[r]].available >= Amount[r]

\* The filter of lockWalletFunds.
Affordable(r) == view[r][From[r]].available >= Total(r)

\* The updates of lockWalletFunds and deductWalletFunds, and a credit.
Held(doc, n) == Doc(doc.available - n, doc.locked + n, doc.status)
Deducted(doc, n) == Doc(doc.available, doc.locked - n, doc.status)
Plus(doc, n) == Doc(doc.available + n, doc.locked, doc.status)

\* lockWalletFunds: the first write of the transaction.
LockFunds(r) ==
    /\ pc[r] = "lock"
    /\ IF Conflict(r, <<"wallet", From[r]>>) \/ ~Affordable(r)
       THEN Goto(r, "abort") /\ UNCHANGED <<view, writes>>
       ELSE /\ view' = [view EXCEPT ![r][From[r]] = Held(@, Total(r))]
            /\ writes' = [writes EXCEPT ![r] = @ \cup {<<"wallet", From[r]>>}]
            /\ Goto(r, "ensure")
    /\ UNCHANGED <<idem, committed, missed, entries, hasRef, event>>

\* mutant: the engine relies on the check the service has made
CheckKeyAgain_Dropped(r) ==
    /\ pc[r] = "ensure"
    /\ Goto(r, "post")
    /\ UNCHANGED <<idem, committed, txn>>

\* The engine checks the key again.  A completed key makes it return the
\* stored response, which has no transactionRef; the service carries on.
CheckKeyAgain(r) ==
    /\ pc[r] = "ensure"
    /\ UpsertKey(Key[r])
    /\ Goto(r, IF AlreadyCompleted(Key[r]) THEN "apply" ELSE "post")
    /\ UNCHANGED <<committed, txn>>

\* Lock both accounts, then insert the transfer and, with a fee, the fee
\* ledger transaction.
Post(r) ==
    LET accounts == {<<"account", From[r]>>, <<"account", To[r]>>} IN
    /\ pc[r] = "post"
    /\ IF \E d \in accounts : Conflict(r, d)
       THEN Goto(r, "abort") /\ UNCHANGED <<writes, entries>>
       ELSE /\ writes' = [writes EXCEPT ![r] = @ \cup accounts]
            /\ entries' = [entries EXCEPT ![r] = IF Fee[r] > 0
                             THEN {"TRANSFER", "FEE"} ELSE {"TRANSFER"}]
            /\ Goto(r, IF Fee[r] > 0 THEN "fee" ELSE "complete")
    /\ UNCHANGED <<idem, committed, view, missed, hasRef, event>>

\* The fee is credited to the revenue wallet, which every request shares.
CreditRevenue(r) ==
    /\ pc[r] = "fee"
    /\ IF Conflict(r, <<"wallet", Revenue>>)
       THEN Goto(r, "abort") /\ UNCHANGED <<view, writes>>
       ELSE /\ view' = [view EXCEPT ![r][Revenue] = Plus(@, Fee[r])]
            /\ writes' = [writes EXCEPT ![r] = @ \cup {<<"wallet", Revenue>>}]
            /\ Goto(r, "complete")
    /\ UNCHANGED <<idem, committed, missed, entries, hasRef, event>>

\* markCompleted runs outside the session, before the transaction commits.
MarkCompleted(r) ==
    /\ pc[r] = "complete"
    /\ CompleteKey(Key[r])
    /\ hasRef' = [hasRef EXCEPT ![r] = TRUE]
    /\ Goto(r, "apply")
    /\ UNCHANGED <<committed, view, writes, missed, entries, event>>

\* mutant: the wallet gets the status meant for its user
Recovered_UserStatus(doc) ==
    IF doc.available >= 0 /\ doc.status = "FROZEN"
    THEN Doc(doc.available, doc.locked, "ACCOUNT_READY") ELSE doc

\* checkAndAutoRecoverWallet: a freeze is lifted once the balance is back.
Recovered(doc) ==
    IF doc.available >= 0 /\ doc.status = "FROZEN"
    THEN Doc(doc.available, doc.locked, "ACTIVE") ELSE doc

\* mutant: the receiver gets the fee as well
Credited_WithFee(r, doc) ==
    LET new == Plus(doc, Total(r))
    IN  IF Kind[r] = "P2P" THEN Recovered(new) ELSE new

Credited(r, doc) ==
    LET new == Plus(doc, Amount[r])
    IN  IF Kind[r] = "P2P" THEN Recovered(new) ELSE new

\* deductWalletFunds and the credit of the receiver.
Apply(r) ==
    /\ pc[r] = "apply"
    /\ IF \/ view[r][From[r]].locked < Total(r)
          \/ Conflict(r, <<"wallet", To[r]>>)
       THEN Goto(r, "abort") /\ UNCHANGED <<view, writes>>
       ELSE /\ view' = [view EXCEPT ![r][From[r]] = Deducted(@, Total(r)),
                                    ![r][To[r]] = Credited(r, @)]
            /\ writes' = [writes EXCEPT ![r] = @ \cup {<<"wallet", To[r]>>}]
            /\ Goto(r, "emit")
    /\ UNCHANGED <<idem, committed, missed, entries, hasRef, event>>

\* mutant: a row that cannot be written is only logged
EmitEvent_BestEffort(r) ==
    /\ pc[r] = "emit"
    /\ event' = [event EXCEPT ![r] = hasRef[r]]
    /\ Goto(r, "commit")
    /\ UNCHANGED <<idem, committed, view, writes, missed, entries, hasRef>>

\* emitOutboxEvent: without a transactionRef the row lacks its required
\* eventId and aggregateId and the insert is refused.
EmitEvent(r) ==
    /\ pc[r] = "emit"
    /\ IF hasRef[r]
       THEN event' = [event EXCEPT ![r] = TRUE] /\ Goto(r, "commit")
       ELSE Goto(r, "abort") /\ UNCHANGED event
    /\ UNCHANGED <<idem, committed, view, writes, missed, entries, hasRef>>

\* commitTransaction publishes every write.  The reply may be lost: the
\* transfer stands, and the caller takes its error path.
Commit(r) ==
    /\ pc[r] = "commit"
    /\ wallets' = [w \in Wallets |-> IF <<"wallet", w>> \in writes[r]
                                     THEN view[r][w] ELSE wallets[w]]
    /\ ledgerNet' = [w \in Wallets |->
                       ledgerNet[w] + EntryNet(r, entries[r], w)]
    /\ posted' = posted \cup {r}
    /\ outbox' = IF event[r] THEN outbox \cup {r} ELSE outbox
    /\ missed' = [MissedBy(writes[r]) EXCEPT ![r] = {}]
    /\ Forget(r) /\ Unlock(r)
    /\ \/ Goto(r, IF Kind[r] = "P2P" THEN "settle" ELSE "done")
       \/ Goto(r, "failed")
    /\ UNCHANGED <<idem, accrued>>

\* After the commit, best effort: the FeeAccrual.
Settle(r) ==
    /\ pc[r] = "settle"
    /\ accrued' \in {accrued, IF Fee[r] > 0 THEN accrued \cup {r} ELSE accrued}
    /\ Goto(r, "done")
    /\ UNCHANGED <<idem, wallets, ledgerNet, posted, outbox, txn>>

-----------------------------------------------------------------------------
(* Failures and the other writers.                                         *)

\* Any await may throw: a lookup without a result, a database error.
Throw(r) ==
    /\ pc[r] \in Running
    /\ Goto(r, "abort")
    /\ UNCHANGED <<idem, committed, txn>>

\* mutant: the error path leaves the transaction open
Abort_LeftOpen(r) ==
    /\ pc[r] = "abort"
    /\ Forget(r)
    /\ missed' = [missed EXCEPT ![r] = {}]
    /\ Goto(r, "failed")
    /\ UNCHANGED <<idem, committed, writes>>

Abort(r) ==
    /\ pc[r] = "abort"
    /\ Forget(r) /\ Unlock(r)
    /\ missed' = [missed EXCEPT ![r] = {}]
    /\ Goto(r, "failed")
    /\ UNCHANGED <<idem, committed>>

\* The process dies.  Its transaction stays open, locks included, until the
\* server ends it.
Crash(r) ==
    /\ pc[r] \in Running \cup {"abort", "settle"}
    /\ Forget(r)
    /\ missed' = [missed EXCEPT ![r] = {}]
    /\ Goto(r, "crashed")
    /\ UNCHANGED <<idem, committed, writes>>

ServerAbort(r) ==
    /\ pc[r] = "crashed"
    /\ writes[r] # {}
    /\ Unlock(r)
    /\ UNCHANGED <<idem, committed, pc, view, missed, entries, hasRef, event>>

\* The consumer of WALLET_NEGATIVE_BALANCE freezes a wallet whatever its
\* balance is by then; a reconciliation that finds drift takes it out of use.
\* The write waits for a transaction that holds the document.
FreezeWallet(w) ==
    /\ \A r \in Requests : <<"wallet", w>> \notin writes[r]
    /\ wallets[w].status = "ACTIVE"
    /\ \E s \in {"FROZEN", "RECONCILING"} :
         wallets' = [wallets EXCEPT ![w] = Doc(@.available, @.locked, s)]
    /\ missed' = MissedBy({<<"wallet", w>>})
    /\ UNCHANGED <<idem, ledgerNet, posted, outbox, accrued, pc, view,
                   writes, entries, hasRef, event>>

Step(r) ==
    \/ CheckKey(r)      \/ Begin(r)         \/ Reserve(r)  \/ LockFunds(r)
    \/ CheckKeyAgain(r) \/ Post(r)          \/ CreditRevenue(r)
    \/ MarkCompleted(r) \/ Apply(r)         \/ EmitEvent(r)
    \/ Commit(r)        \/ Settle(r)        \/ Abort(r)

\* Every request has finished: the system may stop.
Terminated ==
    /\ \A r \in Requests : pc[r] \in Finished \ {"idle"} /\ writes[r] = {}
    /\ UNCHANGED vars

Next ==
    \/ \E r \in Requests : Step(r) \/ Throw(r) \/ Crash(r) \/ ServerAbort(r)
    \/ \E w \in Freezable : FreezeWallet(w)
    \/ Terminated

Spec == Init /\ [][Next]_vars

\* A request that has begun runs on (or crashes), and the server ends the
\* transactions of dead clients.  Clients need not send their requests.
Fairness ==
    \A r \in Requests : /\ WF_vars(Step(r) /\ pc[r] # "idle")
                        /\ WF_vars(ServerAbort(r))
FairSpec == Spec /\ Fairness
-----------------------------------------------------------------------------
(* Properties.                                                             *)

\* Every variable has its type.
TypeOK ==
    /\ idem \in [Keys -> IdemDoc]
    /\ wallets \in [Wallets -> WalletDoc]
    /\ ledgerNet \in [Wallets -> Int]
    /\ posted \subseteq Requests
    /\ outbox \subseteq Requests
    /\ accrued \subseteq Requests
    /\ pc \in [Requests -> Running \cup Finished \cup
                             {"abort", "settle"}]
    /\ view \in [Requests -> [Wallets -> WalletDoc]]
    /\ writes \in [Requests -> SUBSET Docs]
    /\ missed \in [Requests -> SUBSET Docs]
    /\ entries \in [Requests -> SUBSET {"TRANSFER", "FEE"}]
    /\ hasRef \in [Requests -> BOOLEAN]
    /\ event \in [Requests -> BOOLEAN]

\* One key moves money out of one wallet at most once, however many requests
\* carry it and wherever they crash (extEnsureIdempotence lets all of them
\* in; the second check, the wallet lock and the outbox row stop the rest).
AtMostOncePerKey ==
    \A r, q \in posted : Key[r] = Key[q] /\ From[r] = From[q] => r = q

\* A committed transfer has completed its key, so that no later request with
\* that key starts another (markCompleted precedes commitTransaction).
PostedKeyIsCompleted ==
    \A r \in posted : AlreadyCompleted(Key[r])

\* A key is used once and for good: what it has moved is not moved again, and
\* it says so to whoever comes later (ext.idempotence.ts).
KeySpentOnce == AtMostOncePerKey /\ PostedKeyIsCompleted

\* The balance of every wallet is the balance of its ledger account: the
\* wallet updates of the services and the entries of the builder agree.
LedgerAgreesWithWallets ==
    \A w \in Wallets : wallets[w].available + wallets[w].locked = ledgerNet[w]

\* Transfers never overdraw a wallet, and leave no funds locked: two
\* requests that read the same balance cannot both spend it.
NoOverdraft ==
    \A w \in Wallets : /\ wallets[w].available >= 0
                            \/ wallets[w].available >= InitialBalance[w]
                       /\ wallets[w].locked = 0

\* A transfer and its transfer.events row are committed together.
EventPerTransfer == outbox = posted

\* At every committed state money, entries and events tell one story: all the
\* writes of a transaction or none, and none on what another has spent.
CommitsAreWhole == LedgerAgreesWithWallets /\ NoOverdraft /\ EventPerTransfer

\* No transfer takes money out of a wallet that is frozen when it commits, and
\* none touches one under reconciliation, though the statuses were read long
\* before the commit.
BlockedWalletsUntouched ==
    [][\A w \in Wallets :
         LET before == wallets[w]
             after == wallets'[w]
         IN  /\ before.status = "FROZEN" => after.available >= before.available
             /\ before.status = "RECONCILING" => after = before]_vars

\* A p2p credit never leaves the receiver above the cap, though the cap was
\* checked on an earlier read of the balance.
CapHoldsAtCommit ==
    [][\A r \in posted' \ posted : Kind[r] = "P2P" =>
         wallets'[To[r]].available <= BalanceCap]_vars

\* Document locks are released in the end, also those of a dead process.
LocksReleased == \A r \in Requests : (writes[r] # {}) ~> (writes[r] = {})

\* What the controller tells a duplicate: "original transfer already
\* processed".  Checked where every request with the key has finished.
DuplicateReplyIsTrue ==
    \A r \in Requests :
      /\ pc[r] = "duplicate"
      /\ \A q \in Requests : Key[q] = Key[r] => pc[q] \in Finished
      => \E q \in posted : Key[q] = Key[r]

-----------------------------------------------------------------------------
(* Refinement: read through committed documents alone, the interleaved      *)
(* requests are the atomic transfers of module AtomicTransfer.              *)

Atomic == INSTANCE AtomicTransfer WITH
            balance <- [w \in Wallets |->
                          wallets[w].available + wallets[w].locked],
            done <- posted

\* Every step either changes no balance or is one whole transfer, carried out
\* for the first time under its key and paid for by its sender.
ImplementsAtomicTransfer == Atomic!Spec
=============================================================================
