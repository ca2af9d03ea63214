-------------------------------- MODULE Books --------------------------------
(***************************************************************************)
(* The documents the back office works on, and what its services share:    *)
(* wallets and vaults (the cached balances), the entries of the ledger,    *)
(* the idempotency keys and the outbox.  The services are modules of their *)
(* own (Vaults, Reversals, Fees, SystemFunding, Reconciliation), and so is *)
(* what follows from the outbox (ReadModel, Mail, DeadLetters); all extend *)
(* this one and BackOffice composes them.                                  *)
(*                                                                         *)
(* A job is a request, a scheduled run or a worker, a coroutine giving way *)
(* to the others at each await.  A Mongo transaction whose decisive reads  *)
(* are of documents it also writes is one step: with first-writer-wins     *)
(* conflicts it either finds at commit what it read, or aborts.  Where it  *)
(* awaits something outside the transaction after its writes, it holds its *)
(* documents from one step to another.                                     *)
(***************************************************************************)
EXTENDS Integers, FiniteSets

CONSTANTS
    Users,           \* MAIN_CHECKINGS wallets
    Revenue,         \* the SYSTEM_REVENUE wallet
    Treasury,        \* the SYSTEM_TREASURY wallet
    Adjustments,     \* RECONCILIATION_ADJUSTMENTS, a ledger without a wallet
    External,        \* EXTERNAL_FUNDING, a ledger without a wallet
    VaultIds,        \* vaults, each with a ledger account of its own
    Keys,            \* idempotency keys
    Transfers,       \* completed p2p transfers with a fee
    Jobs,            \* slots for the requests and runs of one behaviour
    Requests,        \* what may be asked
    Request,         \* its kind and parameters
    InitialBalance,  \* cached balance of each wallet and vault at the start
    InitialDrift,    \* what of it the ledger does not account for
    InitialVault,    \* the vault documents at the start
    InitialAccrual,  \* the FeeAccrual of each transfer, "NONE" without one
    Workloads        \* which requests come together, with which faults

Wallets == Users \cup {Revenue, Treasury}
Cached == Wallets \cup VaultIds
Accounts == Cached \cup {Adjustments, External}
Kinds == {"idle", "transfer", "funding", "deposit", "withdraw", "close",
          "edit", "create", "reverse", "waive", "refund", "sweep", "fund",
          "reconcile", "resolve",
          "consume", "poll", "mail", "replay", "replayTopic", "dismiss",
          "bulkDismiss"}
Faults == {"error", "crash", "readback", "vaultlock", "runlock", "dead",
           "lost"}
Workers == {"consume", "poll", "mail"}
Resolutions == {"CORRECTED", "FALSE_POSITIVE", "ESCALATED"}
Methods == {"NONE", "DIRECT_CACHE_SYNC", "LEDGER_ENTRY"}
VaultDoc == [balance : Int, target : Nat, type : {"FLEXIBLE", "LOCKED", "TARGET"},
             status : {"ACTIVE", "COMPLETED", "CANCELLED"}, matured : BOOLEAN,
             lock : {"free", "held", "expired"}]
AccrualStatuses == {"NONE", "ACCRUED", "WAIVED", "SWEPT"}

ASSUME AccountAssumption ==
    /\ Users \cap VaultIds = {}
    /\ {Revenue, Treasury, Adjustments, External} \cap (Users \cup VaultIds) = {}
    /\ Revenue # Treasury
    /\ {Revenue, Treasury} \cap {Adjustments, External} = {}
    /\ IsFiniteSet(Accounts) /\ IsFiniteSet(Jobs)
ASSUME RequestAssumption ==
    \A r \in Requests :
        /\ Request[r].kind \in Kinds
        /\ Request[r].key \in Keys
        /\ {Request[r].user, Request[r].peer} \subseteq Users
        /\ Request[r].kind = "reverse" => Request[r].user # Request[r].peer
        /\ Request[r].vault \in VaultIds
        /\ Request[r].transfer \in Transfers
        /\ {Request[r].amount, Request[r].fee} \subseteq Nat
        /\ Request[r].account \in Cached
        /\ Request[r].withFee \in BOOLEAN
        /\ Request[r].resolution \in Resolutions
        /\ Request[r].method \in Methods
        /\ Request[r].process # "free"
ASSUME InitialAssumption ==
    /\ InitialBalance \in [Cached -> Int]
    /\ InitialDrift \in [Cached -> Int]
    /\ InitialVault \in [VaultIds -> VaultDoc]
    /\ \A v \in VaultIds :
          /\ InitialVault[v].balance = InitialBalance[v]
          /\ InitialBalance[v] >= 0
          /\ InitialVault[v].status = "CANCELLED" => InitialBalance[v] = 0
    /\ InitialAccrual \in [Transfers -> AccrualStatuses]
    /\ Workloads \subseteq [asks : [Jobs -> Requests], faults : SUBSET Faults]

VARIABLES
    workload,   \* the request of each job, and the faults there may be
    pc,         \* where each job is
    held,       \* documents its open transaction has written
    stale,      \* documents others have written since it began
    wallets,    \* wallet documents
    vaults,     \* vault documents
    net,        \* credits minus debits of each ledger account's entries
    refs,       \* transactionRefs in the ledger (unique)
    idem,       \* the idempotency record of each key
    outbox      \* committed outbox rows: <<event type, job>>

Job(j) == Request[workload.asks[j]]
Documents == Cached \cup Transfers
Amt(j) == Job(j).amount
Vlt(j) == Job(j).vault
Usr(j) == Job(j).user

Starting(j, kind) == pc[j] = "start" /\ Job(j).kind = kind
At(j, l) == pc[j] = l
Goto(j, l) == pc' = [pc EXCEPT ![j] = l]
Ended == {"start", "done", "failed", "replied", "crashed"}
May(fault) == fault \in workload.faults

NetInit == [a \in Accounts |->
              IF a \in Cached THEN InitialBalance[a] - InitialDrift[a] ELSE 0]

BooksInit ==
    /\ workload \in Workloads
    /\ pc = [j \in Jobs |-> "start"]
    /\ held = [j \in Jobs |-> {}]
    /\ stale = [j \in Jobs |-> {}]
    /\ wallets = [w \in Wallets |-> [available |-> InitialBalance[w],
                                     version |-> 0, status |-> "ACTIVE"]]
    /\ vaults = InitialVault
    /\ net = NetInit
    /\ refs = {}
    /\ idem = [k \in Keys |-> "NONE"]
    /\ outbox = {}

-----------------------------------------------------------------------------
(* Documents.                                                              *)

\* No other open transaction has written any of the documents ds.
Free(j, ds) == \A i \in Jobs \ {j} : held[i] \cap ds = {}

\* j writes the documents ds: to every other running request they are news.
Touch(j, ds) ==
    stale' = [i \in Jobs |->
                IF i # j /\ pc[i] \notin Ended /\ Job(i).kind \notin Workers
                THEN stale[i] \cup ds ELSE stale[i]]

NoLegs == [a \in Accounts |-> 0]

\* TransactionBuilder.commit: the legs, which sum up to zero, are inserted.
Entries(legs) == net' = [a \in Accounts |-> net[a] + legs[a]]

Move(from, to, n) ==
    [NoLegs EXCEPT ![from] = -n, ![to] = n]

\* The $inc of the cached balances that goes with the legs; the versions of
\* the wallets in bumped go up with it.
WalletsAfter(legs, bumped) ==
    [w \in Wallets |->
       [wallets[w] EXCEPT !.available = @ + legs[w],
                          !.version = IF w \in bumped THEN @ + 1 ELSE @]]

Active(w) == wallets[w].status = "ACTIVE"

\* What a balance is cached as, and whether the ledger agrees.
Balance(a) == IF a \in VaultIds THEN vaults[a].balance ELSE wallets[a].available
LiveDrift(a) == Balance(a) - net[a]

\* The drift there was at the start has been resolved.
Corrected(a) == InitialDrift[a] # 0 /\ LiveDrift(a) = 0

\* extEnsureIdempotence and markCompleted: only a completed key is refused.
OpenKey(k) == idem' = [idem EXCEPT ![k] = IF @ = "NONE" THEN "IN_PROGRESS" ELSE @]
CompleteKey(k) == idem' = [idem EXCEPT ![k] = "COMPLETED"]
Completed(k) == idem[k] = "COMPLETED"

Emit(types, j) == outbox' = outbox \cup {<<t, j>> : t \in types}

-----------------------------------------------------------------------------
(* Money that moves for reasons of its own: a transfer between users       *)
(* (Transfer) and a deposit from outside (PaymentFunding), each the one    *)
(* commit those modules refine.  Only the transfer bumps the versions.     *)

OtherTransfer(j) ==
    LET legs == Move(Usr(j), Job(j).peer, Amt(j)) IN
    /\ Starting(j, "transfer")
    /\ IF /\ Active(Usr(j)) /\ Usr(j) # Job(j).peer
          /\ wallets[Usr(j)].available >= Amt(j)
          /\ Free(j, {Usr(j), Job(j).peer})
       THEN /\ Entries(legs)
            /\ wallets' = WalletsAfter(legs, {Usr(j), Job(j).peer})
            /\ Touch(j, {Usr(j), Job(j).peer})
            /\ Emit({"TRANSACTION_COMPLETED"}, j)
            /\ Goto(j, "done")
       ELSE /\ Goto(j, "failed")
            /\ UNCHANGED <<net, wallets, stale, outbox>>
    /\ UNCHANGED <<workload, held, vaults, refs, idem>>

OtherFunding(j) ==
    LET legs == Move(External, Usr(j), Amt(j)) IN
    /\ Starting(j, "funding")
    /\ IF Active(Usr(j)) /\ Free(j, {Usr(j)})
       THEN /\ Entries(legs)
            /\ wallets' = WalletsAfter(legs, {})
            /\ Touch(j, {Usr(j)})
            /\ Emit({"FUNDING_CREDITED"}, j)
            /\ Goto(j, "done")
       ELSE /\ Goto(j, "failed")
            /\ UNCHANGED <<net, wallets, stale, outbox>>
    /\ UNCHANGED <<workload, held, vaults, refs, idem>>

\* A call of an open transaction fails: it is aborted and the caller told.
TxnError(j) ==
    /\ May("error")
    /\ held[j] # {}
    /\ held' = [held EXCEPT ![j] = {}]
    /\ Goto(j, "failed")
    /\ UNCHANGED <<workload, stale, wallets, vaults, net, refs, idem, outbox>>

\* The process of a request dies; Mongo aborts what it left open.
CrashJob(j) ==
    /\ May("crash")
    /\ pc[j] \notin Ended
    /\ Job(j).kind \notin Workers
    /\ held' = [held EXCEPT ![j] = {}]
    /\ Goto(j, "crashed")
    /\ UNCHANGED <<workload, stale, wallets, vaults, net, refs, idem, outbox>>
=============================================================================
