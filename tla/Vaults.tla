------------------------------- MODULE Vaults -------------------------------
(***************************************************************************)
(* Savings vaults: TransferService.transferToVault and VaultService.  A    *)
(* deposit completes its key before its transaction commits, a withdrawal  *)
(* after; closing a vault reads it, withdraws what it read and then sets   *)
(* the status whatever has happened in between.                            *)
(***************************************************************************)
EXTENDS Books

VARIABLES
    asked,      \* the amount each withdrawal takes out
    titles,     \* titles of the vaults created, with their creators
    expiries,   \* how often the lock of each vault has expired
    withdrawn   \* withdrawals committed, each with the expiries before it

vaultState == <<asked, titles, expiries, withdrawn>>

VaultsInit ==
    /\ asked = [j \in Jobs |-> Amt(j)]
    /\ titles = {}
    /\ expiries = [v \in VaultIds |-> 0]
    /\ withdrawn = {}

\* findVault: only a vault that is ACTIVE, or COMPLETED and matured.
Usable(v) ==
    \/ vaults[v].status = "ACTIVE"
    \/ vaults[v].status = "COMPLETED" /\ vaults[v].matured

\* mutant: the lock does not refuse anybody
Lockable_Always(v) == TRUE

\* The filter of lockVaultToPreventConcurrency.
Lockable(v) == vaults[v].lock # "held"

BasisPoints(v) ==
    CASE vaults[v].type = "FLEXIBLE" -> 0
      [] vaults[v].type = "LOCKED" -> 500
      [] vaults[v].type = "TARGET" -> 300

\* calculatePenalty.
Penalty(v, n) ==
    IF \/ vaults[v].matured
       \/ /\ vaults[v].type = "TARGET"
          /\ \/ vaults[v].status = "COMPLETED"
             \/ vaults[v].target > 0 /\ vaults[v].balance >= vaults[v].target
    THEN 0
    ELSE (n * BasisPoints(v)) \div 10000

-----------------------------------------------------------------------------
(* createVault: the title is looked up at the snapshot, and vaults with    *)
(* one title are different documents, so no conflict stops a second one.   *)

CreateRead(j) ==
    /\ Starting(j, "create")
    /\ Goto(j, IF \E t \in titles : t[1] = Job(j).key THEN "failed" ELSE "created")
    /\ UNCHANGED <<workload, held, stale, wallets, vaults, net, refs, idem, outbox>>
    /\ UNCHANGED vaultState

CreateCommit(j) ==
    /\ At(j, "created")
    /\ titles' = titles \cup {<<Job(j).key, j>>}
    /\ Emit({"VAULT_CREATED"}, j)
    /\ Goto(j, "done")
    /\ UNCHANGED <<workload, held, stale, wallets, vaults, net, refs, idem>>
    /\ UNCHANGED <<asked, expiries, withdrawn>>

-----------------------------------------------------------------------------
(* transferToVault.                                                        *)

DepositCheckKey(j) ==
    /\ Starting(j, "deposit")
    /\ OpenKey(Job(j).key)
    /\ Goto(j, IF Completed(Job(j).key) THEN "replied" ELSE "depositLock")
    /\ UNCHANGED <<workload, held, stale, wallets, vaults, net, refs, outbox>>
    /\ UNCHANGED vaultState

\* The vault is locked and the funds held: from here nobody else writes them.
DepositLock(j) ==
    /\ At(j, "depositLock")
    /\ IF /\ Usable(Vlt(j)) /\ Lockable(Vlt(j)) /\ Active(Usr(j)) /\ Amt(j) > 0
          /\ wallets[Usr(j)].available >= Amt(j)
          /\ Free(j, {Usr(j), Vlt(j)})
       THEN /\ held' = [held EXCEPT ![j] = {Usr(j), Vlt(j)}]
            /\ Goto(j, "depositKey")
       ELSE /\ Goto(j, "failed")
            /\ UNCHANGED held
    /\ UNCHANGED <<workload, stale, wallets, vaults, net, refs, idem, outbox>>
    /\ UNCHANGED vaultState

\* mutant: the engine does not look at the key again
DepositCompleteKey_Unchecked(j) ==
    /\ At(j, "depositKey")
    /\ CompleteKey(Job(j).key)
    /\ Goto(j, "depositCommit")
    /\ UNCHANGED <<workload, held, stale, wallets, vaults, net, refs, outbox>>
    /\ UNCHANGED vaultState

\* The engine checks the key again and completes it, outside the session.  A
\* reply kept from another request has no transactionRef: the outbox row is
\* refused and the transaction aborted.
DepositCompleteKey(j) ==
    /\ At(j, "depositKey")
    /\ CompleteKey(Job(j).key)
    /\ IF Completed(Job(j).key)
       THEN /\ held' = [held EXCEPT ![j] = {}]
            /\ Goto(j, "failed")
       ELSE /\ Goto(j, "depositCommit")
            /\ UNCHANGED held
    /\ UNCHANGED <<workload, stale, wallets, vaults, net, refs, outbox>>
    /\ UNCHANGED vaultState

DepositLegs(j) == Move(Usr(j), Vlt(j), Amt(j))

DepositCommit(j) ==
    LET v == Vlt(j)
        reached == /\ vaults[v].type = "TARGET" /\ vaults[v].target > 0
                   /\ vaults[v].balance + Amt(j) >= vaults[v].target
    IN
    /\ At(j, "depositCommit")
    /\ Entries(DepositLegs(j))
    /\ wallets' = WalletsAfter(DepositLegs(j), {Usr(j)})
    /\ vaults' = [vaults EXCEPT ![v].balance = @ + Amt(j),
                                ![v].lock = "free",
                                ![v].matured = @ \/ reached,
                                ![v].status = IF reached THEN "COMPLETED" ELSE @]
    /\ refs' = refs \cup {<<"vault", j>>}
    /\ Emit({"TRANSACTION_COMPLETED"}, j)
    /\ held' = [held EXCEPT ![j] = {}]
    /\ Touch(j, {Usr(j), v})
    /\ Goto(j, "done")
    /\ UNCHANGED <<workload, idem>>
    /\ UNCHANGED vaultState

-----------------------------------------------------------------------------
(* withdrawFromVault, for a request of its own or on behalf of closeVault. *)

WithdrawCheckKey(j) ==
    /\ Starting(j, "withdraw") \/ At(j, "closeWithdraw")
    /\ OpenKey(Job(j).key)
    /\ Goto(j, IF ~Completed(Job(j).key) THEN "withdraw"
               ELSE IF Job(j).kind = "close" THEN "cancel" ELSE "replied")
    /\ UNCHANGED <<workload, held, stale, wallets, vaults, net, refs, outbox>>
    /\ UNCHANGED vaultState

\* mutant: the penalty is taken from the vault and booked for no one
WithdrawLegs_PenaltyLost(j) ==
    LET n == asked[j]  p == Penalty(Vlt(j), asked[j]) IN
    [NoLegs EXCEPT ![Vlt(j)] = -n, ![Usr(j)] = n - p]

\* Two legs, or three with the penalty.
WithdrawLegs(j) ==
    LET n == asked[j]  p == Penalty(Vlt(j), asked[j]) IN
    [NoLegs EXCEPT ![Vlt(j)] = -n, ![Usr(j)] = n - p, ![Revenue] = p]

\* mutant: the balance is not compared with the amount
MayWithdraw_AnyAmount(j) ==
    Usable(Vlt(j)) /\ Lockable(Vlt(j)) /\ Active(Usr(j))

MayWithdraw(j) ==
    /\ Usable(Vlt(j))
    /\ vaults[Vlt(j)].balance >= asked[j]
    /\ Lockable(Vlt(j))
    /\ Active(Usr(j))

\* The vault stays locked until the lock expires.
AfterWithdrawal(v, n) ==
    [vaults EXCEPT ![v].balance = @ - n, ![v].lock = "held"]

\* The transaction.  `version: 1` beside $inc sets the version of the revenue
\* wallet back to 1.
WithdrawCommit(j) ==
    LET v == Vlt(j)
        p == Penalty(v, asked[j])
        paid == WalletsAfter(WithdrawLegs(j), {Usr(j)})
        docs == {Usr(j), v} \cup IF p > 0 THEN {Revenue} ELSE {}
    IN
    /\ At(j, "withdraw")
    /\ IF MayWithdraw(j) /\ Free(j, docs)
       THEN /\ Entries(WithdrawLegs(j))
            /\ wallets' = IF p > 0 THEN [paid EXCEPT ![Revenue].version = 1] ELSE paid
            /\ vaults' = AfterWithdrawal(v, asked[j])
            /\ withdrawn' = withdrawn \cup {<<j, expiries[v]>>}
            /\ refs' = refs \cup {<<"withdraw", j>>}
            /\ Emit({"VAULT_WITHDRAWAL"}, j)
            /\ Touch(j, docs)
            /\ Goto(j, "withdrawKey")
       ELSE /\ Goto(j, "failed")
            /\ UNCHANGED <<stale, net, wallets, vaults, withdrawn, refs, outbox>>
    /\ UNCHANGED <<workload, held, idem, asked, titles, expiries>>

\* The FeeAccrual of the penalty is written as best it can be, then the key
\* is completed, after the commit.
WithdrawCompleteKey(j) ==
    /\ At(j, "withdrawKey")
    /\ CompleteKey(Job(j).key)
    /\ Goto(j, IF Job(j).kind = "close" THEN "cancel" ELSE "done")
    /\ UNCHANGED <<workload, held, stale, wallets, vaults, net, refs, outbox>>
    /\ UNCHANGED vaultState

-----------------------------------------------------------------------------
(* closeVault and editVault, outside any transaction.                      *)

\* mutant: what is left in the vault is not withdrawn
CloseRead_NoWithdrawal(j) ==
    /\ Starting(j, "close")
    /\ Goto(j, IF vaults[Vlt(j)].status = "CANCELLED" THEN "failed" ELSE "cancel")
    /\ UNCHANGED <<workload, held, stale, wallets, vaults, net, refs, idem, outbox>>
    /\ UNCHANGED vaultState

CloseRead(j) ==
    /\ Starting(j, "close")
    /\ asked' = [asked EXCEPT ![j] = vaults[Vlt(j)].balance]
    /\ Goto(j, IF vaults[Vlt(j)].status = "CANCELLED" THEN "failed"
               ELSE IF vaults[Vlt(j)].balance > 0 THEN "closeWithdraw" ELSE "cancel")
    /\ UNCHANGED <<workload, held, stale, wallets, vaults, net, refs, idem, outbox>>
    /\ UNCHANGED <<titles, expiries, withdrawn>>

CloseCancel(j) ==
    /\ At(j, "cancel")
    /\ Free(j, {Vlt(j)})
    /\ vaults' = [vaults EXCEPT ![Vlt(j)].status = "CANCELLED"]
    /\ Touch(j, {Vlt(j)})
    /\ Goto(j, "closeEmit")
    /\ UNCHANGED <<workload, held, wallets, net, refs, idem, outbox>>
    /\ UNCHANGED vaultState

CloseEmit(j) ==
    /\ At(j, "closeEmit")
    /\ Emit({"VAULT_CLOSED"}, j)
    /\ Goto(j, "done")
    /\ UNCHANGED <<workload, held, stale, wallets, vaults, net, refs, idem>>
    /\ UNCHANGED vaultState

\* The new target (the amount of the job) is compared with the balance read.
EditRead(j) ==
    /\ Starting(j, "edit")
    /\ Goto(j, IF vaults[Vlt(j)].type = "TARGET" /\ Amt(j) >= vaults[Vlt(j)].balance
               THEN "editWrite" ELSE "failed")
    /\ UNCHANGED <<workload, held, stale, wallets, vaults, net, refs, idem, outbox>>
    /\ UNCHANGED vaultState

EditWrite(j) ==
    /\ At(j, "editWrite")
    /\ Free(j, {Vlt(j)})
    /\ vaults' = [vaults EXCEPT ![Vlt(j)].target = Amt(j)]
    /\ Emit({"EDIT_VAULT"}, j)
    /\ Touch(j, {Vlt(j)})
    /\ Goto(j, "done")
    /\ UNCHANGED <<workload, held, wallets, net, refs, idem>>
    /\ UNCHANGED vaultState

\* Ten seconds pass, or the maturity date of a LOCKED vault.
VaultLockExpires(v) ==
    /\ May("vaultlock")
    /\ vaults[v].lock = "held"
    /\ vaults' = [vaults EXCEPT ![v].lock = "expired"]
    /\ expiries' = [expiries EXCEPT ![v] = @ + 1]
    /\ UNCHANGED <<workload, pc, held, stale, wallets, net, refs, idem, outbox>>
    /\ UNCHANGED <<asked, titles, withdrawn>>

VaultMatures(v) ==
    /\ May("vaultlock")
    /\ vaults[v].type = "LOCKED" /\ ~vaults[v].matured
    /\ vaults' = [vaults EXCEPT ![v].matured = TRUE]
    /\ UNCHANGED <<workload, pc, held, stale, wallets, net, refs, idem, outbox>>
    /\ UNCHANGED vaultState

VaultStep(j) ==
    \/ CreateRead(j) \/ CreateCommit(j)
    \/ DepositCheckKey(j) \/ DepositLock(j) \/ DepositCompleteKey(j)
    \/ DepositCommit(j)
    \/ WithdrawCheckKey(j) \/ WithdrawCommit(j) \/ WithdrawCompleteKey(j)
    \/ CloseRead(j) \/ CloseCancel(j) \/ CloseEmit(j)
    \/ EditRead(j) \/ EditWrite(j)

VaultClock == \E v \in VaultIds : VaultLockExpires(v) \/ VaultMatures(v)
=============================================================================
