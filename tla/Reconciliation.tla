---------------------------- MODULE Reconciliation ----------------------------
(***************************************************************************)
(* ReconciliationService: a run compares the cached balance of an account  *)
(* with its entries and freezes a wallet that claims more than it has; an  *)
(* admin resolves the drift it reports.  The accounts of a batch are       *)
(* checked independently of each other, so a run here checks one account.  *)
(* The two balances are read one after the other, outside any transaction. *)
(***************************************************************************)
EXTENDS Books

VARIABLES
    runLock,    \* process whose token the Redis lock holds, or "free"
    lapses,     \* how often the lock has expired under a run
    reports,    \* the report of each run
    sum,        \* the true balance each run has computed
    torn,       \* runs between whose two reads another wrote the account
    frozen      \* freezes: <<run, account>>

reconciliationState == <<runLock, lapses, reports, sum, torn, frozen>>

Acc(j) == Job(j).account

ReconciliationInit ==
    /\ runLock = "free"
    /\ lapses = 0
    /\ reports = [j \in Jobs |-> [status |-> "NONE", drift |-> 0, resolved |-> FALSE]]
    /\ sum = [j \in Jobs |-> 0]
    /\ torn = {}
    /\ frozen = {}

\* mutant: the lock is set without NX
Lockable_Taken == TRUE

\* SET ... NX EX: fails while any token is there.
Acquirable == runLock = "free"

RunLock(j) ==
    /\ Starting(j, "reconcile")
    /\ IF Acquirable
       THEN /\ runLock' = Job(j).process
            /\ reports' = [reports EXCEPT ![j].status = "RUNNING"]
            /\ Goto(j, "sum")
       ELSE /\ Goto(j, "done")
            /\ UNCHANGED <<runLock, reports>>
    /\ UNCHANGED <<workload, held, stale, wallets, vaults, net, refs, idem, outbox>>
    /\ UNCHANGED <<lapses, sum, torn, frozen>>

\* computeTrueBalance.
RunSum(j) ==
    /\ At(j, "sum")
    /\ sum' = [sum EXCEPT ![j] = net[Acc(j)]]
    /\ stale' = [stale EXCEPT ![j] = {}]
    /\ Goto(j, "compare")
    /\ UNCHANGED <<workload, held, wallets, vaults, net, refs, idem, outbox>>
    /\ UNCHANGED <<runLock, lapses, reports, torn, frozen>>

\* mutant: an understated wallet is frozen as well
Freezes_AnyDrift(a, drift) == a \in Users /\ drift # 0 /\ Active(a)

\* decideAction, and the status found with the balance.
Freezes(a, drift) == a \in Users /\ drift > 0 /\ Active(a)

\* getCachedBalance, classifyDrift.
RunCompare(j) ==
    LET drift == Balance(Acc(j)) - sum[j] IN
    /\ At(j, "compare")
    /\ reports' = [reports EXCEPT ![j].drift = drift]
    /\ torn' = IF Acc(j) \in stale[j] THEN torn \cup {j} ELSE torn
    /\ Goto(j, IF drift = 0 THEN "finish"
               ELSE IF Freezes(Acc(j), drift) THEN "freeze" ELSE "alert")
    /\ UNCHANGED <<workload, held, stale, wallets, vaults, net, refs, idem, outbox>>
    /\ UNCHANGED <<runLock, lapses, sum, frozen>>

RunFreeze(j) ==
    /\ At(j, "freeze")
    /\ Free(j, {Acc(j)})
    /\ wallets' = [wallets EXCEPT ![Acc(j)].status = "RECONCILING"]
    /\ frozen' = frozen \cup {<<j, Acc(j)>>}
    /\ Touch(j, {Acc(j)})
    /\ Goto(j, "alert")
    /\ UNCHANGED <<workload, held, vaults, net, refs, idem, outbox>>
    /\ UNCHANGED <<runLock, lapses, reports, sum, torn>>

RunAlert(j) ==
    /\ At(j, "alert")
    /\ Emit({"RECONCILIATION_DRIFT_DETECTED"}, j)
    /\ Goto(j, "finish")
    /\ UNCHANGED <<workload, held, stale, wallets, vaults, net, refs, idem>>
    /\ UNCHANGED reconciliationState

RunComplete(j) ==
    /\ At(j, "finish")
    /\ reports' = [reports EXCEPT ![j].status = "COMPLETED"]
    /\ Goto(j, "announce")
    /\ UNCHANGED <<workload, held, stale, wallets, vaults, net, refs, idem, outbox>>
    /\ UNCHANGED <<runLock, lapses, sum, torn, frozen>>

RunAnnounce(j) ==
    /\ At(j, "announce")
    /\ Emit({"RECONCILIATION_RUN_COMPLETED"}, j)
    /\ Goto(j, "release")
    /\ UNCHANGED <<workload, held, stale, wallets, vaults, net, refs, idem>>
    /\ UNCHANGED reconciliationState

\* One of these steps fails: the report is FAILED, the lock still released.
\* The drifts found are put into the report where it is completed: before, a
\* failure loses them; if that save or what follows it fails they are kept.
RunFail(j) ==
    /\ May("error")
    /\ pc[j] \in {"sum", "compare", "freeze", "alert", "finish", "announce"}
    /\ reports' = [reports EXCEPT
                     ![j].status = "FAILED",
                     ![j].drift = IF pc[j] \in {"finish", "announce"} THEN @ ELSE 0]
    /\ Goto(j, "release")
    /\ UNCHANGED <<workload, held, stale, wallets, vaults, net, refs, idem, outbox>>
    /\ UNCHANGED <<runLock, lapses, sum, torn, frozen>>

Owns(j) == runLock = Job(j).process

\* get: the lock is left alone if another's token or none is found there, or
\* if Redis does not answer.  The token is one per process, so a run finds
\* that of another run of its process as well.
RunRelease(j) ==
    /\ At(j, "release")
    /\ \/ Owns(j) /\ Goto(j, "unlock")
       \/ (~Owns(j) \/ May("error")) /\ Goto(j, "done")
    /\ UNCHANGED <<workload, held, stale, wallets, vaults, net, refs, idem, outbox>>
    /\ UNCHANGED reconciliationState

\* del, some time after the get: whosever lock is there by then.
RunUnlock(j) ==
    /\ At(j, "unlock")
    /\ \/ runLock' = "free"
       \/ May("error") /\ UNCHANGED runLock
    /\ Goto(j, "done")
    /\ UNCHANGED <<workload, held, stale, wallets, vaults, net, refs, idem, outbox>>
    /\ UNCHANGED <<lapses, reports, sum, torn, frozen>>

\* An hour passes, or Redis loses the key.
RunLockExpires ==
    /\ May("runlock")
    /\ runLock # "free"
    /\ runLock' = "free"
    /\ lapses' = lapses + 1
    /\ UNCHANGED <<workload, pc, held, stale, wallets, vaults, net, refs, idem, outbox>>
    /\ UNCHANGED <<reports, sum, torn, frozen>>

-----------------------------------------------------------------------------
(* resolveDrift, a single transaction that computes the drift anew.        *)

\* The documents updateCachedBalance writes: users' wallets and vaults.
Cache(a) == {a} \cap (Users \cup VaultIds)

\* A report that has been saved, be it of a run that failed, has a drift of
\* j's account that is not resolved.
Resolvable(j, i) ==
    /\ Starting(j, "resolve")
    /\ Job(i).kind = "reconcile" /\ Acc(i) = Acc(j)
    /\ reports[i].status \in {"COMPLETED", "FAILED"} /\ reports[i].drift # 0
    /\ ~reports[i].resolved

Correcting(j, method) ==
    /\ Job(j).resolution = "CORRECTED" /\ LiveDrift(Acc(j)) # 0
    /\ Job(j).method = method

\* RECONCILING ends unless the drift is escalated.
Releasing(j) ==
    /\ Acc(j) \in Wallets
    /\ wallets[Acc(j)].status = "RECONCILING"
    /\ Job(j).resolution # "ESCALATED"

\* mutant: a resolved drift leaves the wallet frozen
Released_Frozen(j, ws) ==
    IF Releasing(j) THEN [ws EXCEPT ![Acc(j)].status = "FROZEN"] ELSE ws

Released(j, ws) ==
    IF Releasing(j) THEN [ws EXCEPT ![Acc(j)].status = "ACTIVE"] ELSE ws

Resolved(j, i) ==
    /\ reports' = [reports EXCEPT ![i].resolved = TRUE]
    /\ Emit({"RECONCILIATION_DRIFT_RESOLVED"}, j)
    /\ Goto(j, "done")
    /\ UNCHANGED <<workload, held, refs, idem, runLock, lapses, sum, torn, frozen>>

\* updateCachedBalance: the cache follows the ledger.  Where there is none to
\* write, the check afterwards aborts.
ResolveBySync(j, i) ==
    LET a == Acc(j) IN
    /\ Resolvable(j, i) /\ Correcting(j, "DIRECT_CACHE_SYNC")
    /\ Cache(a) # {} /\ Free(j, Cache(a))
    /\ wallets' = Released(j, IF a \in Users
                              THEN [wallets EXCEPT ![a].available = net[a]]
                              ELSE wallets)
    /\ vaults' = IF a \in VaultIds
                 THEN [vaults EXCEPT ![a].balance = net[a]] ELSE vaults
    /\ Touch(j, {a})
    /\ Resolved(j, i)
    /\ UNCHANGED net

\* mutant: the drift of the report is booked, not the live one
Correction_Reported(j, i) == Move(Adjustments, Acc(j), reports[i].drift)

\* applyCompensatingEntry: the ledger follows the cache.
Correction(j, i) == Move(Adjustments, Acc(j), LiveDrift(Acc(j)))

ResolveByEntry(j, i) ==
    /\ Resolvable(j, i) /\ Correcting(j, "LEDGER_ENTRY")
    /\ Free(j, Cache(Acc(j)))
    /\ Entries(Correction(j, i))
    /\ wallets' = Released(j, wallets)
    /\ Touch(j, Cache(Acc(j)))
    /\ Resolved(j, i)
    /\ UNCHANGED vaults

\* Nothing to correct, or nothing asked to be.
ResolveOnly(j, i) ==
    /\ Resolvable(j, i)
    /\ ~Correcting(j, "DIRECT_CACHE_SYNC") /\ ~Correcting(j, "LEDGER_ENTRY")
    /\ Releasing(j) => Free(j, {Acc(j)})
    /\ wallets' = Released(j, wallets)
    /\ Touch(j, IF Releasing(j) THEN {Acc(j)} ELSE {})
    /\ Resolved(j, i)
    /\ UNCHANGED <<net, vaults>>

\* No such drift, a write conflict, or a system account asked to be synced.
ResolveRefused(j) ==
    /\ Starting(j, "resolve")
    /\ Goto(j, "failed")
    /\ \/ \A i \in Jobs : ~Resolvable(j, i)
       \/ ~Free(j, Cache(Acc(j)))
       \/ Correcting(j, "DIRECT_CACHE_SYNC") /\ Cache(Acc(j)) = {}
    /\ UNCHANGED <<workload, held, stale, wallets, vaults, net, refs, idem, outbox>>
    /\ UNCHANGED reconciliationState

ReconciliationStep(j) ==
    \/ RunLock(j) \/ RunSum(j) \/ RunCompare(j) \/ RunFreeze(j) \/ RunAlert(j)
    \/ RunComplete(j) \/ RunAnnounce(j) \/ RunFail(j) \/ RunRelease(j)
    \/ RunUnlock(j)
    \/ \E i \in Jobs :
           ResolveBySync(j, i) \/ ResolveByEntry(j, i) \/ ResolveOnly(j, i)
    \/ ResolveRefused(j)
=============================================================================
