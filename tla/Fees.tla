-------------------------------- MODULE Fees --------------------------------
(***************************************************************************)
(* FeeAdminService: the fee of each transfer is accrued once and then      *)
(* settled: waived, waived and refunded, or swept to the treasury.  All    *)
(* three read the accrual outside any transaction and write its status     *)
(* whatever it has become since.                                           *)
(***************************************************************************)
EXTENDS Books

VARIABLES
    accrual,    \* status of the FeeAccrual of each transfer
    sweeps,     \* the FeeSweep of each job: what it read, its status
    settled     \* settlements: <<transfer, job, written by others since read>>

feeState == <<accrual, sweeps, settled>>

Trf(j) == Job(j).transfer
Fee(j) == Job(j).fee

FeesInit ==
    /\ accrual = InitialAccrual
    /\ sweeps = [j \in Jobs |-> [members |-> {}, status |-> "NONE"]]
    /\ settled = {}

Settle(j, ts, status) ==
    /\ accrual' = [t \in Transfers |-> IF t \in ts THEN status ELSE accrual[t]]
    /\ settled' = settled \cup {<<t, j, t \in stale[j]>> : t \in ts}

\* mutant: the status is not looked at
Accrued_Any(t) == accrual[t] # "NONE"

Accrued(t) == accrual[t] = "ACCRUED"

-----------------------------------------------------------------------------
(* waiveFee and waiveAndRefund: read, then write.                          *)

WaiverRead(j) ==
    /\ Starting(j, "waive") \/ Starting(j, "refund")
    /\ Goto(j, IF ~Accrued(Trf(j)) THEN "failed" ELSE Job(j).kind)
    /\ UNCHANGED <<workload, held, stale, wallets, vaults, net, refs, idem, outbox>>
    /\ UNCHANGED feeState

WaiveWrite(j) ==
    /\ At(j, "waive")
    /\ Settle(j, {Trf(j)}, "WAIVED")
    /\ Touch(j, {Trf(j)})
    /\ Goto(j, "done")
    /\ UNCHANGED <<workload, held, wallets, vaults, net, refs, idem, outbox>>
    /\ UNCHANGED sweeps

\* The transaction: its transactionRef is made of the fee's, so that the
\* ledger takes it once.
RefundCommit(j) ==
    LET legs == Move(Revenue, Usr(j), Fee(j))
        docs == {Revenue, Usr(j)}
    IN
    /\ At(j, "refund")
    /\ IF /\ wallets[Revenue].available >= Fee(j)
          /\ <<"refund", Trf(j)>> \notin refs
          /\ Free(j, docs)
       THEN /\ Entries(legs)
            /\ wallets' = WalletsAfter(legs, docs)
            /\ refs' = refs \cup {<<"refund", Trf(j)>>}
            /\ Settle(j, {Trf(j)}, "WAIVED")
            /\ Emit({"TRANSACTION_COMPLETED"}, j)
            /\ Touch(j, docs \cup {Trf(j)})
            /\ Goto(j, "done")
       ELSE /\ Goto(j, "failed")
            /\ UNCHANGED <<net, wallets, refs, accrual, settled, outbox, stale>>
    /\ UNCHANGED <<workload, held, vaults, idem, sweeps>>

-----------------------------------------------------------------------------
(* sweepAccruals.                                                          *)

SweepRead(j) ==
    LET members == {t \in Transfers : Accrued(t)} IN
    /\ Starting(j, "sweep")
    /\ sweeps' = [sweeps EXCEPT ![j].members = members]
    /\ Goto(j, IF members = {} THEN "failed" ELSE "sweepCreate")
    /\ UNCHANGED <<workload, held, stale, wallets, vaults, net, refs, idem, outbox>>
    /\ UNCHANGED <<accrual, settled>>

SweepCreate(j) ==
    /\ At(j, "sweepCreate")
    /\ sweeps' = [sweeps EXCEPT ![j].status = "PENDING"]
    /\ Goto(j, "sweepMark")
    /\ UNCHANGED <<workload, held, stale, wallets, vaults, net, refs, idem, outbox>>
    /\ UNCHANGED <<accrual, settled>>

SweepMark(j) ==
    /\ At(j, "sweepMark")
    /\ Settle(j, sweeps[j].members, "SWEPT")
    /\ Touch(j, sweeps[j].members)
    /\ Goto(j, "sweepComplete")
    /\ UNCHANGED <<workload, held, wallets, vaults, net, refs, idem, outbox>>
    /\ UNCHANGED sweeps

SweepComplete(j) ==
    /\ At(j, "sweepComplete")
    /\ sweeps' = [sweeps EXCEPT ![j].status = "COMPLETED"]
    /\ Goto(j, "done")
    /\ UNCHANGED <<workload, held, stale, wallets, vaults, net, refs, idem, outbox>>
    /\ UNCHANGED <<accrual, settled>>

\* Marking or saving fails: the sweep is FAILED, also when the accruals are
\* SWEPT by then.
SweepFail(j) ==
    /\ May("error")
    /\ At(j, "sweepMark") \/ At(j, "sweepComplete")
    /\ sweeps' = [sweeps EXCEPT ![j].status = "FAILED"]
    /\ Goto(j, "failed")
    /\ UNCHANGED <<workload, held, stale, wallets, vaults, net, refs, idem, outbox>>
    /\ UNCHANGED <<accrual, settled>>

FeeStep(j) ==
    \/ WaiverRead(j) \/ WaiveWrite(j) \/ RefundCommit(j)
    \/ SweepRead(j) \/ SweepCreate(j) \/ SweepMark(j) \/ SweepComplete(j)
    \/ SweepFail(j)
=============================================================================
