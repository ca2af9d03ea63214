---------------------------- MODULE SystemFunding ----------------------------
(***************************************************************************)
(* SystemLedger.fundSystemLedger for one of its users: the treasury pays,  *)
(* with no regard to its balance.  The key is checked before the           *)
(* transaction has written anything and completed before it commits.       *)
(***************************************************************************)
EXTENDS Books

FundCheckKey(j) ==
    /\ Starting(j, "fund")
    /\ OpenKey(Job(j).key)
    /\ Goto(j, IF Completed(Job(j).key) THEN "replied" ELSE "fundMove")
    /\ UNCHANGED <<workload, held, stale, wallets, vaults, net, refs, outbox>>

\* Entries and $inc of both wallets, in the session.
FundMove(j) ==
    /\ At(j, "fundMove")
    /\ IF Active(Treasury) /\ Active(Usr(j)) /\ Free(j, {Treasury, Usr(j)})
       THEN /\ held' = [held EXCEPT ![j] = {Treasury, Usr(j)}]
            /\ Goto(j, "fundKey")
       ELSE /\ Goto(j, "failed")
            /\ UNCHANGED held
    /\ UNCHANGED <<workload, stale, wallets, vaults, net, refs, idem, outbox>>

FundCompleteKey(j) ==
    /\ At(j, "fundKey")
    /\ CompleteKey(Job(j).key)
    /\ Goto(j, "fundCommit")
    /\ UNCHANGED <<workload, held, stale, wallets, vaults, net, refs, outbox>>

FundCommit(j) ==
    LET legs == Move(Treasury, Usr(j), Amt(j)) IN
    /\ At(j, "fundCommit")
    /\ Entries(legs)
    /\ wallets' = WalletsAfter(legs, {Treasury, Usr(j)})
    /\ refs' = refs \cup {<<"fund", j>>}
    /\ Emit({"TRANSACTION_COMPLETED"}, j)
    /\ held' = [held EXCEPT ![j] = {}]
    /\ Touch(j, {Treasury, Usr(j)})
    /\ Goto(j, "done")
    /\ UNCHANGED <<workload, vaults, idem>>

FundStep(j) ==
    FundCheckKey(j) \/ FundMove(j) \/ FundCompleteKey(j) \/ FundCommit(j)
=============================================================================
