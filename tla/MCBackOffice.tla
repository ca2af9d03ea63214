----------------------------- MODULE MCBackOffice -----------------------------
(* Two users, one vault of each kind needed, two transfers with a fee.      *)
EXTENDS BackOffice, Sequences, TLC

Plain == [kind |-> "transfer", key |-> "k1", user |-> "ann", peer |-> "bob",
          vault |-> "v1", transfer |-> "t1", amount |-> 100, fee |-> 10,
          account |-> "ann", withFee |-> TRUE, resolution |-> "CORRECTED",
          method |-> "NONE", process |-> "p1"]

RequestTable ==
    "pay"      :> [amount |-> 60] @@
    "payBack"  :> [user |-> "bob", peer |-> "ann", amount |-> 60] @@
    "topUp"    :> [kind |-> "funding", user |-> "bob", amount |-> 50] @@
    "topUpAnn" :> [kind |-> "funding", amount |-> 50] @@
    "dep"      :> [kind |-> "deposit", key |-> "k2", amount |-> 70] @@
    "depAgain" :> [kind |-> "deposit", key |-> "k2", amount |-> 70] @@
    "wd"       :> [kind |-> "withdraw"] @@
    "wdAgain"  :> [kind |-> "withdraw"] @@
    "close"    :> [kind |-> "close"] @@
    "closeAgain" :> [kind |-> "close"] @@
    "edit"     :> [kind |-> "edit", vault |-> "v2", amount |-> 300] @@
    "dep2"     :> [kind |-> "deposit", key |-> "k2", vault |-> "v2"] @@
    "wd2"      :> [kind |-> "withdraw", vault |-> "v2"] @@
    "create1"  :> [kind |-> "create"] @@
    "create2"  :> [kind |-> "create"] @@
    "rev1"     :> [kind |-> "reverse"] @@
    "rev2"     :> [kind |-> "reverse", withFee |-> FALSE] @@
    "waive"    :> [kind |-> "waive"] @@
    "refund"   :> [kind |-> "refund"] @@
    "refund2"  :> [kind |-> "refund"] @@
    "sweep1"   :> [kind |-> "sweep"] @@
    "sweep2"   :> [kind |-> "sweep"] @@
    "fund1"    :> [kind |-> "fund"] @@
    "fund2"    :> [kind |-> "fund"] @@
    "run1"     :> [kind |-> "reconcile"] @@
    "run2"     :> [kind |-> "reconcile"] @@
    "run3"     :> [kind |-> "reconcile", process |-> "p2"] @@
    "runBob"   :> [kind |-> "reconcile", account |-> "bob"] @@
    "runCid"   :> [kind |-> "reconcile", account |-> "cid"] @@
    "runV2"    :> [kind |-> "reconcile", account |-> "v2"] @@
    "runRev"   :> [kind |-> "reconcile", account |-> "revenue"] @@
    "sync"     :> [kind |-> "resolve", method |-> "DIRECT_CACHE_SYNC"] @@
    "syncBob"  :> [kind |-> "resolve", account |-> "bob",
                   method |-> "DIRECT_CACHE_SYNC"] @@
    "syncV2"   :> [kind |-> "resolve", account |-> "v2",
                   method |-> "DIRECT_CACHE_SYNC"] @@
    "syncRev"  :> [kind |-> "resolve", account |-> "revenue",
                   method |-> "DIRECT_CACHE_SYNC"] @@
    "entryBob" :> [kind |-> "resolve", account |-> "bob",
                   method |-> "LEDGER_ENTRY"] @@
    "falseBob" :> [kind |-> "resolve", account |-> "bob",
                   resolution |-> "FALSE_POSITIVE"] @@
    "escalateBob" :> [kind |-> "resolve", account |-> "bob",
                      resolution |-> "ESCALATED"] @@
    "consume"  :> [kind |-> "consume"] @@
    "poll"     :> [kind |-> "poll"] @@
    "mail"     :> [kind |-> "mail"] @@
    "replay"   :> [kind |-> "replay"] @@
    "replay2"  :> [kind |-> "replay"] @@
    "replayTopic" :> [kind |-> "replayTopic"] @@
    "dismiss"  :> [kind |-> "dismiss"] @@
    "bulkDismiss" :> [kind |-> "bulkDismiss"]

MCRequests == {"idle"} \cup DOMAIN RequestTable
MCRequest == [r \in MCRequests |->
                IF r = "idle" THEN [Plain EXCEPT !.kind = "idle"]
                ELSE RequestTable[r] @@ Plain]
MCJobs == 1..4

MCUsers == {"ann", "bob", "cid"}
MCVaultIds == {"v1", "v2"}
MCKeys == {"k1", "k2"}
MCTransfers == {"t1", "t2"}

MCBalance == "ann" :> 150 @@ "bob" :> 120 @@ "cid" :> 30 @@ "revenue" :> 25 @@
             "treasury" :> 1000 @@ "v1" :> 200 @@ "v2" :> 100
MCDrift == "ann" :> 0 @@ "bob" :> 20 @@ "cid" :> -5 @@ "revenue" :> -5 @@ "treasury" :> 0 @@
           "v1" :> 0 @@ "v2" :> -10
MCVault ==
    LET doc == [balance |-> 0, target |-> 0, type |-> "LOCKED", status |-> "ACTIVE",
                matured |-> FALSE, lock |-> "free"]
    IN  "v1" :> [doc EXCEPT !.balance = 200] @@
        "v2" :> [doc EXCEPT !.balance = 100, !.type = "TARGET", !.target = 200]
MCAccrual == "t1" :> "ACCRUED" @@ "t2" :> "ACCRUED"

Work(asks, faults) ==
    [asks |-> [j \in MCJobs |-> IF j <= Len(asks) THEN asks[j] ELSE "idle"],
     faults |-> faults]

MCWorkloads == {
    Work(<<"dep", "close", "closeAgain">>, {"crash"}),
    Work(<<"dep", "depAgain", "pay">>, {"error", "crash"}),
    Work(<<"wd", "wdAgain", "dep">>, {"vaultlock", "crash"}),
    Work(<<"wd", "dep2", "close">>, {"vaultlock"}),
    Work(<<"edit", "dep2", "wd2">>, {"vaultlock"}),
    Work(<<"create1", "create2">>, {"crash"}),
    Work(<<"rev1", "rev2", "payBack">>, {"readback"}),
    Work(<<"rev1", "topUp", "payBack">>, {}),
    Work(<<"rev1", "rev2", "dep">>, {"error", "crash"}),
    Work(<<"rev2", "refund", "refund2">>, {"readback"}),
    Work(<<"sweep1", "sweep2", "waive">>, {"error"}),
    Work(<<"sweep1", "refund", "waive">>, {"crash"}),
    Work(<<"fund1", "fund2", "pay">>, {"error", "crash"}),
    Work(<<"run1", "topUpAnn", "pay">>, {"error"}),
    Work(<<"run1", "run2", "run3">>, {"runlock"}),
    Work(<<"runBob", "syncBob", "pay">>, {}),
    Work(<<"runBob", "entryBob", "pay">>, {}),
    Work(<<"runBob", "syncBob">>, {"error"}),
    Work(<<"runBob", "falseBob", "escalateBob", "payBack">>, {}),
    Work(<<"run1", "sync", "pay", "topUpAnn">>, {}),
    Work(<<"runBob", "topUp", "falseBob">>, {}),
    Work(<<"runCid", "sync", "pay">>, {}),
    Work(<<"runV2", "syncV2", "dep2">>, {}),
    Work(<<"runRev", "syncRev", "refund">>, {}),
    Work(<<"pay", "consume", "poll", "mail">>, {}),
    Work(<<"topUp", "consume", "poll", "mail">>, {"dead"}),
    Work(<<"pay", "topUp", "rev1", "consume">>, {"lost"}),
    Work(<<"pay", "rev2", "consume">>, {"dead"}),
    Work(<<"dep", "topUpAnn", "consume">>, {"lost", "dead"}),
    Work(<<"pay", "consume", "replay", "replay2">>, {"dead", "lost"}),
    Work(<<"refund", "consume", "replay", "dismiss">>, {"dead"}),
    Work(<<"pay", "consume", "replay", "bulkDismiss">>, {"dead"}),
    Work(<<"dep", "consume", "replay", "bulkDismiss">>, {"dead", "crash"}),
    Work(<<"pay", "refund", "consume", "replayTopic">>, {"dead", "error"}),
    Work(<<"fund1", "consume", "replayTopic", "dismiss">>, {"dead"}) }

FeeWorkloads == {Work(<<"rev1", "refund">>, {})}
=============================================================================
