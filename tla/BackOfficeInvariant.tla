------------------------- MODULE BackOfficeInvariant -------------------------
(***************************************************************************)
(* What the safety properties of BackOffice rest on: for each step of a    *)
(* request what it may rely on, although it holds no lock on what it has   *)
(* read.  BackOfficeProofs shows that every step keeps these parts.        *)
(***************************************************************************)
EXTENDS BackOffice

\* Only a request of these kinds gets to these labels.
Only(kinds, labels) == \A j \in Jobs : pc[j] \in labels => Job(j).kind \in kinds

\* Where a request is tells of what kind it is.
PcInv ==
    /\ Only({"create"}, {"created"})
    /\ Only({"deposit"}, {"depositLock", "depositKey", "depositCommit"})
    /\ Only({"withdraw", "close"}, {"withdraw", "withdrawKey"})
    /\ Only({"close"}, {"closeWithdraw", "cancel", "closeEmit"})
    /\ Only({"edit"}, {"editWrite"})
    /\ Only({"waive"}, {"waive"})
    /\ Only({"refund"}, {"refund"})
    /\ Only({"sweep"}, {"sweepCreate", "sweepMark", "sweepComplete"})
    /\ Only({"reverse"}, {"reverseFee", "reverseRead", "reverseCreate", "reverse",
                          "reverseReadBack", "reverseFail"})
    /\ Only({"fund"}, {"fundMove", "fundKey", "fundCommit"})
    /\ Only({"reconcile"}, {"sum", "compare", "freeze", "alert", "finish", "announce",
                            "release", "unlock"})
    /\ Only({"replay", "replayTopic"}, {"replayRun", "replayConfirm", "replayMark",
                                        "replayFail"})
    /\ Only({"replayTopic"}, {"topic"})
    /\ Only({"dismiss"}, {"dismiss"})
    /\ Only({"poll"}, {"pollAdd", "pollMark", "pollFail"})
    /\ Only({"mail"}, {"send", "sendMark", "sendDone", "sendFail"})
    /\ Only({"poll", "mail"}, {"down"})

-----------------------------------------------------------------------------
(* Vaults.                                                                 *)

Depositing == {"depositKey", "depositCommit"}

\* A deposit under way keeps its vault from other writers: it stays unlocked
\* and open until the deposit has committed.
HeldInv ==
    \A j \in Jobs : pc[j] \in Depositing =>
        /\ Vlt(j) \in held[j]
        /\ vaults[Vlt(j)].lock # "held"
        /\ vaults[Vlt(j)].status # "CANCELLED"

\* The entries of a deposit: its key is completed, and no deposit with that
\* key is between the completion of the key and the commit.
Deposited == {j \in Jobs : <<"vault", j>> \in refs}
DepositInv ==
    /\ \A r \in refs : r[1] = "vault" => r[2] \in Jobs /\ r = <<"vault", r[2]>>
    /\ \A j \in Jobs :
          pc[j] = "depositCommit" \/ j \in Deposited => Completed(Job(j).key)
    /\ \A i, j \in Jobs :
          /\ pc[i] = "depositCommit" \/ i \in Deposited
          /\ pc[j] = "depositCommit" \/ j \in Deposited
          /\ Job(i).key = Job(j).key
          => i = j
    /\ \A j \in Deposited : pc[j] # "depositCommit"

\* The last withdrawal's lock is there until it has expired.
SpacedInv ==
    \A w \in withdrawn :
        /\ w[1] \in Jobs /\ w[2] \in Nat
        /\ w[2] <= expiries[Vlt(w[1])]
        /\ w[2] = expiries[Vlt(w[1])] => vaults[Vlt(w[1])].lock = "held"

\* A request has withdrawn nothing before its withdrawal commits.
Before == {"start", "closeWithdraw", "withdraw"}
WithdrawnInv ==
    \A w \in withdrawn :
        /\ w[1] \in Jobs /\ Job(w[1]).kind \in {"withdraw", "close"}
        /\ pc[w[1]] \notin Before

\* What a closing knows of its vault unless another request has written it: it
\* holds what was read, and nothing once that is withdrawn.
CloseInv ==
    \A j \in Jobs : Job(j).kind = "close" =>
        \/ Vlt(j) \in stale[j]
        \/ /\ pc[j] \in {"closeWithdraw", "withdraw"} => asked[j] = vaults[Vlt(j)].balance
           /\ pc[j] = "withdrawKey" => vaults[Vlt(j)].balance <= 0
           /\ pc[j] = "cancel" => vaults[Vlt(j)].balance <= 0 \/ KeyTaken(j)

\* The closing to blame for money in a closed vault will not withdraw it.
StrandedInv ==
    \A v \in VaultIds :
        vaults[v].status = "CANCELLED" /\ vaults[v].balance > 0 =>
            \/ Corrected(v)
            \/ \E j \in Jobs :
                /\ Job(j).kind = "close" /\ Vlt(j) = v /\ pc[j] \notin Before
                /\ v \in stale[j] \/ KeyTaken(j)

-----------------------------------------------------------------------------
(* Fees and reversals.                                                     *)

\* A fee that a request is about to settle is still to be settled, unless
\* another has written its accrual meanwhile; one that is settled stays so.
Settling(j) ==
    IF pc[j] \in {"waive", "refund"} THEN {Trf(j)}
    ELSE IF pc[j] \in {"sweepCreate", "sweepMark"} THEN sweeps[j].members ELSE {}
FeeInv ==
    /\ \A s \in settled : s[1] \in Transfers /\ s[2] \in Jobs /\ accrual[s[1]] # "ACCRUED"
    /\ \A j \in Jobs : \A t \in Settling(j) : accrual[t] = "ACCRUED" \/ t \in stale[j]

\* The record of a reversal follows its request, and there is at most one of
\* a transfer that has not failed.
Standing(j) == reversal[j] \in {"PENDING", "COMPLETED"}
ReversalInv ==
    /\ \A j \in Jobs :
          /\ reversal[j] # "NONE" => /\ Job(j).kind = "reverse"
                                     /\ pc[j] \notin {"start", "reverseFee", "reverseRead",
                                                      "reverseCreate"}
          /\ pc[j] = "reverse" => reversal[j] = "PENDING"
          /\ j \in reversed => reversal[j] \in {"COMPLETED", "FAILED"}
    /\ \A i, j \in Jobs : Standing(i) /\ Standing(j) /\ Trf(i) = Trf(j) => i = j

\* As long as the version of a wallet is what a reversal has read, so is at
\* least its balance, unless a resolution has lowered it.
SeenInv ==
    \A j \in Jobs : pc[j] \in {"reverseCreate", "reverse"} =>
        LET w == Job(j).peer IN
        /\ wallets[w].version >= seen[j].receiverVersion
        /\ wallets[w].version = seen[j].receiverVersion =>
              \/ wallets[w].available >= seen[j].receiver
              \/ InitialDrift[w] > 0 /\ Corrected(w)

-----------------------------------------------------------------------------
(* Reconciliation.                                                         *)

\* A wallet that nobody has written since is summed up as its entries are.
FreezeInv ==
    \A j \in Jobs :
        /\ pc[j] = "compare" /\ Acc(j) \in Users =>
              sum[j] = net[Acc(j)] \/ Acc(j) \in stale[j]
        /\ pc[j] = "freeze" =>
              Acc(j) \in Users /\ (j \in torn \/ InitialDrift[Acc(j)] > 0)

\* Whoever holds the lock is at most one of the runs there are.
Locked == IF runLock # "free" THEN 1 ELSE 0
RunsInv ==
    /\ \A j \in Jobs :
          /\ reports[j].status # "NONE" => Job(j).kind = "reconcile" /\ pc[j] # "start"
          /\ pc[j] \in {"sum", "compare", "freeze", "alert", "finish", "announce",
                        "release", "unlock"} => reports[j].status # "NONE"
    /\ Cardinality(Running) <= lapses + Locked

-----------------------------------------------------------------------------
(* What follows from the outbox.                                           *)

\* The provider has accepted a mail that is marked, and a row and a job that
\* are still tried have a try left.
MailInv ==
    /\ \A e \in Jobs :
          /\ sent[e] \in {0, 1}
          /\ mail[e].status = "DELIVERED" => sent[e] = 1
          /\ queue[e].state \in {"waiting", "active"} => queue[e].tries < QueueAttempts
    /\ \A j \in Jobs :
          /\ pc[j] \in {"pollAdd", "pollMark", "pollFail"} =>
                mail[hand[j]].attempts < MailAttempts
          /\ pc[j] = "sendMark" => sent[hand[j]] = 1

\* Letters are of events the consumers are done with; a processed event that
\* has a mail has its row, and one that a replay has processed is a letter.
LetterInv ==
    /\ \A e \in Jobs :
          /\ Filed(e) => Job(e).kind # "reverse" /\ e \in taken
          /\ Mailed(e) => /\ applied[e] <= 1
                          /\ applied[e] = 1 => mail[e].status # "NONE" /\ e \in taken
          /\ e \in revived => Filed(e)
          /\ letter[e] = "REPLAYED" => e \in revived
    /\ \A j \in Jobs :
          /\ todo[j] \subseteq {e \in Jobs : Filed(e)}
          /\ pc[j] \in Replaying => Filed(target[j])
          /\ pc[j] \in {"replayConfirm", "replayMark"} => target[j] \in revived

\* Whoever is still at work on a letter that is REPLAYED has been overtaken,
\* and what a replay has processed is marked, about to be, or written over.
MisfiledInv ==
    /\ \A j \in Jobs : pc[j] \in Replaying /\ letter[target[j]] = "REPLAYED" =>
                          <<j, target[j]>> \in overtaken
    /\ May("error") \/ May("crash") \/
       \A e \in revived :
          \/ letter[e] = "REPLAYED"
          \/ \E j \in Jobs : \/ <<j, e>> \in overtaken
                             \/ /\ target[j] = e
                                /\ pc[j] \in {"replayConfirm", "replayMark"}

\* An event that is projected has a completed record.
ProjectionInv ==
    \A e \in Jobs :
        /\ Job(e).kind = "reverse" => e \notin published
        /\ Job(e).kind # "reverse" =>
              projected[e] <= 1 /\ (projected[e] = 1 => projection[e] = "COMPLETED")

\* Some event says that after n changes the wallet of u held b.
Told(u, n, b) ==
    \/ n = 0 /\ b = InitialBalance[u]
    \/ n > 0 /\ \E e \in Jobs : payload[e][u] = [balance |-> b, change |-> n]

\* All that is told of the change before the nth is a balance of b.
Follows(u, n, b) ==
    /\ n = 1 => b = InitialBalance[u]
    /\ \A e \in Jobs : payload[e][u].change > 0 /\ payload[e][u].change = n - 1 =>
                         payload[e][u].balance = b

\* What is told of the last change is what there is, what a reversal tells
\* follows from what was told before it, and a read model shows what was told.
ToldInv ==
    \A u \in Users :
        /\ changes[u] = 0 => wallets[u].available = InitialBalance[u]
        /\ \A e \in Jobs :
              /\ payload[e][u].change <= changes[u]
              /\ payload[e][u].change > 0 /\ payload[e][u].change = changes[u] =>
                    payload[e][u].balance = wallets[u].available
              /\ payload[e][u].change > 0 => Emitted(e)
              /\ Emitted(e) /\ Job(e).kind = "reverse" =>
                    IF payload[e][u].change = 0 THEN ReversalShown(e)[u] = 0
                    ELSE Follows(u, payload[e][u].change,
                                 payload[e][u].balance - ReversalShown(e)[u])
        /\ shown[u] # -1 => shown[u] >= 0 /\ Told(u, shown[u], readModel[u])
=============================================================================
