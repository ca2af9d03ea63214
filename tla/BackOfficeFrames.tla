-------------------------- MODULE BackOfficeFrames --------------------------
(***************************************************************************)
(* Types of the back office, and what a step of one job leaves alone in    *)
(* what the others rely on: for every number of users, vaults, requests,   *)
(* keys and runs. BackOfficeProofs builds on it.                           *)
(***************************************************************************)
EXTENDS BackOfficeInvariant, TLAPS

\* j, a request of one of these kinds, stays within its own control.
Keeps(j, kinds) ==
    /\ workload' = workload
    /\ Job(j).kind \in kinds
    /\ pc' \in [Jobs -> Labels]
    /\ \A i \in Jobs \ {j} : pc'[i] = pc[i] /\ held'[i] = held[i]
    /\ PcInv'

\* What a job may ask for.
LEMMA JobType ==
  ASSUME BooksTypeOK, NEW j \in Jobs
  PROVE  /\ workload.asks[j] \in Requests
         /\ Job(j).kind \in Kinds /\ Job(j).key \in Keys
         /\ Usr(j) \in Users /\ Job(j).peer \in Users
         /\ Job(j).kind = "reverse" => Usr(j) # Job(j).peer
         /\ Vlt(j) \in VaultIds /\ Job(j).transfer \in Transfers
         /\ Amt(j) \in Nat /\ Job(j).fee \in Nat
         /\ Job(j).account \in Cached
         /\ Job(j).process # "free"
BY RequestAssumption, InitialAssumption DEF BooksTypeOK, Job, Usr, Vlt, Amt

-----------------------------------------------------------------------------
(* Control.                                                                *)

\* A step of a vault request is made by a vault request, moves its own
\* control alone and stays within its labels.
LEMMA VaultFrame ==
  ASSUME BooksTypeOK, PcInv, NEW j \in Jobs, VaultStep(j)
  PROVE  Keeps(j, {"create", "deposit", "withdraw", "close", "edit"})
<1> USE DEF BooksTypeOK, Labels, Ended, Goto, At, Starting, Touch, PcInv, Only, Job, Keeps
<1>1. CASE CreateRead(j) BY <1>1 DEF CreateRead
<1>2. CASE CreateCommit(j) BY <1>2 DEF CreateCommit
<1>3. CASE DepositCheckKey(j) BY <1>3 DEF DepositCheckKey
<1>4. CASE DepositLock(j) BY <1>4 DEF DepositLock
<1>5. CASE DepositCompleteKey(j) BY <1>5 DEF DepositCompleteKey
<1>6. CASE DepositCommit(j) BY <1>6 DEF DepositCommit
<1>7. CASE WithdrawCheckKey(j) BY <1>7 DEF WithdrawCheckKey
<1>8. CASE WithdrawCommit(j) BY <1>8 DEF WithdrawCommit
<1>9. CASE WithdrawCompleteKey(j) BY <1>9 DEF WithdrawCompleteKey
<1>10. CASE CloseRead(j) BY <1>10 DEF CloseRead
<1>11. CASE CloseCancel(j) BY <1>11 DEF CloseCancel
<1>12. CASE CloseEmit(j) BY <1>12 DEF CloseEmit
<1>13. CASE EditRead(j) BY <1>13 DEF EditRead
<1>14. CASE EditWrite(j) BY <1>14 DEF EditWrite
<1> QED BY <1>1, <1>2, <1>3, <1>4, <1>5, <1>6, <1>7, <1>8, <1>9, <1>10, <1>11, <1>12, <1>13,
           <1>14 DEF VaultStep

\* The same of waivers, refunds and sweeps,
LEMMA FeeFrame ==
  ASSUME BooksTypeOK, PcInv, NEW j \in Jobs, FeeStep(j)
  PROVE  Keeps(j, {"waive", "refund", "sweep"})
<1> USE DEF BooksTypeOK, Labels, Ended, Goto, At, Starting, Touch, PcInv, Only, Job, Keeps
<1>1. CASE WaiverRead(j) BY <1>1 DEF WaiverRead
<1>2. CASE WaiveWrite(j) BY <1>2 DEF WaiveWrite
<1>3. CASE RefundCommit(j) BY <1>3 DEF RefundCommit
<1>4. CASE SweepRead(j) BY <1>4 DEF SweepRead
<1>5. CASE SweepCreate(j) BY <1>5 DEF SweepCreate
<1>6. CASE SweepMark(j) BY <1>6 DEF SweepMark
<1>7. CASE SweepComplete(j) BY <1>7 DEF SweepComplete
<1>8. CASE SweepFail(j) BY <1>8 DEF SweepFail
<1> QED BY <1>1, <1>2, <1>3, <1>4, <1>5, <1>6, <1>7, <1>8 DEF FeeStep

\* of funding from the treasury,
LEMMA FundFrame ==
  ASSUME BooksTypeOK, PcInv, NEW j \in Jobs, FundStep(j)
  PROVE  Keeps(j, {"fund"})
<1> USE DEF BooksTypeOK, Labels, Ended, Goto, At, Starting, Touch, PcInv, Only, Job, Keeps
<1>1. CASE FundCheckKey(j) BY <1>1 DEF FundCheckKey
<1>2. CASE FundMove(j) BY <1>2 DEF FundMove
<1>3. CASE FundCompleteKey(j) BY <1>3 DEF FundCompleteKey
<1>4. CASE FundCommit(j) BY <1>4 DEF FundCommit
<1> QED BY <1>1, <1>2, <1>3, <1>4 DEF FundStep

\* of reversals,
LEMMA ReversalFrame ==
  ASSUME BooksTypeOK, PcInv, NEW j \in Jobs, ReversalStep(j)
  PROVE  Keeps(j, {"reverse"})
<1> USE DEF BooksTypeOK, Labels, Ended, Goto, At, Starting, Touch, PcInv, Only, Job, Keeps
<1>1. CASE ReverseCheck(j) BY <1>1 DEF ReverseCheck
<1>2. CASE ReverseCheckFee(j) BY <1>2 DEF ReverseCheckFee
<1>3. CASE ReverseRead(j) BY <1>3 DEF ReverseRead
<1>4. CASE ReverseCreate(j) BY <1>4 DEF ReverseCreate
<1>5. CASE ReverseCommit(j) BY <1>5 DEF ReverseCommit
<1>6. CASE ReverseCommitError(j) BY <1>6 DEF ReverseCommitError
<1>7. CASE ReverseReadBack(j) BY <1>7 DEF ReverseReadBack
<1>8. CASE ReverseMarkFailed(j) BY <1>8 DEF ReverseMarkFailed
<1> QED BY <1>1, <1>2, <1>3, <1>4, <1>5, <1>6, <1>7, <1>8 DEF ReversalStep

\* of reconciliation runs and resolutions,
LEMMA ReconciliationFrame ==
  ASSUME BooksTypeOK, PcInv, NEW j \in Jobs, ReconciliationStep(j)
  PROVE  Keeps(j, {"reconcile", "resolve"})
<1> USE DEF BooksTypeOK, Labels, Ended, Goto, At, Starting, Touch, PcInv, Only, Job, Keeps
<1>1. CASE RunLock(j) BY <1>1 DEF RunLock
<1>2. CASE RunSum(j) BY <1>2 DEF RunSum
<1>3. CASE RunCompare(j) BY <1>3 DEF RunCompare
<1>4. CASE RunFreeze(j) BY <1>4 DEF RunFreeze
<1>5. CASE RunAlert(j) BY <1>5 DEF RunAlert
<1>6. CASE RunComplete(j) BY <1>6 DEF RunComplete
<1>7. CASE RunAnnounce(j) BY <1>7 DEF RunAnnounce
<1>8. CASE RunFail(j) BY <1>8 DEF RunFail
<1>9. CASE RunRelease(j) \/ RunUnlock(j) BY <1>9 DEF RunRelease, RunUnlock
<1>10. CASE \E i \in Jobs : ResolveBySync(j, i)
  BY <1>10 DEF ResolveBySync, Resolved, Resolvable
<1>11. CASE \E i \in Jobs : ResolveByEntry(j, i)
  BY <1>11 DEF ResolveByEntry, Resolved, Resolvable
<1>12. CASE \E i \in Jobs : ResolveOnly(j, i)
  BY <1>12 DEF ResolveOnly, Resolved, Resolvable
<1>13. CASE ResolveRefused(j) BY <1>13 DEF ResolveRefused
<1> QED BY <1>1, <1>2, <1>3, <1>4, <1>5, <1>6, <1>7, <1>8, <1>9, <1>10, <1>11, <1>12, <1>13
           DEF ReconciliationStep

\* of transfers and deposits from outside,
LEMMA OtherFrame ==
  ASSUME BooksTypeOK, PcInv, NEW j \in Jobs, OtherTransfer(j) \/ OtherFunding(j)
  PROVE  Keeps(j, {"transfer", "funding"})
BY DEF BooksTypeOK, Labels, Ended, Goto, At, Starting, PcInv, Only, Job, Keeps,
       OtherTransfer, OtherFunding

\* of the operators of the dead letters,
LEMMA AdminFrame ==
  ASSUME BooksTypeOK, PcInv, NEW j \in Jobs, AdminStep(j), UNCHANGED documents
  PROVE  Keeps(j, {"replay", "replayTopic", "dismiss", "bulkDismiss"})
<1> USE DEF BooksTypeOK, Labels, Ended, Goto, At, Starting, PcInv, Only, Job, Keeps,
            documents
<1>1. CASE \E e \in Jobs : ReplayRead(j, e) BY <1>1 DEF ReplayRead
<1>2. CASE \E e \in Jobs : TopicNext(j, e) BY <1>2 DEF TopicNext
<1>3. CASE \E e \in Jobs : DismissRead(j, e) BY <1>3 DEF DismissRead
<1>4. CASE TopicRead(j) BY <1>4 DEF TopicRead
<1>5. CASE TopicDone(j) BY <1>5 DEF TopicDone
<1>6. CASE ReplayRun(j) BY <1>6 DEF ReplayRun
<1>7. CASE ReplayConfirm(j) BY <1>7 DEF ReplayConfirm
<1>8. CASE ReplayMark(j) BY <1>8 DEF ReplayMark, Proceed
<1>9. CASE ReplayMarkFailed(j) BY <1>9 DEF ReplayMarkFailed, Proceed
<1>10. CASE DismissWrite(j) BY <1>10 DEF DismissWrite
<1>11. CASE BulkDismiss(j) BY <1>11 DEF BulkDismiss
<1> QED BY <1>1, <1>2, <1>3, <1>4, <1>5, <1>6, <1>7, <1>8, <1>9, <1>10, <1>11 DEF AdminStep

\* and of the poller and the mail workers.
LEMMA MailFrame ==
  ASSUME BooksTypeOK, PcInv, NEW j \in Jobs, MailStep(j) \/ MailCrash(j),
         UNCHANGED documents
  PROVE  Keeps(j, {"poll", "mail"})
<1> USE DEF BooksTypeOK, Labels, Ended, Goto, At, Starting, PcInv, Only, Job, Keeps,
            documents
<1>1. CASE \E e \in Jobs : PollClaim(j, e) BY <1>1 DEF PollClaim
<1>2. CASE \E e \in Jobs : WorkTake(j, e) BY <1>2 DEF WorkTake
<1>3. CASE PollAdd(j) BY <1>3 DEF PollAdd
<1>4. CASE PollMark(j) BY <1>4 DEF PollMark
<1>5. CASE PollFail(j) BY <1>5 DEF PollFail
<1>6. CASE WorkSend(j) BY <1>6 DEF WorkSend
<1>7. CASE WorkSendError(j) BY <1>7 DEF WorkSendError
<1>8. CASE WorkMark(j) BY <1>8 DEF WorkMark
<1>9. CASE WorkDone(j) BY <1>9 DEF WorkDone
<1>10. CASE WorkFail(j) BY <1>10 DEF WorkFail
<1>11. CASE MailRestart(j) BY <1>11 DEF MailRestart
<1>12. CASE MailCrash(j) BY <1>12 DEF MailCrash, Mailers
<1> QED BY <1>1, <1>2, <1>3, <1>4, <1>5, <1>6, <1>7, <1>8, <1>9, <1>10, <1>11, <1>12 DEF
           MailStep

\* An error or a crash ends the request it meets and touches no other.
LEMMA FaultFrame ==
  ASSUME BooksTypeOK, PcInv, NEW j \in Jobs, TxnError(j) \/ CrashJob(j)
  PROVE  Keeps(j, Kinds)
BY JobType DEF BooksTypeOK, Labels, Ended, Goto, PcInv, Only, Job, Keeps,
               TxnError, CrashJob

-----------------------------------------------------------------------------
(* Types: wallets, vaults and the ledger.                                  *)

\* The kinds of accounts and documents, and that they do not overlap.
LEMMA Apart ==
  /\ Users \subseteq Wallets /\ Wallets \subseteq Cached /\ VaultIds \subseteq Cached
  /\ Cached \subseteq Accounts /\ Cached \subseteq Documents /\ Transfers \subseteq Documents
  /\ Wallets \cap VaultIds = {} /\ Cached \cap {Adjustments, External} = {}
  /\ Revenue \in Wallets \ Users /\ Treasury \in Wallets \ Users
  /\ Adjustments \in Accounts /\ External \in Accounts
BY AccountAssumption DEF Wallets, Cached, Accounts, Documents

\* Legs of a movement between two accounts are legs.
LEMMA MoveType ==
  ASSUME NEW from \in Accounts, NEW to \in Accounts, NEW n \in Int
  PROVE  Move(from, to, n) \in [Accounts -> Int]
BY DEF Move, NoLegs

\* Setting the leg of one account keeps legs legs.
LEMMA LegType ==
  ASSUME NEW f \in [Accounts -> Int], NEW a, NEW x \in Int
  PROVE  [f EXCEPT ![a] = x] \in [Accounts -> Int]
OBVIOUS

\* The same of three.
LEMMA LegsType ==
  ASSUME NEW a, NEW b, NEW c, NEW x \in Int, NEW y \in Int, NEW z \in Int
  PROVE  [NoLegs EXCEPT ![a] = x, ![b] = y, ![c] = z] \in [Accounts -> Int]
<1>1. NoLegs \in [Accounts -> Int]
  BY DEF NoLegs
<1> QED BY <1>1, LegType

\* Entries keep the type of the ledger (TransactionBuilder.commit).
LEMMA EntriesType ==
  ASSUME BooksTypeOK, NEW legs \in [Accounts -> Int], Entries(legs)
  PROVE  net' \in [Accounts -> Int]
BY DEF BooksTypeOK, Entries

\* The $inc of the cached balances keeps the wallets wallets.
LEMMA WalletsAfterType ==
  ASSUME BooksTypeOK, NEW legs \in [Accounts -> Int], NEW bumped
  PROVE  WalletsAfter(legs, bumped) \in [Wallets -> WalletDoc]
<1> DEFINE after(w) == [wallets[w] EXCEPT !.available = @ + legs[w],
                                          !.version = IF w \in bumped THEN @ + 1 ELSE @]
<1>1. ASSUME NEW w \in Wallets PROVE after(w) \in WalletDoc
  <2>1. wallets[w] \in WalletDoc /\ legs[w] \in Int
    BY Apart DEF BooksTypeOK
  <2>2. wallets[w].available + legs[w] \in Int /\ wallets[w].version + 1 \in Nat
    BY <2>1 DEF WalletDoc
  <2> QED BY <2>1, <2>2 DEF WalletDoc
<1> QED BY <1>1 DEF WalletsAfter

\* News of a write keeps its type.
LEMMA TouchType ==
  ASSUME BooksTypeOK, NEW j \in Jobs, NEW ds \in SUBSET Documents, Touch(j, ds)
  PROVE  stale' \in [Jobs -> SUBSET Documents]
BY DEF BooksTypeOK, Touch

\* The penalty of a withdrawal is a number.
LEMMA PenaltyType ==
  ASSUME BooksTypeOK, NEW v \in VaultIds, NEW n \in Int
  PROVE  Penalty(v, n) \in Int
<1>1. vaults[v].type \in {"FLEXIBLE", "LOCKED", "TARGET"}
  BY DEF BooksTypeOK, VaultDoc
<1>2. BasisPoints(v) \in Int
  BY <1>1 DEF BasisPoints
<1>3. n * BasisPoints(v) \in Int
  BY <1>2
<1>4. (n * BasisPoints(v)) \div 10000 \in Int
  BY <1>3
<1> QED BY <1>4 DEF Penalty

\* Transfers and deposits from outside keep the types.
LEMMA OtherTypes ==
  ASSUME BooksTypeOK, PcInv, NEW j \in Jobs, OtherTransfer(j) \/ OtherFunding(j)
  PROVE  BooksTypeOK'
<1>1. Keeps(j, {"transfer", "funding"})
  BY OtherFrame
<1>2. /\ Usr(j) \in Users /\ Job(j).peer \in Users /\ Amt(j) \in Int
      /\ {Usr(j), Job(j).peer} \subseteq Documents
  BY JobType, Apart
<1>3. /\ Move(Usr(j), Job(j).peer, Amt(j)) \in [Accounts -> Int]
      /\ Move(External, Usr(j), Amt(j)) \in [Accounts -> Int]
  BY <1>2, MoveType, Apart
<1> USE <1>1, <1>2, <1>3, EntriesType, WalletsAfterType, TouchType DEF Keeps
<1>4. CASE OtherTransfer(j) 
  <2>1. net' \in [Accounts -> Int] /\ wallets' \in [Wallets -> WalletDoc] 
       /\ stale' \in [Jobs -> SUBSET Documents] 
     BY <1>4 DEF OtherTransfer, BooksTypeOK
  <2> QED BY <2>1, <1>4 DEF OtherTransfer, BooksTypeOK
<1>5. CASE OtherFunding(j) BY <1>5 DEF OtherFunding, BooksTypeOK
<1> QED BY <1>4, <1>5

\* What the $inc does to each wallet.
LEMMA AfterWallet ==
  ASSUME BooksTypeOK, NEW legs \in [Accounts -> Int], NEW bumped, NEW w \in Wallets
  PROVE  /\ WalletsAfter(legs, bumped)[w].available = wallets[w].available + legs[w]
         /\ WalletsAfter(legs, bumped)[w].version =
               IF w \in bumped THEN wallets[w].version + 1 ELSE wallets[w].version
         /\ WalletsAfter(legs, bumped)[w].status = wallets[w].status
<1>1. wallets[w] \in WalletDoc
  BY DEF BooksTypeOK
<1> QED BY <1>1 DEF WalletsAfter, WalletDoc

\* Vault requests keep the types.
LEMMA VaultTypes ==
  ASSUME BooksTypeOK, ServicesTypeOK, PcInv, NEW j \in Jobs, VaultStep(j)
  PROVE  /\ BooksTypeOK'
         /\ asked' \in [Jobs -> Int] /\ expiries' \in [VaultIds -> Nat]
<1>1. Keeps(j, {"create","deposit","withdraw","close","edit"})
  BY VaultFrame
<1>2. /\ Usr(j) \in Users /\ Vlt(j) \in VaultIds /\ Amt(j) \in Nat
      /\ {Usr(j), Vlt(j)} \subseteq Documents /\ {Vlt(j)} \subseteq Documents
      /\ Job(j).key \in Keys
  BY JobType, Apart
<1>2a. Usr(j) \in Accounts /\ Vlt(j) \in Accounts
  BY <1>2, Apart
<1>3. vaults \in [VaultIds -> VaultDoc] /\ asked \in [Jobs -> Int]
  BY DEF BooksTypeOK, ServicesTypeOK
<1>4. asked[j] \in Int /\ Penalty(Vlt(j), asked[j]) \in Int
  BY <1>2, <1>3, PenaltyType
<1>5. DepositLegs(j) \in [Accounts -> Int]
  BY <1>2, <1>2a, MoveType DEF DepositLegs
<1>6. WithdrawLegs(j) \in [Accounts -> Int]
  <2>1. - asked[j] \in Int /\ asked[j] - Penalty(Vlt(j), asked[j]) \in Int
    BY <1>4
  <2> QED BY <1>4, <2>1, LegsType DEF WithdrawLegs
<1>7. vaults' \in [VaultIds -> VaultDoc]
  <2>1. CASE DepositCommit(j)
    <3> DEFINE reached == vaults[Vlt(j)].type = "TARGET" /\ vaults[Vlt(j)].target > 0
                   /\ vaults[Vlt(j)].balance + Amt(j) >= vaults[Vlt(j)].target
    <3>1. vaults[Vlt(j)] \in VaultDoc BY <1>2, <1>3
    <3>2. vaults[Vlt(j)].balance + Amt(j) \in Int BY <1>2, <3>1 DEF VaultDoc
    <3>3. (vaults[Vlt(j)].matured \/ reached) \in BOOLEAN OBVIOUS
    <3>4. vaults' =  [vaults EXCEPT ![Vlt(j)].balance = @ + Amt(j),
                                ![Vlt(j)].lock = "free",
                                ![Vlt(j)].matured = @ \/ reached,
                                ![Vlt(j)].status = IF reached THEN "COMPLETED" ELSE @]
      BY <2>1 DEF DepositCommit
    <3> HIDE DEF reached
    <3> QED BY <1>2, <1>3, <3>1, <3>2, <3>3, <3>4 DEF VaultDoc
  <2>2. CASE WithdrawCommit(j)
    <3>1. vaults' = vaults
              \/ vaults' = [vaults EXCEPT ![Vlt(j)].balance = @ - asked[j],
                   ![Vlt(j)].lock = "held"]
      BY <2>2 DEF WithdrawCommit, AfterWithdrawal
    <3> QED BY <1>2, <1>3, <1>4, <3>1 DEF VaultDoc
  <2>3. CASE CloseCancel(j) BY <1>2, <1>3, <2>3 DEF CloseCancel, VaultDoc
  <2>4. CASE EditWrite(j) BY <1>2, <1>3, <2>4 DEF EditWrite, VaultDoc
  <2> QED
   BY <1>3, <2>1, <2>2, <2>3, <2>4 DEF VaultStep, CreateRead, CreateCommit, DepositCheckKey,
      DepositLock, DepositCompleteKey, WithdrawCheckKey, WithdrawCompleteKey, CloseRead,
      CloseEmit, EditRead, vaultState
<1>8. /\ net' \in [Accounts -> Int] /\ wallets' \in [Wallets -> WalletDoc]
      /\ stale' \in [Jobs -> SUBSET Documents]
  <2>0. /\ net \in [Accounts -> Int] /\ wallets \in [Wallets -> WalletDoc]
        /\ stale \in [Jobs -> SUBSET Documents]
    BY DEF BooksTypeOK
  <2>1. CASE DepositCommit(j)
    BY <1>2, <1>5, <2>1, EntriesType, WalletsAfterType, TouchType DEF DepositCommit
  <2>2. CASE WithdrawCommit(j)
    <3> DEFINE p == Penalty(Vlt(j), asked[j])
               docs == {Usr(j), Vlt(j)} \cup IF p > 0 THEN {Revenue} ELSE {}
               paid == WalletsAfter(WithdrawLegs(j), {Usr(j)})
    <3>1. CASE MayWithdraw(j) /\ Free(j, docs)
      <4>1. Entries(WithdrawLegs(j)) /\ Touch(j, docs)
            /\ wallets' = IF p > 0 THEN [paid EXCEPT ![Revenue].version = 1] ELSE paid
        BY <2>2, <3>1 DEF WithdrawCommit
      <4>2. docs \in SUBSET Documents
        BY <1>2, Apart
      <4>3. paid \in [Wallets -> WalletDoc]
        BY <1>6, WalletsAfterType
      <4>4. wallets' \in [Wallets -> WalletDoc]
        BY <4>1, <4>3 DEF WalletDoc
      <4> QED BY <1>6, <4>1, <4>2, <4>4, EntriesType, TouchType
    <3>2. CASE ~ (MayWithdraw(j) /\ Free(j, docs))
      BY <2>0, <2>2, <3>2 DEF WithdrawCommit
    <3> QED BY <3>1, <3>2
  <2>3. CASE CloseCancel(j) BY <1>2, <2>0, <2>3, TouchType DEF CloseCancel
  <2>4. CASE EditWrite(j) BY <1>2, <2>0, <2>4, TouchType DEF EditWrite
  <2> QED
    BY <2>0, <2>1, <2>2, <2>3, <2>4 DEF VaultStep, CreateRead, CreateCommit,
       DepositCheckKey, DepositLock, DepositCompleteKey, WithdrawCheckKey,
       WithdrawCompleteKey, CloseRead, CloseEmit, EditRead, vaultState
<1>9. held' \in [Jobs -> SUBSET Documents]
  <2>0. held \in [Jobs -> SUBSET Documents]
    BY DEF BooksTypeOK
  <2> QED
    BY <1>2, <2>0 DEF VaultStep, CreateRead, CreateCommit, DepositCheckKey, DepositLock,
       DepositCompleteKey, WithdrawCheckKey, WithdrawCompleteKey, CloseRead, CloseEmit,
       EditRead, vaultState, DepositCommit, WithdrawCommit, CloseCancel, EditWrite
<1>10. idem' \in [Keys -> {"NONE", "IN_PROGRESS", "COMPLETED"}]
  <2>0. idem \in [Keys -> {"NONE", "IN_PROGRESS", "COMPLETED"}]
    BY DEF BooksTypeOK
  <2> QED
    BY <1>2, <2>0 DEF VaultStep, CreateRead, CreateCommit, DepositCheckKey, DepositLock,
       DepositCompleteKey, WithdrawCheckKey, WithdrawCompleteKey, CloseRead, CloseEmit,
       EditRead, vaultState, DepositCommit, WithdrawCommit, CloseCancel, EditWrite, OpenKey,
       CompleteKey
<1>11. asked' \in [Jobs -> Int] /\ expiries' = expiries
  <2>0. \A v \in VaultIds : vaults[v].balance \in Int
    BY <1>3 DEF VaultDoc
  <2> QED
    BY <1>2, <1>3, <2>0 DEF VaultStep, CreateRead, CreateCommit, DepositCheckKey,
       DepositLock, DepositCompleteKey, WithdrawCheckKey, WithdrawCompleteKey, CloseRead,
       CloseEmit, EditRead, vaultState, DepositCommit, WithdrawCommit, CloseCancel,
       EditWrite
<1> QED BY <1>1, <1>7, <1>8, <1>9, <1>10, <1>11 DEF Keeps, BooksTypeOK, ServicesTypeOK

\* Waivers, refunds and sweeps keep the types.
LEMMA FeeTypes ==
  ASSUME BooksTypeOK, ServicesTypeOK, PcInv, NEW j \in Jobs, FeeStep(j)
  PROVE  /\ BooksTypeOK'
         /\ accrual' \in [Transfers -> AccrualStatuses]
         /\ sweeps' \in [Jobs -> [members : SUBSET Transfers,
                            status : {"NONE", "PENDING", "COMPLETED", "FAILED"}]]
<1>1. Keeps(j, {"waive", "refund", "sweep"})
  BY FeeFrame
<1>2. /\ Usr(j) \in Users /\ Trf(j) \in Transfers /\ Fee(j) \in Nat
  BY JobType DEF Trf, Fee
<1>3. /\ {Revenue, Usr(j), Trf(j)} \subseteq Documents
      /\ {Revenue, Usr(j)} \subseteq Accounts
  BY <1>2, Apart
<1>4. /\ accrual \in [Transfers -> AccrualStatuses]
      /\ sweeps \in [Jobs -> [members : SUBSET Transfers,
                            status : {"NONE", "PENDING", "COMPLETED", "FAILED"}]]
  BY DEF ServicesTypeOK
<1>5. /\ net' \in [Accounts -> Int] /\ wallets' \in [Wallets -> WalletDoc]
      /\ stale' \in [Jobs -> SUBSET Documents]
  <2>0. /\ net \in [Accounts -> Int] /\ wallets \in [Wallets -> WalletDoc]
        /\ stale \in [Jobs -> SUBSET Documents]
    BY DEF BooksTypeOK
  <2>1. CASE RefundCommit(j)
    <3>1. Move(Revenue, Usr(j), Fee(j)) \in [Accounts -> Int]
      BY <1>2, <1>3, MoveType
    <3>2. {Revenue, Usr(j)} \cup {Trf(j)} \in SUBSET Documents
      BY <1>3
    <3> QED
      BY <2>0, <2>1, <3>1, <3>2, EntriesType, WalletsAfterType, TouchType DEF RefundCommit
  <2>2. CASE WaiveWrite(j) BY <1>3, <2>0, <2>2, TouchType DEF WaiveWrite
  <2>3. CASE SweepMark(j)
    BY <1>4, <2>0, <2>3, TouchType, Apart DEF SweepMark
  <2> QED
    BY <2>0, <2>1, <2>2, <2>3 DEF FeeStep, WaiverRead, SweepRead, SweepCreate,
       SweepComplete, SweepFail, feeState
<1>6. held' = held /\ vaults' = vaults /\ idem' = idem
  BY DEF FeeStep, WaiverRead, WaiveWrite, RefundCommit, SweepRead, SweepCreate, SweepMark,
         SweepComplete, SweepFail, feeState
<1>7. accrual' \in [Transfers -> AccrualStatuses]
  BY <1>4 DEF FeeStep, WaiverRead, WaiveWrite, RefundCommit, SweepRead, SweepCreate,
     SweepMark,
         SweepComplete, SweepFail, feeState, Settle, AccrualStatuses
<1>8. sweeps' \in [Jobs -> [members : SUBSET Transfers,
                            status : {"NONE", "PENDING", "COMPLETED", "FAILED"}]]
  BY <1>4 DEF FeeStep, WaiverRead, WaiveWrite, RefundCommit, SweepRead, SweepCreate,
     SweepMark,
         SweepComplete, SweepFail, feeState
<1> QED BY <1>1, <1>5, <1>6, <1>7, <1>8 DEF Keeps, BooksTypeOK

\* Funding from the treasury keeps the types.
LEMMA FundTypes ==
  ASSUME BooksTypeOK, PcInv, NEW j \in Jobs, FundStep(j)
  PROVE  BooksTypeOK'
<1>1. Keeps(j, {"fund"})
  BY FundFrame
<1>2. /\ Usr(j) \in Users /\ Amt(j) \in Nat /\ Job(j).key \in Keys
  BY JobType
<1>3. /\ {Treasury, Usr(j)} \subseteq Documents
      /\ {Treasury, Usr(j)} \subseteq Accounts
  BY <1>2, Apart
<1>4. /\ net' \in [Accounts -> Int] /\ wallets' \in [Wallets -> WalletDoc]
      /\ stale' \in [Jobs -> SUBSET Documents]
  <2>0. /\ net \in [Accounts -> Int] /\ wallets \in [Wallets -> WalletDoc]
        /\ stale \in [Jobs -> SUBSET Documents]
    BY DEF BooksTypeOK
  <2>1. CASE FundCommit(j)
    <3>1. Move(Treasury, Usr(j), Amt(j)) \in [Accounts -> Int]
      BY <1>2, <1>3, MoveType
    <3> QED
      BY <1>3, <2>0, <2>1, <3>1, EntriesType, WalletsAfterType, TouchType DEF FundCommit
  <2> QED BY <2>0, <2>1 DEF FundStep, FundCheckKey, FundMove, FundCompleteKey
<1>5. held' \in [Jobs -> SUBSET Documents]
  <2>0. held \in [Jobs -> SUBSET Documents]
    BY DEF BooksTypeOK
  <2> QED
    BY <1>3, <2>0 DEF FundStep, FundCheckKey, FundMove, FundCompleteKey, FundCommit
<1>6. idem' \in [Keys -> {"NONE", "IN_PROGRESS", "COMPLETED"}]
  <2>0. idem \in [Keys -> {"NONE", "IN_PROGRESS", "COMPLETED"}]
    BY DEF BooksTypeOK
  <2> QED
    BY <1>2, <2>0 DEF FundStep, FundCheckKey, FundMove, FundCompleteKey, FundCommit,
       OpenKey, CompleteKey
<1>7. vaults' = vaults
  BY DEF FundStep, FundCheckKey, FundMove, FundCompleteKey, FundCommit
<1> QED BY <1>1, <1>4, <1>5, <1>6, <1>7 DEF Keeps, BooksTypeOK

\* Reversals keep the types.
LEMMA ReversalTypes ==
  ASSUME BooksTypeOK, ServicesTypeOK, PcInv, NEW j \in Jobs, ReversalStep(j)
  PROVE  /\ BooksTypeOK'
         /\ reversal' \in [Jobs -> {"NONE", "PENDING", "COMPLETED", "FAILED"}]
         /\ seen' \in [Jobs -> [receiver : Int, receiverVersion : Nat,
                          senderVersion : Nat]]
         /\ reversed' \subseteq Jobs
<1>1. Keeps(j, {"reverse"})
  BY ReversalFrame
<1>2. /\ Usr(j) \in Users /\ Job(j).peer \in Users /\ Amt(j) \in Nat /\ Fee(j) \in Nat
  BY JobType DEF Fee
<1>3. /\ ReversalDocs(j) \in SUBSET Documents
      /\ wallets[Job(j).peer] \in WalletDoc /\ wallets[Usr(j)] \in WalletDoc
  BY <1>2, Apart DEF ReversalDocs, BooksTypeOK
<1>4. /\ reversal \in [Jobs -> {"NONE", "PENDING", "COMPLETED", "FAILED"}]
      /\ seen \in [Jobs -> [receiver : Int, receiverVersion : Nat,
                          senderVersion : Nat]]
      /\ reversed \subseteq Jobs
  BY DEF ServicesTypeOK
<1>5. ReversalLegs(j) \in [Accounts -> Int]
  <2>1. FeeBack(j) \in Int
    BY <1>2 DEF FeeBack
  <2>2. - Amt(j) \in Int /\ - FeeBack(j) \in Int /\ Amt(j) + FeeBack(j) \in Int
    BY <1>2, <2>1
  <2> QED BY <2>2, LegsType DEF ReversalLegs
<1>6. /\ net' \in [Accounts -> Int] /\ wallets' \in [Wallets -> WalletDoc]
      /\ stale' \in [Jobs -> SUBSET Documents]
  <2>0. /\ net \in [Accounts -> Int] /\ wallets \in [Wallets -> WalletDoc]
        /\ stale \in [Jobs -> SUBSET Documents]
    BY DEF BooksTypeOK
  <2>1. CASE TakeBack(j)
    BY <1>3, <1>5, <2>1, EntriesType, WalletsAfterType, TouchType DEF TakeBack
  <2> QED
    BY <2>0, <2>1 DEF ReversalStep, ReverseCheck, ReverseCheckFee, ReverseRead,
       ReverseCreate, ReverseCommit, ReverseCommitError, ReverseReadBack,
       ReverseMarkFailed, NothingTakenBack
<1>7. held' = held /\ vaults' = vaults /\ idem' = idem
  BY DEF ReversalStep, ReverseCheck, ReverseCheckFee, ReverseRead,
       ReverseCreate, ReverseCommit, ReverseCommitError, ReverseReadBack,
       ReverseMarkFailed
<1>8. /\ reversal' \in [Jobs -> {"NONE", "PENDING", "COMPLETED", "FAILED"}]
      /\ reversed' \subseteq Jobs
  BY <1>4 DEF ReversalStep, ReverseCheck, ReverseCheckFee, ReverseRead,
       ReverseCreate, ReverseCommit, ReverseCommitError, ReverseReadBack,
       ReverseMarkFailed, TakeBack, NothingTakenBack, reversalState
<1>9. seen' \in [Jobs -> [receiver : Int, receiverVersion : Nat, senderVersion : Nat]]
  BY <1>3, <1>4 DEF ReversalStep, ReverseCheck, ReverseCheckFee, ReverseRead,
       ReverseCreate, ReverseCommit, ReverseCommitError, ReverseReadBack,
       ReverseMarkFailed, TakeBack, NothingTakenBack, reversalState, WalletDoc
<1> QED BY <1>1, <1>6, <1>7, <1>8, <1>9 DEF Keeps, BooksTypeOK

\* A balance, its ledger sum and their drift are numbers.
LEMMA BalanceType ==
  ASSUME BooksTypeOK, NEW a \in Cached
  PROVE  Balance(a) \in Int /\ net[a] \in Int /\ LiveDrift(a) \in Int
<1>1. net[a] \in Int
  BY Apart DEF BooksTypeOK
<1>2. CASE a \in VaultIds
  BY <1>1, <1>2 DEF Balance, LiveDrift, BooksTypeOK, VaultDoc
<1>3. CASE a \notin VaultIds
  BY <1>1, <1>3 DEF Balance, LiveDrift, BooksTypeOK, WalletDoc, Cached
<1> QED BY <1>2, <1>3

\* Runs and resolutions keep the types.
LEMMA ReconciliationTypes ==
  ASSUME BooksTypeOK, ServicesTypeOK, PcInv, NEW j \in Jobs, ReconciliationStep(j)
  PROVE  /\ BooksTypeOK'
         /\ lapses' = lapses
         /\ sum' \in [Jobs -> Int]
         /\ reports' \in [Jobs -> [status : {"NONE", "RUNNING", "COMPLETED", "FAILED"},
                             drift : Int, resolved : BOOLEAN]]
         /\ torn' \subseteq Jobs
<1>1. Keeps(j, {"reconcile", "resolve"})
  BY ReconciliationFrame
<1>2. /\ Acc(j) \in Cached /\ Acc(j) \in Accounts /\ Acc(j) \in Documents
      /\ net[Acc(j)] \in Int /\ Balance(Acc(j)) \in Int /\ LiveDrift(Acc(j)) \in Int
      /\ Cache(Acc(j)) \in SUBSET Documents
  BY JobType, BalanceType, Apart DEF Acc, Cache
<1>3. /\ sum \in [Jobs -> Int]
      /\ reports \in [Jobs -> [status : {"NONE", "RUNNING", "COMPLETED", "FAILED"},
                             drift : Int, resolved : BOOLEAN]]
  BY DEF ServicesTypeOK
<1>4. /\ net \in [Accounts -> Int] /\ wallets \in [Wallets -> WalletDoc]
      /\ vaults \in [VaultIds -> VaultDoc] /\ stale \in [Jobs -> SUBSET Documents]
  BY DEF BooksTypeOK
<1>5. held' = held /\ idem' = idem /\ lapses' = lapses
  BY DEF ReconciliationStep, RunLock, RunSum, RunCompare, RunFreeze, RunAlert, RunComplete,
         RunAnnounce, RunFail, RunRelease, RunUnlock, ResolveBySync, ResolveByEntry, ResolveOnly,
         Resolved, ResolveRefused, reconciliationState
<1>6. sum' \in [Jobs -> Int]
  BY <1>2, <1>3 DEF ReconciliationStep, RunLock, RunSum, RunCompare, RunFreeze, RunAlert,
         RunComplete, RunAnnounce, RunFail, RunRelease, RunUnlock, ResolveBySync, ResolveByEntry,
         ResolveOnly, Resolved, ResolveRefused, reconciliationState
<1>7. reports' \in [Jobs -> [status : {"NONE", "RUNNING", "COMPLETED", "FAILED"},
                             drift : Int, resolved : BOOLEAN]]
  <2>1. Balance(Acc(j)) - sum[j] \in Int
    BY <1>2, <1>3
  <2>2. CASE RunFail(j)
    <3> DEFINE d == IF pc[j] \in {"finish", "announce"} THEN reports[j].drift ELSE 0
    <3>1. d \in Int
      BY <1>3
    <3>2. reports' = [reports EXCEPT ![j].status = "FAILED", ![j].drift = d]
      BY <1>3, <2>2 DEF RunFail
    <3> HIDE DEF d
    <3> QED BY <1>3, <3>1, <3>2
  <2>3. CASE ~ RunFail(j)
    <3>1. \E i \in Jobs, st \in {"RUNNING", "COMPLETED", "FAILED"} :
           \/ reports' = reports
           \/ reports' = [reports EXCEPT ![i].status = st]
           \/ reports' = [reports EXCEPT ![i].drift = Balance(Acc(j)) - sum[j]]
           \/ reports' = [reports EXCEPT ![i].resolved = TRUE]
      BY <2>3 DEF ReconciliationStep, RunLock, RunSum, RunCompare, RunFreeze, RunAlert,
         RunComplete, RunAnnounce, RunRelease, RunUnlock, ResolveBySync, ResolveByEntry,
         ResolveOnly, Resolved, ResolveRefused, reconciliationState
    <3> QED BY <1>3, <2>1, <3>1
  <2> QED BY <2>2, <2>3
<1>8. stale' \in [Jobs -> SUBSET Documents]
  <2>1. stale' = stale \/ stale' = [stale EXCEPT ![j] = {}] \/
        \E ds \in SUBSET Documents : Touch(j, ds)
    BY <1>2 DEF ReconciliationStep, RunLock, RunSum, RunCompare, RunFreeze, RunAlert,
         RunComplete, RunAnnounce, RunFail, RunRelease, RunUnlock, ResolveBySync, ResolveByEntry,
         ResolveOnly, Resolved, ResolveRefused, reconciliationState
  <2> QED BY <1>4, <2>1, TouchType
<1>9. net' \in [Accounts -> Int]
  <2>1. CASE \E i \in Jobs : ResolveByEntry(j, i)
    <3>1. PICK i \in Jobs : ResolveByEntry(j, i)
      BY <2>1
    <3>2. Correction(j, i) \in [Accounts -> Int]
      BY <1>2, MoveType, Apart DEF Correction
    <3> QED BY <3>1, <3>2, EntriesType DEF ResolveByEntry
  <2> QED BY <1>4, <2>1 DEF ReconciliationStep, RunLock, RunSum, RunCompare, RunFreeze,
         RunAlert, RunComplete, RunAnnounce, RunFail, RunRelease, RunUnlock, ResolveBySync,
         ResolveOnly, ResolveRefused
<1>10. vaults' \in [VaultIds -> VaultDoc]
  BY <1>2, <1>4 DEF ReconciliationStep, RunLock, RunSum, RunCompare, RunFreeze, RunAlert,
         RunComplete, RunAnnounce, RunFail, RunRelease, RunUnlock, ResolveBySync, ResolveByEntry,
         ResolveOnly, ResolveRefused, VaultDoc
<1>11. wallets' \in [Wallets -> WalletDoc]
  <2>1. ASSUME NEW ws \in [Wallets -> WalletDoc]
        PROVE  Released(j, ws) \in [Wallets -> WalletDoc]
    BY DEF Released, Releasing, WalletDoc
  <2>2. [wallets EXCEPT ![Acc(j)].available = net[Acc(j)]] \in [Wallets -> WalletDoc]
    BY <1>2, <1>4 DEF WalletDoc
  <2>3. CASE RunFreeze(j)
    BY <1>4, <2>3 DEF RunFreeze, WalletDoc
  <2> QED BY <1>4, <2>1, <2>2, <2>3 DEF ReconciliationStep, RunLock, RunSum, RunCompare,
             RunAlert,
         RunComplete, RunAnnounce, RunFail, RunRelease, RunUnlock, ResolveBySync, ResolveByEntry,
         ResolveOnly, ResolveRefused
<1>12. torn' \subseteq Jobs
  BY DEF ServicesTypeOK, ReconciliationStep, RunLock, RunSum, RunCompare, RunFreeze, RunAlert,
         RunComplete, RunAnnounce, RunFail, RunRelease, RunUnlock, ResolveBySync,
         ResolveByEntry, ResolveOnly, Resolved, ResolveRefused, reconciliationState
<1> QED BY <1>1, <1>5, <1>6, <1>7, <1>8, <1>9, <1>10, <1>11, <1>12 DEF Keeps, BooksTypeOK

-----------------------------------------------------------------------------
(* Types: the email outbox.                                                *)

\* There is one poller of the email outbox (a cron job).
LEMMA OnePoller ==
  ASSUME BooksTypeOK, NEW i \in Jobs, NEW j \in Jobs, Job(i).kind = "poll", Job(j).kind = "poll"
  PROVE  i = j
BY PollerAssumption DEF BooksTypeOK, Job

\* The poller and the workers keep the types, and MailInv: what is still
\* tried has a try left, and what is marked was accepted.
LEMMA MailTypes ==
  ASSUME BooksTypeOK, AftermathTypeOK, PcInv, MailInv, NEW j \in Jobs,
         MailStep(j) \/ MailCrash(j), UNCHANGED documents
  PROVE  /\ mail' \in [Jobs -> MailDoc] /\ queue' \in [Jobs -> QueueJob]
         /\ sent' \in [Jobs -> Nat] /\ hand' \in [Jobs -> Jobs]
         /\ mishaps' \in 0..MaxMishaps
         /\ MailInv'
<1>1. /\ Keeps(j, {"poll", "mail"})
      /\ workload' = workload
      /\ \A i \in Jobs \ {j} : pc'[i] = pc[i]
  BY MailFrame DEF Keeps
<1>2. /\ mail \in [Jobs -> MailDoc] /\ queue \in [Jobs -> QueueJob]
      /\ sent \in [Jobs -> Nat] /\ hand \in [Jobs -> Jobs]
      /\ mishaps \in 0..MaxMishaps /\ pc \in [Jobs -> Labels]
  BY DEF AftermathTypeOK, BooksTypeOK
<1>3. MailAttempts \in Nat \ {0} /\ QueueAttempts \in Nat \ {0} /\ MaxMishaps \in Nat
  BY MailAssumption
<1>4. mishaps' \in 0..MaxMishaps
  BY <1>2, <1>3 DEF MailStep, PollClaim, WorkTake, PollAdd, PollMark, PollFail, WorkSend,
     WorkSendError, WorkMark, WorkDone, WorkFail, MailRestart, MailCrash, Mishap
<1>5. hand' \in [Jobs -> Jobs]
  BY <1>2 DEF MailStep, PollClaim, WorkTake, PollAdd, PollMark, PollFail, WorkSend,
     WorkSendError, WorkMark, WorkDone, WorkFail, MailRestart, MailCrash
<1>6. sent' \in [Jobs -> Nat] /\ \A e \in Jobs : sent[e] <= sent'[e] /\ sent'[e] \in {0, 1}
  BY <1>2 DEF MailInv, MailStep, PollClaim, WorkTake, PollAdd, PollMark, PollFail, WorkSend,
     WorkSendError, WorkMark, WorkDone, WorkFail, MailRestart, MailCrash, Accepted
<1>7. mail' \in [Jobs -> MailDoc]
  <2>1. CASE PollFail(j)
    <3>1. mail[hand[j]].attempts + 1 \in 0..MailAttempts
      BY <1>2, <1>3, <2>1 DEF PollFail, At, MailInv, MailDoc
    <3> QED BY <1>2, <2>1, <3>1 DEF PollFail, MailDoc, MailStatuses
  <2> QED BY <1>2, <2>1 DEF MailStep, PollClaim, WorkTake, PollAdd, PollMark, WorkSend,
     WorkSendError, WorkMark, WorkDone, WorkFail, MailRestart, MailCrash, SetMail, MailDoc,
     MailStatuses
<1>8. queue' \in [Jobs -> QueueJob] 
  <2>1. CASE WorkFail(j)
    <3>1. queue[hand[j]].state = "active" => queue[hand[j]].tries + 1 \in 0..QueueAttempts
      BY <1>2, <1>3, <2>1 DEF MailInv, QueueJob
    <3> QED BY <1>2, <2>1, <3>1 DEF WorkFail, QueueJob
  <2>2. NoQueueJob \in QueueJob /\ [NoQueueJob EXCEPT !.state = "waiting"] \in QueueJob
    <3>1. 0 \in 0..QueueAttempts
      BY <1>3
    <3>2. NoQueueJob \in QueueJob
      BY <3>1 DEF NoQueueJob, QueueJob
    <3> QED BY <3>2 DEF QueueJob
  <2>3. ASSUME NEW q \in QueueJob PROVE Stalled(q) \in QueueJob
    BY DEF Stalled, QueueJob
  <2>4. CASE PollAdd(j) BY <1>2, <2>2, <2>4 DEF PollAdd
  <2>5. CASE MailRestart(j) BY <1>2, <2>3, <2>5 DEF MailRestart
  <2>6. CASE WorkDone(j) BY <1>2, <2>6 DEF WorkDone, QueueJob
  <2>7. CASE \E e \in Jobs : WorkTake(j, e) BY <1>2, <2>7 DEF WorkTake, SetQueue, QueueJob
  <2> QED BY <1>2, <2>1, <2>4, <2>5, <2>6, <2>7 DEF MailStep, PollClaim, PollMark, PollFail,
             WorkSend,
     WorkSendError, WorkMark, MailCrash
<1>9. \A e \in Jobs : mail'[e].status = "DELIVERED" => sent'[e] = 1
  <2>1. CASE WorkMark(j)
    <3>1. sent[hand[j]] = 1 /\ sent' = sent
      BY <2>1 DEF WorkMark, At, MailInv
    <3>2. \A e \in Jobs : e # hand[j] => mail'[e] = mail[e]
      BY <1>2, <2>1 DEF WorkMark, SetMail
    <3> QED BY <1>2, <3>1, <3>2 DEF MailInv
  <2>2. CASE PollFail(j)
    BY <1>2, <1>6, <2>2 DEF MailInv, PollFail
  <2>3. CASE ~ WorkMark(j) /\ ~ PollFail(j)
    <3>1. \/ mail' = mail
          \/ \E e \in Jobs : SetMail(e, "PROCESSING") \/ SetMail(e, "ENQUEUED")
      BY <1>2, <2>3 DEF MailStep, PollClaim, WorkTake, PollAdd, PollMark, WorkSend,
         WorkSendError, WorkDone, WorkFail, MailRestart, MailCrash
    <3>2. \A e \in Jobs : mail'[e].status = "DELIVERED" => mail[e].status = "DELIVERED"
      BY <1>2, <3>1 DEF SetMail, MailDoc
    <3> QED BY <1>6, <3>2 DEF MailInv
  <2> QED BY <2>1, <2>2, <2>3
<1>10. \A e \in Jobs : queue'[e].state \in {"waiting", "active"}
           => queue'[e].tries < QueueAttempts
  <2>1. CASE WorkFail(j) BY <1>2, <1>3, <2>1 DEF MailInv, WorkFail, QueueJob
  <2>2. CASE PollAdd(j) BY <1>2, <1>3, <2>2 DEF MailInv, PollAdd, NoQueueJob
  <2>3. CASE MailRestart(j) BY <1>2, <2>3 DEF MailInv, MailRestart, Stalled, QueueJob
  <2>4. CASE WorkDone(j) BY <1>2, <2>4 DEF MailInv, WorkDone, QueueJob
  <2>5. CASE \E e \in Jobs : WorkTake(j, e) BY <1>2, <2>5 DEF MailInv, WorkTake, SetQueue,
      QueueJob
  <2> QED BY <1>2, <2>1, <2>2, <2>3, <2>4, <2>5 DEF MailInv, MailStep, PollClaim, PollMark,
     PollFail, WorkSend, WorkSendError, WorkMark, MailCrash
<1>11. ASSUME NEW i \in Jobs, pc'[i] \in {"pollAdd", "pollMark", "pollFail"}
       PROVE  mail'[hand'[i]].attempts < MailAttempts
  <2>1. pc'[j] \in {"pollAdd", "pollMark", "pollFail"} => Job(j).kind = "poll"
    BY <1>1 DEF Keeps, PcInv, Only, Job
  <2>2. Job(i).kind = "poll"
    BY <1>1, <1>11 DEF Keeps, PcInv, Only, Job
  <2>3. CASE i = j
    <3>1. CASE \E e \in Jobs : PollClaim(j, e)
      BY <1>2, <2>3, <3>1 DEF PollClaim, Claimable, SetMail, MailDoc
    <3>2. ~ (\E e \in Jobs : PollClaim(j, e)) => 
             /\ pc[j] \in {"pollAdd", "pollMark", "pollFail"} /\ hand' = hand
             /\ \A e \in Jobs : mail'[e].attempts = mail[e].attempts
      BY <1>2, <1>11, <2>3 DEF MailStep, WorkTake, PollAdd, PollMark, PollFail, WorkSend,
     WorkSendError, WorkMark, WorkDone, WorkFail, MailRestart, MailCrash, At, Goto, SetMail
    <3> QED BY <1>2, <2>3, <3>1, <3>2 DEF MailInv
  <2>4. CASE i # j
    <3>1. Job(j).kind # "poll"
      BY <2>2, <2>4, OnePoller
    <3>2. pc[i] \in {"pollAdd", "pollMark", "pollFail"}
      BY <1>1, <1>11, <2>4
    <3>3. ~ PollAdd(j) /\ ~ PollMark(j) /\ ~ PollFail(j) /\ ~ \E e \in Jobs : PollClaim(j, e)
      BY <3>1 DEF PollAdd, PollMark, PollFail, PollClaim, At, Starting, PcInv, Only
    <3>4. hand'[i] = hand[i]
      BY <1>2, <2>4, <3>3 DEF MailStep, WorkTake, WorkSend, WorkSendError, WorkMark,
         WorkDone, WorkFail, MailRestart, MailCrash
    <3>5. \/ mail' = mail
          \/ SetMail(hand[j], "DELIVERED")
      BY <3>3 DEF MailStep, WorkTake, WorkSend, WorkSendError, WorkMark,
         WorkDone, WorkFail, MailRestart, MailCrash
    <3>6. \A e \in Jobs : mail'[e].attempts = mail[e].attempts
      BY <1>2, <3>5 DEF SetMail, MailDoc
    <3> QED BY <1>2, <3>2, <3>4, <3>6 DEF MailInv
  <2> QED BY <2>3, <2>4
<1>12. ASSUME NEW i \in Jobs, pc'[i] = "sendMark" PROVE sent'[hand'[i]] = 1
  <2>1. CASE WorkSend(j) /\ i = j
    BY <1>2, <1>6, <2>1 DEF WorkSend, Accepted, MailInv
  <2>2. CASE ~ (WorkSend(j) /\ i = j)
    <3>1. pc[i] = "sendMark" /\ hand'[i] = hand[i]
      BY <1>1, <1>2, <1>12, <2>2 DEF MailStep, PollClaim, WorkTake, PollAdd, PollMark,
         PollFail, WorkSend,
     WorkSendError, WorkMark, WorkDone, WorkFail, MailRestart, MailCrash, At, Goto
    <3> QED BY <1>2, <1>6, <3>1 DEF MailInv
  <2> QED BY <2>1, <2>2
<1> QED BY <1>4, <1>5, <1>6, <1>7, <1>8, <1>9, <1>10, <1>11, <1>12 DEF MailInv

-----------------------------------------------------------------------------
(* Types: dead letters and read models.                                    *)

\* Processing an event files its mail at most once, and leaves the mails on
\* their way alone.
LEMMA ProcessMail ==
  ASSUME BooksTypeOK, AftermathTypeOK, MailInv, NEW e \in Jobs, Process(e) \/ NotProcessed,
         UNCHANGED <<queue, sent, hand, mishaps>>,
         pc' \in [Jobs -> Labels], workload' = workload,
         \A i \in Jobs : pc'[i] # pc[i] =>
            pc'[i] \notin {"pollAdd", "pollMark", "pollFail", "sendMark"}
  PROVE  /\ mail' \in [Jobs -> MailDoc] /\ applied' \in [Jobs -> Nat]
         /\ MailInv'
<1>1. /\ mail \in [Jobs -> MailDoc] /\ applied \in [Jobs -> Nat] /\ hand \in [Jobs -> Jobs]
  BY DEF AftermathTypeOK
<1>2. MailAttempts \in Nat \ {0}
  BY MailAssumption
<1>3. mail' \in [Jobs -> MailDoc] /\ applied' \in [Jobs -> Nat]
  <2>1. [status |-> "PENDING", attempts |-> 0] \in MailDoc
    BY <1>2 DEF MailDoc, MailStatuses
  <2> QED BY <1>1, <2>1 DEF Process, NotProcessed
<1>4. \A d \in Jobs : \/ mail'[d] = mail[d]
                      \/ mail'[d] = [status |-> "PENDING", attempts |-> 0]
  BY <1>1 DEF Process, NotProcessed
<1>5. \A d \in Jobs : /\ mail'[d].status = "DELIVERED" => mail[d].status = "DELIVERED"
                      /\ mail[d].attempts < MailAttempts => mail'[d].attempts < MailAttempts
  BY <1>2, <1>4
<1> QED BY <1>1, <1>3, <1>5 DEF MailInv

\* Operators of the dead letters keep the types.
LEMMA AdminTypes ==
  ASSUME BooksTypeOK, AftermathTypeOK, PcInv, MailInv, NEW j \in Jobs, AdminStep(j),
         UNCHANGED documents, UNCHANGED <<projection, projected, readModel, shown,
                      queue, sent, hand, mishaps>>,
         UNCHANGED eventState
  PROVE  AftermathTypeOK' /\ MailInv'
<1>1. /\ workload' = workload
      /\ pc' \in [Jobs -> Labels]
      /\ \A i \in Jobs : pc'[i] # pc[i] =>
            pc'[i] \notin {"pollAdd", "pollMark", "pollFail", "sendMark"}
  <2>1. Keeps(j, {"replay", "replayTopic", "dismiss", "bulkDismiss"})
    BY AdminFrame
  <2> QED BY <2>1 DEF Keeps, PcInv, Only, Job
<1>2. /\ letter \in [Jobs -> LetterStatuses] /\ target \in [Jobs -> Jobs]
      /\ todo \in [Jobs -> SUBSET Jobs]
      /\ published \subseteq Jobs /\ taken \subseteq Jobs /\ revived \subseteq Jobs
  BY DEF AftermathTypeOK, LetterStatuses
<1>3. \E e \in Jobs : Process(e) \/ NotProcessed
  BY <1>2 DEF AdminStep, ReplayRead, TopicRead, TopicNext, TopicDone, ReplayRun,
     ReplayConfirm, ReplayMark,
     ReplayMarkFailed, DismissRead, DismissWrite, BulkDismiss, NotProcessed, letterState
<1>4. /\ mail' \in [Jobs -> MailDoc] /\ applied' \in [Jobs -> Nat]
         /\ MailInv'
  BY <1>1, <1>3, ProcessMail
<1>5. letter' \in [Jobs -> LetterStatuses]
  BY <1>2 DEF AdminStep, ReplayRead, TopicRead, TopicNext, TopicDone, ReplayRun,
     ReplayConfirm, ReplayMark,
     ReplayMarkFailed, DismissRead, DismissWrite, BulkDismiss, letterState, Write,
     LetterStatuses
<1>6. target' \in [Jobs -> Jobs]
  BY <1>2 DEF AdminStep, ReplayRead, TopicRead, TopicNext, TopicDone, ReplayRun,
     ReplayConfirm, ReplayMark,
     ReplayMarkFailed, DismissRead, DismissWrite, BulkDismiss, letterState
<1>7. todo' \in [Jobs -> SUBSET Jobs]
  BY <1>2 DEF AdminStep, ReplayRead, TopicRead, TopicNext, TopicDone, ReplayRun,
     ReplayConfirm, ReplayMark,
     ReplayMarkFailed, DismissRead, DismissWrite, BulkDismiss, letterState
<1>8. published' \subseteq Jobs /\ taken' = taken /\ revived' \subseteq Jobs
  BY <1>2 DEF AdminStep, ReplayRead, TopicRead, TopicNext, TopicDone, ReplayRun,
     ReplayConfirm, ReplayMark,
     ReplayMarkFailed, DismissRead, DismissWrite, BulkDismiss, letterState, Publish
<1> QED BY <1>2, <1>4, <1>5, <1>6, <1>7, <1>8 DEF AftermathTypeOK, eventState,
           LetterStatuses

\* Projections keep the types of the read models.
LEMMA ShowTypes ==
  ASSUME BooksTypeOK, AftermathTypeOK, NEW e \in Jobs, Show(e) \/ ShowReversal(e)
  PROVE  /\ readModel' \in [Users -> Int] /\ shown' \in [Users -> Int]
         /\ projected' \in [Jobs -> Nat]
<1>1. \A u \in Users : /\ readModel[u] \in Int /\ shown[u] \in Int
                       /\ payload[e][u].balance \in Int /\ payload[e][u].change \in Nat
  BY DEF AftermathTypeOK
<1>2. projected \in [Jobs -> Nat]
  BY DEF AftermathTypeOK
<1>3. projected' \in [Jobs -> Nat]
  BY <1>2 DEF Show, ShowReversal
<1>4. ASSUME NEW u \in Users PROVE ReversalShown(e)[u] \in Int
  <2>1. Amt(e) \in Int /\ FeeBack(e) \in Int
    BY JobType DEF FeeBack, Fee
  <2>2. - Amt(e) \in Int /\ Amt(e) + FeeBack(e) \in Int /\ u \in Accounts
    BY <2>1, Apart
  <2> QED BY <2>2 DEF ReversalShown, NoLegs
<1>5. readModel' \in [Users -> Int]
  BY <1>1, <1>4 DEF Show, ShowReversal
<1>6. shown' \in [Users -> Int]
  BY <1>1 DEF Show, ShowReversal
<1> QED BY <1>3, <1>5, <1>6

\* The consumer keeps the types.
LEMMA ConsumeTypes ==
  ASSUME BooksTypeOK, AftermathTypeOK, PcInv, MailInv, NEW j \in Jobs, 
         ConsumeStep(j), UNCHANGED <<pc, queue, sent, hand, mishaps>>,
         UNCHANGED documents, UNCHANGED eventState
  PROVE  AftermathTypeOK' /\ MailInv'
<1>1. PICK e \in Jobs : Consume(j, e) \/ ConsumeDead(j, e) \/ ReversalDead(j, e)
  BY DEF ConsumeStep
<1>2. /\ letter \in [Jobs -> LetterStatuses] 
      /\ published \subseteq Jobs /\ taken \subseteq Jobs
      /\ {readModel, shown} \subseteq [Users -> Int] /\ projected \in [Jobs -> Nat]
  BY DEF AftermathTypeOK, LetterStatuses
<1>3. /\ mail' \in [Jobs -> MailDoc] /\ applied' \in [Jobs -> Nat]
         /\ MailInv'
  <2>1. Process(e) \/ NotProcessed
    BY <1>1 DEF Consume, ConsumeDead, ReversalDead
  <2>2. workload' = workload /\ pc' = pc /\ pc' \in [Jobs -> Labels]
    BY DEF documents, BooksTypeOK
  <2> QED BY <2>1, <2>2, ProcessMail
<1>4. /\ readModel' \in [Users -> Int] /\ shown' \in [Users -> Int]
      /\ projected' \in [Jobs -> Nat]
  <2>1. ShowReversal(e) \/ UNCHANGED <<readModel, shown, projected>>
    BY <1>1 DEF Consume, ConsumeDead, ReversalDead
  <2> QED BY <1>2, <2>1, ShowTypes
<1>5. letter' \in [Jobs -> LetterStatuses] /\ taken' \subseteq Jobs /\ published' \subseteq Jobs
  BY <1>1, <1>2 DEF Consume, ConsumeDead, ReversalDead, File, Publish, LetterStatuses
<1>6. UNCHANGED <<projection, target, todo, revived>>
  BY <1>1 DEF Consume, ConsumeDead, ReversalDead
<1> QED BY <1>2, <1>3, <1>4, <1>5, <1>6 DEF AftermathTypeOK, eventState, LetterStatuses

\* The projection retries keep the types.
LEMMA ProjectTypes ==
  ASSUME BooksTypeOK, AftermathTypeOK, NEW j \in Jobs, ReadModelStep(j),
         UNCHANGED <<pc, mailState, letterState>>, UNCHANGED documents, UNCHANGED eventState
  PROVE  AftermathTypeOK'
<1>1. PICK e \in Jobs : Project(j, e) \/ ProjectFail(j, e)
  BY DEF ReadModelStep
<1>2. /\ published \subseteq Jobs
      /\ projection \in [Jobs -> {"NONE", "PROCESSING", "COMPLETED"}]
      /\ {readModel, shown} \subseteq [Users -> Int] /\ projected \in [Jobs -> Nat]
  BY DEF AftermathTypeOK
<1>3. /\ readModel' \in [Users -> Int] /\ shown' \in [Users -> Int]
      /\ projected' \in [Jobs -> Nat]
  BY <1>1, <1>2, ShowTypes DEF Project, ProjectFail
<1>4. published' \subseteq Jobs /\ projection' \in [Jobs -> {"NONE", "PROCESSING", "COMPLETED"}]
  BY <1>1, <1>2 DEF Project, ProjectFail
<1> QED BY <1>3, <1>4 DEF AftermathTypeOK, mailState, letterState, eventState

\* Payloads recorded with an event keep the types.
LEMMA EventTypes ==
  ASSUME BooksTypeOK, AftermathTypeOK, BooksTypeOK', NEW j \in Jobs, RecordEvent(j),
         UNCHANGED aftermath
  PROVE  AftermathTypeOK'
<1>1. changes \in [Users -> Nat]
          /\ payload \in [Jobs -> [Users -> [balance : Int, change : Nat]]]
  BY DEF AftermathTypeOK
<1>2. changes' \in [Users -> Nat]
  BY <1>1 DEF RecordEvent
<1>3. ASSUME NEW u \in Users PROVE wallets'[u].available \in Int
  BY Apart DEF BooksTypeOK, WalletDoc
<1>4. payload' \in [Jobs -> [Users -> [balance : Int, change : Nat]]]
  BY <1>1, <1>2, <1>3 DEF RecordEvent
<1> QED BY <1>2, <1>4 DEF AftermathTypeOK, aftermath, mailState, readModelState, letterState

-----------------------------------------------------------------------------
(* Types: all services together.                                           *)

\* The types, with what keeps the counts of attempts within them.
Typed == TypeOK /\ PcInv /\ MailInv

OfMoney(j) ==
    /\ OtherTransfer(j) \/ OtherFunding(j)
    /\ Keeps(j, {"transfer", "funding"})
    /\ RecordEvent(j) /\ UNCHANGED <<services, aftermath>>
OfFunding(j) ==
    /\ FundStep(j) /\ Keeps(j, {"fund"})
    /\ RecordEvent(j) /\ UNCHANGED <<services, aftermath>>
OfVaults(j) ==
    /\ VaultStep(j) /\ Keeps(j, {"create", "deposit", "withdraw", "close", "edit"})
    /\ RecordEvent(j)
    /\ UNCHANGED <<feeState, reversalState, reconciliationState, aftermath>>
OfFees(j) ==
    /\ FeeStep(j) /\ Keeps(j, {"waive", "refund", "sweep"})
    /\ RecordEvent(j)
    /\ UNCHANGED <<vaultState, reversalState, reconciliationState, aftermath>>
OfReversals(j) ==
    /\ ReversalStep(j) /\ Keeps(j, {"reverse"})
    /\ RecordEvent(j)
    /\ UNCHANGED <<vaultState, feeState, reconciliationState, aftermath>>
OfRuns(j) ==
    /\ ReconciliationStep(j) /\ Keeps(j, {"reconcile", "resolve"})
    /\ RecordEvent(j)
    /\ UNCHANGED <<vaultState, feeState, reversalState, aftermath>>
OfConsumer(j) ==
    /\ ConsumeStep(j)
    /\ UNCHANGED <<pc, queue, sent, hand, mishaps, documents, services, eventState>>
OfReadModel(j) ==
    /\ ReadModelStep(j)
    /\ UNCHANGED <<pc, mailState, letterState, documents, services, eventState>>
OfMail(j) ==
    /\ MailStep(j) \/ MailCrash(j)
    /\ Keeps(j, {"poll", "mail"})
    /\ UNCHANGED <<readModelState, letterState, documents, services, eventState>>
OfAdmins(j) ==
    /\ AdminStep(j) /\ Keeps(j, {"replay", "replayTopic", "dismiss", "bulkDismiss"})
    /\ UNCHANGED <<projection, projected, readModel, shown, queue, sent, hand, mishaps>>
    /\ UNCHANGED <<documents, services, eventState>>
OfFaults(j) ==
    /\ TxnError(j) \/ CrashJob(j)
    /\ Keeps(j, Kinds)
    /\ UNCHANGED <<services, eventState, aftermath>>
VaultsTick ==
    /\ VaultClock
    /\ UNCHANGED <<feeState, reversalState, reconciliationState, eventState, aftermath>>
RunLockTick ==
    /\ RunLockExpires
    /\ UNCHANGED <<vaultState, feeState, reversalState, eventState, aftermath>>
QueueTick ==
    /\ RedisLoss \/ \E e \in Jobs : QueueForget(e)
    /\ UNCHANGED <<documents, services, eventState, readModelState, letterState>>

\* What a step of the back office is: a step of one job of one service, the
\* passing of a lock, or a loss of the queue.
LEMMA Moves ==
  ASSUME BooksTypeOK, PcInv, [Next]_vars
  PROVE  \/ \E j \in Jobs : 
              \/ OfMoney(j) \/ OfFunding(j) \/ OfVaults(j) \/ OfFees(j) \/ OfReversals(j)
              \/ OfRuns(j) \/ OfConsumer(j) \/ OfReadModel(j) \/ OfMail(j) \/ OfAdmins(j)
              \/ OfFaults(j)
         \/ VaultsTick \/ RunLockTick \/ QueueTick \/ UNCHANGED vars
<1>1. ASSUME NEW j \in Jobs, ServiceStep(j), RecordEvent(j), UNCHANGED aftermath
      PROVE  OfMoney(j) \/ OfFunding(j) \/ OfVaults(j) \/ OfFees(j) \/ OfReversals(j)
                \/ OfRuns(j)
  BY <1>1, OtherFrame, FundFrame, VaultFrame, FeeFrame, ReversalFrame, ReconciliationFrame
     DEF ServiceStep, OfMoney, OfFunding, OfVaults, OfFees, OfReversals, OfRuns, services
<1>2. ASSUME NEW j \in Jobs, AftermathStep(j), UNCHANGED <<documents, services, eventState>>
      PROVE  OfConsumer(j) \/ OfReadModel(j) \/ OfMail(j) \/ OfAdmins(j)
  BY <1>2, MailFrame, AdminFrame DEF AftermathStep, OfConsumer, OfReadModel, OfMail,
     OfAdmins
<1>3. ASSUME NEW j \in Jobs, Fault(j)
      PROVE  OfFaults(j) \/ OfMail(j)
  BY <1>3, FaultFrame, MailFrame DEF Fault, OfFaults, OfMail
<1>4. Clock \/ Forget => VaultsTick \/ RunLockTick \/ QueueTick
  BY DEF Clock, Forget, VaultsTick, RunLockTick, QueueTick
<1> QED BY <1>1, <1>2, <1>3, <1>4 DEF Next, Step

\* Losing jobs of the queue keeps the types.
LEMMA QueueTypes ==
  ASSUME AftermathTypeOK, MailInv, RedisLoss \/ \E e \in Jobs : QueueForget(e)
  PROVE  queue' \in [Jobs -> QueueJob] /\ mishaps' \in 0..MaxMishaps /\ MailInv'
<1>1. QueueAttempts \in Nat \ {0} /\ MaxMishaps \in Nat
  BY MailAssumption
<1>2. queue \in [Jobs -> QueueJob] /\ mishaps \in 0..MaxMishaps
  BY DEF AftermathTypeOK
<1>3. NoQueueJob \in QueueJob /\ NoQueueJob.state = "none"
  BY <1>1 DEF NoQueueJob, QueueJob
<1>4. /\ \A e \in Jobs : queue'[e] \in {queue[e], NoQueueJob}
      /\ queue' \in [Jobs -> QueueJob]
  BY <1>2, <1>3 DEF RedisLoss, QueueForget
<1>5. mishaps' \in 0..MaxMishaps
  BY <1>1, <1>2 DEF RedisLoss, QueueForget, Mishap
<1>6. UNCHANGED <<pc, mail, sent, hand>>
  BY DEF RedisLoss, QueueForget
<1> QED BY <1>3, <1>4, <1>5, <1>6 DEF MailInv

\* A step of a service that moves money keeps the types.
LEMMA ServiceTypes ==
  ASSUME Typed, NEW j \in Jobs, 
    OfMoney(j) \/ OfFunding(j) \/ OfVaults(j) \/ OfFees(j) \/ OfReversals(j) \/ OfRuns(j)
  PROVE  Typed'
<1> USE DEF Typed, TypeOK
<1>1. UNCHANGED aftermath /\ PcInv' /\ RecordEvent(j) /\ pc' \in [Jobs -> Labels]
      /\ \A i \in Jobs \ {j} : pc'[i] = pc[i]
  BY DEF OfMoney, OfFunding, OfVaults, OfFees, OfReversals, OfRuns, Keeps
<1>2. BooksTypeOK' /\ ServicesTypeOK'
  <2>1. CASE OfMoney(j) \/ OfFunding(j)
    BY <2>1, OtherTypes, FundTypes DEF OfMoney, OfFunding, ServicesTypeOK, services,
       vaultState, feeState, reversalState, reconciliationState
  <2>2. CASE OfVaults(j)
    BY <2>2, VaultTypes DEF OfVaults, ServicesTypeOK, feeState, reversalState,
       reconciliationState
  <2>3. CASE OfFees(j)
    BY <2>3, FeeTypes DEF OfFees, ServicesTypeOK, vaultState, reversalState,
       reconciliationState
  <2>4. CASE OfReversals(j)
    BY <2>4, ReversalTypes DEF OfReversals, ServicesTypeOK, vaultState, feeState,
       reconciliationState
  <2>5. CASE OfRuns(j)
    BY <2>5, ReconciliationTypes DEF OfRuns, ServicesTypeOK, vaultState, feeState,
       reversalState
  <2> QED BY <2>1, <2>2, <2>3, <2>4, <2>5
<1>3. AftermathTypeOK'
  BY <1>1, <1>2, EventTypes
<1>4. MailInv'
  <2>1. pc'[j] \notin {"pollAdd", "pollMark", "pollFail", "sendMark"}
    <3>1. workload' = workload /\ Job(j).kind \notin {"poll", "mail"}
      BY DEF Keeps, OfMoney, OfFunding, OfVaults, OfFees, OfReversals, OfRuns
    <3> QED BY <1>1, <3>1 DEF PcInv, Only, Job
  <2> QED BY <1>1, <2>1 DEF MailInv, aftermath, mailState
<1> QED BY <1>1, <1>2, <1>3, <1>4

\* Every step keeps the types and the control.
LEMMA TypedStep ==
  ASSUME Typed, [Next]_vars
  PROVE  Typed'
<1> USE DEF Typed, TypeOK
<1>1. ASSUME NEW j \in Jobs, OfMoney(j) \/ OfFunding(j) \/ OfVaults(j) \/ OfFees(j)
          \/ OfReversals(j) \/ OfRuns(j)
      PROVE  Typed'
  BY <1>1, ServiceTypes
<1>2. ASSUME NEW j \in Jobs, OfConsumer(j) PROVE Typed'
  BY <1>2, ConsumeTypes DEF OfConsumer, documents, services, vaultState, feeState,
     reversalState, reconciliationState, BooksTypeOK, ServicesTypeOK, PcInv, Only, Job
<1>3. ASSUME NEW j \in Jobs, OfReadModel(j) PROVE Typed'
  BY <1>3, ProjectTypes DEF OfReadModel, documents, services, vaultState, feeState,
     reversalState, reconciliationState, BooksTypeOK, ServicesTypeOK, PcInv, Only, Job,
     MailInv, mailState
<1>4. ASSUME NEW j \in Jobs, OfMail(j) PROVE Typed'
  <2>1. AftermathTypeOK' /\ MailInv'
    BY <1>4, MailTypes DEF OfMail, AftermathTypeOK, readModelState, letterState, eventState
  <2> QED
  BY <1>4, <2>1 DEF OfMail, Keeps, documents, services, vaultState, feeState, reversalState,
     reconciliationState, BooksTypeOK, ServicesTypeOK
<1>5. ASSUME NEW j \in Jobs, OfAdmins(j) PROVE Typed'
  <2>1. AftermathTypeOK' /\ MailInv'
    BY <1>5, AdminTypes DEF OfAdmins
  <2> QED
  BY <1>5, <2>1 DEF OfAdmins, Keeps, documents, services, vaultState, feeState,
     reversalState, reconciliationState, BooksTypeOK, ServicesTypeOK
<1>6. ASSUME NEW j \in Jobs, OfFaults(j) PROVE Typed'
  <2>1. BooksTypeOK'
    BY <1>6 DEF OfFaults, Keeps, BooksTypeOK, TxnError, CrashJob
  <2>2. ServicesTypeOK' /\ AftermathTypeOK'
    BY <1>6 DEF OfFaults, ServicesTypeOK, AftermathTypeOK, services, vaultState, feeState,
       reversalState, reconciliationState, aftermath, mailState, readModelState,
       letterState, eventState
  <2>3. MailInv'
    BY <1>6 DEF OfFaults, TxnError, CrashJob, Goto, BooksTypeOK, MailInv, aftermath,
       mailState
  <2> QED BY <1>6, <2>1, <2>2, <2>3 DEF OfFaults, Keeps
<1>7. VaultsTick => Typed'
  <2> SUFFICES ASSUME VaultsTick PROVE Typed'
    OBVIOUS
  <2>1. AftermathTypeOK' /\ PcInv' /\ MailInv'
    BY DEF VaultsTick, VaultClock, VaultLockExpires, VaultMatures, PcInv, Only, Job,
       MailInv, AftermathTypeOK, aftermath, mailState, readModelState, letterState,
       eventState
  <2>2. PICK v \in VaultIds : VaultLockExpires(v) \/ VaultMatures(v)
    BY DEF VaultsTick, VaultClock
  <2>3. vaults \in [VaultIds -> VaultDoc] /\ expiries \in [VaultIds -> Nat]
    BY DEF BooksTypeOK, ServicesTypeOK
  <2>4. vaults' \in [VaultIds -> VaultDoc] /\ expiries' \in [VaultIds -> Nat]
    <3>1. CASE VaultLockExpires(v) BY <2>3, <3>1 DEF VaultLockExpires, VaultDoc
    <3>2. CASE VaultMatures(v) BY <2>3, <3>2 DEF VaultMatures, VaultDoc, vaultState
    <3> QED BY <2>2, <3>1, <3>2
  <2>5. UNCHANGED <<workload, pc, held, stale, wallets, net, idem, asked>>
    BY <2>2 DEF VaultLockExpires, VaultMatures, vaultState
  <2>6. UNCHANGED <<feeState, reversalState, reconciliationState>>
    BY DEF VaultsTick
  <2> QED
    BY <2>1, <2>4, <2>5, <2>6 DEF BooksTypeOK, ServicesTypeOK, feeState, reversalState,
       reconciliationState
<1>8. RunLockTick => Typed'
  BY DEF RunLockTick, RunLockExpires, PcInv, Only, Job, MailInv, AftermathTypeOK, aftermath,
     mailState, readModelState, letterState, eventState, BooksTypeOK, ServicesTypeOK,
     vaultState, feeState, reversalState, reconciliationState
<1>9. QueueTick => Typed'
  <2> SUFFICES ASSUME QueueTick PROVE Typed'
    OBVIOUS
  <2>1. /\ pc' = pc /\ UNCHANGED <<mail, sent, hand>>
        /\ queue' \in [Jobs -> QueueJob] /\ mishaps' \in 0..MaxMishaps /\ MailInv'
    BY QueueTypes DEF QueueTick, RedisLoss, QueueForget
  <2>2. AftermathTypeOK'
    BY <2>1 DEF QueueTick, AftermathTypeOK, eventState, readModelState, letterState
  <2> QED BY <2>1, <2>2 DEF QueueTick, documents, services, vaultState, feeState,
             reversalState, reconciliationState, BooksTypeOK, ServicesTypeOK, PcInv, Only,
             Job
<1>10. UNCHANGED vars => Typed'
  BY DEF vars, documents, services, vaultState, feeState, reversalState,
     reconciliationState, BooksTypeOK, ServicesTypeOK, PcInv, Only, Job, aftermath,
     mailState, readModelState, letterState, eventState, MailInv, AftermathTypeOK
<1> QED BY <1>1, <1>2, <1>3, <1>4, <1>5, <1>6, <1>7, <1>8, <1>9, <1>10, Moves

\* The back office starts well typed.
LEMMA InitTyped == Init => Typed
<1> SUFFICES ASSUME Init PROVE Typed
  OBVIOUS
<1> USE DEF Init
<1>1. BooksTypeOK
  <2>1. \A w \in Wallets : InitialBalance[w] \in Int
    BY InitialAssumption, Apart
  <2>2. wallets \in [Wallets -> WalletDoc]
    BY <2>1 DEF BooksInit, WalletDoc
  <2>3. net \in [Accounts -> Int]
    BY InitialAssumption DEF BooksInit, NetInit
  <2> QED
    BY <2>2, <2>3, InitialAssumption DEF BooksInit, BooksTypeOK, Labels, Ended
<1>2. ServicesTypeOK
  BY <1>1, JobType, InitialAssumption DEF VaultsInit, FeesInit, ReversalsInit,
     ReconciliationInit, ServicesTypeOK
<1>3. AftermathTypeOK
  <2>1. 0 \in 0..MailAttempts /\ 0 \in 0..QueueAttempts /\ 0 \in 0..MaxMishaps
    BY MailAssumption
  <2>2. \A u \in Users : InitialBalance[u] \in Int
    BY InitialAssumption, Apart
  <2> QED BY <2>1, <2>2 DEF MailInit, ReadModelInit, LettersInit, AftermathTypeOK, MailDoc,
             MailStatuses, NoQueueJob,
     QueueJob, LetterStatuses
<1>4. PcInv
  BY DEF BooksInit, PcInv, Only
<1>5. MailInv
  BY DEF BooksInit, MailInit, MailInv, NoQueueJob
<1> QED BY <1>1, <1>2, <1>3, <1>4, <1>5 DEF Typed, TypeOK

\* Every variable of the back office has its type, for any number of users,
\* vaults, requests, keys and runs (all services of BackOffice). Typed, which
\* it follows from, also says where each kind of job may be and how far each
\* mail has got.
THEOREM TypeCorrect == Spec => []TypeOK
<1>1. Spec => []Typed
  BY InitTyped, TypedStep, PTL DEF Spec
<1>2. Typed => TypeOK
  BY DEF Typed
<1> QED BY <1>1, <1>2, PTL
=============================================================================
