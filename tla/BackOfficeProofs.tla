-------------------------- MODULE BackOfficeProofs --------------------------
(***************************************************************************)
(* The safety properties of the back office, one service after the other.  *)
(* Each follows from a part of the inductive invariant (module             *)
(* BackOfficeInvariant), and every part is kept by every step of every     *)
(* service: the lemmas named ...Step say so. A lemma named ...Own says     *)
(* whose steps move a job, one named ...Quiet what the other services      *)
(* leave alone.                                                            *)
(***************************************************************************)
EXTENDS BackOfficeFrames, Sums, FiniteSetTheorems

-----------------------------------------------------------------------------
(* The ledger and what is cached.                                          *)

\* Entries that go with the $inc of what is cached leave every drift as it
\* was.
LEMMA Booked ==
  ASSUME BooksTypeOK, NEW legs \in [Accounts -> Int], Entries(legs),
         \A w \in Wallets : wallets'[w].available = wallets[w].available + legs[w],
         \A v \in VaultIds : vaults'[v].balance = vaults[v].balance + legs[v],
         NEW a \in Cached
  PROVE  LiveDrift(a)' = LiveDrift(a)
<1>1. a \in Accounts /\ net'[a] = net[a] + legs[a] /\ net[a] \in Int /\ legs[a] \in Int
  BY Apart DEF Entries, BooksTypeOK
<1>2. CASE a \in VaultIds
  <2>1. vaults[a].balance \in Int
    BY <1>2 DEF BooksTypeOK, VaultDoc
  <2> QED BY <1>1, <1>2, <2>1 DEF LiveDrift, Balance
<1>3. CASE a \notin VaultIds
  <2>1. a \in Wallets
    BY <1>3 DEF Cached
  <2>2. wallets[a].available \in Int
    BY <2>1 DEF BooksTypeOK, WalletDoc
  <2> QED BY <1>1, <1>3, <2>1, <2>2 DEF LiveDrift, Balance
<1> QED BY <1>2, <1>3

\* A step that moves no money makes no drift.
LEMMA Unbooked ==
  ASSUME net' = net,
         \A w \in Wallets : wallets'[w].available = wallets[w].available,
         \A v \in VaultIds : vaults'[v].balance = vaults[v].balance,
         NEW a \in Cached
  PROVE  LiveDrift(a)' = LiveDrift(a)
BY DEF LiveDrift, Balance, Cached

\* Entries between accounts that are not vaults go with the $inc of wallets.
LEMMA MovedBetween ==
  ASSUME BooksTypeOK, NEW from \in Accounts \ VaultIds, NEW to \in Accounts \ VaultIds,
         NEW n \in Int, NEW bumped,
         Entries(Move(from, to, n)), wallets' = WalletsAfter(Move(from, to, n), bumped),
              vaults' = vaults,
         NEW a \in Cached
  PROVE  LiveDrift(a)' = LiveDrift(a)
<1>1. Move(from, to, n) \in [Accounts -> Int]
  BY MoveType
<1>2. \A v \in VaultIds : Move(from, to, n)[v] = 0 /\ vaults[v].balance \in Int
  BY Apart DEF Move, NoLegs, BooksTypeOK, VaultDoc
<1> QED BY <1>1, <1>2, AfterWallet, Booked

\* Vault requests make no drift: deposits and withdrawals update vault,
\* wallet and ledger together.
LEMMA VaultDrift ==
  ASSUME Typed, NEW j \in Jobs, OfVaults(j), NEW a \in Cached
  PROVE  LiveDrift(a)' = LiveDrift(a)
<1> USE DEF Typed, TypeOK
<1>1. /\ Usr(j) \in Users /\ Vlt(j) \in VaultIds /\ Amt(j) \in Nat /\ asked[j] \in Int
      /\ Usr(j) # Vlt(j) /\ Vlt(j) # Revenue /\ Vlt(j) \in Accounts /\ Usr(j) \in Accounts
      /\ vaults \in [VaultIds -> VaultDoc] /\ wallets \in [Wallets -> WalletDoc]
  BY JobType, Apart DEF ServicesTypeOK, BooksTypeOK
<1>2. CASE DepositCommit(j)
  <2>1. DepositLegs(j) \in [Accounts -> Int]
    BY <1>1, MoveType DEF DepositLegs
  <2>2. \A v \in VaultIds : DepositLegs(j)[v] = IF v = Vlt(j) THEN Amt(j) ELSE 0
    BY <1>1, Apart DEF DepositLegs, Move, NoLegs
  <2>3. \A v \in VaultIds : vaults'[v].balance = vaults[v].balance + DepositLegs(j)[v]
    BY <1>1, <1>2, <2>2 DEF DepositCommit, VaultDoc
  <2>4. Entries(DepositLegs(j)) /\ wallets' = WalletsAfter(DepositLegs(j), {Usr(j)})
    BY <1>2 DEF DepositCommit
  <2>5. \A w \in Wallets : wallets'[w].available = wallets[w].available + DepositLegs(j)[w]
    BY <2>1, <2>4, AfterWallet
  <2> QED BY <2>1, <2>3, <2>4, <2>5, Booked
<1>3. CASE WithdrawCommit(j)
  <2> DEFINE p == Penalty(Vlt(j), asked[j])
             docs == {Usr(j), Vlt(j)} \cup IF p > 0 THEN {Revenue} ELSE {}
             paid == WalletsAfter(WithdrawLegs(j), {Usr(j)})
  <2>1. CASE MayWithdraw(j) /\ Free(j, docs)
    <3>1. /\ Entries(WithdrawLegs(j))
          /\ wallets' = IF p > 0 THEN [paid EXCEPT ![Revenue].version = 1] ELSE paid
          /\ vaults' = AfterWithdrawal(Vlt(j), asked[j])
      BY <1>3, <2>1 DEF WithdrawCommit
    <3>2. p \in Int
      BY <1>1, PenaltyType
    <3>3. WithdrawLegs(j) \in [Accounts -> Int]
      <4>1. - asked[j] \in Int /\ asked[j] - Penalty(Vlt(j), asked[j]) \in Int
        BY <1>1, <3>2
      <4> QED BY <3>2, <4>1, LegsType DEF WithdrawLegs
    <3>4. \A v \in VaultIds : WithdrawLegs(j)[v] = IF v = Vlt(j) THEN - asked[j] ELSE 0
      BY <1>1, Apart DEF WithdrawLegs, NoLegs
    <3>5. \A v \in VaultIds : vaults'[v].balance = vaults[v].balance + WithdrawLegs(j)[v]
      BY <1>1, <3>1, <3>4 DEF AfterWithdrawal, VaultDoc
    <3>6. paid \in [Wallets -> WalletDoc]
      BY <3>3, WalletsAfterType
    <3>7. \A w \in Wallets : wallets'[w].available = paid[w].available
      BY <3>1, <3>6 DEF WalletDoc
    <3>8. \A w \in Wallets : wallets'[w].available = wallets[w].available + WithdrawLegs(j)[w]
      BY <3>3, <3>7, AfterWallet
    <3> QED BY <3>1, <3>3, <3>5, <3>8, Booked
  <2>2. CASE ~ (MayWithdraw(j) /\ Free(j, docs))
    BY <1>3, <2>2, Unbooked DEF WithdrawCommit
  <2> QED BY <2>1, <2>2
<1>4. CASE CloseCancel(j)
  BY <1>1, <1>4, Unbooked DEF CloseCancel, VaultDoc
<1>5. CASE EditWrite(j)
  BY <1>1, <1>5, Unbooked DEF EditWrite, VaultDoc
<1>6. ~ DepositCommit(j) /\ ~ WithdrawCommit(j) /\ ~ CloseCancel(j) /\ ~ EditWrite(j)
         => UNCHANGED <<net, wallets, vaults>>
  BY DEF OfVaults, VaultStep, CreateRead, CreateCommit, DepositCheckKey, DepositLock,
     DepositCompleteKey,
    WithdrawCheckKey, WithdrawCompleteKey, CloseRead, CloseEmit, EditRead
<1> QED BY <1>2, <1>3, <1>4, <1>5, <1>6, Unbooked

\* A reversal has legs, and none on a vault.
LEMMA ReversalValue ==
  ASSUME BooksTypeOK, NEW j \in Jobs
  PROVE  /\ ReversalLegs(j) \in [Accounts -> Int]
         /\ \A v \in VaultIds : ReversalLegs(j)[v] = 0
<1>1. /\ Usr(j) \in Users /\ Job(j).peer \in Users /\ Amt(j) \in Nat /\ Fee(j) \in Nat
  BY JobType DEF Fee
<1>2. FeeBack(j) \in Int
  BY <1>1 DEF FeeBack
<1>3. - Amt(j) \in Int /\ - FeeBack(j) \in Int /\ Amt(j) + FeeBack(j) \in Int
  BY <1>1, <1>2
<1>4. ReversalLegs(j) \in [Accounts -> Int]
  BY <1>3, LegsType DEF ReversalLegs
<1> QED BY <1>1, <1>4, Apart DEF ReversalLegs, NoLegs

\* A resolution removes the drift of one account, and a run makes none.
LEMMA RunDrift ==
  ASSUME Typed, NEW j \in Jobs, OfRuns(j), NEW a \in Cached
  PROVE  LiveDrift(a)' = LiveDrift(a) \/ LiveDrift(a)' = 0
<1> USE DEF Typed, TypeOK
<1>1. /\ Acc(j) \in Cached /\ Acc(j) \in Accounts /\ Balance(Acc(j)) \in Int
      /\ net[Acc(j)] \in Int
      /\ LiveDrift(Acc(j)) \in Int
  BY JobType, BalanceType, Apart DEF Acc
<1>2. /\ vaults \in [VaultIds -> VaultDoc] /\ wallets \in [Wallets -> WalletDoc]
      /\ net \in [Accounts -> Int]
  BY DEF BooksTypeOK
<1>3. ASSUME NEW ws \in [Wallets -> WalletDoc], NEW w \in Wallets
      PROVE  Released(j, ws)[w].available = ws[w].available
  BY DEF Released, WalletDoc
<1>4. CASE \E i \in Jobs : ResolveBySync(j, i)
  <2>1. /\ net' = net
        /\ wallets' = Released(j, IF Acc(j) \in Users
                              THEN [wallets EXCEPT ![Acc(j)].available = net[Acc(j)]]
                              ELSE wallets)
        /\ vaults' = IF Acc(j) \in VaultIds
                 THEN [vaults EXCEPT ![Acc(j)].balance = net[Acc(j)]] ELSE vaults
        /\ Acc(j) \in Users \cup VaultIds
    BY <1>4 DEF ResolveBySync, Cache
  <2>2. [wallets EXCEPT ![Acc(j)].available = net[Acc(j)]] \in [Wallets -> WalletDoc]
    BY <1>1, <1>2 DEF WalletDoc
  <2>3. \A w \in Wallets : wallets'[w].available = IF w = Acc(j) /\ Acc(j) \in Users THEN net[Acc(j)] ELSE wallets[w].available
    BY <1>2, <1>3, <2>1, <2>2 DEF WalletDoc
  <2>4. \A v \in VaultIds : vaults'[v].balance = IF v = Acc(j) THEN net[Acc(j)]
            ELSE vaults[v].balance
    BY <1>2, <2>1 DEF VaultDoc
  <2>5. CASE a = Acc(j)
    <3>1. Balance(a)' = net[a]
      BY <2>1, <2>3, <2>4, <2>5, Apart DEF Balance
    <3> QED BY <1>1, <2>1, <2>5, <3>1 DEF LiveDrift
  <2>6. CASE a # Acc(j)
    BY <2>1, <2>3, <2>4, <2>6 DEF LiveDrift, Balance, Cached
  <2> QED BY <2>5, <2>6
<1>5. CASE \E i \in Jobs : ResolveByEntry(j, i)
  <2>1. PICK i \in Jobs : ResolveByEntry(j, i)
    BY <1>5
  <2>2. /\ Entries(Correction(j, i)) /\ wallets' = Released(j, wallets) /\ vaults' = vaults
    BY <2>1 DEF ResolveByEntry
  <2>3. \A b \in Cached : Correction(j, i)[b] = IF b = Acc(j) THEN LiveDrift(Acc(j)) ELSE 0
    BY <1>1, Apart DEF Correction, Move, NoLegs
  <2>4. net'[a] = net[a] + Correction(j, i)[a] /\ net[a] \in Int
    BY <1>2, <2>2, Apart DEF Entries
  <2>5. Balance(a)' = Balance(a)
    BY <1>2, <1>3, <2>2 DEF Balance, Cached
  <2> QED BY <1>1, <2>3, <2>4, <2>5 DEF LiveDrift
<1>6. CASE ~ (\E i \in Jobs : ResolveBySync(j, i)) /\ ~ (\E i \in Jobs : ResolveByEntry(j, i))
  <2>1. /\ net' = net /\ vaults' = vaults
        /\ \/ wallets' = wallets \/ wallets' = Released(j, wallets)
           \/ wallets' = [wallets EXCEPT ![Acc(j)].status = "RECONCILING"]
    BY <1>6 DEF OfRuns, ReconciliationStep, RunLock, RunSum, RunCompare, RunFreeze,
       RunAlert, RunComplete,
         RunAnnounce, RunFail, RunRelease, RunUnlock, ResolveOnly, ResolveRefused
  <2> QED BY <1>2, <1>3, <2>1, Unbooked DEF WalletDoc
<1> QED BY <1>4, <1>5, <1>6

\* A step leaves the drift of an account alone or removes it.
LEMMA Drift ==
  ASSUME Typed, [Next]_vars, NEW a \in Cached
  PROVE  LiveDrift(a)' = LiveDrift(a) \/ LiveDrift(a)' = 0
<1> USE DEF Typed, TypeOK
<1>1. ASSUME NEW j \in Jobs
      PROVE  /\ Usr(j) \in Accounts \ VaultIds /\ Job(j).peer \in Accounts \ VaultIds
             /\ Amt(j) \in Int /\ Fee(j) \in Int
             /\ {Revenue, Treasury, External} \subseteq Accounts \ VaultIds
  BY JobType, Apart, AccountAssumption DEF Fee
<1>2. ASSUME NEW j \in Jobs, OfMoney(j)
      PROVE  LiveDrift(a)' = LiveDrift(a)
  BY <1>1, <1>2, MovedBetween, Unbooked DEF OfMoney, OtherTransfer, OtherFunding
<1>3. ASSUME NEW j \in Jobs, OfFunding(j)
      PROVE  LiveDrift(a)' = LiveDrift(a)
  BY <1>1, <1>3, MovedBetween, Unbooked DEF OfFunding, FundStep, FundCheckKey, FundMove,
     FundCompleteKey, FundCommit
<1>4. ASSUME NEW j \in Jobs, OfFees(j)
      PROVE  LiveDrift(a)' = LiveDrift(a)
  <2>1. CASE RefundCommit(j)
    BY <1>1, <2>1, MovedBetween, Unbooked DEF RefundCommit
  <2> QED BY <1>4, <2>1, Unbooked DEF OfFees, FeeStep, WaiverRead, WaiveWrite, SweepRead,
             SweepCreate, SweepMark,
         SweepComplete, SweepFail
<1>5. ASSUME NEW j \in Jobs, OfReversals(j)
      PROVE  LiveDrift(a)' = LiveDrift(a)
  <2>0. vaults' = vaults
    BY <1>5 DEF OfReversals, ReversalStep, ReverseCheck, ReverseCheckFee, ReverseRead,
       ReverseCreate, ReverseCommit, ReverseCommitError, ReverseReadBack,
       ReverseMarkFailed
  <2>1. CASE TakeBack(j)
    <3>1. \A v \in VaultIds : vaults[v].balance \in Int
      BY DEF BooksTypeOK, VaultDoc
    <3> QED BY <2>0, <2>1, <3>1, ReversalValue, AfterWallet, Booked DEF TakeBack
  <2>2. ~ TakeBack(j) => net' = net /\ wallets' = wallets
    BY <1>5 DEF OfReversals, ReversalStep, ReverseCheck, ReverseCheckFee, ReverseRead,
       ReverseCreate, ReverseCommit, ReverseCommitError, ReverseReadBack,
       ReverseMarkFailed, NothingTakenBack
  <2> QED BY <2>0, <2>1, <2>2, Unbooked
<1>6. ASSUME NEW j \in Jobs, OfConsumer(j) \/ OfReadModel(j) \/ OfMail(j) \/ OfAdmins(j)
          \/ OfFaults(j)
      PROVE  LiveDrift(a)' = LiveDrift(a)
  BY <1>6, Unbooked DEF OfConsumer, OfReadModel, OfMail, OfAdmins, OfFaults, documents,
     TxnError, CrashJob
<1>7. VaultsTick => LiveDrift(a)' = LiveDrift(a)
  BY Unbooked DEF VaultsTick, VaultClock, VaultLockExpires, VaultMatures, BooksTypeOK,
     VaultDoc
<1>8. RunLockTick \/ QueueTick \/ UNCHANGED vars => LiveDrift(a)' = LiveDrift(a)
  BY Unbooked DEF RunLockTick, RunLockExpires, QueueTick, vars, documents
<1> QED BY <1>2, <1>3, <1>4, <1>5, <1>6, <1>7, <1>8, VaultDrift, RunDrift, Moves

\* What wallets and vaults cache is what the ledger sums up to, save for the
\* drift there was at the start, which only a resolution takes away: no
\* service updates a balance without its entries (vault, fee, funding,
\* reversal and reconciliation services).
THEOREM BooksStayInAgreement == Spec => []BooksAgree
<1>1. Init => BooksAgree
  <2> SUFFICES ASSUME Init, NEW a \in Cached PROVE LiveDrift(a) = InitialDrift[a]
    BY DEF BooksAgree
  <2>1. /\ InitialBalance[a] \in Int /\ InitialDrift[a] \in Int /\ a \in Accounts
        /\ net[a] = InitialBalance[a] - InitialDrift[a]
    BY InitialAssumption, Apart DEF Init, BooksInit, NetInit
  <2>2. Balance(a) = InitialBalance[a]
    BY InitialAssumption DEF Init, BooksInit, Balance, Cached
  <2> QED BY <2>1, <2>2 DEF LiveDrift
<1>2. Typed /\ BooksAgree /\ [Next]_vars => BooksAgree'
  BY Drift DEF BooksAgree
<1>3. Spec => []Typed
  BY InitTyped, TypedStep, PTL DEF Spec
<1> QED BY <1>1, <1>2, <1>3, PTL DEF Spec

-----------------------------------------------------------------------------
(* Double entry.                                                           *)

\* The legs x of a, y of b and z of c.
Legs(a, x, b, y, c, z) == [NoLegs EXCEPT ![a] = x, ![b] = y, ![c] = z]

Cancel(x, y, z) == x + y + z = 0

\* Legs of three accounts that cancel out sum up to zero.
LEMMA LegsBalance ==
  ASSUME NEW a \in Accounts, NEW b \in Accounts, NEW c \in Accounts,
         a # b, b # c, a # c,
         NEW x \in Int, NEW y \in Int, NEW z \in Int, Cancel(x, y, z)
  PROVE  /\ Legs(a, x, b, y, c, z) \in [Accounts -> Int]
         /\ Total(Legs(a, x, b, y, c, z)) = 0
<1> DEFINE f == Legs(a, x, b, y, c, z)
           A == Accounts
<1>1. f \in [Accounts -> Int]
  BY LegsType DEF Legs
<1>2. f[a] = x /\ f[b] = y /\ f[c] = z /\ \A d \in Accounts \ {a, b, c} : f[d] = 0
  BY DEF Legs, NoLegs
<1>3. IsFiniteSet(A)
  BY AccountAssumption
<1> HIDE DEF f
<1>4. Sum(f, A) = x + Sum(f, A \ {a})
  BY <1>1, <1>2, <1>3, SumRemove
<1>5. IsFiniteSet(A \ {a}) /\ IsFiniteSet((A \ {a}) \ {b})
          /\ IsFiniteSet(((A \ {a}) \ {b}) \ {c})
  BY <1>3, FS_Subset
<1>6. Sum(f, A \ {a}) = y + Sum(f, (A \ {a}) \ {b})
  <2>1. b \in A \ {a} /\ \A d \in A \ {a} : f[d] \in Int
    BY <1>1
  <2> QED BY <1>2, <1>5, <2>1, SumRemove
<1>7. Sum(f, (A \ {a}) \ {b}) = z + Sum(f, ((A \ {a}) \ {b}) \ {c})
  <2>1. c \in (A \ {a}) \ {b} /\ \A d \in (A \ {a}) \ {b} : f[d] \in Int
    BY <1>1
  <2> QED BY <1>2, <1>5, <2>1, SumRemove
<1>8. Sum(f, ((A \ {a}) \ {b}) \ {c}) = 0
  <2>1. \A d \in ((A \ {a}) \ {b}) \ {c} : f[d] = 0
    BY <1>2
  <2> QED BY <1>5, <2>1, SumZero
<1>9. Total(f) = Sum(f, A)
  BY DEF Total, Sum
<1> QED BY <1>1, <1>4, <1>6, <1>7, <1>8, <1>9 DEF f, Cancel

\* A movement between two accounts sums up to zero.
LEMMA MoveBalance ==
  ASSUME NEW from \in Accounts, NEW to \in Accounts, from # to, NEW n \in Int
  PROVE  Total(Move(from, to, n)) = 0
<1> DEFINE f == Move(from, to, n)
           A == Accounts
<1>1. f \in [Accounts -> Int]
  BY MoveType
<1>2. f[from] = -n /\ f[to] = n /\ \A d \in Accounts \ {from, to} : f[d] = 0
  BY DEF Move, NoLegs
<1>3. IsFiniteSet(A)
  BY AccountAssumption
<1> HIDE DEF f
<1>4. Sum(f, A) = -n + Sum(f, A \ {from})
  BY <1>1, <1>2, <1>3, SumRemove
<1>5. IsFiniteSet(A \ {from}) /\ IsFiniteSet((A \ {from}) \ {to})
  BY <1>3, FS_Subset
<1>6. Sum(f, A \ {from}) = n + Sum(f, (A \ {from}) \ {to})
  <2>1. to \in A \ {from} /\ \A d \in A \ {from} : f[d] \in Int
    BY <1>1
  <2> QED BY <1>2, <1>5, <2>1, SumRemove
<1>7. Sum(f, (A \ {from}) \ {to}) = 0
  <2>1. \A d \in (A \ {from}) \ {to} : f[d] = 0
    BY <1>2
  <2> QED BY <1>5, <2>1, SumZero
<1>8. Total(f) = Sum(f, A)
  BY DEF Total, Sum
<1> QED BY <1>4, <1>6, <1>7, <1>8 DEF f

\* The total of the ledger is a sum over its accounts.
LEMMA TotalIs == \A f : Total(f) = Sum(f, Accounts)
BY DEF Total, Sum

\* Entries that sum up to zero leave the total of the ledger as it was.
LEMMA EntriesBalance ==
  ASSUME BooksTypeOK, NEW legs \in [Accounts -> Int], Total(legs) = 0, Entries(legs)
  PROVE  Total(net') = Total(net)
<1>1. \A a \in Accounts : net[a] \in Int /\ legs[a] \in Int /\ net'[a] = net[a] + legs[a]
  BY DEF Entries, BooksTypeOK
<1>2. IsFiniteSet(Accounts)
  BY AccountAssumption
<1>3. Sum(net', Accounts) = Sum(net, Accounts) + Sum(legs, Accounts)
  BY <1>1, <1>2, SumPlus
<1>4. Sum(net, Accounts) \in Int
  BY <1>1, <1>2, SumType
<1> QED BY <1>3, <1>4, TotalIs

\* So do entries between two accounts.
LEMMA MovedBalance ==
  ASSUME BooksTypeOK, NEW from \in Accounts, NEW to \in Accounts, from # to, NEW n \in Int,
         Entries(Move(from, to, n))
  PROVE  Total(net') = Total(net)
BY MoveType, MoveBalance, EntriesBalance

\* Every step leaves the total of the ledger as it was.
LEMMA BalanceKept ==
  ASSUME Typed, [Next]_vars
  PROVE  Total(net') = Total(net)
<1> USE DEF Typed, TypeOK
<1>1. ASSUME NEW j \in Jobs
      PROVE  /\ Usr(j) \in Users /\ Job(j).peer \in Users /\ Vlt(j) \in VaultIds
             /\ Usr(j) \in Accounts /\ Job(j).peer \in Accounts /\ Vlt(j) \in Accounts
             /\ Usr(j) # Vlt(j) /\ Revenue # Vlt(j) /\ Usr(j) # Revenue /\ Job(j).peer # Revenue
             /\ External # Usr(j) /\ Treasury # Usr(j)
             /\ Revenue \in Accounts /\ Treasury \in Accounts /\ External \in Accounts
             /\ Adjustments \in Accounts
             /\ Amt(j) \in Nat /\ Fee(j) \in Nat /\ asked[j] \in Int
  BY JobType, Apart, AccountAssumption DEF Fee, ServicesTypeOK
<1>2. ASSUME NEW j \in Jobs, OfMoney(j) PROVE Total(net') = Total(net)
  <2>1. CASE net' = net BY <2>1
  <2>2. CASE net' # net
    <3>1. CASE OtherTransfer(j)
      <4>1. Usr(j) # Job(j).peer /\ Entries(Move(Usr(j), Job(j).peer, Amt(j)))
        BY <2>2, <3>1 DEF OtherTransfer
      <4> QED BY <1>1, <4>1, MovedBalance
    <3>2. CASE OtherFunding(j)
      <4>1. Entries(Move(External, Usr(j), Amt(j)))
        BY <2>2, <3>2 DEF OtherFunding
      <4> QED BY <1>1, <4>1, MovedBalance
    <3> QED BY <1>2, <3>1, <3>2 DEF OfMoney
  <2> QED BY <2>1, <2>2
<1>3. ASSUME NEW j \in Jobs, OfFunding(j) PROVE Total(net') = Total(net)
  <2>1. net' = net \/ Entries(Move(Treasury, Usr(j), Amt(j)))
    BY <1>3 DEF OfFunding, FundStep, FundCheckKey, FundMove, FundCompleteKey, FundCommit
  <2> QED BY <1>1, <2>1, MovedBalance
<1>4. ASSUME NEW j \in Jobs, OfFees(j) PROVE Total(net') = Total(net)
  <2>1. net' = net \/ Entries(Move(Revenue, Usr(j), Fee(j)))
    BY <1>4 DEF OfFees, FeeStep, WaiverRead, WaiveWrite, RefundCommit, SweepRead,
       SweepCreate, SweepMark,
         SweepComplete, SweepFail
  <2> QED BY <1>1, <2>1, MovedBalance
<1>5. ASSUME NEW j \in Jobs, OfVaults(j) PROVE Total(net') = Total(net)
  <2>1. net' = net \/ Entries(DepositLegs(j)) \/ Entries(WithdrawLegs(j))
    BY <1>5 DEF OfVaults, VaultStep, CreateRead, CreateCommit, DepositCheckKey, DepositLock,
       DepositCommit,
       DepositCompleteKey, WithdrawCheckKey, WithdrawCommit, WithdrawCompleteKey, CloseRead,
       CloseCancel,
       CloseEmit, EditRead, EditWrite
  <2>2. CASE Entries(DepositLegs(j))
    BY <1>1, <2>2, MovedBalance DEF DepositLegs
  <2>3. CASE Entries(WithdrawLegs(j))
    <3> DEFINE n == asked[j]
               p == Penalty(Vlt(j), asked[j])
    <3>1. p \in Int /\ n \in Int
      <4>1. vaults \in [VaultIds -> VaultDoc]
        BY DEF BooksTypeOK
      <4> QED BY <1>1, <4>1, PenaltyType
    <3> DEFINE x == -n
               y == n - p
               a == Vlt(j)
               b == Usr(j)
    <3>2. WithdrawLegs(j) = Legs(a, x, b, y, Revenue, p)
      BY DEF WithdrawLegs, Legs
    <3>3. x \in Int /\ y \in Int /\ Cancel(x, y, p)
      BY <3>1 DEF Cancel
    <3>6. a \in Accounts /\ b \in Accounts /\ Revenue \in Accounts
          /\ a # b /\ b # Revenue /\ a # Revenue
      BY <1>1
    <3> HIDE DEF n, p, x, y, a, b
    <3>4. Total(WithdrawLegs(j)) = 0
      BY <3>1, <3>2, <3>3, <3>6, LegsBalance
    <3>5. WithdrawLegs(j) \in [Accounts -> Int]
      BY <3>1, <3>2, <3>3, <3>6, LegsBalance
    <3> QED BY <2>3, <3>4, <3>5, EntriesBalance
  <2> QED BY <2>1, <2>2, <2>3
<1>6. ASSUME NEW j \in Jobs, OfReversals(j) PROVE Total(net') = Total(net)
  <2>1. Job(j).kind = "reverse"
    BY <1>6, ReversalFrame DEF OfReversals, Keeps
  <2>2. net' = net \/ Entries(ReversalLegs(j))
    BY <1>6 DEF OfReversals, ReversalStep, ReverseCheck, ReverseCheckFee, ReverseRead,
       ReverseCreate, ReverseCommit, ReverseCommitError, ReverseReadBack,
       ReverseMarkFailed, NothingTakenBack, TakeBack
  <2>3. Usr(j) # Job(j).peer
    BY <2>1, JobType
  <2> DEFINE n == Amt(j)
             f == FeeBack(j)
  <2>4. n \in Int /\ f \in Int
    BY <1>1 DEF FeeBack
  <2> DEFINE x == -n
             y == -f
             z == n + f
             a == Job(j).peer
             b == Usr(j)
  <2>5. ReversalLegs(j) = Legs(a, x, Revenue, y, b, z)
    BY DEF ReversalLegs, Legs
  <2>6. x \in Int /\ y \in Int /\ z \in Int /\ Cancel(x, y, z) 
    BY <2>4 DEF Cancel
  <2>9. a \in Accounts /\ b \in Accounts /\ Revenue \in Accounts
        /\ a # b /\ b # Revenue /\ a # Revenue
    BY <1>1, <2>3
  <2> HIDE DEF n, f, x, y, z, a, b
  <2>7. Total(ReversalLegs(j)) = 0
    BY <2>5, <2>6, <2>9, LegsBalance
  <2>8. ReversalLegs(j) \in [Accounts -> Int]
    BY ReversalValue
  <2> QED BY <2>2, <2>7, <2>8, EntriesBalance
<1>7. ASSUME NEW j \in Jobs, OfRuns(j) PROVE Total(net') = Total(net)
  <2>1. CASE \E i \in Jobs : ResolveByEntry(j, i)
    <3>1. Entries(Move(Adjustments, Acc(j), LiveDrift(Acc(j))))
      BY <2>1 DEF ResolveByEntry, Correction
    <3>2. /\ Acc(j) \in Cached /\ Balance(Acc(j)) \in Int /\ net[Acc(j)] \in Int
          /\ Acc(j) \in Accounts /\ Adjustments # Acc(j)
      BY JobType, BalanceType, Apart DEF Acc
    <3>3. LiveDrift(Acc(j)) \in Int
      BY <3>2 DEF LiveDrift
    <3> QED BY <1>1, <3>1, <3>2, <3>3, MovedBalance
  <2>2. CASE ~ \E i \in Jobs : ResolveByEntry(j, i)
    <3>1. net' = net
      BY <1>7, <2>2 DEF OfRuns, ReconciliationStep, RunLock, RunSum, RunCompare, RunFreeze,
         RunAlert,
         RunComplete, RunAnnounce, RunFail, RunRelease, RunUnlock, ResolveBySync, ResolveOnly,
         ResolveRefused
    <3> QED BY <3>1
  <2> QED BY <2>1, <2>2
<1>8. ASSUME NEW j \in Jobs, OfConsumer(j) \/ OfReadModel(j) \/ OfMail(j) \/ OfAdmins(j)
          \/ OfFaults(j)
      PROVE  net' = net
  BY <1>8 DEF OfConsumer, OfReadModel, OfMail, OfAdmins, OfFaults, documents, TxnError,
     CrashJob
<1>9. VaultsTick \/ RunLockTick \/ QueueTick \/ UNCHANGED vars => net' = net
  BY DEF VaultsTick, VaultClock, VaultLockExpires, VaultMatures, RunLockTick,
     RunLockExpires, QueueTick, vars, documents
<1> QED BY <1>2, <1>3, <1>4, <1>5, <1>6, <1>7, <1>8, <1>9, Moves

\* The books hold (every ledger transaction of the back office): what is
\* cached agrees with the ledger, and what one account gains others lose, so
\* that the entries of all accounts together sum up to what they did at the
\* start.
THEOREM BooksAreBalanced == Spec => []BooksHold
<1>1. Init => LedgerBalanced
  BY DEF Init, BooksInit, LedgerBalanced
<1>2. Typed /\ LedgerBalanced /\ [Next]_vars => LedgerBalanced'
  BY BalanceKept DEF LedgerBalanced
<1>3. Spec => []Typed
  BY InitTyped, TypedStep, PTL DEF Spec
<1>4. Spec => []LedgerBalanced
  BY <1>1, <1>2, <1>3, PTL DEF Spec
<1> QED BY <1>4, BooksStayInAgreement, PTL DEF BooksHold

-----------------------------------------------------------------------------
(* Deposits into vaults.                                                   *)

\* A job is moved on by its own steps alone.
LEMMA Own ==
  ASSUME Typed, [Next]_vars, NEW i \in Jobs, pc'[i] # pc[i]
  PROVE  \/ OfMoney(i) \/ OfFunding(i) \/ OfVaults(i) \/ OfFees(i) \/ OfReversals(i)
         \/ OfRuns(i) \/ OfMail(i) \/ OfAdmins(i)
         \/ OfFaults(i) /\ pc'[i] \in {"failed", "crashed"}
<1>1. PICK j \in Jobs :
           \/ OfMoney(j) \/ OfFunding(j) \/ OfVaults(j) \/ OfFees(j) \/ OfReversals(j)
           \/ OfRuns(j) \/ OfMail(j) \/ OfAdmins(j) \/ OfFaults(j)
  <2>1. ~ VaultsTick /\ ~ RunLockTick /\ ~ QueueTick /\ ~ UNCHANGED vars
    BY DEF VaultsTick, VaultClock, VaultLockExpires, VaultMatures, RunLockTick,
       RunLockExpires,
       QueueTick, RedisLoss, QueueForget, vars
  <2>2. \A j \in Jobs : ~ OfConsumer(j) /\ ~ OfReadModel(j)
    BY DEF OfConsumer, OfReadModel
  <2> QED BY <2>1, <2>2, Moves DEF Typed, TypeOK
<1>2. \A k \in Jobs \ {j} : pc'[k] = pc[k]
  BY <1>1 DEF Keeps, OfMoney, OfFunding, OfVaults, OfFees, OfReversals, OfRuns, OfMail,
     OfAdmins, OfFaults
<1>3. i = j
  BY <1>2
<1>4. OfFaults(j) => pc'[j] \in {"failed", "crashed"}
  BY DEF OfFaults, TxnError, CrashJob, Goto, Typed, TypeOK, BooksTypeOK
<1> QED BY <1>1, <1>3, <1>4

\* The same of vault requests: it is the vault service that moves them.
LEMMA VaultOwn ==
  ASSUME Typed, [Next]_vars, NEW i \in Jobs, pc'[i] # pc[i],
         Job(i).kind \in {"create", "deposit", "withdraw", "close", "edit"}
  PROVE  OfVaults(i) \/ pc'[i] \in {"failed", "crashed"}
BY Own DEF OfMoney, OfFunding, OfFees, OfReversals, OfRuns, OfMail, OfAdmins, Keeps

\* What is asked for does not change.
LEMMA SameWork ==
  ASSUME Typed, [Next]_vars
  PROVE  workload' = workload
BY Moves DEF Typed, TypeOK, Keeps, OfMoney, OfFunding, OfVaults, OfFees, OfReversals,
   OfRuns, OfMail, OfAdmins, OfFaults,
     OfConsumer, OfReadModel, documents, VaultsTick, VaultClock, VaultLockExpires,
     VaultMatures, RunLockTick, RunLockExpires,
       QueueTick, vars

\* Only vault requests insert the references of vault transactions, and a
\* completed key stays completed.
LEMMA VaultRefs ==
  ASSUME Typed, [Next]_vars, ~ \E j \in Jobs : OfVaults(j)
  PROVE  /\ \A r : r[1] = "vault" => (r \in refs' <=> r \in refs)
         /\ \A k \in Keys : Completed(k) => Completed(k)'
<1> USE DEF Typed, TypeOK
<1>1. ASSUME NEW j \in Jobs, OfMoney(j) \/ OfFees(j) \/ OfReversals(j) \/ OfRuns(j)
          \/ OfConsumer(j) \/ OfReadModel(j) \/ OfMail(j) \/ OfAdmins(j) \/ OfFaults(j)
      PROVE  idem' = idem
  BY <1>1 DEF OfMoney, OtherTransfer, OtherFunding, OfConsumer, OfReadModel, OfMail,
     OfAdmins, OfFaults, documents, TxnError, CrashJob,
    OfFees, FeeStep, WaiverRead, WaiveWrite, RefundCommit, SweepRead, SweepCreate,
    SweepMark,
         SweepComplete, SweepFail, OfReversals, ReversalStep, ReverseCheck, ReverseCheckFee,
         ReverseRead,
       ReverseCreate, ReverseCommit, ReverseCommitError, ReverseReadBack,
       ReverseMarkFailed, OfRuns, ReconciliationStep, RunLock, RunSum, RunCompare,
       RunFreeze, RunAlert, RunComplete,
         RunAnnounce, RunFail, RunRelease, RunUnlock, ResolveBySync, ResolveByEntry, ResolveOnly,
         Resolved, ResolveRefused
<1>2. ASSUME NEW j \in Jobs, OfMoney(j) \/ OfFunding(j) \/ OfFees(j) \/ OfReversals(j)
          \/ OfRuns(j) \/ OfConsumer(j) \/ OfReadModel(j) \/ OfMail(j) \/ OfAdmins(j)
                 \/ OfFaults(j)
      PROVE  refs' = refs
                \/ \E d : refs' \in {refs \cup {<<"refund", d>>}, refs \cup {<<"fund", d>>}, refs \cup {<<"reversal", d>>}}
  <2>1. CASE OfMoney(j) \/ OfRuns(j) \/ OfConsumer(j) \/ OfReadModel(j) \/ OfMail(j)
                 \/ OfAdmins(j) \/ OfFaults(j)
    BY <2>1 DEF OfMoney, OtherTransfer, OtherFunding, OfConsumer, OfReadModel, OfMail,
       OfAdmins, OfFaults, documents, TxnError, CrashJob,
         OfRuns, ReconciliationStep, RunLock, RunSum, RunCompare, RunFreeze, RunAlert,
         RunComplete,
         RunAnnounce, RunFail, RunRelease, RunUnlock, ResolveBySync, ResolveByEntry, ResolveOnly,
         Resolved, ResolveRefused
  <2>2. CASE OfFunding(j)
    BY <2>2 DEF OfFunding, FundStep, FundCheckKey, FundMove, FundCompleteKey, FundCommit
  <2>3. CASE OfFees(j)
    BY <2>3 DEF OfFees, FeeStep, WaiverRead, WaiveWrite, RefundCommit, SweepRead,
       SweepCreate, SweepMark,
         SweepComplete, SweepFail
  <2>4. CASE OfReversals(j)
    BY <2>4 DEF OfReversals, ReversalStep, ReverseCheck, ReverseCheckFee, ReverseRead,
       ReverseCreate, ReverseCommit, ReverseCommitError, ReverseReadBack,
       ReverseMarkFailed, TakeBack, NothingTakenBack
  <2> QED BY <1>2, <2>1, <2>2, <2>3, <2>4
<1>3. ASSUME NEW j \in Jobs, OfFunding(j) PROVE \A k \in Keys : Completed(k) => Completed(k)'
  BY <1>3 DEF OfFunding, FundStep, FundCheckKey, FundMove, FundCompleteKey, FundCommit,
     OpenKey, CompleteKey, Completed, BooksTypeOK
<1>4. VaultsTick \/ RunLockTick \/ QueueTick \/ UNCHANGED vars => refs' = refs /\ idem' = idem
  BY DEF VaultsTick, VaultClock, VaultLockExpires, VaultMatures, RunLockTick,
     RunLockExpires, QueueTick, vars, documents
<1> QED BY <1>1, <1>2, <1>3, <1>4, Moves DEF Completed

\* Every step keeps what makes a deposit booked once: a deposit that is about
\* to commit or is booked has a completed key, and no other deposit of that
\* key is as far.
LEMMA DepositStep ==
  ASSUME Typed, DepositInv, [Next]_vars
  PROVE  DepositInv'
<1> USE DEF Typed, TypeOK
<1>0. workload' = workload
  BY SameWork
<1>1. ASSUME NEW j \in Jobs, OfVaults(j) PROVE DepositInv'
  <2>1. /\ \A i \in Jobs \ {j} : pc'[i] = pc[i]
        /\ \A i \in Jobs : Job(i).key \in Keys /\ Job(i)' = Job(i)
        /\ pc \in [Jobs -> Labels]
        /\ idem \in [Keys -> {"NONE", "IN_PROGRESS", "COMPLETED"}]
    BY <1>0, <1>1, JobType DEF OfVaults, Keeps, Job, BooksTypeOK
  <2>2. CASE DepositCompleteKey(j)
    BY <1>1, <2>1, <2>2 DEF DepositCompleteKey, DepositInv, Deposited, Completed,
       CompleteKey, Goto, At
  <2>3. CASE DepositCommit(j)
    BY <1>1, <2>1, <2>3 DEF DepositCommit, DepositInv, Deposited, Completed, Goto, At
  <2>4. CASE ~ DepositCompleteKey(j) /\ ~ DepositCommit(j)
    <3>1. pc'[j] # "depositCommit"
      BY <1>1, <2>1, <2>4 DEF OfVaults, VaultStep, CreateRead, CreateCommit,
         DepositCheckKey, DepositLock,
    WithdrawCheckKey, WithdrawCommit, WithdrawCompleteKey, CloseRead, CloseCancel,
    CloseEmit, EditRead, EditWrite, Goto
    <3>2. refs' = refs \/ refs' = refs \cup {<<"withdraw", j>>}
      BY <1>1, <2>4 DEF OfVaults, VaultStep, CreateRead, CreateCommit, DepositCheckKey,
         DepositLock,
    WithdrawCheckKey, WithdrawCommit, WithdrawCompleteKey, CloseRead, CloseCancel,
    CloseEmit, EditRead, EditWrite
    <3>3. \A k \in Keys : Completed(k) => Completed(k)'
      BY <1>1, <2>1, <2>4 DEF OfVaults, VaultStep, CreateRead, CreateCommit,
         DepositCheckKey, DepositLock,
    WithdrawCheckKey, WithdrawCommit, WithdrawCompleteKey, CloseRead, CloseCancel,
    CloseEmit, EditRead, EditWrite, OpenKey, CompleteKey, Completed
    <3>4. \A r : r[1] = "vault" => (r \in refs' <=> r \in refs)
      BY <3>2
    <3> QED BY <2>1, <3>1, <3>3, <3>4 DEF DepositInv, Deposited
  <2> QED BY <2>2, <2>3, <2>4
<1>2. CASE ~ \E j \in Jobs : OfVaults(j)
  <2>1. \A i \in Jobs : Job(i).key \in Keys /\ Job(i)' = Job(i)
    BY <1>0, JobType DEF Job
  <2>2. \A i \in Jobs : pc'[i] = "depositCommit" => pc[i] = "depositCommit"
    <3>1. SUFFICES ASSUME NEW i \in Jobs, pc'[i] = "depositCommit", pc[i] # "depositCommit"
                   PROVE FALSE
      OBVIOUS
    <3>2. Job(i).kind = "deposit"
      BY <1>0, <3>1, TypedStep DEF PcInv, Only, Job
    <3> QED BY <1>2, <3>1, <3>2, VaultOwn
  <2>3. \A i \in Jobs : pc[i] = "depositCommit" /\ pc'[i] # pc[i] => TRUE
    OBVIOUS
  <2> QED BY <2>1, <2>2, <1>2, VaultRefs DEF DepositInv, Deposited
<1> QED BY <1>1, <1>2

\* A deposit into a vault is booked once however often it is sent,
\* interrupted and retried with its key (depositToVault): the key is
\* completed before the transaction commits, and DepositInv ties it to the
\* step its request is at.
THEOREM DepositIsBookedOnce == Spec => []DepositOnce
<1>1. Init => DepositInv
  BY DEF Init, BooksInit, DepositInv, Deposited
<1>2. Typed /\ DepositInv => DepositOnce
  BY DEF DepositInv, Deposited, DepositOnce
<1>3. Spec => []Typed
  BY InitTyped, TypedStep, PTL DEF Spec
<1> QED BY <1>1, <1>2, <1>3, DepositStep, PTL DEF Spec

-----------------------------------------------------------------------------
(* A vault under deposit.                                                  *)

\* Only vault requests and clocks touch the locks and statuses of the vaults,
\* and balances move without them by resolutions alone.
LEMMA VaultQuiet ==
  ASSUME Typed, [Next]_vars, ~ VaultsTick, ~ \E j \in Jobs : OfVaults(j)
  PROVE  /\ UNCHANGED vaultState
         /\ \A v \in VaultIds : /\ vaults'[v].lock = vaults[v].lock
                                /\ vaults'[v].status = vaults[v].status
         /\ \A v \in VaultIds : \/ vaults'[v].balance = vaults[v].balance
                                \/ \E j \in Jobs : /\ OfRuns(j) /\ Acc(j) = v
                                                   /\ LiveDrift(v) # 0
                                                   /\ Touch(j, {v})
                                                   /\ vaults'[v].balance = net[v]
                                                   /\ LiveDrift(v)' = 0
<1> USE DEF Typed, TypeOK
<1>1. vaults \in [VaultIds -> VaultDoc]
  BY DEF BooksTypeOK
<1>2. UNCHANGED vaultState
  BY Moves DEF OfMoney, OfFunding, OfFees, OfReversals, OfRuns, OfMail, OfAdmins, OfFaults,
     OfConsumer, OfReadModel, services, RunLockTick, QueueTick, vars, vaultState
<1>3. CASE \E j \in Jobs, i \in Jobs : OfRuns(j) /\ ResolveBySync(j, i)
  <2>1. PICK j \in Jobs, i \in Jobs : OfRuns(j) /\ ResolveBySync(j, i)
    BY <1>3
  <2>2. /\ vaults' = IF Acc(j) \in VaultIds
                 THEN [vaults EXCEPT ![Acc(j)].balance = net[Acc(j)]] ELSE vaults
        /\ LiveDrift(Acc(j)) # 0 /\ Touch(j, {Acc(j)}) /\ net' = net
    BY <2>1 DEF ResolveBySync, Correcting
  <2>3. \A v \in VaultIds : /\ vaults'[v].lock = vaults[v].lock
                            /\ vaults'[v].status = vaults[v].status
                            /\ vaults'[v].balance = IF v = Acc(j) THEN net[v]
                                   ELSE vaults[v].balance
    BY <1>1, <2>2 DEF VaultDoc
  <2>4. \A v \in VaultIds : v = Acc(j) => LiveDrift(v)' = 0
    BY <2>2, <2>3, BalanceType, Apart DEF LiveDrift, Balance
  <2> QED BY <1>2, <2>1, <2>2, <2>3, <2>4
<1>4. CASE ~ \E j \in Jobs, i \in Jobs : OfRuns(j) /\ ResolveBySync(j, i)
  <2>1. vaults' = vaults
    <3>1. ASSUME NEW j \in Jobs, OfMoney(j) \/ OfFunding(j) \/ OfConsumer(j)
              \/ OfReadModel(j) \/ OfMail(j) \/ OfAdmins(j) \/ OfFaults(j)
          PROVE  vaults' = vaults
      BY <3>1 DEF OfMoney, OtherTransfer, OtherFunding, OfConsumer, OfReadModel, OfMail,
         OfAdmins, OfFaults, documents, TxnError, CrashJob,
         OfFunding, FundStep, FundCheckKey, FundMove, FundCompleteKey, FundCommit
    <3>2. ASSUME NEW j \in Jobs, OfFees(j) \/ OfReversals(j)
          PROVE  vaults' = vaults
      BY <3>2 DEF OfFees, FeeStep, WaiverRead, WaiveWrite, RefundCommit, SweepRead,
         SweepCreate, SweepMark,
         SweepComplete, SweepFail, OfReversals, ReversalStep, ReverseCheck, ReverseCheckFee,
         ReverseRead,
         ReverseCreate, ReverseCommit, ReverseCommitError, ReverseReadBack,
         ReverseMarkFailed
    <3>3. ASSUME NEW j \in Jobs, OfRuns(j) PROVE vaults' = vaults
      BY <1>4, <3>3 DEF OfRuns, ReconciliationStep, RunLock, RunSum, RunCompare, RunFreeze,
         RunAlert, RunComplete,
         RunAnnounce, RunFail, RunRelease, RunUnlock, ResolveByEntry, ResolveOnly, ResolveRefused
    <3> QED BY <3>1, <3>2, <3>3, Moves DEF RunLockTick, RunLockExpires, QueueTick, vars,
               documents
  <2> QED BY <1>2, <2>1
<1> QED BY <1>3, <1>4

\* Every step keeps a vault out of the reach of others while a deposit into
\* it is under way: nobody writes it, so that it stays unlocked and open.
LEMMA HeldStep ==
  ASSUME Typed, HeldInv, [Next]_vars
  PROVE  HeldInv'
<1> USE DEF Typed, TypeOK
<1>0. /\ \A i \in Jobs : Job(i)' = Job(i) /\ Vlt(i)' = Vlt(i) /\ Vlt(i) \in VaultIds
      /\ vaults \in [VaultIds -> VaultDoc]
  BY SameWork, JobType DEF Job, Vlt, BooksTypeOK
<1> SUFFICES ASSUME NEW i \in Jobs, pc'[i] \in Depositing
             PROVE  /\ Vlt(i) \in held'[i]
                    /\ vaults'[Vlt(i)].lock # "held"
                    /\ vaults'[Vlt(i)].status # "CANCELLED"
  BY <1>0 DEF HeldInv
<1>1. Job(i).kind = "deposit"
  BY <1>0, TypedStep DEF PcInv, Only, Depositing
<1>2. ASSUME OfVaults(i) PROVE /\ Vlt(i) \in held'[i]
                    /\ vaults'[Vlt(i)].lock # "held"
                    /\ vaults'[Vlt(i)].status # "CANCELLED"
  <2>1. DepositLock(i) \/ DepositCompleteKey(i)
    BY <1>2 DEF BooksTypeOK, OfVaults, VaultStep, CreateRead, CreateCommit, DepositCheckKey,
       DepositCommit,
    WithdrawCheckKey, WithdrawCommit, WithdrawCompleteKey, CloseRead, CloseCancel,
    CloseEmit, EditRead, EditWrite, Goto, Depositing
  <2>2. CASE DepositLock(i)
    BY <1>0, <2>2 DEF DepositLock, Goto, BooksTypeOK, Depositing, Usable, Lockable
  <2>3. CASE DepositCompleteKey(i)
    BY <1>0, <2>3 DEF DepositCompleteKey, Goto, At, BooksTypeOK, Depositing, HeldInv
  <2> QED BY <2>1, <2>2, <2>3
<1>3. CASE ~ OfVaults(i)
  <2>1. pc'[i] = pc[i] /\ pc[i] \in Depositing
    BY <1>1, <1>3, VaultOwn DEF Depositing
  <2>2. /\ Vlt(i) \in held[i]
        /\ vaults[Vlt(i)].lock # "held"
        /\ vaults[Vlt(i)].status # "CANCELLED"
    BY <2>1 DEF HeldInv
  <2>3. held'[i] = held[i]
    <3>1. ASSUME NEW j \in Jobs, 
           \/ OfMoney(j) \/ OfFunding(j) \/ OfVaults(j) \/ OfFees(j) \/ OfReversals(j)
           \/ OfRuns(j) \/ OfMail(j) \/ OfAdmins(j) 
          PROVE  held'[i] = held[i]
      <4>1. i # j
        BY <1>1, <1>3, <3>1 DEF Keeps, OfMoney, OfFunding, OfVaults, OfFees, OfReversals,
           OfRuns, OfMail, OfAdmins
      <4> QED BY <3>1, <4>1 DEF Keeps, OfMoney, OfFunding, OfVaults, OfFees, OfReversals,
                 OfRuns, OfMail, OfAdmins
    <3>2. ASSUME NEW j \in Jobs, OfFaults(j)
          PROVE  held'[i] = held[i]
      <4>1. pc'[j] \in {"failed", "crashed"}
        BY <3>2 DEF OfFaults, TxnError, CrashJob, Goto, BooksTypeOK
      <4>2. i # j
        BY <4>1, <2>1 DEF Depositing
      <4> QED BY <3>2, <4>2 DEF OfFaults, Keeps
    <3> QED BY <3>1, <3>2, Moves DEF OfConsumer, OfReadModel, documents, VaultsTick,
               VaultClock, VaultLockExpires, VaultMatures, RunLockTick, RunLockExpires,
       QueueTick, vars
  <2>4. /\ vaults'[Vlt(i)].lock # "held"
        /\ vaults'[Vlt(i)].status # "CANCELLED"
    <3>1. ASSUME NEW j \in Jobs, OfVaults(j) PROVE  /\ vaults'[Vlt(i)].lock # "held"
                 /\ vaults'[Vlt(i)].status # "CANCELLED"
      <4>1. i # j
        BY <1>3, <3>1
      <4>2. ASSUME NEW ds, Free(j, ds) PROVE Vlt(i) \notin ds
        BY <2>2, <4>1, <4>2 DEF Free
      <4>3. CASE WithdrawCommit(j)
        BY <1>0, <2>2, <4>2, <4>3 DEF WithdrawCommit, AfterWithdrawal
      <4>4. CASE CloseCancel(j)
        BY <1>0, <2>2, <4>2, <4>4 DEF CloseCancel
      <4>5. CASE DepositCommit(j)
        BY <1>0, <2>2, <4>5 DEF DepositCommit, VaultDoc
      <4>6. CASE EditWrite(j)
        BY <1>0, <2>2, <4>6 DEF EditWrite, VaultDoc
      <4>7. CASE ~ WithdrawCommit(j) /\ ~ CloseCancel(j) /\ ~ DepositCommit(j) /\ ~ EditWrite(j)
        BY <2>2, <3>1, <4>7 DEF OfVaults, VaultStep, CreateRead, CreateCommit,
           DepositCheckKey, DepositLock, DepositCompleteKey,
    WithdrawCheckKey, WithdrawCompleteKey, CloseRead, CloseEmit, EditRead
      <4> QED BY <4>3, <4>4, <4>5, <4>6, <4>7
    <3>2. CASE VaultsTick
      BY <1>0, <2>2, <3>2 DEF VaultsTick, VaultClock, VaultLockExpires, VaultMatures,
         VaultDoc
    <3>3. CASE ~ VaultsTick /\ ~ \E j \in Jobs : OfVaults(j)
      BY <1>0, <2>2, <3>3, VaultQuiet
    <3> QED BY <3>1, <3>2, <3>3
  <2> QED BY <2>2, <2>3, <2>4
<1> QED BY <1>2, <1>3

-----------------------------------------------------------------------------
(* Withdrawals from vaults.                                                *)

\* The steps of a vault request that write no document.
LEMMA VaultSilent ==
  ASSUME NEW j \in Jobs, OfVaults(j),
         ~ DepositCommit(j), ~ WithdrawCommit(j), ~ CloseCancel(j), ~ EditWrite(j)
  PROVE  /\ UNCHANGED <<stale, wallets, vaults, net, withdrawn>>
         /\ \/ asked' = asked
            \/ CloseRead(j)
BY DEF OfVaults, VaultStep, CreateRead, CreateCommit, DepositCheckKey, DepositLock,
   DepositCompleteKey,
    WithdrawCheckKey, WithdrawCompleteKey, CloseEmit, EditRead, CloseRead, vaultState

\* What a withdrawal does if it commits.
Withdrawing(j) ==
    /\ MayWithdraw(j)
    /\ Free(j, {Usr(j), Vlt(j)} \cup IF Penalty(Vlt(j), asked[j]) > 0 THEN {Revenue} ELSE {})

\* What the commit of a withdrawal writes.
LEMMA WithdrawalWrites ==
  ASSUME NEW j \in Jobs, WithdrawCommit(j)
  PROVE  IF Withdrawing(j)
         THEN /\ vaults' = AfterWithdrawal(Vlt(j), asked[j])
              /\ withdrawn' = withdrawn \cup {<<j, expiries[Vlt(j)]>>}
              /\ pc[j] = "withdraw" /\ Goto(j, "withdrawKey")
              /\ Touch(j, {Usr(j), Vlt(j)} \cup IF Penalty(Vlt(j), asked[j]) > 0 THEN {Revenue} ELSE {})
              /\ UNCHANGED <<held, idem, asked, expiries>>
         ELSE /\ UNCHANGED <<vaults, withdrawn, held, idem, asked, expiries, stale>>
              /\ Goto(j, "failed")
BY DEF WithdrawCommit, Withdrawing, At

\* The clocks of the vaults touch one vault: its lock runs out or it matures.
LEMMA VaultTick ==
  ASSUME Typed, VaultsTick
  PROVE  /\ UNCHANGED <<pc, stale, workload, asked, withdrawn, idem, net, wallets>>
         /\ \E u \in VaultIds :
               /\ \A v \in VaultIds :
                     /\ vaults'[v].balance = vaults[v].balance
                     /\ vaults'[v].status = vaults[v].status
                     /\ v # u => vaults'[v] = vaults[v] /\ expiries'[v] = expiries[v]
               /\ \/ expiries' = expiries /\ vaults'[u].lock = vaults[u].lock
                  \/ expiries'[u] = expiries[u] + 1 /\ vaults[u].lock = "held" 
<1>1. vaults \in [VaultIds -> VaultDoc] /\ expiries \in [VaultIds -> Nat]
  BY DEF Typed, TypeOK, BooksTypeOK, ServicesTypeOK
<1>2. PICK u \in VaultIds : VaultLockExpires(u) \/ VaultMatures(u)
  BY DEF VaultsTick, VaultClock
<1>3. CASE VaultLockExpires(u)
  BY <1>1, <1>3 DEF VaultLockExpires, VaultDoc
<1>4. CASE VaultMatures(u)
  BY <1>1, <1>4 DEF VaultMatures, VaultDoc, vaultState
<1> QED BY <1>2, <1>3, <1>4

\* Every step keeps withdrawals one lock apart: the lock a withdrawal has set
\* is free again only after it has expired, so that the next finds another
\* count of expiries.
LEMMA SpacedStep ==
  ASSUME Typed, HeldInv, SpacedInv, WithdrawalsSpaced, [Next]_vars
  PROVE  SpacedInv' /\ WithdrawalsSpaced'
<1> USE DEF Typed, TypeOK
<1>0. /\ \A i \in Jobs : Vlt(i)' = Vlt(i) /\ Vlt(i) \in VaultIds
      /\ vaults \in [VaultIds -> VaultDoc] /\ expiries \in [VaultIds -> Nat]
  BY SameWork, JobType DEF Job, Vlt, BooksTypeOK, ServicesTypeOK
<1>1. ASSUME withdrawn' = withdrawn, NEW u \in VaultIds, expiries' = expiries,
             \A v \in VaultIds : /\ v # u => vaults'[v].lock = vaults[v].lock
                                 /\ v = u
                                         => vaults'[v].lock = vaults[v].lock
                                                \/ vaults[v].lock # "held"
      PROVE  SpacedInv' /\ WithdrawalsSpaced'
  BY <1>0, <1>1 DEF SpacedInv, WithdrawalsSpaced
<1>2. ASSUME NEW j \in Jobs, OfVaults(j) PROVE SpacedInv' /\ WithdrawalsSpaced'
  <2>1. CASE WithdrawCommit(j) /\ Withdrawing(j)
    <3>1. /\ vaults' = AfterWithdrawal(Vlt(j), asked[j])
          /\ withdrawn' = withdrawn \cup {<<j, expiries[Vlt(j)]>>}
          /\ expiries' = expiries /\ vaults[Vlt(j)].lock # "held"
      BY <2>1, WithdrawalWrites DEF Withdrawing, MayWithdraw, Lockable
    <3>2. \A v \in VaultIds : vaults'[v].lock = IF v = Vlt(j) THEN "held" ELSE vaults[v].lock
      BY <1>0, <3>1 DEF AfterWithdrawal, VaultDoc
    <3>3. \A w \in withdrawn : Vlt(w[1]) = Vlt(j) => w[2] < expiries[Vlt(j)]
      BY <1>0, <3>1 DEF SpacedInv
    <3>4. SpacedInv'
      BY <1>0, <3>1, <3>2 DEF SpacedInv
    <3>5. WithdrawalsSpaced'
      BY <1>0, <3>1, <3>3 DEF SpacedInv, WithdrawalsSpaced
    <3> QED BY <3>4, <3>5
  <2>2. CASE WithdrawCommit(j) /\ ~ Withdrawing(j)
    BY <1>0, <1>1, <2>2, WithdrawalWrites
  <2>3. CASE DepositCommit(j)
    <3>1. vaults[Vlt(j)].lock # "held"
      BY <2>3 DEF HeldInv, DepositCommit, At, Depositing
    <3>2. UNCHANGED <<withdrawn, expiries>> /\ \A v \in VaultIds : v # Vlt(j)
              => vaults'[v] = vaults[v]
      BY <1>0, <2>3 DEF DepositCommit, vaultState
    <3> QED BY <1>0, <1>1, <3>1, <3>2
  <2>4. CASE CloseCancel(j)
    BY <1>0, <1>1, <2>4 DEF CloseCancel, vaultState, VaultDoc
  <2>5. CASE EditWrite(j)
    BY <1>0, <1>1, <2>5 DEF EditWrite, vaultState, VaultDoc
  <2>6. CASE ~ DepositCommit(j) /\ ~ WithdrawCommit(j) /\ ~ CloseCancel(j) /\ ~ EditWrite(j)
    <3>1. expiries' = expiries
      BY <1>2, <2>6 DEF OfVaults, VaultStep, CreateRead, CreateCommit, DepositCheckKey,
         DepositLock, DepositCompleteKey,
    WithdrawCheckKey, WithdrawCompleteKey, CloseEmit, EditRead, CloseRead, vaultState
    <3> QED BY <1>0, <1>1, <1>2, <2>6, <3>1, VaultSilent
  <2> QED BY <2>1, <2>2, <2>3, <2>4, <2>5, <2>6
<1>3. CASE VaultsTick
  <2>1. PICK u \in VaultIds : 
          /\ withdrawn' = withdrawn
          /\ \A v \in VaultIds : v # u => vaults'[v] = vaults[v] /\ expiries'[v] = expiries[v]
          /\ \/ expiries' = expiries /\ vaults'[u].lock = vaults[u].lock
             \/ expiries'[u] = expiries[u] + 1 /\ vaults[u].lock = "held" 
    BY <1>3, VaultTick
  <2> QED BY <1>0, <2>1 DEF SpacedInv, WithdrawalsSpaced
<1>4. CASE ~ VaultsTick /\ ~ \E j \in Jobs : OfVaults(j)
  BY <1>0, <1>4, VaultQuiet DEF vaultState, SpacedInv, WithdrawalsSpaced
<1> QED BY <1>2, <1>3, <1>4

\* No step overdraws a vault that had no drift: the commit compares the
\* balance it decrements.
LEMMA OverdrawnStep ==
  ASSUME Typed, BooksAgree, VaultsNotOverdrawn, [Next]_vars
  PROVE  VaultsNotOverdrawn'
<1> USE DEF Typed, TypeOK
<1>0. /\ vaults \in [VaultIds -> VaultDoc] /\ asked \in [Jobs -> Int]
      /\ \A v \in VaultIds : InitialDrift[v] \in Int /\ v \in Cached /\ net[v] \in Int
             /\ LiveDrift(v) \in Int
  BY InitialAssumption, BalanceType, Apart DEF BooksTypeOK, ServicesTypeOK
<1> SUFFICES ASSUME NEW v \in VaultIds
             PROVE  vaults'[v].balance >= 0 \/ (InitialDrift[v] > 0 /\ Corrected(v)')
  BY DEF VaultsNotOverdrawn
<1>1. Corrected(v) => Corrected(v)'
  BY <1>0, Drift DEF Corrected
<1>2. vaults'[v].balance >= vaults[v].balance
          => vaults'[v].balance >= 0 \/ (InitialDrift[v] > 0 /\ Corrected(v)')
  <2>1. vaults'[v] \in VaultDoc
    BY TypedStep DEF BooksTypeOK
  <2> QED BY <1>0, <1>1, <2>1 DEF VaultsNotOverdrawn, VaultDoc
<1>3. vaults[v].balance \in Int
  BY <1>0 DEF VaultDoc
<1>4. ASSUME NEW j \in Jobs, OfVaults(j) 
      PROVE  vaults'[v].balance >= vaults[v].balance \/ vaults'[v].balance >= 0
  <2>0. Amt(j) \in Nat /\ Vlt(j) \in VaultIds
    BY JobType
  <2>1. CASE WithdrawCommit(j) /\ Withdrawing(j)
    <3>1. /\ vaults' = AfterWithdrawal(Vlt(j), asked[j])
          /\ vaults[Vlt(j)].balance >= asked[j]
      BY <2>1, WithdrawalWrites DEF Withdrawing, MayWithdraw
    <3>2. vaults'[v].balance = IF v = Vlt(j) THEN vaults[v].balance - asked[j]
              ELSE vaults[v].balance
      BY <1>0, <3>1 DEF AfterWithdrawal, VaultDoc
    <3> QED BY <1>0, <1>3, <3>1, <3>2
  <2>2. CASE WithdrawCommit(j) /\ ~ Withdrawing(j)
    <3>1. vaults' = vaults
      BY <2>2, WithdrawalWrites
    <3> QED BY <1>3, <3>1
  <2>3. CASE DepositCommit(j)
    <3>1. vaults'[v].balance = IF v = Vlt(j) THEN vaults[v].balance + Amt(j)
              ELSE vaults[v].balance
      BY <1>0, <2>3 DEF DepositCommit, VaultDoc
    <3> QED BY <1>3, <2>0, <3>1
  <2>4. CASE CloseCancel(j)
    BY <1>0, <1>3, <2>4 DEF CloseCancel, VaultDoc
  <2>5. CASE EditWrite(j)
    BY <1>0, <1>3, <2>5 DEF EditWrite, VaultDoc
  <2>6. CASE ~ DepositCommit(j) /\ ~ WithdrawCommit(j) /\ ~ CloseCancel(j) /\ ~ EditWrite(j)
    BY <1>3, <1>4, <2>6, VaultSilent
  <2> QED BY <2>1, <2>2, <2>3, <2>4, <2>5, <2>6
<1>5. CASE VaultsTick
  BY <1>2, <1>3, <1>5, VaultTick
<1>6. CASE ~ VaultsTick /\ ~ \E j \in Jobs : OfVaults(j)
  <2>1. CASE vaults'[v].balance = vaults[v].balance
    BY <1>2, <1>3, <2>1
  <2>2. CASE LiveDrift(v) # 0 /\ vaults'[v].balance = net[v] /\ LiveDrift(v)' = 0
    <3>1. LiveDrift(v) = InitialDrift[v] /\ InitialDrift[v] # 0
              /\ vaults[v].balance - net[v] = InitialDrift[v]
      BY <1>0, <2>2 DEF BooksAgree, LiveDrift, Balance
    <3>2. Corrected(v)'
      BY <2>2, <3>1 DEF Corrected
    <3>3. vaults[v].balance >= 0
      BY <2>2 DEF VaultsNotOverdrawn, Corrected
    <3> QED BY <1>0, <1>3, <2>2, <3>1, <3>2, <3>3
  <2> QED BY <1>6, <2>1, <2>2, VaultQuiet
<1> QED BY <1>2, <1>4, <1>5, <1>6

\* A vault is neither overdrawn nor drawn from twice under one lock
\* (withdrawFromVault): balances stay at zero or above unless a drift was
\* resolved into them, and two withdrawals are a lock expiry apart.
THEOREM VaultsAreSafe == Spec => []VaultsHold
<1>1. Init => HeldInv /\ SpacedInv /\ WithdrawalsSpaced /\ VaultsNotOverdrawn
  BY InitialAssumption DEF Init, BooksInit, VaultsInit, HeldInv, Depositing, SpacedInv,
     WithdrawalsSpaced, VaultsNotOverdrawn
<1>2. Spec => []Typed
  BY InitTyped, TypedStep, PTL DEF Spec
<1>3. Spec => []BooksAgree
  BY BooksStayInAgreement
<1>4. Spec => [](HeldInv /\ SpacedInv /\ WithdrawalsSpaced)
  BY <1>1, <1>2, HeldStep, SpacedStep, PTL DEF Spec
<1>5. Spec => []VaultsNotOverdrawn
  BY <1>1, <1>2, <1>3, OverdrawnStep, PTL DEF Spec
<1>6. WithdrawalsSpaced /\ VaultsNotOverdrawn => VaultsHold
  BY DEF VaultsHold
<1> QED BY <1>4, <1>5, <1>6, PTL

-----------------------------------------------------------------------------
(* Closing a vault.                                                        *)

\* What a request has missed it goes on missing, but for a run that takes its
\* snapshot.
LEMMA StaleKept ==
  ASSUME Typed, [Next]_vars, NEW i \in Jobs, ~ RunSum(i)
  PROVE  stale[i] \subseteq stale'[i]
<1> USE DEF Typed, TypeOK
<1>0. \A j \in Jobs : \A ds : Touch(j, ds) => stale[i] \subseteq stale'[i]
  BY DEF Touch
<1>1. ASSUME NEW j \in Jobs,
             OfMoney(j) \/ OfFunding(j) \/ OfConsumer(j) \/ OfReadModel(j) \/ OfMail(j)
             \/ OfAdmins(j) \/ OfFaults(j)
      PROVE  stale' = stale \/ \E ds : Touch(j, ds)
  BY <1>1 DEF OfMoney, OtherTransfer, OtherFunding, OfConsumer, OfReadModel, OfMail,
     OfAdmins, OfFaults, documents, TxnError, CrashJob, OfFunding, FundStep, FundCheckKey,
     FundMove, FundCompleteKey, FundCommit
<1>2. ASSUME NEW j \in Jobs, OfFees(j) \/ OfReversals(j)
      PROVE  stale' = stale \/ \E ds : Touch(j, ds)
  BY <1>2 DEF OfFees, FeeStep, WaiverRead, WaiveWrite, RefundCommit, SweepRead,
     SweepCreate, SweepMark, SweepComplete, SweepFail, OfReversals, ReversalStep,
     ReverseCheck, ReverseCheckFee, ReverseRead, ReverseCreate, ReverseCommit,
     ReverseCommitError, ReverseReadBack, ReverseMarkFailed, TakeBack, NothingTakenBack
<1>3. ASSUME NEW j \in Jobs, OfVaults(j)
      PROVE  stale' = stale \/ \E ds : Touch(j, ds)
  BY <1>3, VaultSilent DEF DepositCommit, WithdrawCommit, CloseCancel, EditWrite
<1>4. ASSUME NEW j \in Jobs, OfRuns(j), ~ RunSum(j)
      PROVE  stale' = stale \/ \E ds : Touch(j, ds)
  BY <1>4 DEF OfRuns, ReconciliationStep, RunLock, RunCompare, RunFreeze, RunAlert,
     RunComplete, RunAnnounce, RunFail, RunRelease, RunUnlock, ResolveBySync, ResolveByEntry,
     ResolveOnly, ResolveRefused
<1>5. ASSUME NEW j \in Jobs, RunSum(j)
      PROVE  stale'[i] = stale[i]
  <2>1. i # j
    BY <1>5
  <2> QED BY <1>5, <2>1 DEF RunSum, BooksTypeOK
<1> QED BY <1>0, <1>1, <1>2, <1>3, <1>4, <1>5, Moves DEF VaultsTick, VaultClock,
        VaultLockExpires, VaultMatures, RunLockTick, RunLockExpires, QueueTick, vars,
        documents

\* The same of all requests but runs.
LEMMA StaleGrows ==
  ASSUME Typed, [Next]_vars, NEW i \in Jobs, Job(i).kind # "reconcile"
  PROVE  stale[i] \subseteq stale'[i]
BY StaleKept DEF RunSum, At, Typed, PcInv, Only

\* A completed key stays completed.
LEMMA KeysStay ==
  ASSUME Typed, [Next]_vars, NEW k \in Keys, Completed(k)
  PROVE  Completed(k)'
<1>1. ASSUME NEW j \in Jobs, OfVaults(j) PROVE Completed(k)'
  BY <1>1 DEF Typed, TypeOK, BooksTypeOK, OfVaults, VaultStep, CreateRead, CreateCommit,
     DepositCheckKey, DepositLock, DepositCompleteKey, DepositCommit,
    WithdrawCheckKey, WithdrawCommit, WithdrawCompleteKey, CloseRead, CloseCancel,
    CloseEmit, EditRead, EditWrite, OpenKey, CompleteKey, Completed
<1> QED BY <1>1, VaultRefs

\* Every step keeps the record of withdrawals with the state of their
\* requests.
LEMMA WithdrawnStep ==
  ASSUME Typed, WithdrawnInv, [Next]_vars
  PROVE  WithdrawnInv'
<1> USE DEF Typed, TypeOK
<1>1. \A i \in Jobs : Job(i)' = Job(i)
  BY SameWork DEF Job
<1>2. ASSUME NEW i \in Jobs, Job(i).kind \in {"withdraw", "close"}, pc[i] \notin Before
      PROVE  pc'[i] \notin Before
  <2>1. CASE OfVaults(i)
    BY <1>2, <2>1 DEF BooksTypeOK, OfVaults, VaultStep, CreateRead, CreateCommit,
       DepositCheckKey, DepositLock, DepositCompleteKey, DepositCommit,
       WithdrawCheckKey, WithdrawCommit, WithdrawCompleteKey, CloseRead, CloseCancel,
       CloseEmit, EditRead, EditWrite, Goto, At, Starting, Before
  <2> QED BY <1>2, <2>1, VaultOwn DEF Before
<1>3. ASSUME NEW w \in withdrawn', w \notin withdrawn
      PROVE  w[1] \in Jobs /\ Job(w[1]).kind \in {"withdraw", "close"}
                /\ pc'[w[1]] \notin Before
  <2>1. PICK j \in Jobs : OfVaults(j)
    BY <1>3, VaultQuiet, VaultTick DEF vaultState
  <2>2. WithdrawCommit(j) /\ Withdrawing(j)
    BY <1>3, <2>1, VaultSilent, WithdrawalWrites DEF DepositCommit, CloseCancel, EditWrite,
       vaultState
  <2>a. /\ withdrawn' = withdrawn \cup {<<j, expiries[Vlt(j)]>>}
        /\ pc[j] = "withdraw" /\ Goto(j, "withdrawKey")
    BY <2>2, WithdrawalWrites
  <2>3. w = <<j, expiries[Vlt(j)]>> /\ pc[j] = "withdraw" /\ Goto(j, "withdrawKey")
    BY <1>3, <2>a
  <2>4. w[1] = j /\ pc'[j] = "withdrawKey"
    BY <2>3 DEF Goto, BooksTypeOK
  <2> QED BY <2>3, <2>4 DEF PcInv, Only, Before
<1> QED BY <1>1, <1>2, <1>3 DEF WithdrawnInv

\* Whoever changes the balance of a vault makes it news to every request that
\* runs.
LEMMA VaultNews ==
  ASSUME Typed, [Next]_vars, NEW v \in VaultIds, vaults'[v].balance # vaults[v].balance,
         NEW i \in Jobs, pc[i] \notin Ended, Job(i).kind \notin Workers, 
         ~ OfVaults(i), Job(i).kind \notin {"reconcile", "resolve"}
  PROVE  v \in stale'[i]
<1> USE DEF Typed, TypeOK
<1>0. vaults \in [VaultIds -> VaultDoc] /\ \A j \in Jobs : Vlt(j) \in VaultIds
  BY JobType DEF BooksTypeOK
<1>1. ASSUME NEW j \in Jobs, NEW ds, Touch(j, ds), v \in ds, i # j PROVE v \in stale'[i]
  BY <1>1 DEF Touch
<1>2. ASSUME NEW j \in Jobs, OfVaults(j) PROVE v \in stale'[i]
  <2>1. i # j
    BY <1>2
  <2>2. CASE WithdrawCommit(j)
    <3>1. Withdrawing(j)
      BY <2>2, WithdrawalWrites
    <3>a. vaults' = AfterWithdrawal(Vlt(j), asked[j])
      BY <2>2, <3>1, WithdrawalWrites
    <3>2. v = Vlt(j)
      BY <1>0, <3>a DEF AfterWithdrawal
    <3>3. Touch(j, {Usr(j), Vlt(j)} \cup IF Penalty(Vlt(j), asked[j]) > 0 THEN {Revenue} ELSE {})
      BY <2>2, <3>1, WithdrawalWrites
    <3> QED BY <1>1, <2>1, <3>2, <3>3
  <2>3. CASE DepositCommit(j)
    <3>1. Touch(j, {Usr(j), Vlt(j)}) /\ v = Vlt(j)
      BY <1>0, <2>3 DEF DepositCommit
    <3> QED BY <1>1, <2>1, <3>1
  <2>4. ~ CloseCancel(j) /\ ~ EditWrite(j)
    BY <1>0 DEF CloseCancel, EditWrite, VaultDoc
  <2> QED BY <1>2, <2>2, <2>3, <2>4, VaultSilent
<1>3. CASE VaultsTick BY <1>3, VaultTick
<1>4. CASE ~ VaultsTick /\ ~ \E j \in Jobs : OfVaults(j)
  <2>1. PICK j \in Jobs : OfRuns(j) /\ Touch(j, {v})
    BY <1>4, VaultQuiet
  <2>2. i # j
    BY <2>1 DEF OfRuns, Keeps
  <2> QED BY <1>1, <2>1, <2>2
<1> QED BY <1>2, <1>3, <1>4

\* Every step keeps what a closing knows: its vault holds what was read, and
\* nothing once that is withdrawn, or another request has written the vault.
LEMMA CloseStep ==
  ASSUME Typed, WithdrawnInv, CloseInv, [Next]_vars
  PROVE  CloseInv'
<1> USE DEF Typed, TypeOK
<1>0. /\ \A i \in Jobs : Job(i)' = Job(i) /\ Vlt(i)' = Vlt(i) /\ Vlt(i) \in VaultIds
             /\ Job(i).key \in Keys
      /\ vaults \in [VaultIds -> VaultDoc] /\ asked \in [Jobs -> Int]
  BY SameWork, JobType DEF Job, Vlt, BooksTypeOK, ServicesTypeOK
<1> SUFFICES ASSUME NEW j \in Jobs, Job(j).kind = "close", Vlt(j) \notin stale'[j]
             PROVE  /\ pc'[j] \in {"closeWithdraw", "withdraw"}
                          => asked'[j] = vaults'[Vlt(j)].balance
                    /\ pc'[j] = "withdrawKey" => vaults'[Vlt(j)].balance <= 0
                    /\ pc'[j] = "cancel" => vaults'[Vlt(j)].balance <= 0 \/ KeyTaken(j)'
  BY <1>0 DEF CloseInv
<1>1. Vlt(j) \notin stale[j]
  BY StaleGrows
<1>2. /\ pc[j] \in {"closeWithdraw", "withdraw"} => asked[j] = vaults[Vlt(j)].balance
      /\ pc[j] = "withdrawKey" => vaults[Vlt(j)].balance <= 0
      /\ pc[j] = "cancel" => vaults[Vlt(j)].balance <= 0 \/ KeyTaken(j)
  BY <1>1 DEF CloseInv
<1>3. CASE OfVaults(j)
  <2>0. vaults[Vlt(j)].balance \in Int
    BY <1>0 DEF VaultDoc
  <2>1. CASE CloseRead(j)
    BY <1>0, <2>0, <2>1 DEF CloseRead, Goto, BooksTypeOK
  <2>2. CASE WithdrawCheckKey(j)
    <3>1. \A w \in withdrawn : w[1] # j
      BY <2>2 DEF WithdrawCheckKey, At, Starting, WithdrawnInv, Before
    <3>2. Completed(Job(j).key) => KeyTaken(j)'
      <4>1. ASSUME Completed(Job(j).key) PROVE Completed(Job(j).key)'
        BY <1>0, <4>1, KeysStay
      <4> QED BY <1>0, <2>2, <3>1, <4>1 DEF KeyTaken, WithdrawCheckKey, vaultState
    <3>3. UNCHANGED <<vaults, asked>>
      BY <2>2 DEF WithdrawCheckKey, vaultState
    <3>4. pc[j] = "closeWithdraw" /\ pc'[j] \in {"withdraw", "cancel"}
          /\ (pc'[j] = "cancel" => Completed(Job(j).key))
      BY <2>2 DEF WithdrawCheckKey, At, Starting, Goto, BooksTypeOK
    <3> QED BY <1>0, <1>2, <3>2, <3>3, <3>4
  <2>3. CASE WithdrawCommit(j) /\ Withdrawing(j)
    <3>1. /\ vaults' = AfterWithdrawal(Vlt(j), asked[j]) /\ pc[j] = "withdraw"
          /\ Goto(j, "withdrawKey")
      BY <2>3, WithdrawalWrites
    <3>2. vaults'[Vlt(j)].balance = vaults[Vlt(j)].balance - asked[j]
      BY <1>0, <3>1 DEF AfterWithdrawal, VaultDoc
    <3>3. pc'[j] = "withdrawKey" /\ asked[j] = vaults[Vlt(j)].balance
      BY <1>2, <3>1 DEF Goto, BooksTypeOK
    <3> QED BY <1>0, <2>0, <3>2, <3>3
  <2>4. CASE WithdrawCompleteKey(j)
    BY <1>0, <1>2, <2>4 DEF WithdrawCompleteKey, At, Goto, BooksTypeOK
  <2>5. CASE ~ CloseRead(j) /\ ~ WithdrawCheckKey(j)
                 /\ ~ (WithdrawCommit(j) /\ Withdrawing(j)) /\ ~ WithdrawCompleteKey(j)
    <3>1. WithdrawCommit(j) => pc'[j] = "failed"
      BY <2>5, WithdrawalWrites DEF Goto, BooksTypeOK
    <3> QED BY <1>3, <2>5, <3>1 DEF BooksTypeOK, OfVaults, VaultStep, CreateRead,
               CreateCommit, DepositCheckKey, DepositLock, DepositCompleteKey,
               DepositCommit,
       CloseCancel, CloseEmit, EditRead, EditWrite, Goto
  <2> QED BY <2>1, <2>2, <2>3, <2>4, <2>5
<1>4. CASE ~ OfVaults(j)
  <2> SUFFICES ASSUME pc'[j] \in {"closeWithdraw", "withdraw", "withdrawKey", "cancel"}
               PROVE  /\ pc'[j] \in {"closeWithdraw", "withdraw"}
                            => asked'[j] = vaults'[Vlt(j)].balance
                      /\ pc'[j] = "withdrawKey" => vaults'[Vlt(j)].balance <= 0
                      /\ pc'[j] = "cancel" => vaults'[Vlt(j)].balance <= 0 \/ KeyTaken(j)'
    OBVIOUS
  <2>1. pc'[j] = pc[j]
    BY <1>4, VaultOwn
  <2>2. vaults'[Vlt(j)].balance = vaults[Vlt(j)].balance
    BY <1>0, <1>4, <2>1, VaultNews DEF Ended, Workers
  <2>3. asked'[j] = asked[j]
    <3>1. ASSUME NEW i \in Jobs, OfVaults(i) PROVE asked'[j] = asked[j]
      <4>1. i # j BY <1>4, <3>1
      <4> QED BY <3>1, <4>1, VaultSilent DEF CloseRead, DepositCommit, WithdrawCommit,
                 CloseCancel, EditWrite, vaultState, ServicesTypeOK
    <3> QED BY <3>1, VaultTick, VaultQuiet DEF vaultState
  <2>4. KeyTaken(j) => KeyTaken(j)'
    <3>1. Completed(Job(j).key) => Completed(Job(j).key)'
      BY <1>0, KeysStay
    <3>2. ASSUME NEW w \in withdrawn', w \notin withdrawn, \A u \in withdrawn : u[1] # j
          PROVE w[1] # j
      <4>1. PICK i \in Jobs : OfVaults(i)
        BY <3>2, VaultQuiet, VaultTick DEF vaultState
      <4>2. WithdrawCommit(i) /\ Withdrawing(i)
        BY <3>2, <4>1, VaultSilent, WithdrawalWrites DEF DepositCommit, CloseCancel,
           EditWrite, vaultState
      <4>3. withdrawn' = withdrawn \cup {<<i, expiries[Vlt(i)]>>} /\ i # j
        BY <1>4, <4>1, <4>2, WithdrawalWrites
      <4> QED BY <3>2, <4>3
    <3> QED BY <1>0, <3>1, <3>2 DEF KeyTaken
  <2> QED BY <1>2, <2>1, <2>2, <2>3, <2>4
<1> QED BY <1>3, <1>4

-----------------------------------------------------------------------------
(* Money left in a closed vault.                                           *)

\* A closing that has begun does not begin again, and its key stays taken.
LEMMA ClosingStays ==
  ASSUME Typed, [Next]_vars, NEW i \in Jobs, Job(i).kind = "close", pc[i] \notin Before
  PROVE  /\ pc'[i] \notin Before
         /\ KeyTaken(i) => KeyTaken(i)'
<1> USE DEF Typed, TypeOK
<1>0. Job(i)' = Job(i) /\ Job(i).key \in Keys
  BY SameWork, JobType DEF Job
<1>1. pc'[i] \notin Before
  <2>1. CASE OfVaults(i)
    BY <2>1 DEF BooksTypeOK, OfVaults, VaultStep, CreateRead, CreateCommit, DepositCheckKey,
       DepositLock, DepositCompleteKey, DepositCommit,
       WithdrawCheckKey, WithdrawCommit, WithdrawCompleteKey, CloseRead, CloseCancel,
       CloseEmit, EditRead, EditWrite, Goto, At, Starting, Before
  <2> QED BY <2>1, VaultOwn DEF Before
<1>2. Completed(Job(i).key) => Completed(Job(i).key)'
  BY <1>0, KeysStay
<1>3. ASSUME NEW w \in withdrawn', w \notin withdrawn PROVE w[1] # i
  <2>1. PICK j \in Jobs : OfVaults(j)
    BY <1>3, VaultQuiet, VaultTick DEF vaultState
  <2>2. WithdrawCommit(j) /\ Withdrawing(j)
    BY <1>3, <2>1, VaultSilent, WithdrawalWrites DEF DepositCommit, CloseCancel, EditWrite,
       vaultState
  <2>3. withdrawn' = withdrawn \cup {<<j, expiries[Vlt(j)]>>} /\ pc[j] = "withdraw"
    BY <2>2, WithdrawalWrites
  <2> QED BY <1>3, <2>3 DEF Before
<1> QED BY <1>0, <1>1, <1>2, <1>3 DEF KeyTaken

\* Every step keeps the causes of money left in a closed vault.
LEMMA StrandedStep ==
  ASSUME Typed, BooksAgree, HeldInv, CloseInv, StrandedInv, [Next]_vars
  PROVE  StrandedInv'
<1> USE DEF Typed, TypeOK
<1>0. /\ \A i \in Jobs : Job(i)' = Job(i) /\ Vlt(i)' = Vlt(i) /\ Vlt(i) \in VaultIds
      /\ vaults \in [VaultIds -> VaultDoc]
  BY SameWork, JobType DEF Job, Vlt, BooksTypeOK
<1> SUFFICES ASSUME NEW v \in VaultIds, vaults'[v].status = "CANCELLED", vaults'[v].balance > 0
             PROVE  \/ Corrected(v)'
                    \/ \E j \in Jobs : /\ Job(j).kind = "close" /\ Vlt(j) = v
                                       /\ pc'[j] \notin Before
                                       /\ v \in stale'[j] \/ KeyTaken(j)'
  BY <1>0 DEF StrandedInv
<1>1. v \in Cached /\ LiveDrift(v) \in Int /\ InitialDrift[v] \in Int
  BY InitialAssumption, BalanceType, Apart
<1>2. CASE vaults[v].status = "CANCELLED" /\ vaults[v].balance > 0
  <2>1. CASE Corrected(v)
    BY <1>1, <2>1, Drift DEF Corrected
  <2>2. CASE ~ Corrected(v)
    <3>1. PICK j \in Jobs : /\ Job(j).kind = "close" /\ Vlt(j) = v /\ pc[j] \notin Before
                            /\ v \in stale[j] \/ KeyTaken(j)
      BY <1>2, <2>2 DEF StrandedInv
    <3>2. stale[j] \subseteq stale'[j]
      BY <3>1, StaleGrows
    <3> QED BY <3>1, <3>2, ClosingStays
  <2> QED BY <2>1, <2>2
<1>3. ASSUME NEW j \in Jobs, OfVaults(j),
           ~ (vaults[v].status = "CANCELLED" /\ vaults[v].balance > 0)
      PROVE  /\ CloseCancel(j) /\ Vlt(j) = v
             /\ vaults[v].balance = vaults'[v].balance
  <2>1. CASE DepositCommit(j)
    <3>1. vaults[Vlt(j)].status # "CANCELLED"
      BY <2>1 DEF HeldInv, DepositCommit, At, Depositing
    <3>2. v # Vlt(j) => vaults'[v] = vaults[v]
      BY <1>0, <2>1 DEF DepositCommit
    <3>3. vaults'[Vlt(j)].status \in {vaults[Vlt(j)].status, "COMPLETED"}
      BY <1>0, <2>1 DEF DepositCommit, VaultDoc
    <3> QED BY <1>3, <3>1, <3>2, <3>3
  <2>2. CASE WithdrawCommit(j) /\ Withdrawing(j)
    <3>1. vaults' = AfterWithdrawal(Vlt(j), asked[j])
      BY <2>2, WithdrawalWrites
    <3>2. vaults[Vlt(j)].status # "CANCELLED"
      BY <2>2 DEF Withdrawing, MayWithdraw, Usable
    <3>3. /\ v # Vlt(j) => vaults'[v] = vaults[v]
          /\ vaults'[Vlt(j)].status = vaults[Vlt(j)].status
      BY <1>0, <3>1 DEF AfterWithdrawal, VaultDoc
    <3> QED BY <1>3, <3>2, <3>3
  <2>3. CASE WithdrawCommit(j) /\ ~ Withdrawing(j)
    <3>1. vaults' = vaults
      BY <2>3, WithdrawalWrites
    <3> QED BY <1>3, <3>1
  <2>4. CASE CloseCancel(j)
    BY <1>0, <1>3, <2>4 DEF CloseCancel, VaultDoc
  <2>5. CASE EditWrite(j)
    BY <1>0, <1>3, <2>5 DEF EditWrite, VaultDoc
  <2>6. CASE ~ DepositCommit(j) /\ ~ WithdrawCommit(j) /\ ~ CloseCancel(j) /\ ~ EditWrite(j)
    BY <1>3, <2>6, VaultSilent
  <2> QED BY <2>1, <2>2, <2>3, <2>4, <2>5, <2>6
<1>4. ASSUME NEW j \in Jobs, CloseCancel(j), Vlt(j) = v, vaults[v].balance = vaults'[v].balance
      PROVE  /\ Job(j).kind = "close" /\ pc'[j] \notin Before
             /\ v \in stale'[j] \/ KeyTaken(j)'
  <2>1. pc[j] = "cancel" /\ pc'[j] = "closeEmit" /\ Job(j).kind = "close"
    BY <1>4 DEF CloseCancel, At, Goto, BooksTypeOK, PcInv, Only
  <2>2. v \in stale[j] \/ KeyTaken(j)
    <3>1. vaults[v].balance \in Int
      BY <1>0 DEF VaultDoc
    <3> QED BY <1>4, <2>1, <3>1 DEF CloseInv
  <2>3. stale[j] \subseteq stale'[j]
    BY <2>1, StaleGrows
  <2> QED BY <2>1, <2>2, <2>3, ClosingStays DEF Before
<1>5. CASE VaultsTick
  BY <1>2, <1>5, VaultTick
<1>6. CASE ~ VaultsTick /\ ~ \E j \in Jobs : OfVaults(j)
  <2>1. CASE vaults'[v].balance = vaults[v].balance
    BY <1>2, <1>6, <2>1, VaultQuiet
  <2>2. CASE LiveDrift(v) # 0 /\ LiveDrift(v)' = 0
    BY <1>1, <2>2 DEF BooksAgree, Corrected
  <2> QED BY <1>6, <2>1, <2>2, VaultQuiet
<1> QED BY <1>2, <1>3, <1>4, <1>5, <1>6

\* Money is left in a cancelled vault only for a cause (closeVault, which
\* reads the balance, withdraws it and cancels the vault in three steps):
\* another request wrote the vault in between, the key of the closing had
\* been completed before, or a resolution found money there.
THEOREM MoneyIsStrandedForCause == Spec => []StrandedForCause
<1>1. Init => HeldInv /\ CloseInv /\ StrandedInv /\ WithdrawnInv
  <2> SUFFICES ASSUME Init PROVE HeldInv /\ CloseInv /\ StrandedInv /\ WithdrawnInv
    OBVIOUS
  <2>1. /\ \A j \in Jobs : pc[j] = "start"
        /\ \A v \in VaultIds : vaults[v].status = "CANCELLED" => vaults[v].balance = 0
        /\ withdrawn = {}
    BY InitialAssumption DEF Init, BooksInit, VaultsInit
  <2> QED BY <2>1 DEF HeldInv, CloseInv, StrandedInv, WithdrawnInv, Depositing
<1>2. Spec => []Typed
  BY InitTyped, TypedStep, PTL DEF Spec
<1>3. Spec => []BooksAgree
  BY BooksStayInAgreement
<1>4. Spec => [](HeldInv /\ CloseInv /\ WithdrawnInv)
  BY <1>1, <1>2, HeldStep, CloseStep, WithdrawnStep, PTL DEF Spec
<1>5. Spec => []StrandedInv
  BY <1>1, <1>2, <1>3, <1>4, StrandedStep, PTL DEF Spec
<1>6. StrandedInv => StrandedForCause
  BY DEF StrandedInv, StrandedForCause
<1> QED BY <1>5, <1>6, PTL

-----------------------------------------------------------------------------
(* Fees.                                                                   *)

\* Only the fee service touches accruals and sweeps.
LEMMA FeesQuiet ==
  ASSUME Typed, [Next]_vars, ~ \E j \in Jobs : OfFees(j)
  PROVE  UNCHANGED feeState
BY Moves DEF Typed, TypeOK, OfMoney, OfFunding, OfVaults, OfReversals, OfRuns, OfMail,
   OfAdmins, OfFaults,
     OfConsumer, OfReadModel, services, VaultsTick, RunLockTick, QueueTick, vars, feeState

\* A fee request is moved on by its own steps.
LEMMA FeeOwn ==
  ASSUME Typed, [Next]_vars, NEW i \in Jobs, pc'[i] # pc[i],
         Job(i).kind \in {"waive", "refund", "sweep"}
  PROVE  OfFees(i) \/ pc'[i] \in {"failed", "crashed"}
BY Own DEF OfMoney, OfFunding, OfVaults, OfReversals, OfRuns, OfMail, OfAdmins, Keeps

\* A request that settles an accrual is still open.
LEMMA SettlingIsOpen ==
  ASSUME Typed, NEW i \in Jobs, Settling(i) # {}
  PROVE  /\ pc[i] \in {"waive", "refund", "sweepCreate", "sweepMark"}
         /\ pc[i] \notin Ended /\ Job(i).kind \in {"waive", "refund", "sweep"}
         /\ Job(i).kind \notin Workers
<1>1. pc[i] \in {"waive", "refund", "sweepCreate", "sweepMark"}
  BY DEF Settling
<1> QED BY <1>1 DEF Typed, PcInv, Only, Ended, Workers

\* What a step of a fee request does to the accruals: nothing, forget or
\* choose what it settles, or settle it and tell the others.
LEMMA FeeWrites ==
  ASSUME Typed, NEW j \in Jobs, OfFees(j)
  PROVE  \/ /\ UNCHANGED <<accrual, settled>>
            /\ \/ Settling(j)' = {} 
               \/ stale' = stale /\ Settling(j)' \subseteq Settling(j)
               \/ Settling(j)' \subseteq {t \in Transfers : accrual[t] = "ACCRUED"}
         \/ \E ds : /\ Settle(j, Settling(j), "WAIVED") \/ Settle(j, Settling(j), "SWEPT")
                    /\ Touch(j, ds) /\ Settling(j) \subseteq ds
                    /\ Settling(j)' = {}
<1> USE DEF Typed, TypeOK
<1>0. /\ pc \in [Jobs -> Labels] /\ sweeps \in [Jobs -> [members : SUBSET Transfers,
                            status : {"NONE", "PENDING", "COMPLETED", "FAILED"}]]
      /\ Trf(j)' = Trf(j) /\ Trf(j) \in Transfers
  BY JobType DEF BooksTypeOK, ServicesTypeOK, OfFees, Keeps, Trf, Job
<1>1. CASE WaiverRead(j)
  <2>1. Goto(j, IF ~Accrued(Trf(j)) THEN "failed" ELSE Job(j).kind)
            /\ Job(j).kind \in {"waive", "refund"}
        /\ UNCHANGED feeState
    BY <1>1 DEF WaiverRead, Starting
  <2>2. CASE Accrued(Trf(j))
    <3>1. pc'[j] \in {"waive", "refund"}
      BY <1>0, <2>1, <2>2 DEF Goto
    <3>2. Settling(j)' = {Trf(j)}
      BY <1>0, <3>1 DEF Settling
    <3> QED BY <1>0, <2>1, <2>2, <3>2 DEF Accrued, feeState
  <2>3. CASE ~ Accrued(Trf(j))
    BY <1>0, <2>1, <2>3 DEF Goto, Settling, feeState
  <2> QED BY <2>2, <2>3
<1>2. CASE WaiveWrite(j)
  <2>1. Settling(j) = {Trf(j)} /\ Settling(j)' = {}
    BY <1>0, <1>2 DEF WaiveWrite, At, Goto, Settling
  <2> QED BY <1>2, <2>1 DEF WaiveWrite
<1>3. CASE RefundCommit(j)
  <2>1. Settling(j) = {Trf(j)} /\ Settling(j)' = {}
    BY <1>0, <1>3 DEF RefundCommit, At, Goto, Settling
  <2>2. \/ UNCHANGED <<accrual, settled>>
        \/ Settle(j, {Trf(j)}, "WAIVED") /\ Touch(j, {Revenue, Usr(j)} \cup {Trf(j)})
    BY <1>3 DEF RefundCommit
  <2> QED BY <2>1, <2>2
<1>4. CASE SweepMark(j)
  <2>1. Settling(j) = sweeps[j].members /\ Settling(j)' = {}
    BY <1>0, <1>4 DEF SweepMark, At, Goto, Settling
  <2> QED BY <1>4, <2>1 DEF SweepMark
<1>5. CASE SweepRead(j)
  <2>1. sweeps'[j].members = {t \in Transfers : accrual[t] = "ACCRUED"}
            /\ UNCHANGED <<accrual, settled>>
        /\ pc'[j] \in {"failed", "sweepCreate"}
    BY <1>0, <1>5 DEF SweepRead, Accrued, Goto
  <2> QED BY <2>1 DEF Settling
<1>6. CASE SweepCreate(j)
  <2>1. /\ sweeps'[j].members = sweeps[j].members /\ UNCHANGED <<accrual, settled, stale>>
        /\ pc'[j] = "sweepMark" /\ pc[j] = "sweepCreate"
    BY <1>0, <1>6 DEF SweepCreate, Goto, At
  <2> QED BY <2>1 DEF Settling
<1>7. CASE SweepComplete(j) \/ SweepFail(j)
  BY <1>0, <1>7 DEF SweepComplete, SweepFail, Goto, Settling
<1> QED BY <1>1, <1>2, <1>3, <1>4, <1>5, <1>6, <1>7 DEF OfFees, FeeStep

\* Every step keeps what the fee requests that are about to settle have read,
\* or have missed.
LEMMA FeeStays ==
  ASSUME Typed, FeeInv, SettledTwiceOnlyBlindly, [Next]_vars
  PROVE  FeeInv' /\ SettledTwiceOnlyBlindly'
<1> USE DEF Typed, TypeOK
<1>0. /\ \A i \in Jobs : Job(i)' = Job(i) /\ Trf(i)' = Trf(i)
      /\ pc \in [Jobs -> Labels]
      /\ accrual \in [Transfers -> AccrualStatuses]
  BY SameWork DEF Job, Trf, BooksTypeOK, ServicesTypeOK
<1>1. ASSUME NEW i \in Jobs, ~ OfFees(i)
      PROVE  \/ Settling(i)' = {}
             \/ Settling(i)' = Settling(i) /\ Settling(i) # {} /\ stale[i] \subseteq stale'[i]
  <2> SUFFICES ASSUME Settling(i)' # {}
               PROVE Settling(i)' = Settling(i) /\ stale[i] \subseteq stale'[i]
    OBVIOUS
  <2>1. pc'[i] \in {"waive", "refund", "sweepCreate", "sweepMark"}
            /\ Job(i).kind \in {"waive", "refund", "sweep"}
    <3>1. Typed' BY TypedStep
    <3>2. pc'[i] \in {"waive", "refund", "sweepCreate", "sweepMark"}
      BY DEF Settling
    <3> QED BY <1>0, <3>1, <3>2 DEF PcInv, Only
  <2>2. pc'[i] = pc[i]
    BY <1>1, <2>1, FeeOwn
  <2>3. sweeps'[i].members = sweeps[i].members
    <3>1. ASSUME NEW j \in Jobs, OfFees(j) PROVE sweeps'[i] = sweeps[i]
      <4>1. i # j BY <1>1, <3>1
      <4> QED BY <3>1, <4>1 DEF ServicesTypeOK, OfFees, FeeStep, WaiverRead, WaiveWrite,
                 RefundCommit,
            SweepRead, SweepCreate, SweepMark, SweepComplete, SweepFail, feeState
    <3> QED BY <3>1, FeesQuiet DEF feeState
  <2>4. stale[i] \subseteq stale'[i]
    BY <2>1, StaleGrows
  <2> QED BY <1>0, <2>2, <2>3, <2>4 DEF Settling
<1>2. ASSUME NEW j \in Jobs, OfFees(j), UNCHANGED <<accrual, settled>>,
             \/ Settling(j)' = {} 
             \/ stale' = stale /\ Settling(j)' \subseteq Settling(j)
             \/ Settling(j)' \subseteq {t \in Transfers : accrual[t] = "ACCRUED"}
      PROVE  FeeInv' /\ SettledTwiceOnlyBlindly'
  <2>1. \A i \in Jobs \ {j} : ~ OfFees(i) \/ pc'[i] = pc[i]
    BY <1>2 DEF OfFees, Keeps
  <2>2. ASSUME NEW i \in Jobs, NEW t \in Settling(i)'
        PROVE accrual[t] = "ACCRUED" \/ t \in stale'[i]
    <3>1. CASE i = j
      BY <1>2, <2>2, <3>1 DEF FeeInv
    <3>2. CASE i # j /\ ~ OfFees(i)
      BY <1>1, <2>2, <3>2 DEF FeeInv
    <3>3. CASE i # j /\ OfFees(i)
      <4>1. pc'[i] = pc[i] BY <2>1, <3>3
      <4>2. FALSE
        BY <1>0, <1>2, <3>3, <4>1 DEF OfFees, FeeStep, WaiverRead, WaiveWrite, RefundCommit,
            SweepRead, SweepCreate, SweepMark, SweepComplete, SweepFail, Goto, At, Starting
      <4> QED BY <4>2
    <3> QED BY <3>1, <3>2, <3>3
  <2> QED BY <1>2, <2>2 DEF FeeInv, SettledTwiceOnlyBlindly
<1>3. ASSUME NEW j \in Jobs, OfFees(j), NEW ds, Settle(j, Settling(j), "WAIVED")
          \/ Settle(j, Settling(j), "SWEPT"),
             Touch(j, ds), Settling(j) \subseteq ds, Settling(j)' = {}
      PROVE  FeeInv' /\ SettledTwiceOnlyBlindly'
  <2>0. Settling(j) \subseteq Transfers
    BY JobType DEF Settling, ServicesTypeOK, Trf
  <2>1. /\ \A t \in Transfers : accrual'[t] # accrual[t] => t \in Settling(j)
        /\ \A t \in Settling(j) : accrual'[t] # "ACCRUED"
        /\ \A t \in Transfers : accrual[t] # "ACCRUED" => accrual'[t] # "ACCRUED"
        /\ settled' = settled \cup {<<t, j, t \in stale[j]>> : t \in Settling(j)}
    BY <1>3, <2>0 DEF Settle
  <2>2. ASSUME NEW i \in Jobs, NEW t \in Settling(i)'
        PROVE accrual'[t] = "ACCRUED" \/ t \in stale'[i]
    <3>1. i # j
      BY <1>3, <2>2
    <3>2. ~ OfFees(i)
      <4>1. pc'[i] = pc[i] BY <1>3, <3>1 DEF OfFees, Keeps
      <4> QED
        BY <1>0, <4>1 DEF OfFees, FeeStep, WaiverRead, WaiveWrite, RefundCommit,
            SweepRead, SweepCreate, SweepMark, SweepComplete, SweepFail, Goto, At, Starting
    <3>3. t \in Settling(i) /\ stale[i] \subseteq stale'[i]
      BY <1>1, <2>2, <3>2
    <3>4. accrual[t] = "ACCRUED" \/ t \in stale[i]
      BY <3>3 DEF FeeInv
    <3>5. t \in Transfers
      BY <3>3, JobType DEF Settling, ServicesTypeOK, Trf
    <3>6. CASE t \in Settling(j)
      <4>1. pc[i] \notin Ended /\ Job(i).kind \notin Workers
        BY <3>3, SettlingIsOpen
      <4> QED BY <1>3, <3>1, <3>6, <4>1 DEF Touch
    <3> QED BY <2>1, <3>3, <3>4, <3>5, <3>6
  <2>3. FeeInv'
    BY <2>0, <2>1, <2>2 DEF FeeInv
  <2>4. ASSUME NEW s \in settled, NEW t \in Settling(j), s[1] = t PROVE t \in stale[j]
    BY <2>4 DEF FeeInv
  <2>5. ASSUME NEW s \in settled', s \notin settled
        PROVE  s[1] \in Settling(j) /\ s[2] = j /\ s[3] = (s[1] \in stale[j])
    <3>1. PICK t \in Settling(j) : s = <<t, j, t \in stale[j]>>
      BY <2>1, <2>5
    <3> QED BY <3>1
  <2>6. SUFFICES ASSUME NEW s1 \in settled', NEW s2 \in settled', s1[1] = s2[1], s1[2] # s2[2]
                 PROVE  s1[3] \/ s2[3]
    BY <2>3 DEF SettledTwiceOnlyBlindly
  <2>7. CASE s1 \in settled /\ s2 \in settled
    BY <2>6, <2>7 DEF SettledTwiceOnlyBlindly
  <2>8. CASE s1 \notin settled
    <3>1. s2 \in settled BY <2>5, <2>6, <2>8
    <3>2. s1[1] \in stale[j] BY <2>4, <2>5, <2>6, <2>8, <3>1
    <3> QED BY <2>5, <2>8, <3>2
  <2>9. CASE s2 \notin settled
    <3>1. s1 \in settled BY <2>5, <2>6, <2>9
    <3>2. s2[1] \in stale[j] BY <2>4, <2>5, <2>6, <2>9, <3>1
    <3> QED BY <2>5, <2>9, <3>2
  <2> QED BY <2>7, <2>8, <2>9
<1>4. CASE ~ \E j \in Jobs : OfFees(j)
  BY <1>1, <1>4, FeesQuiet DEF FeeInv, SettledTwiceOnlyBlindly, feeState
<1> QED BY <1>2, <1>3, <1>4, FeeWrites

\* An accrual is settled twice only by a request that did not see the
\* settlement before its own (waiveFee, refundFee, sweepAccruals): one that
\* read the accrual before another settled it.
THEOREM FeesAreSettledTwiceOnlyBlindly == Spec => []SettledTwiceOnlyBlindly
<1>1. Init => FeeInv /\ SettledTwiceOnlyBlindly
  BY DEF Init, BooksInit, FeesInit, FeeInv, Settling, SettledTwiceOnlyBlindly
<1>2. Spec => []Typed
  BY InitTyped, TypedStep, PTL DEF Spec
<1> QED BY <1>1, <1>2, FeeStays, PTL DEF Spec

-----------------------------------------------------------------------------
(* Reversals.                                                              *)

\* Only the reversal service touches reversals.
LEMMA ReversalsQuiet ==
  ASSUME Typed, [Next]_vars, ~ \E j \in Jobs : OfReversals(j)
  PROVE  UNCHANGED reversalState
BY Moves DEF Typed, TypeOK, OfMoney, OfFunding, OfVaults, OfFees, OfRuns, OfMail, OfAdmins,
   OfFaults,
     OfConsumer, OfReadModel, services, VaultsTick, RunLockTick, QueueTick, vars,
     reversalState

\* A reversal is moved on by its own steps.
LEMMA ReversalOwn ==
  ASSUME Typed, [Next]_vars, NEW i \in Jobs, pc'[i] # pc[i],
         Job(i).kind = "reverse"
  PROVE  OfReversals(i) \/ pc'[i] \in {"failed", "crashed"}
BY Own DEF OfMoney, OfFunding, OfVaults, OfFees, OfRuns, OfMail, OfAdmins, Keeps

\* Every step keeps the state of a reversal with that of its request.
LEMMA ReversalStays ==
  ASSUME Typed, ReversalInv, [Next]_vars
  PROVE  ReversalInv'
<1> USE DEF Typed, TypeOK
<1> DEFINE Early == {"start", "reverseFee", "reverseRead", "reverseCreate"}
<1>0. /\ \A i \in Jobs : Job(i)' = Job(i) /\ Trf(i)' = Trf(i)
      /\ pc \in [Jobs -> Labels]
      /\ reversal \in [Jobs -> {"NONE", "PENDING", "COMPLETED", "FAILED"}]
  BY SameWork DEF Job, Trf, BooksTypeOK, ServicesTypeOK
<1>1. ASSUME NEW i \in Jobs, ~ OfReversals(i)
      PROVE  /\ pc'[i] \in Early => pc[i] \in Early \/ reversal[i] = "NONE"
             /\ pc'[i] = "reverse" => pc[i] = "reverse"
  <2>1. CASE Job(i).kind = "reverse"
    BY <1>1, <2>1, ReversalOwn
  <2>2. CASE Job(i).kind # "reverse"
    <3>1. Typed' BY TypedStep
    <3>2. pc'[i] # "reverse"
      BY <1>0, <2>2, <3>1 DEF PcInv, Only
    <3> QED BY <2>2, <3>2, <1>0 DEF ReversalInv
  <2> QED BY <2>1, <2>2
<1>2. ASSUME NEW j \in Jobs, OfReversals(j) PROVE ReversalInv'
  <2>0. Job(j).kind = "reverse" /\ \A i \in Jobs \ {j} : pc'[i] = pc[i]
    BY <1>2 DEF OfReversals, Keeps
  <2>1. CASE ReverseCheck(j) \/ ReverseCheckFee(j) \/ ReverseRead(j) \/ ReverseReadBack(j)
    <3>1. UNCHANGED <<reversal, reversed>> /\ pc'[j] # "reverse"
      BY <1>0, <2>1 DEF ReverseCheck, ReverseCheckFee, ReverseRead, ReverseReadBack, Goto,
         reversalState
    <3>2. reversal[j] # "NONE" => pc'[j] \notin Early
      BY <1>0, <2>1 DEF ReverseCheck, ReverseCheckFee, ReverseRead, ReverseReadBack, Goto,
         At, Starting, ReversalInv
    <3> QED BY <1>0, <2>0, <3>1, <3>2 DEF ReversalInv, Standing
  <2>2. CASE ReverseCreate(j)
    <3>1. CASE Reversing(Trf(j))
      BY <1>0, <2>0, <2>2, <3>1 DEF ReverseCreate, Goto, At, ReversalInv, Standing
    <3>2. CASE ~ Reversing(Trf(j))
      <4>1. /\ reversal' = [reversal EXCEPT ![j] = "PENDING"] /\ reversed' = reversed
            /\ pc'[j] = "reverse" /\ pc[j] = "reverseCreate"
        BY <1>0, <2>2, <3>2 DEF ReverseCreate, Goto, At
      <4>2. \A i \in Jobs : Standing(i) => Trf(i) # Trf(j)
        BY <3>2 DEF Reversing, Standing
      <4>3. \A i \in Jobs \ {j} : reversal'[i] = reversal[i]
        BY <4>1, <1>0
      <4>4. reversal'[j] = "PENDING" /\ j \notin reversed
        BY <4>1, <1>0 DEF ReversalInv
      <4> QED BY <1>0, <2>0, <4>1, <4>2, <4>3, <4>4 DEF ReversalInv, Standing
    <3> QED BY <3>1, <3>2
  <2>3. CASE ReverseCommit(j) \/ ReverseCommitError(j)
    <3>1. /\ pc[j] = "reverse" /\ pc'[j] \in {"failed", "reverseReadBack", "reverseFail"}
          /\ \/ reversal' = [reversal EXCEPT ![j] = "COMPLETED"]
                    /\ reversed' = reversed \cup {j}
             \/ UNCHANGED <<reversal, reversed>>
      BY <1>0, <2>3 DEF ReverseCommit, ReverseCommitError, TakeBack, NothingTakenBack, Goto,
         At
    <3>2. reversal[j] = "PENDING"
      BY <3>1 DEF ReversalInv
    <3>3. CASE UNCHANGED <<reversal, reversed>>
      BY <1>0, <2>0, <3>1, <3>3 DEF ReversalInv, Standing
    <3>4. CASE reversal' = [reversal EXCEPT ![j] = "COMPLETED"] /\ reversed' = reversed \cup {j}
      <4>1. reversal'[j] = "COMPLETED" /\ \A i \in Jobs \ {j} : reversal'[i] = reversal[i]
        BY <1>0, <3>4
      <4>2. \A i \in Jobs : Standing(i)' <=> Standing(i)
        BY <3>2, <4>1 DEF Standing
      <4> QED BY <1>0, <2>0, <3>1, <3>4, <4>1, <4>2 DEF ReversalInv
    <3> QED BY <3>1, <3>3, <3>4
  <2>4. CASE ReverseMarkFailed(j)
    <3>1. /\ pc[j] = "reverseFail" /\ pc'[j] = "failed" /\ reversal'[j] = "FAILED"
          /\ reversed' = reversed
          /\ \A i \in Jobs \ {j} : reversal'[i] = reversal[i]
      BY <1>0, <2>4 DEF ReverseMarkFailed, Goto, At
    <3>2. \A i \in Jobs : Standing(i)' => Standing(i)
      BY <3>1 DEF Standing
    <3> QED BY <1>0, <2>0, <3>1, <3>2 DEF ReversalInv
  <2> QED BY <1>2, <2>1, <2>2, <2>3, <2>4 DEF OfReversals, ReversalStep
<1>3. CASE ~ \E j \in Jobs : OfReversals(j)
  <2>1. UNCHANGED <<reversal, reversed>>
    BY <1>3, ReversalsQuiet DEF reversalState
  <2> QED BY <1>0, <1>1, <1>3, <2>1 DEF ReversalInv, Standing
<1> QED BY <1>2, <1>3

\* Of the reversals of one transfer that have committed, at most one is not
\* marked FAILED (initiateReversal, executeReversal): the partial unique
\* index of the reversal records keeps a second one out while the first
\* stands.
THEOREM TransfersAreReversedOnce == Spec => []ReversedOnce
<1>1. Init => ReversalInv
  BY DEF Init, BooksInit, ReversalsInit, ReversalInv, Standing
<1>2. Spec => []Typed
  BY InitTyped, TypedStep, PTL DEF Spec
<1>3. ReversalInv /\ Typed => ReversedOnce
  BY DEF ReversalInv, ReversedOnce, Standing, Typed, TypeOK, ServicesTypeOK
<1> QED BY <1>1, <1>2, <1>3, ReversalStays, PTL DEF Spec

-----------------------------------------------------------------------------
(* Balances below zero.                                                    *)

\* The legs of a withdrawal are legs.
LEMMA WithdrawLegsType ==
  ASSUME Typed, NEW j \in Jobs
  PROVE  WithdrawLegs(j) \in [Accounts -> Int]
<1> DEFINE p == Penalty(Vlt(j), asked[j])
<1>0. asked[j] \in Int
  BY DEF Typed, TypeOK, ServicesTypeOK
<1>1. p \in Int
  BY <1>0, JobType, PenaltyType DEF Typed, TypeOK
<1>2. - asked[j] \in Int /\ asked[j] - Penalty(Vlt(j), asked[j]) \in Int
  BY <1>0, <1>1
<1> QED BY <1>1, <1>2, LegsType DEF WithdrawLegs

\* A $inc that bumps the version of every user it debits lowers no balance
\* without showing it in the version.
LEMMA AfterUser ==
  ASSUME Typed, NEW legs \in [Accounts -> Int], NEW bumped, NEW u \in Users,
         wallets' = WalletsAfter(legs, bumped), u \in bumped \/ legs[u] >= 0
  PROVE  /\ wallets'[u].version >= wallets[u].version
         /\ wallets'[u].version = wallets[u].version
                => wallets'[u].available >= wallets[u].available
<1>1. wallets[u].version \in Nat /\ wallets[u].available \in Int /\ legs[u] \in Int
          /\ u \in Wallets
  BY Apart DEF Typed, TypeOK, BooksTypeOK, WalletDoc
<1> QED BY <1>1, AfterWallet DEF Typed, TypeOK

\* The balance of a user is lowered with its version bumped, but for the
\* resolution of a drift.
Bumped(u) ==
    /\ wallets'[u].version >= wallets[u].version
    /\ wallets'[u].version = wallets[u].version =>
          \/ wallets'[u].available >= wallets[u].available
          \/ InitialDrift[u] > 0 /\ Corrected(u)'

\* Whoever lowers the balance of a user bumps the version of the wallet, save
\* for the resolution of a drift.
LEMMA UserBumped ==
  ASSUME Typed, BooksAgree, [Next]_vars, NEW u \in Users
  PROVE  Bumped(u)
<1> USE DEF Typed, TypeOK
<1>0. /\ wallets \in [Wallets -> WalletDoc] /\ u \in Wallets /\ u # Revenue
      /\ u \in Accounts /\ u \in Cached
      /\ wallets[u].version \in Nat /\ wallets[u].available \in Int
  BY Apart DEF BooksTypeOK, WalletDoc
<1>1. ASSUME wallets'[u].version = wallets[u].version,
           wallets'[u].available = wallets[u].available
      PROVE  Bumped(u)
  BY <1>0, <1>1 DEF Bumped
<1>2. ASSUME NEW j \in Jobs
      PROVE  /\ Usr(j) \in Accounts /\ Job(j).peer \in Accounts /\ Usr(j) \in Users
             /\ Job(j).peer \in Users
             /\ Amt(j) \in Nat /\ Fee(j) \in Nat /\ Vlt(j) \in Accounts /\ Vlt(j) # u
             /\ {Revenue, Treasury, External} \subseteq Accounts
             /\ External # u
  BY <1>0, JobType, Apart, AccountAssumption DEF Fee
<1>3. ASSUME NEW from \in Accounts, NEW to \in Accounts, NEW n \in Nat, NEW bumped,
             wallets' = WalletsAfter(Move(from, to, n), bumped),
             from = u => u \in bumped
      PROVE  Bumped(u)
  <2>1. Move(from, to, n) \in [Accounts -> Int]
    BY <1>3, MoveType
  <2>2. u \in bumped \/ Move(from, to, n)[u] >= 0
    BY <1>0, <1>3 DEF Move, NoLegs
  <2> QED BY <1>3, <2>1, <2>2, AfterUser DEF Bumped
<1>4. ASSUME NEW j \in Jobs, OfMoney(j) PROVE Bumped(u)
  BY <1>1, <1>2, <1>3, <1>4 DEF OfMoney, OtherTransfer, OtherFunding
<1>5. ASSUME NEW j \in Jobs, OfFunding(j) PROVE Bumped(u)
  BY <1>1, <1>2, <1>3, <1>5 DEF OfFunding, FundStep, FundCheckKey, FundMove,
     FundCompleteKey, FundCommit
<1>6. ASSUME NEW j \in Jobs, OfFees(j) PROVE Bumped(u)
  <2>1. CASE RefundCommit(j)
    BY <1>1, <1>2, <1>3, <2>1 DEF RefundCommit
  <2> QED BY <1>1, <1>6, <2>1 DEF OfFees, FeeStep, WaiverRead, WaiveWrite, SweepRead,
             SweepCreate, SweepMark,
         SweepComplete, SweepFail
<1>7. ASSUME NEW j \in Jobs, OfReversals(j) PROVE Bumped(u)
  <2>1. CASE TakeBack(j)
    <3>1. /\ wallets' = WalletsAfter(ReversalLegs(j), ReversalDocs(j))
          /\ ReversalLegs(j) \in [Accounts -> Int]
      BY <2>1, ReversalValue DEF TakeBack
    <3>2. u \in ReversalDocs(j) \/ ReversalLegs(j)[u] >= 0
      BY <1>0, <1>2 DEF ReversalDocs, ReversalLegs, NoLegs
    <3> QED BY <3>1, <3>2, AfterUser DEF Bumped
  <2>2. ~ TakeBack(j) => wallets' = wallets
    BY <1>7 DEF OfReversals, ReversalStep, ReverseCheck, ReverseCheckFee, ReverseRead,
       ReverseCreate, ReverseCommit, ReverseCommitError, ReverseReadBack,
       ReverseMarkFailed, NothingTakenBack
  <2> QED BY <1>1, <2>1, <2>2
<1>8. ASSUME NEW j \in Jobs, OfVaults(j) PROVE Bumped(u)
  <2>1. CASE DepositCommit(j)
    BY <1>2, <1>3, <2>1 DEF DepositCommit, DepositLegs
  <2>2. CASE WithdrawCommit(j)
    <3> DEFINE p == Penalty(Vlt(j), asked[j])
               paid == WalletsAfter(WithdrawLegs(j), {Usr(j)})
    <3>1. CASE wallets' = wallets
      BY <1>1, <3>1
    <3>2. CASE wallets' = IF p > 0 THEN [paid EXCEPT ![Revenue].version = 1] ELSE paid
      <4>1. WithdrawLegs(j) \in [Accounts -> Int]
        BY WithdrawLegsType
      <4>2. WithdrawLegs(j) \in [Accounts -> Int]
        BY <4>1
      <4>3. u \in {Usr(j)} \/ WithdrawLegs(j)[u] >= 0
        BY <1>0, <1>2 DEF WithdrawLegs, NoLegs
      <4>4. wallets'[u] = paid[u]
        BY <1>0, <3>2, <4>2, WalletsAfterType
      <4>5. /\ paid[u].available = wallets[u].available + WithdrawLegs(j)[u]
            /\ paid[u].version = IF u \in {Usr(j)} THEN wallets[u].version + 1
                   ELSE wallets[u].version
        BY <1>0, <4>2, AfterWallet
      <4>6. WithdrawLegs(j)[u] \in Int
        BY <1>0, <4>2
      <4> QED BY <1>0, <4>3, <4>4, <4>5, <4>6 DEF Bumped
    <3> QED BY <2>2, <3>1, <3>2 DEF WithdrawCommit
  <2> QED BY <1>1, <1>8, <2>1, <2>2, VaultSilent DEF CloseCancel, EditWrite
<1>9. ASSUME NEW j \in Jobs, OfRuns(j) PROVE Bumped(u)
  <2>0. Acc(j) \in Cached /\ net[Acc(j)] \in Int
    BY JobType, BalanceType DEF Acc
  <2>1. ASSUME NEW ws \in [Wallets -> WalletDoc]
        PROVE  /\ Released(j, ws)[u].available = ws[u].available
               /\ Released(j, ws)[u].version = ws[u].version
    BY <1>0, <2>1 DEF Released, WalletDoc
  <2>2. CASE \E i \in Jobs : ResolveBySync(j, i)
    <3>1. wallets' = Released(j, IF Acc(j) \in Users
                              THEN [wallets EXCEPT ![Acc(j)].available = net[Acc(j)]]
                              ELSE wallets)
          /\ net' = net
      BY <2>2 DEF ResolveBySync
    <3>2. [wallets EXCEPT ![Acc(j)].available = net[Acc(j)]] \in [Wallets -> WalletDoc]
      BY <1>0, <2>0 DEF WalletDoc
    <3>3. /\ wallets'[u].version = wallets[u].version
          /\ wallets'[u].available = IF u = Acc(j) THEN net[u] ELSE wallets[u].available
      BY <1>0, <2>1, <3>1, <3>2 DEF WalletDoc
    <3>4. CASE u # Acc(j)
      BY <1>1, <3>3, <3>4
    <3>5. CASE u = Acc(j)
      <4>1. Balance(u) = wallets[u].available /\ Balance(u)' = wallets'[u].available
        BY <1>0, Apart DEF Balance
      <4>2. LiveDrift(u)' = 0 /\ LiveDrift(u) = wallets[u].available - net[u]
        BY <2>0, <3>1, <3>3, <3>5, <4>1 DEF LiveDrift
      <4>3. net[u] \in Int /\ InitialDrift[u] \in Int
        BY <1>0, <2>0, <3>5, InitialAssumption
      <4>4. ASSUME net[u] < wallets[u].available PROVE InitialDrift[u] > 0 /\ Corrected(u)'
        BY <1>0, <4>2, <4>3, <4>4 DEF BooksAgree, Corrected
      <4> QED BY <1>0, <3>3, <3>5, <4>3, <4>4 DEF Bumped
    <3> QED BY <3>4, <3>5
  <2>3. CASE ~ \E i \in Jobs : ResolveBySync(j, i)
    <3>1. \/ wallets' = wallets \/ wallets' = Released(j, wallets)
          \/ wallets' = [wallets EXCEPT ![Acc(j)].status = "RECONCILING"]
      BY <1>9, <2>3 DEF OfRuns, ReconciliationStep, RunLock, RunSum, RunCompare, RunFreeze,
         RunAlert, RunComplete,
         RunAnnounce, RunFail, RunRelease, RunUnlock, ResolveByEntry, ResolveOnly, ResolveRefused
    <3> QED BY <1>0, <1>1, <2>1, <3>1 DEF WalletDoc
  <2> QED BY <2>2, <2>3
<1>10. ASSUME NEW j \in Jobs, OfConsumer(j) \/ OfReadModel(j) \/ OfMail(j) \/ OfAdmins(j)
           \/ OfFaults(j)
       PROVE  Bumped(u)
  BY <1>1, <1>10 DEF OfConsumer, OfReadModel, OfMail, OfAdmins, OfFaults, documents,
     TxnError, CrashJob
<1>11. VaultsTick \/ RunLockTick \/ QueueTick \/ UNCHANGED vars => Bumped(u)
  BY <1>1 DEF VaultsTick, VaultClock, VaultLockExpires, VaultMatures, RunLockTick,
     RunLockExpires, QueueTick, vars, documents
<1> QED BY <1>4, <1>5, <1>6, <1>7, <1>8, <1>9, <1>10, <1>11, Moves

\* Every step keeps what a reversal has read with what is there, at the
\* version it read.
LEMMA SeenStep ==
  ASSUME Typed, BooksAgree, SeenInv, [Next]_vars
  PROVE  SeenInv'
<1> USE DEF Typed, TypeOK
<1>0. /\ \A i \in Jobs : Job(i)' = Job(i)
      /\ pc \in [Jobs -> Labels]
      /\ seen \in [Jobs -> [receiver : Int, receiverVersion : Nat, senderVersion : Nat]]
  BY SameWork DEF Job, BooksTypeOK, ServicesTypeOK
<1> SUFFICES ASSUME NEW j \in Jobs, pc'[j] \in {"reverseCreate", "reverse"}, NEW w,
                  w = Job(j).peer
             PROVE  /\ wallets'[w].version >= seen'[j].receiverVersion
                    /\ wallets'[w].version = seen'[j].receiverVersion =>
                          \/ wallets'[w].available >= seen'[j].receiver
                          \/ InitialDrift[w] > 0 /\ Corrected(w)'
  BY <1>0 DEF SeenInv
<1>1. w \in Users /\ w \in Wallets /\ w \in Cached
  BY JobType, Apart
<1>2. /\ wallets[w].version \in Nat /\ wallets[w].available \in Int
      /\ wallets'[w].version \in Nat /\ wallets'[w].available \in Int
  <2>1. BooksTypeOK' BY TypedStep
  <2> QED BY <1>1, <2>1 DEF BooksTypeOK, WalletDoc
<1>3. Job(j).kind = "reverse"
  <2>1. Typed' BY TypedStep
  <2> QED BY <1>0, <2>1 DEF PcInv, Only
<1>4. CASE ReverseRead(j)
  <2>1. /\ seen'[j].receiver = wallets[w].available
        /\ seen'[j].receiverVersion = wallets[w].version
        /\ wallets' = wallets
    BY <1>0, <1>4 DEF ReverseRead
  <2> QED BY <1>2, <2>1
<1>5. CASE ~ ReverseRead(j)
  <2>1. pc[j] \in {"reverseCreate", "reverse"}
    <3>1. CASE OfReversals(j)
      BY <1>0, <1>5, <3>1 DEF OfReversals, ReversalStep, ReverseCheck, ReverseCheckFee,
       ReverseCreate, ReverseCommit, ReverseCommitError, ReverseReadBack, ReverseMarkFailed,
       Goto, At, Starting
    <3> QED BY <1>3, <3>1, ReversalOwn
  <2>2. seen'[j] = seen[j]
    <3>1. ASSUME NEW i \in Jobs, OfReversals(i) PROVE seen'[j] = seen[j]
      BY <1>0, <1>5, <3>1 DEF OfReversals, ReversalStep, ReverseCheck, ReverseCheckFee,
         ReverseRead,
       ReverseCreate, ReverseCommit, ReverseCommitError, ReverseReadBack, ReverseMarkFailed,
       reversalState
    <3> QED BY <3>1, ReversalsQuiet DEF reversalState
  <2>3. /\ wallets[w].version >= seen[j].receiverVersion
        /\ wallets[w].version = seen[j].receiverVersion =>
              \/ wallets[w].available >= seen[j].receiver
              \/ InitialDrift[w] > 0 /\ Corrected(w)
    BY <2>1 DEF SeenInv
  <2>4. Corrected(w) => Corrected(w)'
    BY <1>1, Drift DEF Corrected
  <2>5. seen[j].receiverVersion \in Nat /\ seen[j].receiver \in Int
    BY <1>0
  <2>6. Bumped(w)
    BY <1>1, UserBumped
  <2> QED BY <1>2, <2>2, <2>3, <2>4, <2>5, <2>6 DEF Bumped
<1> QED BY <1>4, <1>5

\* A reversal that overdraws a wallet says so in its outbox rows, or decided
\* on a balance that a resolution has changed since.
LEMMA ReversalAnnounced ==
  ASSUME Typed, SeenInv, [Next]_vars, NEW w \in Users,
         wallets[w].available >= 0, wallets'[w].available < 0, reversed' # reversed
  PROVE  \/ \E j \in reversed' \ reversed : <<"WALLET_NEGATIVE_BALANCE", j>> \in outbox'
         \/ InitialDrift[w] > 0 /\ Corrected(w)
<1> USE DEF Typed, TypeOK
<1>1. PICK j \in Jobs : OfReversals(j)
  BY ReversalsQuiet DEF reversalState
<1>2. pc[j] = "reverse" /\ Unchanged(j) /\ TakeBack(j)
  BY <1>1 DEF OfReversals, ReversalStep, ReverseCheck, ReverseCheckFee, ReverseRead,
       ReverseCreate, ReverseCommit, ReverseCommitError, ReverseReadBack, ReverseMarkFailed,
       reversalState, NothingTakenBack, At
<1>3. reversed' = reversed \cup {j} /\ j \in reversed' \ reversed
  BY <1>2 DEF TakeBack
<1>4. /\ Usr(j) \in Users /\ Job(j).peer \in Users /\ Usr(j) # Job(j).peer
      /\ Amt(j) \in Nat /\ Fee(j) \in Nat
      /\ w \in Wallets /\ w # Revenue /\ w \in Accounts /\ wallets[w].available \in Int
      /\ Job(j).kind = "reverse"
  BY <1>1, JobType, Apart DEF Fee, OfReversals, Keeps, BooksTypeOK, WalletDoc
<1>5. wallets'[w].available = wallets[w].available + ReversalLegs(j)[w]
  BY <1>2, <1>4, ReversalValue, AfterWallet DEF TakeBack
<1>6. ReversalLegs(j)[w] = IF w = Usr(j) THEN Amt(j) + FeeBack(j) ELSE IF w = Job(j).peer THEN - Amt(j) ELSE 0
  BY <1>4 DEF ReversalLegs, NoLegs
<1>7. w = Job(j).peer /\ wallets[w].available - Amt(j) < 0
  BY <1>4, <1>5, <1>6 DEF FeeBack
<1>8. \/ wallets[w].available >= seen[j].receiver
      \/ InitialDrift[w] > 0 /\ Corrected(w)
  BY <1>2, <1>7 DEF SeenInv, Unchanged
<1>9. CASE wallets[w].available >= seen[j].receiver
  <2>1. seen[j].receiver \in Int
    BY DEF ServicesTypeOK
  <2>2. seen[j].receiver - Amt(j) < 0
    BY <1>4, <1>7, <1>9, <2>1
  <2>3. <<"WALLET_NEGATIVE_BALANCE", j>> \in outbox'
    BY <1>2, <2>2 DEF TakeBack, Emit, Announced
  <2> QED BY <1>3, <2>3
<1> QED BY <1>8, <1>9

\* A wallet that goes below zero in a reversal is announced for freezing in
\* the same commit (WALLET_NEGATIVE_BALANCE), though the reversal decides on
\* balances it has read before its transaction; the exception is a wallet
\* whose drift a resolution wrote between the two.
THEOREM NegativesAreAnnounced == Spec => NegativeAnnounced
<1>1. Init => SeenInv
  BY DEF Init, BooksInit, SeenInv
<1>2. Spec => []Typed
  BY InitTyped, TypedStep, PTL DEF Spec
<1>3. Spec => []BooksAgree
  BY BooksStayInAgreement
<1>4. Spec => []SeenInv
  BY <1>1, <1>2, <1>3, SeenStep, PTL DEF Spec
<1>5. Typed /\ SeenInv /\ [Next]_vars =>
      [\A w \in Users :
         /\ wallets[w].available >= 0 /\ wallets'[w].available < 0
         /\ reversed' # reversed
         => \/ \E j \in reversed' \ reversed :
                  <<"WALLET_NEGATIVE_BALANCE", j>> \in outbox'
            \/ InitialDrift[w] > 0 /\ Corrected(w)]_vars
  BY ReversalAnnounced
<1> QED BY <1>2, <1>4, <1>5, PTL DEF Spec, NegativeAnnounced

-----------------------------------------------------------------------------
(* Reconciliation: what a run reads.                                       *)

\* Entries of a user are made by those who write the wallet, and are news to
\* every run.
LEMMA EntryNews ==
  ASSUME Typed, [Next]_vars, NEW u \in Users, net'[u] # net[u]
  PROVE  \E j \in Jobs : Job(j).kind # "reconcile" /\ \E ds : Touch(j, ds) /\ u \in ds
<1> USE DEF Typed, TypeOK
<1>0. /\ u \in Accounts /\ u # Revenue /\ u # Treasury /\ u # External /\ u # Adjustments
      /\ u \notin VaultIds
      /\ \A b \in Accounts : net[b] \in Int
      /\ \A b \in Accounts : net[b] + 0 = net[b]
  BY Apart, AccountAssumption DEF BooksTypeOK
<1>1. ASSUME NEW j \in Jobs
      PROVE  /\ Usr(j) \in Users /\ Job(j).peer \in Users /\ Vlt(j) # u
             /\ Job(j).account \in Cached
  BY <1>0, JobType
<1>2. ASSUME NEW from, NEW to, NEW n, Entries(Move(from, to, n)) PROVE u \in {from, to}
  BY <1>0, <1>2 DEF Entries, Move, NoLegs
<1>3. ASSUME NEW j \in Jobs, OfMoney(j)
      PROVE Job(j).kind # "reconcile" /\ \E ds : Touch(j, ds) /\ u \in ds
  BY <1>0, <1>1, <1>2, <1>3 DEF OfMoney, Keeps, OtherTransfer, OtherFunding
<1>4. ASSUME NEW j \in Jobs, OfFunding(j)
      PROVE Job(j).kind # "reconcile" /\ \E ds : Touch(j, ds) /\ u \in ds
  BY <1>0, <1>1, <1>2, <1>4 DEF OfFunding, Keeps, FundStep, FundCheckKey, FundMove,
     FundCompleteKey, FundCommit
<1>5. ASSUME NEW j \in Jobs, OfFees(j)
      PROVE Job(j).kind # "reconcile" /\ \E ds : Touch(j, ds) /\ u \in ds
  <2>1. RefundCommit(j) /\ Job(j).kind # "reconcile"
    BY <1>5 DEF OfFees, Keeps, FeeStep, WaiverRead, WaiveWrite, SweepRead, SweepCreate,
       SweepMark,
         SweepComplete, SweepFail
  <2> QED BY <1>0, <1>2, <2>1 DEF RefundCommit
<1>6. ASSUME NEW j \in Jobs, OfReversals(j)
      PROVE Job(j).kind # "reconcile" /\ \E ds : Touch(j, ds) /\ u \in ds
  <2>1. TakeBack(j) /\ Job(j).kind # "reconcile"
    BY <1>6 DEF OfReversals, Keeps, ReversalStep, ReverseCheck, ReverseCheckFee,
       ReverseRead,
       ReverseCreate, ReverseCommit, ReverseCommitError, ReverseReadBack,
       ReverseMarkFailed, NothingTakenBack
  <2>2. Touch(j, ReversalDocs(j)) /\ Entries(ReversalLegs(j))
    BY <2>1 DEF TakeBack
  <2>3. u \in ReversalDocs(j)
    BY <1>0, <2>2 DEF Entries, ReversalLegs, ReversalDocs, NoLegs
  <2> QED BY <2>1, <2>2, <2>3
<1>7. ASSUME NEW j \in Jobs, OfVaults(j)
      PROVE Job(j).kind # "reconcile" /\ \E ds : Touch(j, ds) /\ u \in ds
  <2>0. Job(j).kind # "reconcile"
    BY <1>7 DEF OfVaults, Keeps
  <2>1. CASE DepositCommit(j)
    BY <1>0, <1>2, <2>0, <2>1 DEF DepositCommit, DepositLegs
  <2>2. CASE WithdrawCommit(j)
    <3>1. /\ Entries(WithdrawLegs(j))
          /\ Touch(j, {Usr(j), Vlt(j)} \cup IF Penalty(Vlt(j), asked[j]) > 0 THEN {Revenue} ELSE {})
      BY <2>2 DEF WithdrawCommit
    <3>2. u = Usr(j)
      BY <1>0, <1>1, <3>1 DEF Entries, WithdrawLegs, NoLegs
    <3> QED BY <2>0, <3>1, <3>2
  <2> QED BY <1>7, <2>1, <2>2, VaultSilent DEF CloseCancel, EditWrite
<1>8. ASSUME NEW j \in Jobs, OfRuns(j)
      PROVE Job(j).kind # "reconcile" /\ \E ds : Touch(j, ds) /\ u \in ds
  <2>1. PICK i \in Jobs : ResolveByEntry(j, i)
    BY <1>8 DEF OfRuns, ReconciliationStep, RunLock, RunSum, RunCompare, RunFreeze,
       RunAlert, RunComplete,
         RunAnnounce, RunFail, RunRelease, RunUnlock, ResolveBySync, ResolveOnly, ResolveRefused
  <2>2. u = Acc(j)
    BY <1>0, <1>2, <2>1 DEF ResolveByEntry, Correction
  <2>3. Job(j).kind # "reconcile" /\ Touch(j, Cache(Acc(j)))
    BY <2>1 DEF ResolveByEntry, Resolvable, Starting
  <2> QED BY <2>2, <2>3 DEF Cache
<1>9. ASSUME NEW j \in Jobs, OfConsumer(j) \/ OfReadModel(j) \/ OfMail(j) \/ OfAdmins(j)
          \/ OfFaults(j)
      PROVE  FALSE
  BY <1>9 DEF OfConsumer, OfReadModel, OfMail, OfAdmins, OfFaults, documents, TxnError,
     CrashJob
<1>10. ~ (VaultsTick \/ RunLockTick \/ QueueTick \/ UNCHANGED vars)
  BY DEF VaultsTick, VaultClock, VaultLockExpires, VaultMatures, RunLockTick,
     RunLockExpires, QueueTick, vars, documents
<1> QED BY <1>3, <1>4, <1>5, <1>6, <1>7, <1>8, <1>9, <1>10, Moves

\* Only runs and resolutions touch reports, alerts and the run lock.
LEMMA RunsQuiet ==
  ASSUME Typed, [Next]_vars, ~ RunLockTick, ~ \E j \in Jobs : OfRuns(j)
  PROVE  UNCHANGED reconciliationState
BY Moves DEF Typed, TypeOK, OfMoney, OfFunding, OfVaults, OfFees, OfReversals, OfMail,
   OfAdmins, OfFaults,
     OfConsumer, OfReadModel, services, VaultsTick, QueueTick, vars, reconciliationState

\* A run is moved on by its own steps.
LEMMA RunOwn ==
  ASSUME Typed, [Next]_vars, NEW i \in Jobs, pc'[i] # pc[i],
         Job(i).kind = "reconcile"
  PROVE  OfRuns(i) \/ pc'[i] \in {"failed", "crashed"}
BY Own DEF OfMoney, OfFunding, OfVaults, OfFees, OfReversals, OfMail, OfAdmins, Keeps

-----------------------------------------------------------------------------
(* Reconciliation runs.                                                    *)

\* Every step keeps the cause of a wallet taken out of use: a drift, or
\* entries the run did not see.
LEMMA FreezeStep ==
  ASSUME Typed, BooksAgree, FreezeInv, FrozenForCause, [Next]_vars
  PROVE  FreezeInv' /\ FrozenForCause'
<1> USE DEF Typed, TypeOK
<1>0. /\ \A i \in Jobs : Job(i)' = Job(i) /\ Acc(i)' = Acc(i)
      /\ pc \in [Jobs -> Labels] /\ sum \in [Jobs -> Int]
      /\ stale \in [Jobs -> SUBSET Documents]
      /\ Users \subseteq Cached
  BY SameWork, Apart DEF Job, Acc, BooksTypeOK, ServicesTypeOK
<1>1. FrozenForCause'
  <2>1. ASSUME NEW j \in Jobs, OfRuns(j) PROVE FrozenForCause'
    <3>1. CASE RunFreeze(j)
      <4>1. j \in torn \/ InitialDrift[Acc(j)] > 0
        BY <3>1 DEF RunFreeze, At, FreezeInv
      <4>2. frozen' = frozen \cup {<<j, Acc(j)>>} /\ torn' = torn
        BY <3>1 DEF RunFreeze
      <4> QED BY <4>1, <4>2 DEF FrozenForCause
    <3>2. CASE ~ RunFreeze(j)
      <4>1. frozen' = frozen /\ torn \subseteq torn'
        BY <2>1, <3>2 DEF OfRuns, ReconciliationStep, RunLock, RunSum, RunCompare, RunAlert,
           RunComplete,
         RunAnnounce, RunFail, RunRelease, RunUnlock, ResolveBySync, ResolveByEntry, ResolveOnly,
         ResolveRefused, Resolved, reconciliationState
      <4> QED BY <4>1 DEF FrozenForCause
    <3> QED BY <3>1, <3>2
  <2>2. RunLockTick => frozen' = frozen /\ torn' = torn
    BY DEF RunLockTick, RunLockExpires
  <2> QED BY <2>1, <2>2, RunsQuiet DEF reconciliationState, FrozenForCause
<1>2. ASSUME NEW i \in Jobs, pc'[i] \in {"compare", "freeze"}
      PROVE  /\ pc'[i] = "compare" /\ Acc(i) \in Users
                   => sum'[i] = net'[Acc(i)] \/ Acc(i) \in stale'[i]
             /\ pc'[i] = "freeze"
                    => Acc(i) \in Users /\ (i \in torn' \/ InitialDrift[Acc(i)] > 0)
  <2>0. Job(i).kind = "reconcile"
    <3>1. Typed' BY TypedStep
    <3> QED BY <1>0, <1>2, <3>1 DEF PcInv, Only
  <2>1. CASE RunSum(i)
    BY <1>0, <2>1 DEF RunSum, Goto
  <2>2. CASE RunCompare(i)
    <3>1. /\ UNCHANGED <<stale, wallets, vaults, net, sum>> /\ pc[i] = "compare"
          /\ pc'[i] = "freeze" => Acc(i) \in Users /\ Balance(Acc(i)) - sum[i] > 0
          /\ Acc(i) \in stale[i] => i \in torn'
      BY <1>0, <2>2 DEF RunCompare, Goto, At, Freezes
    <3>2. CASE pc'[i] = "freeze" /\ Acc(i) \notin stale[i]
      <4>1. sum[i] = net[Acc(i)] /\ Acc(i) \in Cached
        BY <1>0, <3>1, <3>2 DEF FreezeInv
      <4>2. LiveDrift(Acc(i)) > 0
        BY <3>1, <3>2, <4>1 DEF LiveDrift
      <4>3. LiveDrift(Acc(i)) \in {0, InitialDrift[Acc(i)]}
        BY <4>1 DEF BooksAgree
      <4>4. InitialDrift[Acc(i)] > 0
        BY <4>2, <4>3
      <4> QED BY <3>1, <3>2, <4>4
    <3> QED BY <1>0, <1>2, <2>2, <3>1, <3>2 DEF RunCompare, Goto
  <2>3. CASE ~ RunSum(i) /\ ~ RunCompare(i)
    <3>1. pc[i] = pc'[i] 
      <4>1. CASE OfRuns(i)
        BY <1>0, <1>2, <2>3, <4>1 DEF OfRuns, ReconciliationStep, RunLock, RunFreeze,
           RunAlert, RunComplete,
         RunAnnounce, RunFail, RunRelease, RunUnlock, ResolveBySync, ResolveByEntry, ResolveOnly,
         ResolveRefused, Resolved, Goto
      <4> QED BY <1>2, <2>0, <4>1, RunOwn
    <3>2. stale[i] \subseteq stale'[i]
      BY <2>3, StaleKept
    <3>3. sum'[i] = sum[i] /\ torn \subseteq torn'
      <4>1. ASSUME NEW j \in Jobs, OfRuns(j) PROVE sum'[i] = sum[i] /\ torn \subseteq torn'
        <5>1. CASE RunSum(j)
          <6>1. i # j BY <2>3, <5>1
          <6> QED BY <1>0, <5>1, <6>1 DEF RunSum
        <5> QED BY <4>1, <5>1 DEF OfRuns, ReconciliationStep, RunLock, RunCompare,
                   RunFreeze, RunAlert, RunComplete,
         RunAnnounce, RunFail, RunRelease, RunUnlock, ResolveBySync, ResolveByEntry, ResolveOnly,
         ResolveRefused, Resolved, reconciliationState
      <4>2. RunLockTick => sum' = sum /\ torn' = torn
        BY DEF RunLockTick, RunLockExpires
      <4> QED BY <4>1, <4>2, RunsQuiet DEF reconciliationState
    <3>4. CASE Acc(i) \in Users /\ net'[Acc(i)] # net[Acc(i)]
      <4>0. PICK j \in Jobs : Job(j).kind # "reconcile" /\ \E ds : Touch(j, ds) /\ Acc(i) \in ds
        BY <3>4, EntryNews
      <4>1. PICK ds : Touch(j, ds) /\ Acc(i) \in ds
        BY <4>0
      <4>2. Acc(i) \in stale'[i]
        BY <1>2, <2>0, <3>1, <4>0, <4>1 DEF Touch, Ended, Workers
      <4>3. pc'[i] = "freeze" => i \in torn' \/ InitialDrift[Acc(i)] > 0
        BY <3>1, <3>3 DEF FreezeInv
      <4> QED BY <4>2, <4>3, <3>4
    <3>5. CASE ~ (Acc(i) \in Users /\ net'[Acc(i)] # net[Acc(i)])
      BY <1>2, <3>1, <3>2, <3>3, <3>5 DEF FreezeInv
    <3> QED BY <3>4, <3>5
  <2> QED BY <2>1, <2>2, <2>3
<1>3. FreezeInv'
  BY <1>0, <1>2 DEF FreezeInv
<1> QED BY <1>1, <1>3

\* A step changes the runs there are by one at most, and adds one only with
\* the run lock.
LEMMA RunsKeep ==
  ASSUME Typed, RunsInv, [Next]_vars
  PROVE  /\ \A i \in Jobs :
               /\ reports'[i].status # "NONE" => Job(i).kind = "reconcile" /\ pc'[i] # "start"
               /\ pc'[i] \in {"sum", "compare", "freeze", "alert", "finish", "announce",
                            "release", "unlock"} =>
                     reports'[i].status # "NONE"
         /\ \/ Running' \subseteq Running /\ lapses' = lapses /\ Locked' = Locked
            \/ \E j \in Jobs : Running' \subseteq Running \cup {j} /\ lapses' = lapses
                   /\ Locked = 0 /\ Locked' = 1
            \/ \E j \in Running : Running' \subseteq Running \ {j} /\ lapses' = lapses
            \/ Running' \subseteq Running /\ lapses' = lapses + 1 /\ Locked = 1 /\ Locked' = 0
<1> USE DEF Typed, TypeOK
<1>0. /\ \A i \in Jobs : Job(i)' = Job(i)
      /\ pc \in [Jobs -> Labels]
      /\ reports \in [Jobs -> [status : {"NONE", "RUNNING", "COMPLETED", "FAILED"},
                             drift : Int, resolved : BOOLEAN]]
  BY SameWork DEF Job, BooksTypeOK, ServicesTypeOK
<1> DEFINE Busy == {"sum", "compare", "freeze", "alert", "finish", "announce", "release",
                    "unlock"}
           Report(i) == /\ reports'[i].status # "NONE"
                              => Job(i).kind = "reconcile" /\ pc'[i] # "start"
                        /\ pc'[i] \in Busy => reports'[i].status # "NONE"
           Member(i) == i \in Running' => i \in Running
<1>a. \A i \in Jobs : pc[i] \in Busy => i \in Running
  BY DEF RunsInv, Running, Ended
<1>1. ASSUME NEW i \in Jobs, reports'[i].status = reports[i].status, ~ OfRuns(i)
      PROVE  Report(i) /\ Member(i)
  <2>1. CASE Job(i).kind = "reconcile"
    <3>1. pc'[i] = pc[i] \/ pc'[i] \in {"failed", "crashed"}
      BY <1>1, <2>1, RunOwn
    <3> QED BY <1>0, <1>1, <2>1, <3>1 DEF RunsInv, Running, Ended
  <2>2. CASE Job(i).kind # "reconcile"
    <3>1. Typed' BY TypedStep
    <3>2. pc'[i] \notin Busy
      BY <1>0, <2>2, <3>1 DEF PcInv, Only
    <3>3. reports[i].status = "NONE"
      BY <2>2 DEF RunsInv
    <3> QED BY <1>1, <3>2, <3>3 DEF Running
  <2> QED BY <2>1, <2>2
<1>2. ASSUME NEW j \in Jobs, OfRuns(j)
      PROVE  /\ \A i \in Jobs \ {j} : reports'[i].status = reports[i].status /\ ~ OfRuns(i)
             /\ lapses' = lapses
  <2>1. \A i \in Jobs \ {j} : pc'[i] = pc[i] /\ lapses' = lapses
    BY <1>2 DEF OfRuns, Keeps, ReconciliationStep, RunLock, RunSum, RunCompare, RunFreeze,
       RunAlert, RunComplete,
         RunAnnounce, RunFail, RunRelease, RunUnlock, ResolveBySync, ResolveByEntry, ResolveOnly,
         ResolveRefused, Resolved, reconciliationState
  <2>2. \A i \in Jobs \ {j} : reports'[i].status = reports[i].status
    <3>1. CASE \E i \in Jobs : ResolveBySync(j, i) \/ ResolveByEntry(j, i) \/ ResolveOnly(j, i)
      <4>1. PICK i \in Jobs : reports' = [reports EXCEPT ![i].resolved = TRUE]
        BY <3>1 DEF ResolveBySync, ResolveByEntry, ResolveOnly, Resolved
      <4> QED BY <1>0, <4>1
    <3>2. CASE ~ \E i \in Jobs : ResolveBySync(j, i) \/ ResolveByEntry(j, i)
                   \/ ResolveOnly(j, i)
      BY <1>0, <1>2, <3>2 DEF OfRuns, ReconciliationStep, RunLock, RunSum, RunCompare,
         RunFreeze, RunAlert, RunComplete,
         RunAnnounce, RunFail, RunRelease, RunUnlock, ResolveRefused, reconciliationState
    <3> QED BY <3>1, <3>2
  <2>3. \A i \in Jobs : OfRuns(i) => pc'[i] # pc[i]
    BY <1>0 DEF OfRuns, ReconciliationStep, RunLock, RunSum, RunCompare, RunFreeze,
       RunAlert, RunComplete,
         RunAnnounce, RunFail, RunRelease, RunUnlock, ResolveBySync, ResolveByEntry, ResolveOnly,
         ResolveRefused, Resolved, Resolvable, Goto, At, Starting
  <2>4. lapses' = lapses
    BY <1>2 DEF OfRuns, ReconciliationStep, RunLock, RunSum, RunCompare, RunFreeze,
       RunAlert, RunComplete,
         RunAnnounce, RunFail, RunRelease, RunUnlock, ResolveBySync, ResolveByEntry, ResolveOnly,
         ResolveRefused, Resolved, reconciliationState
  <2> QED BY <2>1, <2>2, <2>3, <2>4
<1>3. ASSUME NEW j \in Jobs, OfRuns(j)
      PROVE  Report(j) /\ \/ Running' \subseteq Running /\ lapses' = lapses /\ Locked' = Locked
                          \/ Running' \subseteq Running \cup {j} /\ lapses' = lapses
                                 /\ Locked = 0 /\ Locked' = 1
                          \/ j \in Running /\ Running' \subseteq Running \ {j}
                                 /\ lapses' = lapses
  <2>0. \A i \in Jobs \ {j} : Report(i) /\ Member(i)
    BY <1>1, <1>2, <1>3
  <2>b. Member(j) => Running' \subseteq Running
    BY <2>0 DEF Running
  <2>1. CASE RunLock(j)
    <3>1. CASE Acquirable
      <4>1. /\ runLock' = Job(j).process /\ runLock = "free"
            /\ reports'[j].status = "RUNNING" /\ pc'[j] = "sum"
            /\ Job(j).kind = "reconcile" /\ Job(j).process # "free"
        BY <1>0, <2>1, <3>1, JobType DEF RunLock, Acquirable, Goto, Starting
      <4>2. Running' \subseteq Running \cup {j}
        BY <2>0 DEF Running
      <4> QED BY <1>2, <1>3, <4>1, <4>2 DEF Locked
    <3>2. CASE ~ Acquirable
      <4>1. UNCHANGED <<runLock, reports>> /\ pc'[j] = "done" /\ pc[j] = "start"
        BY <1>0, <2>1, <3>2 DEF RunLock, Goto, Starting
      <4> QED BY <1>0, <1>2, <1>3, <2>b, <4>1 DEF RunsInv, Running, Ended, Locked
    <3> QED BY <3>1, <3>2
  <2>2. CASE pc'[j] = "done" /\ (RunRelease(j) \/ RunUnlock(j))
    <3>1. pc[j] \in {"release", "unlock"} /\ pc'[j] = "done" /\ reports' = reports
      BY <1>0, <2>2 DEF RunRelease, RunUnlock, At, reconciliationState
    <3>2. j \in Running /\ j \notin Running'
      BY <1>a, <3>1 DEF Running, Ended
    <3> QED BY <1>0, <1>2, <1>3, <2>b, <3>1, <3>2 DEF RunsInv, Running
  <2>3. CASE RunSum(j) \/ RunCompare(j) \/ RunFreeze(j) \/ RunAlert(j) \/ RunComplete(j)
                 \/ RunAnnounce(j) \/ RunFail(j) \/ (RunRelease(j) /\ pc'[j] # "done")
    <3>1. pc[j] \in Busy /\ pc'[j] \in Busy /\ runLock' = runLock
      BY <1>0, <2>3 DEF RunSum, RunCompare, RunFreeze, RunAlert, RunComplete, RunAnnounce,
         RunFail, RunRelease, Goto, At, reconciliationState
    <3>2. reports'[j].status # "NONE"
      BY <1>0, <2>3, <1>a DEF Running, RunSum, RunCompare, RunFreeze, RunAlert, RunComplete,
         RunAnnounce, RunFail, RunRelease, Goto, At, reconciliationState
    <3>3. Job(j).kind = "reconcile"
      BY <3>1 DEF PcInv, Only
    <3> QED BY <1>a, <1>2, <1>3, <2>b, <3>1, <3>2, <3>3 DEF Locked
  <2>4. CASE ResolveRefused(j) \/ \E i \in Jobs : ResolveBySync(j, i)
                 \/ ResolveByEntry(j, i) \/ ResolveOnly(j, i)
    <3>1. /\ Job(j).kind = "resolve" /\ pc'[j] \in {"done", "failed"} /\ runLock' = runLock
      BY <1>0, <2>4 DEF ResolveRefused, ResolveBySync, ResolveByEntry, ResolveOnly,
         Resolvable, Resolved, Goto, Starting, reconciliationState
    <3>2. reports'[j].status = reports[j].status
      <4>1. CASE ResolveRefused(j)
        BY <4>1 DEF ResolveRefused, reconciliationState
      <4>2. CASE \E i \in Jobs : ResolveBySync(j, i) \/ ResolveByEntry(j, i)
                     \/ ResolveOnly(j, i)
        <5>1. PICK i \in Jobs : reports' = [reports EXCEPT ![i].resolved = TRUE]
          BY <4>2 DEF ResolveBySync, ResolveByEntry, ResolveOnly, Resolved
        <5> QED BY <1>0, <5>1
      <4> QED BY <2>4, <4>1, <4>2
    <3>3. reports[j].status = "NONE"
      BY <3>1 DEF RunsInv
    <3> QED BY <1>2, <1>3, <2>b, <3>1, <3>2, <3>3 DEF Running, Ended, Locked
  <2>5. CASE RunUnlock(j)
    BY <1>0, <2>2, <2>5 DEF RunUnlock, Goto, At
  <2> QED BY <1>3, <2>1, <2>2, <2>3, <2>4, <2>5 DEF OfRuns, ReconciliationStep
<1>4. CASE RunLockTick
  <2>1. /\ UNCHANGED <<reports, pc>> /\ lapses' = lapses + 1 /\ runLock # "free"
        /\ runLock' = "free"
    BY <1>4 DEF RunLockTick, RunLockExpires
  <2> QED BY <1>0, <2>1 DEF RunsInv, Running, Locked
<1>5. CASE ~ RunLockTick /\ ~ \E j \in Jobs : OfRuns(j)
  <2>1. UNCHANGED <<reports, lapses, runLock>>
    BY <1>5, RunsQuiet DEF reconciliationState
  <2>2. \A i \in Jobs : Report(i) /\ Member(i)
    BY <1>1, <1>5, <2>1
  <2> QED BY <2>1, <2>2 DEF Running, Locked
<1>6. CASE \E j \in Jobs : OfRuns(j)
  <2>1. PICK j \in Jobs : OfRuns(j)
    BY <1>6
  <2>2. \A i \in Jobs : Report(i)
    BY <1>1, <1>2, <1>3, <2>1
  <2> QED BY <1>3, <2>1, <2>2
<1> QED BY <1>4, <1>5, <1>6

\* Every step keeps the invariant of the runs.
LEMMA RunsStep ==
  ASSUME Typed, RunsInv, [Next]_vars
  PROVE  RunsInv'
<1>1. IsFiniteSet(Running) /\ Running \subseteq Jobs
  BY AccountAssumption, FS_Subset DEF Running
<1>2. Cardinality(Running) \in Nat /\ lapses \in Nat /\ Cardinality(Running) <= lapses + Locked
  BY <1>1, FS_CardinalityType DEF RunsInv, Typed, TypeOK, ServicesTypeOK
<1>3. \A S : S \subseteq Running
          => /\ Cardinality(S) \in Nat /\ Cardinality(S) <= Cardinality(Running)
  BY <1>1, FS_Subset, FS_CardinalityType
<1>4. \A j, S : S \subseteq Running \cup {j}
          => Cardinality(S) \in Nat /\ Cardinality(S) <= Cardinality(Running) + 1
  <2> TAKE j, S
  <2>1. /\ IsFiniteSet(Running \cup {j})
        /\ Cardinality(Running \cup {j}) \in {Cardinality(Running), Cardinality(Running) + 1}
    BY <1>1, FS_AddElement
  <2> QED BY <1>2, <2>1, FS_Subset, FS_CardinalityType
<1>5. \A j \in Running : \A S : S \subseteq Running \ {j}
          => Cardinality(S) \in Nat /\ Cardinality(S) <= Cardinality(Running) - 1
  <2> TAKE j \in Running
  <2> TAKE S
  <2>1. /\ IsFiniteSet(Running \ {j})
        /\ Cardinality(Running \ {j}) = Cardinality(Running) - 1
    BY <1>1, FS_RemoveElement
  <2> QED BY <1>2, <2>1, FS_Subset, FS_CardinalityType
<1>6. Locked \in {0, 1} /\ Locked' \in {0, 1}
  BY DEF Locked
<1>7. Cardinality(Running') <= lapses' + Locked'
  <2>1. CASE Running' \subseteq Running /\ lapses' = lapses /\ Locked' = Locked
    BY <1>2, <1>3, <1>6, <2>1
  <2>2. CASE \E j \in Jobs : Running' \subseteq Running \cup {j} /\ lapses' = lapses
                 /\ Locked = 0 /\ Locked' = 1
    BY <1>2, <1>4, <2>2
  <2>3. CASE \E j \in Running : Running' \subseteq Running \ {j} /\ lapses' = lapses
    BY <1>2, <1>5, <1>6, <2>3
  <2>4. CASE Running' \subseteq Running /\ lapses' = lapses + 1 /\ Locked = 1 /\ Locked' = 0
    BY <1>2, <1>3, <2>4
  <2> QED BY <2>1, <2>2, <2>3, <2>4, RunsKeep
<1>8. \A i \in Jobs : Job(i)' = Job(i)
  BY SameWork DEF Job
<1>9. Cardinality(Running)' = Cardinality(Running')
  OBVIOUS
<1> QED BY <1>7, <1>8, <1>9, RunsKeep DEF RunsInv

\* A reconciliation run freezes a wallet that agrees with its entries only if
\* a commit fell between its two reads, and there are no more runs at a time,
\* beside the first, than run locks have expired (runReconciliation), although
\* a run deletes whatever lock there is some time after it has looked at it:
\* FreezeInv ties what a run has summed up to what it has missed, RunsInv
\* counts runs against the lock and its lapses.
THEOREM RunsAreSafe == Spec => []RunsHold
<1>1. Init => FreezeInv /\ FrozenForCause /\ RunsInv
  <2> SUFFICES ASSUME Init PROVE FreezeInv /\ FrozenForCause /\ RunsInv
    OBVIOUS
  <2>1. /\ \A j \in Jobs : pc[j] = "start" /\ reports[j].status = "NONE"
        /\ frozen = {} /\ Running = {} /\ lapses = 0 /\ Locked = 0
    BY DEF Init, BooksInit, ReconciliationInit, Running, Locked
  <2> QED BY <2>1, FS_EmptySet DEF FreezeInv, FrozenForCause, RunsInv
<1>2. Spec => []Typed
  BY InitTyped, TypedStep, PTL DEF Spec
<1>3. Spec => []BooksAgree
  BY BooksStayInAgreement
<1>4. Spec => [](FreezeInv /\ FrozenForCause)
  BY <1>1, <1>2, <1>3, FreezeStep, PTL DEF Spec
<1>5. Spec => []RunsInv
  BY <1>1, <1>2, RunsStep, PTL DEF Spec
<1>6. Typed /\ RunsInv /\ FrozenForCause => RunsHold
  <2> SUFFICES ASSUME Typed, RunsInv PROVE RunsOverlapOnlyAfterLapse
    BY DEF RunsHold
  <2>1. IsFiniteSet(Running)
    BY AccountAssumption, FS_Subset DEF Running
  <2> QED BY <2>1, FS_CardinalityType DEF RunsInv, Locked, RunsOverlapOnlyAfterLapse, Typed,
             TypeOK, ServicesTypeOK
<1> QED BY <1>2, <1>4, <1>5, <1>6, PTL

-----------------------------------------------------------------------------
(* Dead letters.                                                           *)

\* Only the consumer and the operators move dead letters, and nobody takes a
\* mail away.
LEMMA LettersQuiet ==
  ASSUME Typed, [Next]_vars, ~ \E j \in Jobs : OfConsumer(j) \/ OfAdmins(j)
  PROVE  /\ UNCHANGED letterState
         /\ \A e \in Jobs : mail[e].status # "NONE" => mail'[e].status # "NONE"
         /\ published' \subseteq published
<1> USE DEF Typed, TypeOK
<1>1. ASSUME NEW j \in Jobs, OfMoney(j) \/ OfFunding(j) \/ OfVaults(j) \/ OfFees(j)
          \/ OfReversals(j) \/ OfRuns(j) \/ OfFaults(j)
      PROVE  UNCHANGED aftermath
  BY <1>1 DEF OfMoney, OfFunding, OfVaults, OfFees, OfReversals, OfRuns, OfFaults
<1>2. VaultsTick \/ RunLockTick \/ UNCHANGED vars => UNCHANGED aftermath
  BY DEF VaultsTick, RunLockTick, vars
<1>3. QueueTick => UNCHANGED letterState /\ UNCHANGED mail /\ published' = published
  BY DEF QueueTick, RedisLoss, QueueForget, readModelState
<1>4. ASSUME NEW j \in Jobs, OfReadModel(j)
      PROVE UNCHANGED letterState /\ UNCHANGED mail /\ published' \subseteq published
  BY <1>4 DEF OfReadModel, ReadModelStep, Project, ProjectFail, mailState
<1>5. ASSUME NEW j \in Jobs, OfMail(j)
      PROVE  /\ UNCHANGED letterState /\ published' = published
             /\ \A e \in Jobs : mail[e].status # "NONE" => mail'[e].status # "NONE"
  <2>1. UNCHANGED letterState /\ published' = published
    BY <1>5 DEF OfMail, readModelState
  <2>2. mail \in [Jobs -> MailDoc]
    BY DEF AftermathTypeOK
  <2>3. \/ mail' = mail
        \/ \E e, s : SetMail(e, s) /\ s # "NONE"
        \/ PollFail(j)
    BY <1>5 DEF OfMail, MailStep, MailCrash, PollClaim, PollAdd, PollMark, WorkTake,
       WorkSend, WorkSendError,
       WorkMark, WorkDone, WorkFail, MailRestart
  <2>4. PollFail(j) => \A e \in Jobs : mail[e].status # "NONE" => mail'[e].status # "NONE"
    BY <2>2 DEF PollFail
  <2>5. ASSUME NEW e, NEW s, SetMail(e, s), s # "NONE"
        PROVE \A d \in Jobs : mail[d].status # "NONE" => mail'[d].status # "NONE"
    BY <2>2, <2>5 DEF SetMail, MailDoc
  <2> QED BY <2>1, <2>3, <2>4, <2>5
<1> QED BY <1>1, <1>2, <1>3, <1>4, <1>5, Moves DEF aftermath, mailState, readModelState

AdminKinds == {"replay", "replayTopic", "dismiss"}

\* An operator is moved on by its own steps.
LEMMA AdminOwn ==
  ASSUME Typed, [Next]_vars, NEW i \in Jobs, pc'[i] # pc[i], Job(i).kind \in AdminKinds
  PROVE  OfAdmins(i) \/ pc'[i] \in {"failed", "crashed"}
BY Own DEF AdminKinds, OfMoney, OfFunding, OfVaults, OfFees, OfReversals, OfRuns, OfMail,
   Keeps

\* Nobody brings an operator to a replay but itself.
LEMMA AdminAt ==
  ASSUME Typed, [Next]_vars, NEW i \in Jobs, pc'[i] \in Replaying
  PROVE  \/ OfAdmins(i) 
         \/ pc'[i] = pc[i]
<1>1. Typed' /\ Job(i)' = Job(i)
  BY TypedStep, SameWork DEF Job
<1>2. Job(i).kind \in AdminKinds
  BY <1>1 DEF Typed, PcInv, Only, Replaying, AdminKinds
<1> QED BY <1>2, AdminOwn DEF Replaying

\* An operator moves no other.
LEMMA AdminOthers ==
  ASSUME Typed, NEW j \in Jobs, OfAdmins(j), NEW i \in Jobs \ {j}
  PROVE  pc'[i] = pc[i] /\ target'[i] = target[i] /\ todo'[i] = todo[i]
<1>1. target \in [Jobs -> Jobs] /\ todo \in [Jobs -> SUBSET Jobs]
  BY DEF Typed, TypeOK, AftermathTypeOK
<1>2. pc'[i] = pc[i]
  BY DEF OfAdmins, Keeps
<1>3. \/ target' = target \/ \E e : target' = [target EXCEPT ![j] = e]
  BY DEF OfAdmins, AdminStep, ReplayRead, TopicNext, DismissRead, TopicRead, TopicDone,
     ReplayRun, ReplayConfirm, ReplayMark,
     ReplayMarkFailed, DismissWrite, BulkDismiss, letterState
<1>4. \/ todo' = todo \/ \E e : todo' = [todo EXCEPT ![j] = e]
  BY DEF OfAdmins, AdminStep, ReplayRead, TopicNext, DismissRead, TopicRead, TopicDone,
     ReplayRun, ReplayConfirm, ReplayMark,
     ReplayMarkFailed, DismissWrite, BulkDismiss, letterState
<1> QED BY <1>1, <1>2, <1>3, <1>4

\* What is known of an event ...
LetterOf(e) ==
    /\ Filed(e) => Job(e).kind # "reverse" /\ e \in taken
    /\ Mailed(e) => /\ applied[e] <= 1
                    /\ applied[e] = 1 => mail[e].status # "NONE" /\ e \in taken
    /\ e \in revived => Filed(e)
    /\ letter[e] = "REPLAYED" => e \in revived
\* ... and of a request at a letter.
AtLetter(j) ==
    /\ todo[j] \subseteq {e \in Jobs : Filed(e)}
    /\ pc[j] \in Replaying => Filed(target[j])
    /\ pc[j] \in {"replayConfirm", "replayMark"} => target[j] \in revived

\* The consumer keeps the state of every letter, and what has been filed
\* filed.
LEMMA ConsumeLetters ==
  ASSUME Typed, LetterInv, NEW j \in Jobs, OfConsumer(j)
  PROVE  /\ \A e \in Jobs : LetterOf(e)' /\ (Filed(e) => Filed(e)')
         /\ UNCHANGED <<pc, target, todo, revived>>
<1> USE DEF Typed, TypeOK
<1>0. /\ \A i \in Jobs : Job(i)' = Job(i)
      /\ letter \in [Jobs -> LetterStatuses] /\ mail \in [Jobs -> MailDoc]
      /\ applied \in [Jobs -> Nat]
      /\ UNCHANGED <<pc, target, todo, revived>>
  BY DEF OfConsumer, documents, Job, AftermathTypeOK, ConsumeStep, Consume, ConsumeDead,
     ReversalDead
<1>1. PICK e \in Jobs : Consume(j, e) \/ ConsumeDead(j, e) \/ ReversalDead(j, e)
  BY DEF OfConsumer, ConsumeStep
<1>2. e \notin taken /\ LetterOf(e)
  BY <1>1 DEF Consume, ConsumeDead, ReversalDead, Takeable, LetterInv, LetterOf
<1>3. letter[e] = "NONE" /\ e \notin revived /\ (Mailed(e) => applied[e] = 0)
  BY <1>0, <1>2 DEF LetterOf, Filed
<1>4. /\ taken \subseteq taken'
      /\ e \in taken' \/ Job(e).kind = "reverse"
      /\ letter' = letter
              \/ letter' = [letter EXCEPT ![e] = IF Job(e).kind = "reverse" THEN "NONE" ELSE "PENDING"]
      /\ \/ UNCHANGED <<applied, mail>>
         \/ /\ applied' = [applied EXCEPT ![e] = @ + 1]
            /\ mail' = IF Mailed(e) THEN [mail EXCEPT ![e] = [status |-> "PENDING",
                 attempts |-> 0]] ELSE mail
  BY <1>1 DEF Consume, ConsumeDead, ReversalDead, Process, NotProcessed, File
<1>5. ASSUME NEW d \in Jobs, d # e PROVE LetterOf(d)' /\ (Filed(d) => Filed(d)')
  <2>1. LetterOf(d)
    BY DEF LetterInv, LetterOf
  <2>2. letter'[d] = letter[d] /\ applied'[d] = applied[d] /\ mail'[d] = mail[d]
    BY <1>0, <1>4, <1>5
  <2> QED BY <1>0, <1>4, <2>1, <2>2 DEF LetterOf, Filed, Mailed
<1>6. LetterOf(e)'
  <2>1. Mailed(e) => Job(e).kind # "reverse"
    BY DEF Mailed
  <2>2. Mailed(e) => applied'[e] <= 1 /\ (applied'[e] = 1 => mail'[e].status # "NONE")
    BY <1>0, <1>3, <1>4
  <2>3. letter'[e] \in {"NONE", "PENDING"} /\ (Job(e).kind = "reverse" => letter'[e] = "NONE")
    BY <1>0, <1>3, <1>4
  <2> QED BY <1>0, <1>3, <1>4, <2>1, <2>2, <2>3 DEF LetterOf, Filed, Mailed
<1> QED BY <1>0, <1>3, <1>5, <1>6 DEF Filed

\* An operator keeps the state of every letter and of the one it is at.
LEMMA AdminLetters ==
  ASSUME Typed, LetterInv, NEW j \in Jobs, OfAdmins(j)
  PROVE  /\ \A e \in Jobs : LetterOf(e)' /\ (Filed(e) => Filed(e)')
         /\ revived \subseteq revived'
         /\ AtLetter(j)'
<1> USE DEF Typed, TypeOK
<1>0. /\ \A i \in Jobs : Job(i)' = Job(i)
      /\ letter \in [Jobs -> LetterStatuses] /\ mail \in [Jobs -> MailDoc]
      /\ applied \in [Jobs -> Nat]
      /\ pc \in [Jobs -> Labels] /\ target \in [Jobs -> Jobs] /\ todo \in [Jobs -> SUBSET Jobs]
      /\ taken' = taken
  BY DEF OfAdmins, documents, Job, AftermathTypeOK, BooksTypeOK, AdminStep, ReplayRead,
     TopicNext, DismissRead, TopicRead, TopicDone, ReplayRun, ReplayConfirm, ReplayMark,
     ReplayMarkFailed, DismissWrite, BulkDismiss, letterState
<1>1. (\A e \in Jobs : LetterOf(e)) /\ AtLetter(j)
  BY DEF LetterInv, LetterOf, AtLetter
<1>2. ASSUME UNCHANGED <<letter, applied, mail, revived>>
      PROVE  \A e \in Jobs : LetterOf(e)' /\ (Filed(e) => Filed(e)')
  BY <1>0, <1>1, <1>2 DEF LetterOf, Filed, Mailed
<1>3. ASSUME NEW e \in Jobs, ReplayRead(j, e) \/ TopicNext(j, e) \/ DismissRead(j, e)
      PROVE  /\ UNCHANGED <<letter, applied, mail, revived>> /\ AtLetter(j)'
  <2>1. /\ UNCHANGED <<letter, applied, mail, revived>> /\ target'[j] = e /\ Filed(e)
        /\ todo'[j] \subseteq todo[j]
        /\ pc'[j] \notin {"replayConfirm", "replayMark"}
    BY <1>0, <1>1, <1>3 DEF ReplayRead, TopicNext, DismissRead, AtLetter, Goto
  <2> QED BY <1>0, <1>1, <2>1 DEF AtLetter, Filed
<1>4. ASSUME TopicRead(j) \/ TopicDone(j)
      PROVE  /\ UNCHANGED <<letter, applied, mail, revived>> /\ AtLetter(j)'
  <2>1. /\ UNCHANGED <<letter, applied, mail, revived>> 
        /\ todo'[j] \subseteq {e \in Jobs : Filed(e)}
        /\ pc'[j] \notin Replaying
    BY <1>0, <1>1, <1>4 DEF TopicRead, TopicDone, AtLetter, Goto, Pending, letterState,
       Replaying
  <2> QED BY <2>1 DEF AtLetter, Filed, Replaying
<1>5. CASE ReplayConfirm(j)
  <2>1. /\ UNCHANGED <<letter, applied, mail, revived, target, todo>>
        /\ pc[j] = "replayConfirm" /\ pc'[j] = "replayMark"
    BY <1>0, <1>5 DEF ReplayConfirm, letterState, Goto, At
  <2> QED BY <1>1, <1>2, <2>1 DEF AtLetter, Filed, Replaying
<1>6. CASE ReplayRun(j)
  <2>1. pc[j] = "replayRun" /\ Filed(target[j]) /\ UNCHANGED <<letter, target, todo>>
    BY <1>1, <1>6 DEF ReplayRun, AtLetter, At, Replaying
  <2>2. CASE UNCHANGED <<applied, mail, revived>>
    <3>1. pc'[j] = "replayFail" 
      <4>1. ASSUME revived' = revived \cup {target[j]},
                 applied' = [applied EXCEPT ![target[j]] = @ + 1]
            PROVE FALSE
        BY <1>0, <2>2, <4>1
      <4> QED BY <1>0, <1>6, <4>1 DEF ReplayRun, Goto, Process
    <3> QED BY <1>0, <1>1, <1>2, <2>1, <2>2, <3>1 DEF AtLetter, Filed, Replaying
  <2>3. CASE /\ Processable(target[j]) /\ Process(target[j])
             /\ revived' = revived \cup {target[j]}
             /\ Goto(j, "replayConfirm")
    <3> DEFINE e == target[j]
    <3>0. e \in Jobs /\ LetterOf(e) /\ applied[e] \in Nat
      BY <1>0, <1>1
    <3>1. e \in Jobs /\ e \in taken /\ (Mailed(e) => mail[e].status = "NONE" /\ applied[e] = 0)
      <4>1. e \in taken
        BY <2>1, <3>0 DEF LetterOf
      <4>2. Mailed(e) => mail[e].status = "NONE" /\ applied[e] <= 1 /\ applied[e] # 1
        BY <2>3, <3>0 DEF LetterOf, Processable
      <4> QED BY <3>0, <4>1, <4>2
    <3>2. ASSUME NEW d \in Jobs, d # e PROVE LetterOf(d)'
      <4>1. LetterOf(d) BY <1>1
      <4>2. applied'[d] = applied[d] /\ mail'[d] = mail[d] /\ (d \in revived' <=> d \in revived)
        BY <1>0, <2>3, <3>1, <3>2 DEF Process
      <4>3. letter' = letter /\ taken' = taken /\ Job(d)' = Job(d)
        BY <1>0, <2>1
      <4> QED BY <4>1, <4>2, <4>3 DEF LetterOf, Filed, Mailed
    <3>3. LetterOf(e)'
      <4>1. LetterOf(e) BY <1>1, <3>1
      <4>2. Mailed(e) => applied'[e] <= 1 /\ mail'[e].status # "NONE"
        BY <1>0, <2>3, <3>1 DEF Process
      <4> QED BY <1>0, <2>1, <2>3, <3>1, <4>1, <4>2 DEF LetterOf, Filed, Mailed
    <3>4. AtLetter(j)'
      BY <1>0, <1>1, <2>1, <2>3 DEF AtLetter, Goto, Filed
    <3> QED BY <2>1, <2>3, <3>2, <3>3, <3>4 DEF Filed
  <2> QED BY <1>6, <2>2, <2>3 DEF ReplayRun
<1>7. CASE ReplayMark(j) \/ ReplayMarkFailed(j) \/ DismissWrite(j)
  <2>1. /\ UNCHANGED <<applied, mail, revived, target, todo>>
        /\ pc[j] \in Replaying /\ pc'[j] \in {"done", "topic", "replayFail"}
        /\ \/ letter' = letter
           \/ \E s \in {"REPLAYED", "REPLAY_FAILED", "DISMISSED"} :
                 /\ letter' = [letter EXCEPT ![target[j]] = s]
                 /\ s = "REPLAYED" => pc[j] = "replayMark"
    BY <1>0, <1>7 DEF ReplayMark, ReplayMarkFailed, DismissWrite, Write, Proceed, Goto, At,
       Replaying
  <2>2. Filed(target[j]) /\ target[j] \in Jobs
    BY <1>0, <1>1, <2>1 DEF AtLetter
  <2>3. \A e \in Jobs : /\ Filed(e)' <=> Filed(e)
                        /\ letter'[e] = "REPLAYED"
                               => letter[e] = "REPLAYED"
                                      \/ (e = target[j] /\ pc[j] = "replayMark")
    <3>1. ASSUME NEW s \in {"REPLAYED", "REPLAY_FAILED", "DISMISSED"},
               letter' = [letter EXCEPT ![target[j]] = s],
                 s = "REPLAYED" => pc[j] = "replayMark", NEW e \in Jobs
          PROVE  /\ Filed(e)' <=> Filed(e)
                 /\ letter'[e] = "REPLAYED"
                        => letter[e] = "REPLAYED" \/ (e = target[j] /\ pc[j] = "replayMark")
      <4>1. letter'[e] = IF e = target[j] THEN s ELSE letter[e]
        BY <1>0, <3>1
      <4>2. letter[target[j]] # "NONE" /\ s # "NONE"
        BY <2>2 DEF Filed
      <4>3. letter'[e] # "NONE" <=> letter[e] # "NONE"
        BY <4>1, <4>2
      <4> QED BY <3>1, <4>1, <4>3 DEF Filed
    <3>2. CASE letter' = letter
      BY <3>2 DEF Filed
    <3> QED BY <2>1, <3>1, <3>2
  <2>4. \A e \in Jobs : LetterOf(e)'
    BY <1>0, <1>1, <2>1, <2>2, <2>3 DEF LetterOf, Mailed, AtLetter
  <2>5. AtLetter(j)'
    BY <1>1, <2>1, <2>2, <2>3 DEF AtLetter, Replaying
  <2> QED BY <2>1, <2>3, <2>4, <2>5
<1>8. CASE BulkDismiss(j)
  <2>1. /\ UNCHANGED <<applied, mail, revived, target, todo>> /\ pc'[j] = "done"
        /\ letter' = [e \in Jobs |-> IF e \in Dismissible THEN "DISMISSED" ELSE letter[e]]
    BY <1>0, <1>8 DEF BulkDismiss, Goto
  <2>2. \A e \in Jobs : /\ Filed(e)' <=> Filed(e)
                        /\ letter'[e] = "REPLAYED" => letter[e] = "REPLAYED"
    BY <1>0, <2>1 DEF Dismissible, Pending, Filed
  <2>3. \A e \in Jobs : LetterOf(e)'
    BY <1>0, <1>1, <2>1, <2>2 DEF LetterOf, Mailed
  <2>4. AtLetter(j)'
    BY <1>1, <2>1, <2>2 DEF AtLetter, Replaying
  <2> QED BY <2>1, <2>2, <2>3, <2>4
<1> QED BY <1>2, <1>3, <1>4, <1>5, <1>6, <1>7, <1>8 DEF OfAdmins, AdminStep

\* Every step keeps the letters with what the consumer has done with their
\* events, and the operators at letters that are filed.
LEMMA LetterStep ==
  ASSUME Typed, LetterInv, [Next]_vars
  PROVE  LetterInv'
<1>0. \A i \in Jobs : Job(i)' = Job(i)
  BY SameWork DEF Job
<1>1. \A i \in Jobs : LetterOf(i) /\ AtLetter(i)
  BY DEF LetterInv, LetterOf, AtLetter
<1>2. ASSUME NEW i \in Jobs, ~ OfAdmins(i), \A e \in Jobs : Filed(e)
          => Filed(e)', revived \subseteq revived',
             target'[i] = target[i], todo'[i] = todo[i]
      PROVE  AtLetter(i)'
  <2>1. target[i] \in Jobs
    BY DEF Typed, TypeOK, AftermathTypeOK
  <2>2. pc'[i] \in Replaying => pc'[i] = pc[i]
    BY <1>2, AdminAt
  <2> QED BY <1>1, <1>2, <2>1, <2>2 DEF AtLetter, Replaying
<1>3. ASSUME NEW j \in Jobs, OfConsumer(j) PROVE \A i \in Jobs : LetterOf(i)' /\ AtLetter(i)'
  <2>1. /\ \A e \in Jobs : LetterOf(e)' /\ (Filed(e) => Filed(e)')
        /\ UNCHANGED <<pc, target, todo, revived>>
    BY <1>3, ConsumeLetters
  <2>2. target \in [Jobs -> Jobs]
    BY DEF Typed, TypeOK, AftermathTypeOK
  <2> QED BY <1>1, <2>1, <2>2 DEF AtLetter
<1>4. ASSUME NEW j \in Jobs, OfAdmins(j) PROVE \A i \in Jobs : LetterOf(i)' /\ AtLetter(i)'
  <2>1. /\ \A e \in Jobs : LetterOf(e)' /\ (Filed(e) => Filed(e)')
        /\ revived \subseteq revived' /\ AtLetter(j)'
    BY <1>4, AdminLetters
  <2>2. ASSUME NEW i \in Jobs, i # j PROVE AtLetter(i)'
    <3>1. pc'[i] = pc[i] /\ target'[i] = target[i] /\ todo'[i] = todo[i]
      BY <1>4, <2>2, AdminOthers
    <3>2. target[i] \in Jobs
      BY DEF Typed, TypeOK, AftermathTypeOK
    <3> QED BY <1>1, <2>1, <3>1, <3>2 DEF AtLetter
  <2> QED BY <2>1, <2>2
<1>5. CASE ~ \E j \in Jobs : OfConsumer(j) \/ OfAdmins(j)
  <2>1. /\ UNCHANGED letterState
        /\ \A e \in Jobs : mail[e].status # "NONE" => mail'[e].status # "NONE"
    BY <1>5, LettersQuiet
  <2>2. \A e \in Jobs : LetterOf(e)'
    BY <1>0, <1>1, <2>1 DEF LetterOf, Filed, Mailed, letterState
  <2>3. \A e \in Jobs : AtLetter(e)'
    BY <1>2, <1>5, <2>1 DEF letterState, Filed
  <2> QED BY <2>2, <2>3 DEF LetterInv, LetterOf, AtLetter
<1> QED BY <1>3, <1>4, <1>5 DEF LetterInv, LetterOf, AtLetter

-----------------------------------------------------------------------------
(* Mails and projections.                                                  *)

\* Only the consumer and the projection retries touch projections.
LEMMA ProjectionQuiet ==
  ASSUME Typed, [Next]_vars, ~ \E j \in Jobs : OfConsumer(j) \/ OfReadModel(j)
  PROVE  UNCHANGED <<projection, projected, readModel, shown>>
<1>1. ASSUME NEW j \in Jobs,
             OfMoney(j) \/ OfFunding(j) \/ OfVaults(j) \/ OfFees(j) \/ OfReversals(j)
                 \/ OfRuns(j)
             \/ OfMail(j) \/ OfAdmins(j) \/ OfFaults(j)
      PROVE  UNCHANGED <<projection, projected, readModel, shown>>
  BY <1>1 DEF OfMoney, OfFunding, OfVaults, OfFees, OfReversals, OfRuns, OfMail, OfAdmins,
     OfFaults,
     aftermath, readModelState
<1>2. VaultsTick \/ RunLockTick \/ QueueTick \/ UNCHANGED vars =>
        UNCHANGED <<projection, projected, readModel, shown>>
  BY DEF VaultsTick, RunLockTick, QueueTick, vars, aftermath, readModelState
<1> QED BY <1>1, <1>2, Moves DEF Typed, TypeOK

\* What is known of the projection of an event.
ProjectionOf(e) ==
    /\ Job(e).kind = "reverse" => e \notin published
    /\ Job(e).kind # "reverse" =>
          projected[e] <= 1 /\ (projected[e] = 1 => projection[e] = "COMPLETED")

\* Every step keeps the projections: an event that is projected has a
\* completed record, which is what a later attempt finds.
LEMMA ProjectionStep ==
  ASSUME Typed, LetterInv, ProjectionInv, [Next]_vars
  PROVE  ProjectionInv'
<1> USE DEF Typed, TypeOK
<1>0. /\ \A i \in Jobs : Job(i)' = Job(i)
      /\ \A i \in Jobs : ProjectionOf(i)
      /\ projection \in [Jobs -> {"NONE", "PROCESSING", "COMPLETED"}]
      /\ projected \in [Jobs -> Nat] /\ target \in [Jobs -> Jobs]
  BY SameWork DEF Job, ProjectionInv, ProjectionOf, AftermathTypeOK
<1> SUFFICES ASSUME NEW d \in Jobs PROVE ProjectionOf(d)'
  BY DEF ProjectionInv, ProjectionOf
<1>1. ASSUME NEW e \in Jobs, Job(e).kind # "reverse", published' \subseteq published \cup {e},
             UNCHANGED <<projection, projected>>
      PROVE  ProjectionOf(d)'
  BY <1>0, <1>1 DEF ProjectionOf
<1>2. ASSUME published' \subseteq published, UNCHANGED <<projection, projected>>
      PROVE  ProjectionOf(d)'
  BY <1>0, <1>2 DEF ProjectionOf
<1>3. ASSUME NEW j \in Jobs, OfConsumer(j) PROVE ProjectionOf(d)'
  <2>1. PICK e \in Jobs : Consume(j, e) \/ ConsumeDead(j, e) \/ ReversalDead(j, e)
    BY <1>3 DEF OfConsumer, ConsumeStep
  <2>2. CASE Job(e).kind # "reverse"
    BY <1>1, <2>1, <2>2 DEF Consume, ConsumeDead, ReversalDead, Publish
  <2>3. CASE Job(e).kind = "reverse"
    <3>1. /\ published' = published /\ projection' = projection
          /\ projected' = projected \/ projected' = [projected EXCEPT ![e] = @ + 1]
      BY <2>1, <2>3 DEF Consume, ConsumeDead, ReversalDead, ShowReversal
    <3> QED BY <1>0, <2>3, <3>1 DEF ProjectionOf
  <2> QED BY <2>2, <2>3
<1>4. ASSUME NEW j \in Jobs, OfReadModel(j) PROVE ProjectionOf(d)'
  <2>1. PICK e \in Jobs : Project(j, e) \/ ProjectFail(j, e)
    BY <1>4 DEF OfReadModel, ReadModelStep
  <2>2. e \in published /\ projection[e] # "COMPLETED" /\ published' \subseteq published
    BY <2>1 DEF Project, ProjectFail, Projectable
  <2>3. projected[e] = 0
    BY <1>0, <2>2 DEF ProjectionOf
  <2>4. CASE Project(j, e)
    <3>1. /\ projected' = [projected EXCEPT ![e] = @ + 1]
          /\ projection' = [projection EXCEPT ![e] = "COMPLETED"]
      BY <2>4 DEF Project, Show
    <3> QED BY <1>0, <2>2, <2>3, <3>1 DEF ProjectionOf
  <2>5. CASE ProjectFail(j, e)
    <3>1. projected' = projected /\ projection' = [projection EXCEPT ![e] = "PROCESSING"]
      BY <2>5 DEF ProjectFail
    <3> QED BY <1>0, <2>2, <2>3, <3>1 DEF ProjectionOf
  <2> QED BY <2>1, <2>4, <2>5
<1>5. ASSUME NEW j \in Jobs, OfAdmins(j) PROVE ProjectionOf(d)'
  <2>1. UNCHANGED <<projection, projected>>
    BY <1>5 DEF OfAdmins
  <2>2. CASE ReplayConfirm(j)
    <3>1. Filed(target[j]) /\ target[j] \in Jobs
      BY <1>0, <2>2 DEF ReplayConfirm, At, LetterInv, Replaying
    <3>2. Job(target[j]).kind # "reverse"
      BY <3>1 DEF LetterInv
    <3> QED BY <1>1, <2>1, <2>2, <3>1, <3>2 DEF ReplayConfirm, Publish
  <2>3. CASE ~ ReplayConfirm(j)
    <3>1. published' = published
      BY <1>5, <2>3 DEF OfAdmins, AdminStep, ReplayRead, TopicNext, DismissRead, TopicRead,
         TopicDone,
         ReplayRun, ReplayMark, ReplayMarkFailed, DismissWrite, BulkDismiss
    <3> QED BY <1>2, <2>1, <3>1
  <2> QED BY <2>2, <2>3
<1>6. CASE ~ \E j \in Jobs : OfConsumer(j) \/ OfReadModel(j) \/ OfAdmins(j)
  BY <1>2, <1>6, LettersQuiet, ProjectionQuiet
<1> QED BY <1>3, <1>4, <1>5, <1>6

\* However often an event is delivered, dead-lettered, replayed and its mail
\* retried, the provider accepts the mail once and the read model shows the
\* event once; a mail that is DELIVERED was accepted and a letter that is
\* REPLAYED was processed (email poller and worker, projection records, dead
\* letter administration).
THEOREM EventsAreAnnouncedOnce == Spec => []AnnouncedOnce
<1>1. Init => LetterInv /\ ProjectionInv
  <2> SUFFICES ASSUME Init PROVE LetterInv /\ ProjectionInv
    OBVIOUS
  <2>1. LetterInv
    BY DEF Init, BooksInit, LettersInit, LetterInv, Filed, Replaying
  <2>2. ProjectionInv
    BY DEF Init, ReadModelInit, ProjectionInv
  <2> QED BY <2>1, <2>2
<1>2. Typed /\ LetterInv /\ ProjectionInv /\ [Next]_vars => LetterInv' /\ ProjectionInv'
  BY LetterStep, ProjectionStep
<1>3. Typed /\ LetterInv /\ ProjectionInv => AnnouncedOnce
  BY DEF Typed, MailInv, LetterInv, ProjectionInv, AnnouncedOnce
<1>4. Spec => []Typed
  BY InitTyped, TypedStep, PTL DEF Spec
<1> QED BY <1>1, <1>2, <1>3, <1>4, PTL DEF Spec

-----------------------------------------------------------------------------
(* Misfiled letters.                                                       *)

\* What an admin's request does to the letters: it takes one up that is not
\* REPLAYED, goes on with the one it is at, or writes and leaves it.
AtIt == {"replayConfirm", "replayMark"}
Takes(j) ==
    /\ pc[j] \notin Replaying /\ UNCHANGED <<letter, revived, overtaken>>
    /\ pc'[j] \in Replaying => pc'[j] \notin AtIt /\ letter[target'[j]] # "REPLAYED"
Continues(j) ==
    /\ pc[j] \in Replaying /\ UNCHANGED <<letter, target, overtaken>>
    /\ \/ revived' = revived \cup {target[j]} /\ pc'[j] \in AtIt
       \/ revived' = revived /\ (pc[j] \in AtIt => pc'[j] \in AtIt \/ May("error"))
Leaves(j) ==
    /\ pc[j] \in Replaying /\ pc'[j] \notin Replaying
    /\ UNCHANGED <<target, revived>>
    /\ \E s \in {"REPLAYED", "REPLAY_FAILED", "DISMISSED"} :
          Write(j, s) /\ (pc[j] \in AtIt => s = "REPLAYED")
Dismisses(j) ==
    /\ pc[j] \notin Replaying /\ pc'[j] \notin Replaying
    /\ UNCHANGED <<target, revived>>
    /\ letter' = [e \in Jobs |-> IF e \in Dismissible THEN "DISMISSED" ELSE letter[e]]
    /\ overtaken \subseteq overtaken'

\* What an operator does to the letter it is at: take one up, go on with it,
\* leave it or dismiss it.
LEMMA AdminDoes ==
  ASSUME Typed, NEW j \in Jobs, OfAdmins(j)
  PROVE  Takes(j) \/ Continues(j) \/ Leaves(j) \/ Dismisses(j)
<1> USE DEF Typed, TypeOK, Replaying, AtIt, Goto, At
<1>0. /\ pc \in [Jobs -> Labels] /\ target \in [Jobs -> Jobs]
      /\ letter \in [Jobs -> LetterStatuses]
  BY DEF BooksTypeOK, AftermathTypeOK
<1>1. ASSUME NEW e \in Jobs, ReplayRead(j, e) \/ TopicNext(j, e) \/ DismissRead(j, e)
      PROVE  Takes(j)
  <2>1. /\ pc[j] \in {"start", "topic"} /\ UNCHANGED <<letter, revived, overtaken>>
        /\ target'[j] = e
        /\ pc'[j] \in {"replayRun", "dismiss"} => letter[e] # "REPLAYED"
        /\ pc'[j] \in {"replayRun", "dismiss", "failed", "topic"}
    BY <1>0, <1>1 DEF ReplayRead, TopicNext, DismissRead, Starting, Replayable, Pending
  <2> QED BY <2>1 DEF Takes
<1>2. TopicRead(j) \/ TopicDone(j) => Takes(j)
  BY <1>0 DEF TopicRead, TopicDone, Starting, letterState, Takes
<1>3. ReplayRun(j) => Continues(j)
  BY <1>0 DEF ReplayRun, Continues
<1>4. ReplayConfirm(j) => Continues(j)
  BY <1>0 DEF ReplayConfirm, Continues, letterState
<1>5. ReplayMark(j) => Continues(j) \/ Leaves(j)
  BY <1>0 DEF ReplayMark, Continues, Leaves, Proceed
<1>6. ReplayMarkFailed(j) \/ DismissWrite(j) => Leaves(j)
  BY <1>0 DEF ReplayMarkFailed, DismissWrite, Leaves, Proceed
<1>7. BulkDismiss(j) => Dismisses(j)
  BY <1>0 DEF BulkDismiss, Dismisses, Starting, Overtake
<1> QED BY <1>1, <1>2, <1>3, <1>4, <1>5, <1>6, <1>7 DEF OfAdmins, AdminStep

\* Without errors and crashes an operator leaves a replay by its own steps.
LEMMA AdminStays ==
  ASSUME Typed, [Next]_vars, NEW i \in Jobs, pc[i] \in Replaying, pc'[i] # pc[i],
         ~May("error"), ~May("crash")
  PROVE  OfAdmins(i)
<1>1. Job(i).kind \in AdminKinds
  BY DEF Typed, PcInv, Only, Replaying, AdminKinds
<1>2. ~ OfFaults(i)
  BY DEF OfFaults, TxnError, CrashJob
<1> QED BY <1>1, <1>2, Own DEF AdminKinds, OfMoney, OfFunding, OfVaults, OfFees,
           OfReversals,
        OfRuns, OfMail, Keeps

OvertakenAt(i) ==
    pc[i] \in Replaying /\ letter[target[i]] = "REPLAYED" => <<i, target[i]>> \in overtaken
Accounted(e) ==
    \/ letter[e] = "REPLAYED"
    \/ \E j \in Jobs : <<j, e>> \in overtaken \/ (target[j] = e /\ pc[j] \in AtIt)

\* The consumer neither replays letters nor takes them away from operators.
LEMMA MisfiledConsume ==
  ASSUME Typed, LetterInv, NEW j \in Jobs, OfConsumer(j)
  PROVE  /\ UNCHANGED <<pc, target, revived, overtaken>>
         /\ \A e \in Jobs : letter'[e] = "REPLAYED" <=> letter[e] = "REPLAYED"
<1>1. PICK e \in Jobs : Consume(j, e) \/ ConsumeDead(j, e) \/ ReversalDead(j, e)
  BY DEF OfConsumer, ConsumeStep
<1>2. letter \in [Jobs -> LetterStatuses]
  BY DEF Typed, TypeOK, AftermathTypeOK
<1>3. e \notin taken
  BY <1>1 DEF Consume, ConsumeDead, ReversalDead, Takeable
<1>4. letter[e] = "NONE"
  BY <1>3 DEF LetterInv, Filed
<1>5. letter' = letter \/ \E s \in {"NONE", "PENDING"} : letter' = [letter EXCEPT ![e] = s]
  BY <1>1 DEF Consume, ConsumeDead, ReversalDead, File
<1>6. UNCHANGED <<pc, target, revived, overtaken>>
  BY <1>1 DEF OfConsumer, Consume, ConsumeDead, ReversalDead
<1> QED BY <1>2, <1>4, <1>5, <1>6

\* Every step keeps the letters an operator was overtaken at among those that
\* were.
LEMMA OvertakenStep ==
  ASSUME Typed, LetterInv, [Next]_vars, \A i \in Jobs : OvertakenAt(i), NEW i \in Jobs
  PROVE  OvertakenAt(i)'
<1>0. /\ target \in [Jobs -> Jobs] /\ letter \in [Jobs -> LetterStatuses]
      /\ pc'[i] \in Replaying => OfAdmins(i) \/ pc'[i] = pc[i]
      /\ OvertakenAt(i)
  BY AdminAt DEF Typed, TypeOK, AftermathTypeOK
<1>1. ASSUME NEW j \in Jobs, OfConsumer(j) PROVE OvertakenAt(i)'
  <2>1. /\ UNCHANGED <<pc, target, revived, overtaken>>
        /\ \A e \in Jobs : letter'[e] = "REPLAYED" <=> letter[e] = "REPLAYED"
    BY <1>1, MisfiledConsume
  <2> QED BY <1>0, <2>1 DEF OvertakenAt
<1>2. CASE ~ \E j \in Jobs : OfConsumer(j) \/ OfAdmins(j)
  <2>1. UNCHANGED letterState
    BY <1>2, LettersQuiet
  <2> QED BY <1>0, <1>2, <2>1 DEF OvertakenAt, letterState
<1>3. CASE OfAdmins(i)
  <2>1. CASE Takes(i)
    BY <2>1 DEF Takes, OvertakenAt
  <2>2. CASE Continues(i)
    BY <1>0, <2>2 DEF Continues, OvertakenAt
  <2>3. CASE Leaves(i) \/ Dismisses(i)
    BY <2>3 DEF Leaves, Dismisses, OvertakenAt
  <2> QED BY <1>3, <2>1, <2>2, <2>3, AdminDoes
<1>4. ASSUME NEW j \in Jobs, j # i, OfAdmins(j) PROVE OvertakenAt(i)'
  <2>1. pc'[i] = pc[i] /\ target'[i] = target[i]
    BY <1>4, AdminOthers
  <2>2. CASE Takes(j) \/ Continues(j)
    BY <1>0, <2>1, <2>2 DEF Takes, Continues, OvertakenAt
  <2>3. CASE Leaves(j)
    <3>1. PICK s \in {"REPLAYED", "REPLAY_FAILED", "DISMISSED"} : Write(j, s)
      BY <2>3 DEF Leaves
    <3>2. overtaken \subseteq overtaken'
      BY <3>1 DEF Write, Overtake
    <3>3. CASE target[i] = target[j] /\ pc[i] \in Replaying
      <4>1. <<i, target[i]>> \in overtaken'
        BY <1>4, <3>1, <3>3 DEF Write, Overtake
      <4> QED BY <2>1, <4>1 DEF OvertakenAt
    <3>4. CASE target[i] # target[j]
      <4>1. letter'[target[i]] = letter[target[i]]
        BY <1>0, <3>1, <3>4 DEF Write
      <4> QED BY <1>0, <2>1, <3>2, <4>1 DEF OvertakenAt
    <3>5. CASE pc[i] \notin Replaying
      BY <2>1, <3>5 DEF OvertakenAt
    <3> QED BY <3>3, <3>4, <3>5
  <2>4. CASE Dismisses(j)
    <3>1. letter'[target[i]] = "REPLAYED" => letter[target[i]] = "REPLAYED"
      BY <1>0, <2>4 DEF Dismisses
    <3> QED BY <1>0, <2>1, <2>4, <3>1 DEF OvertakenAt, Dismisses
  <2> QED BY <1>4, <2>2, <2>3, <2>4, AdminDoes
<1> QED BY <1>1, <1>2, <1>3, <1>4

\* Every step keeps account of the revived letters: replayed, being replayed,
\* or overtaken.
LEMMA AccountedStep ==
  ASSUME Typed, LetterInv, [Next]_vars, ~May("error"), ~May("crash"),
         \A i \in Jobs : OvertakenAt(i), \A e \in revived : Accounted(e), NEW e \in revived'
  PROVE  Accounted(e)'
<1>0. /\ target \in [Jobs -> Jobs] /\ letter \in [Jobs -> LetterStatuses]
      /\ revived \subseteq Jobs
  BY DEF Typed, TypeOK, AftermathTypeOK
<1>1. ASSUME NEW j \in Jobs, OfConsumer(j) PROVE Accounted(e)'
  <2>1. /\ UNCHANGED <<pc, target, revived, overtaken>>
        /\ \A d \in Jobs : letter'[d] = "REPLAYED" <=> letter[d] = "REPLAYED"
    BY <1>1, MisfiledConsume
  <2>2. e \in Jobs /\ Accounted(e)
    BY <1>0, <2>1
  <2> QED BY <2>1, <2>2 DEF Accounted
<1>2. CASE ~ \E j \in Jobs : OfConsumer(j) \/ OfAdmins(j)
  <2>1. UNCHANGED letterState
    BY <1>2, LettersQuiet
  <2>2. \A j \in Jobs : pc[j] \in AtIt => pc'[j] = pc[j]
    BY <1>2, AdminStays DEF AtIt, Replaying
  <2>3. Accounted(e)
    BY <2>1 DEF letterState
  <2> QED BY <2>1, <2>2, <2>3 DEF Accounted, letterState
<1>3. ASSUME NEW j \in Jobs, OfAdmins(j) PROVE Accounted(e)'
  <2>0. \A i \in Jobs \ {j} : pc'[i] = pc[i] /\ target'[i] = target[i]
    BY <1>3, AdminOthers
  <2>1. CASE Takes(j)
    <3>1. Accounted(e) /\ pc[j] \notin AtIt
      BY <2>1 DEF Takes, Replaying, AtIt
    <3> QED BY <2>0, <2>1, <3>1 DEF Takes, Accounted
  <2>2. CASE Continues(j)
    <3>1. CASE e \in revived
      <4>1. Accounted(e)
        BY <3>1
      <4>2. pc[j] \in AtIt => pc'[j] \in AtIt
        BY <2>2 DEF Continues
      <4> QED BY <2>0, <2>2, <4>1, <4>2 DEF Continues, Accounted
    <3>2. CASE e \notin revived
      BY <2>2, <3>2 DEF Continues, Accounted
    <3> QED BY <3>1, <3>2
  <2>3. CASE Leaves(j)
    <3>0. e \in revived
      BY <2>3 DEF Leaves
    <3>1. PICK s \in {"REPLAYED", "REPLAY_FAILED", "DISMISSED"} :
             Write(j, s) /\ (pc[j] \in AtIt => s = "REPLAYED")
      BY <2>3 DEF Leaves
    <3>2. overtaken \subseteq overtaken' /\ target' = target
      BY <2>3, <3>1 DEF Leaves, Write, Overtake
    <3>3. Accounted(e) /\ e \in Jobs /\ OvertakenAt(j) /\ pc[j] \in Replaying
      BY <1>0, <2>3, <3>0 DEF Leaves
    <3>4. CASE \E i \in Jobs : <<i, e>> \in overtaken
      BY <3>2, <3>4 DEF Accounted
    <3>5. CASE letter[e] = "REPLAYED"
      <4>1. CASE target[j] = e
        <5>1. <<j, e>> \in overtaken
          BY <3>3, <3>5, <4>1 DEF OvertakenAt
        <5> QED BY <3>2, <5>1 DEF Accounted
      <4>2. CASE target[j] # e
        BY <1>0, <3>1, <3>3, <3>5, <4>2 DEF Write, Accounted
      <4> QED BY <4>1, <4>2
    <3>6. ASSUME NEW i \in Jobs, target[i] = e, pc[i] \in AtIt PROVE Accounted(e)'
      <4>1. CASE i = j
        <5>1. letter'[e] = "REPLAYED"
          BY <1>0, <3>1, <3>3, <3>6, <4>1 DEF Write
        <5> QED BY <5>1 DEF Accounted
      <4>2. CASE i # j
        BY <2>0, <3>6, <4>2 DEF Accounted
      <4> QED BY <4>1, <4>2
    <3> QED BY <3>3, <3>4, <3>5, <3>6 DEF Accounted
  <2>4. CASE Dismisses(j)
    <3>1. Accounted(e) /\ e \in Jobs /\ pc[j] \notin AtIt
      BY <1>0, <2>4 DEF Dismisses, Replaying, AtIt
    <3>2. letter[e] = "REPLAYED" => letter'[e] = "REPLAYED"
      BY <2>4, <3>1 DEF Dismisses, Dismissible, Pending
    <3> QED BY <2>0, <2>4, <3>1, <3>2 DEF Dismisses, Accounted
  <2> QED BY <1>3, <2>1, <2>2, <2>3, <2>4, AdminDoes
<1> QED BY <1>1, <1>2, <1>3

\* Every step keeps the invariant of misfiled letters.
LEMMA MisfiledStep ==
  ASSUME Typed, LetterInv, MisfiledInv, [Next]_vars
  PROVE  MisfiledInv'
<1>1. \A i \in Jobs : OvertakenAt(i)
  BY DEF MisfiledInv, OvertakenAt
<1>2. \A i \in Jobs : OvertakenAt(i)'
  BY <1>1, OvertakenStep
<1>3. workload' = workload
  BY SameWork
<1>4. ASSUME ~May("error"), ~May("crash") PROVE \A e \in revived' : Accounted(e)'
  <2>1. \A e \in revived : Accounted(e)
    BY <1>4 DEF MisfiledInv, Accounted, AtIt
  <2> QED BY <1>1, <1>4, <2>1, AccountedStep
<1> QED BY <1>2, <1>3, <1>4 DEF MisfiledInv, OvertakenAt, Accounted, AtIt, May

\* An event that a replay has processed has a letter that is REPLAYED, or a
\* replay is still at it, save for a cause: an error, a crash, or another
\* request that wrote the letter meanwhile (replay, dismiss and bulk
\* operations of the dead letters).
THEOREM LettersAreMisfiledForCause == Spec => []MisfiledForCause
<1>1. Init => LetterInv /\ MisfiledInv
  <2> SUFFICES ASSUME Init PROVE LetterInv /\ MisfiledInv
    OBVIOUS
  <2>1. LetterInv
    BY DEF Init, BooksInit, LettersInit, LetterInv, Filed, Replaying
  <2>2. MisfiledInv
    BY DEF Init, BooksInit, LettersInit, MisfiledInv, Replaying
  <2> QED BY <2>1, <2>2
<1>2. Typed /\ LetterInv /\ MisfiledInv /\ [Next]_vars => LetterInv' /\ MisfiledInv'
  BY LetterStep, MisfiledStep
<1>3. MisfiledInv => MisfiledForCause
  BY DEF MisfiledInv, MisfiledForCause, Replaying
<1>4. Spec => []Typed
  BY InitTyped, TypedStep, PTL DEF Spec
<1> QED BY <1>1, <1>2, <1>3, <1>4, PTL DEF Spec

-----------------------------------------------------------------------------
(* Read models.                                                            *)

Services(j) ==
    OfMoney(j) \/ OfFunding(j) \/ OfVaults(j) \/ OfFees(j) \/ OfReversals(j) \/ OfRuns(j)

\* A service emits rows of its own job and records what they say.
LEMMA OutboxOwn ==
  ASSUME Typed, NEW j \in Jobs, Services(j)
  PROVE  /\ \E types : outbox' = outbox \cup {<<t, j>> : t \in types}
         /\ RecordEvent(j)
<1>0. outbox' = outbox => outbox' = outbox \cup {<<t, j>> : t \in {}}
  OBVIOUS
<1>1. ASSUME OfMoney(j) \/ OfFunding(j)
      PROVE  outbox' = outbox \/ \E types : outbox' = outbox \cup {<<t, j>> : t \in types}
  BY <1>1 DEF OfMoney, OtherTransfer, OtherFunding, OfFunding, FundStep, FundCheckKey,
     FundMove,
     FundCompleteKey, FundCommit, Emit
<1>2. ASSUME OfVaults(j)
      PROVE  outbox' = outbox \/ \E types : outbox' = outbox \cup {<<t, j>> : t \in types}
  BY <1>2 DEF OfVaults, VaultStep, CreateRead, CreateCommit, DepositCheckKey, DepositLock,
     DepositCompleteKey, DepositCommit, WithdrawCheckKey, WithdrawCommit,
     WithdrawCompleteKey,
     CloseRead, CloseCancel, CloseEmit, EditRead, EditWrite, Emit
<1>3. ASSUME OfFees(j) \/ OfReversals(j)
      PROVE  outbox' = outbox \/ \E types : outbox' = outbox \cup {<<t, j>> : t \in types}
  BY <1>3 DEF OfFees, FeeStep, WaiverRead, WaiveWrite, RefundCommit, SweepRead, SweepCreate,
     SweepMark, SweepComplete, SweepFail, OfReversals, ReversalStep, ReverseCheck,
     ReverseCheckFee, ReverseRead, ReverseCreate, ReverseCommit, ReverseCommitError,
     ReverseReadBack, ReverseMarkFailed, TakeBack, NothingTakenBack, Emit
<1>4. ASSUME OfRuns(j)
      PROVE  outbox' = outbox \/ \E types : outbox' = outbox \cup {<<t, j>> : t \in types}
  BY <1>4 DEF OfRuns, ReconciliationStep, RunLock, RunSum, RunCompare, RunFreeze, RunAlert,
     RunComplete, RunAnnounce, RunFail, RunRelease, RunUnlock, ResolveBySync, ResolveByEntry,
     ResolveOnly,
     ResolveRefused, Resolved, Emit
<1>5. RecordEvent(j)
  BY DEF Services, OfMoney, OfFunding, OfVaults, OfFees, OfReversals, OfRuns
<1> QED BY <1>0, <1>1, <1>2, <1>3, <1>4, <1>5 DEF Services

\* Events stay emitted, and only the own job emits them.
LEMMA EmittedOwn ==
  ASSUME Typed, NEW j \in Jobs, Services(j)
  PROVE  /\ \A e \in Jobs : Emitted(e) => Emitted(e)'
         /\ \A e \in Jobs \ {j} : Emitted(e)' => Emitted(e)
<1>1. PICK types : outbox' = outbox \cup {<<t, j>> : t \in types}
  BY OutboxOwn
<1>2. ASSUME NEW e \in Jobs, NEW t PROVE <<t, e>> \in outbox' => <<t, e>> \in outbox \/ e = j
  BY <1>1
<1>3. outbox \subseteq outbox'
  BY <1>1
<1> QED BY <1>2, <1>3 DEF Emitted

\* What a step of a service records: the balances that have changed, and in
\* the event it leaves those balances.
Moved(u) == wallets'[u].available # wallets[u].available

\* What an event says is the balance and the count of changes at its commit.
LEMMA Recorded ==
  ASSUME Typed, NEW j \in Jobs, RecordEvent(j), NEW u \in Users
  PROVE  /\ changes[u] \in Nat
         /\ changes'[u] = IF Moved(u) THEN changes[u] + 1 ELSE changes[u]
         /\ \A e \in Jobs \ {j} : payload'[e][u] = payload[e][u]
         /\ Emitted(j)' /\ ~Emitted(j) =>
               payload'[j][u] = [balance |-> wallets'[u].available,
                                 change |-> IF Moved(u) THEN changes'[u] ELSE 0]
         /\ ~(Emitted(j)' /\ ~Emitted(j)) => payload'[j][u] = payload[j][u]
<1>1. /\ changes \in [Users -> Nat]
      /\ payload \in [Jobs -> [Users -> [balance : Int, change : Nat]]]
  BY DEF Typed, TypeOK, AftermathTypeOK
<1>2. changes[u] \in Nat /\ changes[u] + 0 = changes[u]
  BY <1>1
<1>3. changes'[u] = IF Moved(u) THEN changes[u] + 1 ELSE changes[u]
  BY <1>1, <1>2 DEF RecordEvent, Moved
<1>4. \A e \in Jobs \ {j} : payload'[e] = payload[e]
  BY <1>1 DEF RecordEvent
<1>5. ASSUME Emitted(j)', ~Emitted(j)
      PROVE  payload'[j][u] = [balance |-> wallets'[u].available,
                               change |-> IF Moved(u) THEN changes'[u] ELSE 0]
  BY <1>1, <1>5 DEF RecordEvent, Moved
<1>6. ~(Emitted(j)' /\ ~Emitted(j)) => payload'[j] = payload[j]
  BY DEF RecordEvent
<1> QED BY <1>2, <1>3, <1>4, <1>5, <1>6

\* What a reversal shows is what its commit has made of the balances.
LEMMA ReversalTells ==
  ASSUME Typed, NEW j \in Jobs, OfReversals(j), Emitted(j)', ~Emitted(j), NEW u \in Users
  PROVE  wallets'[u].available = wallets[u].available + ReversalShown(j)[u]
<1> USE DEF Typed, TypeOK
<1>1. TakeBack(j)
  <2>1. outbox' # outbox
    BY DEF Emitted
  <2> QED BY <2>1 DEF OfReversals, ReversalStep, ReverseCheck, ReverseCheckFee, ReverseRead,
       ReverseCreate, ReverseCommit, ReverseCommitError, ReverseReadBack, ReverseMarkFailed,
       NothingTakenBack
<1>2. u \in Wallets /\ u # Revenue /\ u \in Accounts /\ Usr(j) # Job(j).peer
  BY JobType, Apart DEF OfReversals, Keeps
<1>3. wallets'[u].available = wallets[u].available + ReversalLegs(j)[u]
  BY <1>1, <1>2, ReversalValue, AfterWallet DEF TakeBack
<1>4. ReversalLegs(j)[u] = ReversalShown(j)[u]
  BY <1>2 DEF ReversalLegs, ReversalShown, NoLegs
<1> QED BY <1>3, <1>4

\* The parts of ToldInv for the event e, the wallet and the read model of u.
ToldOf(u, e) ==
    /\ payload[e][u].change <= changes[u]
    /\ payload[e][u].change > 0 /\ payload[e][u].change = changes[u] =>
          payload[e][u].balance = wallets[u].available
    /\ payload[e][u].change > 0 => Emitted(e)
    /\ Emitted(e) /\ Job(e).kind = "reverse" =>
          IF payload[e][u].change = 0 THEN ReversalShown(e)[u] = 0
          ELSE Follows(u, payload[e][u].change, payload[e][u].balance - ReversalShown(e)[u])
Untouched(u) == changes[u] = 0 => wallets[u].available = InitialBalance[u]
Shown(u) == shown[u] # -1 => shown[u] >= 0 /\ Told(u, shown[u], readModel[u])

\* ToldInv, user by user.
LEMMA ToldParts == ToldInv <=> \A u \in Users : Untouched(u) /\ Shown(u)
    /\ \A e \in Jobs : ToldOf(u, e)
BY DEF ToldInv, Untouched, Shown, ToldOf

\* The types of what is told and shown.
LEMMA ToldTypes ==
  ASSUME Typed, NEW u \in Users
  PROVE  /\ wallets[u].available \in Int /\ shown[u] \in Int /\ readModel[u] \in Int
         /\ changes[u] \in Nat
         /\ \A e \in Jobs : /\ ReversalShown(e)[u] \in Int
                            /\ payload[e][u] \in [balance : Int, change : Nat]
                            /\ payload[e][u].change \in Nat /\ payload[e][u].balance \in Int
<1> USE DEF Typed, TypeOK
<1>1. wallets[u].available \in Int
  BY Apart DEF BooksTypeOK, WalletDoc
<1>2. /\ shown[u] \in Int /\ readModel[u] \in Int /\ changes[u] \in Nat
      /\ \A e \in Jobs : payload[e][u] \in [balance : Int, change : Nat]
  BY DEF AftermathTypeOK
<1>3. ASSUME NEW e \in Jobs PROVE ReversalShown(e)[u] \in Int
  <2>1. Amt(e) \in Int /\ FeeBack(e) \in Int
    BY JobType DEF FeeBack, Fee
  <2>2. - Amt(e) \in Int /\ Amt(e) + FeeBack(e) \in Int /\ u \in Accounts
    BY <2>1, Apart
  <2> QED BY <2>2 DEF ReversalShown, NoLegs
<1> QED BY <1>1, <1>2, <1>3

\* A service that changes a balance tells it in an event of its own.
LEMMA ToldServices ==
  ASSUME Typed, ToldInv, [Next]_vars, NEW j \in Jobs, Services(j), NEW u \in Users
  PROVE  Untouched(u)' /\ Shown(u)' /\ \A e \in Jobs : ToldOf(u, e)'
<1>0. /\ Untouched(u) /\ Shown(u) /\ \A e \in Jobs : ToldOf(u, e)
      /\ \A e \in Jobs : Job(e)' = Job(e) /\ ReversalShown(e)' = ReversalShown(e)
      /\ UNCHANGED <<shown, readModel>>
  <2>1. UNCHANGED aftermath
    BY DEF Services, OfMoney, OfFunding, OfVaults, OfFees, OfReversals, OfRuns
  <2>2. workload' = workload
    BY SameWork
  <2> QED BY <2>1, <2>2, ToldParts DEF Job, ReversalShown, FeeBack, Fee, Amt, Usr,
             aftermath, readModelState
<1>1. RecordEvent(j)
  BY OutboxOwn
<1>2. /\ wallets[u].available \in Int /\ wallets'[u].available \in Int /\ changes[u] \in Nat
      /\ shown[u] \in Int /\ shown[u] + 0 = shown[u]
      /\ \A e \in Jobs : /\ ReversalShown(e)[u] \in Int
                         /\ payload[e][u].change \in Nat /\ payload[e][u].balance \in Int
  <2>1. BooksTypeOK'
    BY TypedStep DEF Typed, TypeOK
  <2>2. wallets'[u].available \in Int
    BY <2>1, Apart DEF BooksTypeOK, WalletDoc
  <2> QED BY <2>2, ToldTypes
<1>3. changes'[u] = IF Moved(u) THEN changes[u] + 1 ELSE changes[u]
  BY <1>1, Recorded
<1>4. Untouched(u)'
  BY <1>0, <1>2, <1>3 DEF Untouched, Moved
\* What was told stays told.
<1>5. \A e \in Jobs : payload[e][u].change > 0 => payload'[e][u] = payload[e][u]
  BY <1>0, <1>1, Recorded DEF ToldOf
<1>6. Shown(u)'
  <2> SUFFICES ASSUME shown[u] # -1, shown[u] > 0 PROVE Told(u, shown[u], readModel[u])'
    BY <1>0, <1>2 DEF Shown, Told
  <2>1. PICK e \in Jobs : payload[e][u] = [balance |-> readModel[u], change |-> shown[u]]
    BY <1>0 DEF Shown, Told
  <2>2. payload[e][u].change > 0
    BY <2>1
  <2>3. payload'[e][u] = [balance |-> readModel[u], change |-> shown[u]]
    BY <1>5, <2>1, <2>2
  <2> QED BY <1>0, <2>3 DEF Told
\* What is told now is of a change that is new.
<1>7. \A e \in Jobs : \/ payload'[e][u] = payload[e][u]
                      \/ /\ e = j /\ Emitted(j)' /\ ~Emitted(j)
                         /\ payload'[e][u] = [balance |-> wallets'[u].available,
                                              change |-> IF Moved(u) THEN changes'[u] ELSE 0]
  BY <1>1, Recorded
<1>8. ASSUME NEW n \in Nat, NEW b, n > 0, n <= changes[u], Follows(u, n, b)
      PROVE  Follows(u, n, b)'
  <2>1. ASSUME NEW e \in Jobs, payload'[e][u].change > 0, payload'[e][u].change = n - 1
        PROVE  payload'[e][u].balance = b
    <3>1. payload'[e][u] = payload[e][u]
      BY <1>2, <1>3, <1>7, <1>8, <2>1
    <3> QED BY <1>8, <2>1, <3>1 DEF Follows
  <2> QED BY <1>8, <2>1 DEF Follows
<1>9. ASSUME NEW e \in Jobs, payload'[e][u] = payload[e][u], Emitted(e) \/ ~Emitted(e)'
      PROVE ToldOf(u, e)'
  <2>1. payload[e][u].change <= changes'[u]
    BY <1>0, <1>2, <1>3 DEF ToldOf
  <2>2. payload[e][u].change > 0 /\ payload[e][u].change = changes'[u]
            => payload[e][u].balance = wallets'[u].available
    <3>1. CASE Moved(u)
      BY <1>0, <1>2, <1>3, <3>1 DEF ToldOf
    <3>2. CASE ~Moved(u)
      BY <1>0, <1>2, <1>3, <3>2 DEF ToldOf, Moved
    <3> QED BY <3>1, <3>2
  <2>3. payload[e][u].change > 0 => Emitted(e)'
    BY <1>0, EmittedOwn DEF ToldOf
  <2>4. ASSUME Emitted(e), Job(e).kind = "reverse"
        PROVE  IF payload[e][u].change = 0 THEN ReversalShown(e)[u] = 0
               ELSE Follows(u, payload[e][u].change, payload[e][u].balance - ReversalShown(e)[u])'
    <3>1. /\ payload[e][u].change <= changes[u] /\ payload[e][u].change \in Nat
          /\ IF payload[e][u].change = 0 THEN ReversalShown(e)[u] = 0
             ELSE Follows(u, payload[e][u].change, payload[e][u].balance - ReversalShown(e)[u])
      BY <1>0, <1>2, <2>4 DEF ToldOf
    <3>2. /\ payload'[e][u].change = payload[e][u].change
          /\ payload'[e][u].balance - ReversalShown(e)'[u] = payload[e][u].balance - ReversalShown(e)[u]
      BY <1>0, <1>9
    <3>3. CASE payload[e][u].change # 0
      <4>1. Follows(u, payload[e][u].change, payload[e][u].balance - ReversalShown(e)[u])
        BY <3>1, <3>3
      <4>2. payload[e][u].change > 0
        BY <3>1, <3>3
      <4>3. \A n \in Nat : \A b : n > 0 /\ n <= changes[u] /\ Follows(u, n, b)
                => Follows(u, n, b)'
        BY <1>8
      <4> QED BY <3>1, <3>2, <4>1, <4>2, <4>3 DEF Follows
    <3> QED BY <3>1, <3>3
  <2> QED BY <1>0, <1>9, <2>1, <2>2, <2>3, <2>4 DEF ToldOf, Follows
<1>10. ASSUME Emitted(j)', ~Emitted(j) PROVE ToldOf(u, j)'
  <2>1. payload'[j][u] = [balance |-> wallets'[u].available,
                          change |-> IF Moved(u) THEN changes'[u] ELSE 0]
    BY <1>1, <1>10, Recorded
  <2>2. /\ payload'[j][u].balance = wallets'[u].available
        /\ payload'[j][u].change = IF Moved(u) THEN changes'[u] ELSE 0
    BY <2>1
  <2>3. payload'[j][u].change <= changes'[u]
    BY <1>2, <1>3, <2>2
  <2>4. ASSUME Job(j).kind = "reverse"
        PROVE  IF payload'[j][u].change = 0 THEN ReversalShown(j)[u] = 0
               ELSE /\ payload'[j][u].change = 1 =>
                          payload'[j][u].balance - ReversalShown(j)[u] = InitialBalance[u]
                    /\ \A e \in Jobs :
                          payload'[e][u].change > 0
                              /\ payload'[e][u].change = payload'[j][u].change - 1 =>
                             payload'[e][u].balance = payload'[j][u].balance - ReversalShown(j)[u]
    <3>1. OfReversals(j)
      BY <2>4 DEF Services, OfMoney, OfFunding, OfVaults, OfFees, OfRuns, Keeps
    <3>2. wallets'[u].available = wallets[u].available + ReversalShown(j)[u]
      BY <1>10, <3>1, ReversalTells
    <3>3. CASE ~Moved(u)
      BY <1>2, <2>2, <3>2, <3>3 DEF Moved
    <3>4. CASE Moved(u)
      <4>1. /\ payload'[j][u].change = changes[u] + 1
            /\ payload'[j][u].balance - ReversalShown(j)[u] = wallets[u].available
        BY <1>2, <1>3, <2>2, <3>2, <3>4
      <4>2. payload'[j][u].change = 1 => wallets[u].available = InitialBalance[u]
        BY <1>0, <1>2, <4>1 DEF Untouched
      <4>3. ASSUME NEW e \in Jobs, payload'[e][u].change > 0, payload'[e][u].change = changes[u]
            PROVE  payload'[e][u].balance = wallets[u].available
        <5>1. payload'[e][u] = payload[e][u]
          BY <1>2, <1>7, <4>1, <4>3
        <5> QED BY <1>0, <4>3, <5>1 DEF ToldOf
      <4> QED BY <1>2, <4>1, <4>2, <4>3
    <3> QED BY <3>3, <3>4
  <2>5. ReversalShown(j)' = ReversalShown(j) /\ Job(j)' = Job(j)
    BY <1>0
  <2> QED BY <1>10, <2>2, <2>3, <2>4, <2>5 DEF ToldOf, Follows
<1>11. ASSUME NEW e \in Jobs PROVE ToldOf(u, e)'
  <2>1. CASE e = j /\ Emitted(j)' /\ ~Emitted(j)
    BY <1>10, <2>1
  <2>2. CASE ~(e = j /\ Emitted(j)' /\ ~Emitted(j))
    <3>1. payload'[e][u] = payload[e][u] /\ (Emitted(e) \/ ~Emitted(e)')
      BY <1>7, <2>2, EmittedOwn
    <3> QED BY <1>9, <3>1
  <2> QED BY <2>1, <2>2
<1> QED BY <1>4, <1>6, <1>11

\* Nobody else changes a balance or emits an event.
LEMMA ToldQuiet ==
  ASSUME Typed, [Next]_vars, ~ \E j \in Jobs : Services(j)
  PROVE  /\ UNCHANGED <<outbox, changes, payload>>
         /\ \A u \in Users : wallets'[u].available = wallets[u].available
<1>1. ASSUME NEW j \in Jobs, OfConsumer(j) \/ OfReadModel(j) \/ OfMail(j) \/ OfAdmins(j)
          \/ OfFaults(j)
      PROVE  UNCHANGED <<outbox, wallets, changes, payload>>
  BY <1>1 DEF OfConsumer, OfReadModel, OfMail, OfAdmins, OfFaults, documents, eventState,
     TxnError, CrashJob
<1>2. VaultsTick \/ RunLockTick \/ QueueTick \/ UNCHANGED vars
          => UNCHANGED <<outbox, wallets, changes, payload>>
  BY DEF VaultsTick, VaultClock, VaultLockExpires, VaultMatures, RunLockTick,
     RunLockExpires, QueueTick,
     vars, documents, eventState
<1> QED BY <1>1, <1>2, Moves DEF Services, Typed, TypeOK

\* What has been told stays told.
LEMMA ToldKept ==
  ASSUME Typed, ToldInv, [Next]_vars, ~ \E j \in Jobs : Services(j), NEW u \in Users
  PROVE  /\ Untouched(u)' /\ \A e \in Jobs : ToldOf(u, e)'
         /\ \A n, b : Told(u, n, b)' <=> Told(u, n, b)
<1>1. /\ UNCHANGED <<outbox, changes, payload, workload>>
      /\ wallets'[u].available = wallets[u].available
  BY ToldQuiet, SameWork
<1>2. \A n, b : Told(u, n, b)' <=> Told(u, n, b)
  BY <1>1 DEF Told
<1>3. Untouched(u) /\ \A e \in Jobs : ToldOf(u, e)
  BY ToldParts
<1>4. Untouched(u)'
  BY <1>1, <1>3 DEF Untouched
<1>5. ASSUME NEW e \in Jobs PROVE ToldOf(u, e)'
  <2>1. ToldOf(u, e)
    BY <1>3
  <2>2. /\ payload' = payload /\ changes' = changes
        /\ wallets'[u].available = wallets[u].available
        /\ Emitted(e)' <=> Emitted(e)
        /\ Job(e)' = Job(e) /\ ReversalShown(e)' = ReversalShown(e)
    <3>1. payload' = payload /\ changes' = changes
              /\ wallets'[u].available = wallets[u].available
      BY <1>1
    <3>2. Emitted(e)' <=> Emitted(e)
      BY <1>1 DEF Emitted
    <3>3. Job(e)' = Job(e) /\ ReversalShown(e)' = ReversalShown(e)
      BY <1>1 DEF Job, ReversalShown, FeeBack, Fee, Amt, Usr
    <3> QED BY <3>1, <3>2, <3>3
  <2> QED BY <2>1, <2>2 DEF ToldOf, Follows
<1> QED BY <1>2, <1>4, <1>5

\* Showing a reversal shows a balance that was told.
LEMMA ShownReversal ==
  ASSUME Typed, ToldInv, NEW e \in Jobs, Emitted(e), Job(e).kind = "reverse", ShowReversal(e),
         NEW u \in Users
  PROVE  shown'[u] # -1 => shown'[u] >= 0 /\ Told(u, shown'[u], readModel'[u])
<1>1. /\ shown[u] \in Int /\ readModel[u] \in Int /\ ReversalShown(e)[u] \in Int
      /\ payload[e][u] \in [balance : Int, change : Nat]
      /\ payload[e][u].change \in Nat /\ payload[e][u].balance \in Int
      /\ Shown(u) /\ ToldOf(u, e)
  BY ToldTypes, ToldParts
<1>2. readModel'[u] = readModel[u] + ReversalShown(e)[u]
  BY DEF ShowReversal
<1>3. shown'[u] = IF payload[e][u].change = 0 THEN shown[u]
                  ELSE IF shown[u] = payload[e][u].change - 1 THEN payload[e][u].change ELSE -1
  BY <1>1 DEF ShowReversal, Concerns
<1>4. CASE payload[e][u].change = 0
  <2>1. ReversalShown(e)[u] = 0
    BY <1>1, <1>4 DEF ToldOf
  <2> QED BY <1>1, <1>2, <1>3, <1>4, <2>1 DEF Shown
<1>5. CASE payload[e][u].change > 0 /\ shown[u] = payload[e][u].change - 1
  <2> DEFINE b == payload[e][u].balance - ReversalShown(e)[u]
  <2>1. Follows(u, payload[e][u].change, b)
    BY <1>1, <1>5 DEF ToldOf
  <2>2. Told(u, shown[u], readModel[u])
    BY <1>1, <1>5 DEF Shown
  <2>3. readModel[u] = b
    <3>1. CASE shown[u] = 0
      BY <1>1, <1>5, <2>1, <2>2, <3>1 DEF Told, Follows
    <3>2. CASE shown[u] # 0
      <4>1. PICK d \in Jobs : payload[d][u] = [balance |-> readModel[u], change |-> shown[u]]
        BY <2>2, <3>2 DEF Told
      <4>2. payload[d][u].balance = readModel[u] /\ payload[d][u].change = shown[u]
        BY <4>1
      <4>3. shown[u] > 0 /\ shown[u] = payload[e][u].change - 1
        BY <1>1, <1>5, <3>2
      <4> HIDE DEF b
      <4> QED BY <2>1, <4>2, <4>3 DEF Follows
    <3> QED BY <3>1, <3>2
  <2>4. readModel'[u] = payload[e][u].balance
    BY <1>1, <1>2, <2>3
  <2>5. shown'[u] = payload[e][u].change
    BY <1>3, <1>5
  <2>6. payload[e][u] = [balance |-> readModel'[u], change |-> shown'[u]]
    BY <1>1, <2>4, <2>5
  <2>7. shown'[u] > 0 /\ shown'[u] >= 0
    BY <1>1, <1>5, <2>5
  <2>8. Told(u, shown'[u], readModel'[u])
    BY <2>6, <2>7, Zenon DEF Told
  <2> QED BY <2>7, <2>8
<1>6. CASE payload[e][u].change > 0 /\ shown[u] # payload[e][u].change - 1
  BY <1>1, <1>3, <1>6
<1> QED BY <1>1, <1>4, <1>5, <1>6

\* Showing an event shows a balance that was told.
LEMMA ShownProjection ==
  ASSUME Typed, ToldInv, NEW e \in Jobs, Show(e), NEW u \in Users
  PROVE  shown'[u] # -1 => shown'[u] >= 0 /\ Told(u, shown'[u], readModel'[u])
<1>1. /\ payload[e][u] \in [balance : Int, change : Nat]
      /\ payload[e][u].change \in Nat /\ Shown(u)
  BY ToldTypes, ToldParts
<1>2. CASE payload[e][u].change > 0
  <2>1. readModel'[u] = payload[e][u].balance /\ shown'[u] = payload[e][u].change
    BY <1>2 DEF Show, Concerns
  <2>2. payload[e][u] = [balance |-> readModel'[u], change |-> shown'[u]]
    BY <1>1, <2>1
  <2>3. shown'[u] > 0 /\ shown'[u] >= 0
    BY <1>1, <1>2, <2>1
  <2>4. Told(u, shown'[u], readModel'[u])
    BY <2>2, <2>3, Zenon DEF Told
  <2> QED BY <2>3, <2>4
<1>3. CASE ~(payload[e][u].change > 0)
  <2>1. readModel'[u] = readModel[u] /\ shown'[u] = shown[u]
    BY <1>3 DEF Show, Concerns
  <2> QED BY <1>1, <2>1 DEF Shown
<1> QED BY <1>2, <1>3

\* Every step keeps every balance shown one that was told at its count of
\* changes.
LEMMA ToldStep ==
  ASSUME Typed, ToldInv, [Next]_vars
  PROVE  ToldInv'
<1> SUFFICES ASSUME NEW u \in Users
             PROVE  Untouched(u)' /\ Shown(u)' /\ \A e \in Jobs : ToldOf(u, e)'
  BY DEF ToldInv, Untouched, Shown, ToldOf
<1>1. CASE \E j \in Jobs : Services(j)
  BY <1>1, ToldServices
<1>2. CASE ~ \E j \in Jobs : Services(j)
  <2>1. /\ Untouched(u)' /\ \A e \in Jobs : ToldOf(u, e)'
        /\ \A n, b : Told(u, n, b)' <=> Told(u, n, b)
    BY <1>2, ToldKept
  <2>2. ASSUME UNCHANGED <<readModel, shown>> PROVE Shown(u)'
    <3>1. Shown(u)
      BY ToldParts
    <3> QED BY <2>1, <2>2, <3>1 DEF Shown
  <2>3. ASSUME shown'[u] # -1 => shown'[u] >= 0 /\ Told(u, shown'[u], readModel'[u])
        PROVE  Shown(u)'
    BY <2>1, <2>3 DEF Shown, Told
  <2>4. ASSUME NEW j \in Jobs, OfConsumer(j) PROVE Shown(u)'
    <3>1. PICK e \in Jobs : Consume(j, e) \/ ConsumeDead(j, e) \/ ReversalDead(j, e)
      BY <2>4 DEF OfConsumer, ConsumeStep
    <3>2. \/ UNCHANGED <<readModel, shown>>
          \/ ShowReversal(e) /\ Emitted(e) /\ Job(e).kind = "reverse"
      BY <3>1 DEF Consume, ConsumeDead, ReversalDead, Takeable
    <3> QED BY <2>2, <2>3, <3>2, ShownReversal
  <2>5. ASSUME NEW j \in Jobs, OfReadModel(j) PROVE Shown(u)'
    <3>1. PICK e \in Jobs : Project(j, e) \/ ProjectFail(j, e)
      BY <2>5 DEF OfReadModel, ReadModelStep
    <3>2. Show(e) \/ UNCHANGED <<readModel, shown>>
      BY <3>1 DEF Project, ProjectFail
    <3> QED BY <2>2, <2>3, <3>2, ShownProjection
  <2>6. ASSUME ~ \E j \in Jobs : OfConsumer(j) \/ OfReadModel(j) PROVE Shown(u)'
    <3>1. UNCHANGED <<projection, projected, readModel, shown>>
      BY <2>6, ProjectionQuiet
    <3>2. UNCHANGED <<readModel, shown>>
      BY <3>1
    <3> QED BY <2>2, <3>2
  <2> QED BY <2>1, <2>4, <2>5, <2>6
<1> QED BY <1>1, <1>2

\* A read model that has got to the latest change of its wallet shows what
\* the wallet holds, although nothing puts the events of a wallet in order
\* (projection service, BALANCE_UPDATED handler): ToldInv says which event
\* told which balance.
THEOREM ReadModelsFollow == Spec => []ReadModelFollows
<1>1. Init => ToldInv
  <2> SUFFICES ASSUME Init, NEW u \in Users
               PROVE Untouched(u) /\ Shown(u) /\ \A e \in Jobs : ToldOf(u, e)
    BY ToldParts
  <2>1. u \in Wallets /\ wallets[u].available = InitialBalance[u]
    BY Apart DEF Init, BooksInit
  <2>2. changes[u] = 0 /\ shown[u] = 0 /\ readModel[u] = InitialBalance[u]
        /\ \A e \in Jobs : payload[e][u].change = 0 /\ ~Emitted(e)
    BY DEF Init, BooksInit, ReadModelInit, Emitted
  <2> QED BY <2>1, <2>2 DEF Untouched, Shown, Told, ToldOf
<1>2. Typed /\ ToldInv /\ [Next]_vars => ToldInv'
  BY ToldStep
<1>3. Typed /\ ToldInv => ReadModelFollows
  <2> SUFFICES ASSUME Typed, ToldInv, NEW u \in Users, shown[u] = changes[u]
               PROVE  readModel[u] = wallets[u].available
    BY DEF ReadModelFollows
  <2>1. changes[u] \in Nat /\ shown[u] # -1
    BY ToldTypes
  <2>2. Told(u, changes[u], readModel[u]) /\ Untouched(u) /\ \A e \in Jobs : ToldOf(u, e)
    BY <2>1, ToldParts DEF Shown
  <2>3. CASE changes[u] = 0
    BY <2>2, <2>3 DEF Told, Untouched
  <2>4. CASE changes[u] # 0
    <3>1. PICK e \in Jobs : payload[e][u] = [balance |-> readModel[u], change |-> changes[u]]
      BY <2>2, <2>4 DEF Told
    <3>2. payload[e][u].balance = readModel[u] /\ payload[e][u].change = changes[u]
      BY <3>1
    <3> QED BY <2>1, <2>2, <2>4, <3>2 DEF ToldOf
  <2> QED BY <2>3, <2>4
<1>4. Spec => []Typed
  BY InitTyped, TypedStep, PTL DEF Spec
<1> QED BY <1>1, <1>2, <1>3, <1>4, PTL DEF Spec
=============================================================================
