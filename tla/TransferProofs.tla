--------------------------- MODULE TransferProofs ---------------------------
(***************************************************************************)
(* The safety properties of Transfer, for every set of requests, keys and  *)
(* wallets: its types, IInv (module TransferInvariant), what follows       *)
(* from it, and that it implements AtomicTransfer.                         *)
(***************************************************************************)
EXTENDS TransferInvariant, TLAPS

\* A wallet document put together from its fields is a wallet document.
LEMMA DocType ==
  ASSUME NEW a \in Int, NEW l \in Nat, NEW s \in Statuses
  PROVE  Doc(a, l, s) \in WalletDoc
  BY DEF Doc, WalletDoc

\* The view of a request without a transaction has the type of a view.
LEMMA NoViewType == NoView \in [Wallets -> WalletDoc]
  BY DocType DEF NoView, Statuses

\* Replacing one document of one transaction's view keeps the view's type.
LEMMA ViewUpdate ==
  ASSUME NEW f \in [Requests -> [Wallets -> WalletDoc]],
         NEW r \in Requests, NEW w \in Wallets, NEW d \in WalletDoc
  PROVE  [f EXCEPT ![r][w] = d] \in [Requests -> [Wallets -> WalletDoc]]
<1> DEFINE V == [Wallets -> WalletDoc]
<1>1. f[r] \in V
  OBVIOUS
<1>2. [f[r] EXCEPT ![w] = d] \in V
  BY <1>1
<1>3. f \in [Requests -> V]
  OBVIOUS
<1> HIDE DEF V
<1> QED BY <1>2, <1>3

\* Writing more documents keeps the type of the write sets.
LEMMA WritesUpdate ==
  ASSUME writes \in [Requests -> SUBSET Docs],
         NEW r \in Requests, NEW D \in SUBSET Docs,
         writes' = [writes EXCEPT ![r] = writes[r] \cup D]
  PROVE  writes' \in [Requests -> SUBSET Docs]
<1>1. writes[r] \cup D \in SUBSET Docs
  OBVIOUS
<1> DEFINE S == SUBSET Docs  E == writes[r] \cup D
<1> HIDE DEF S, E
<1> QED BY <1>1 DEF S, E

\* The initial state is well typed (collections as Init fills them).
LEMMA InitType == Init => TypeOK
  BY RequestAssumption, AmountAssumption, WalletAssumption
  DEF Init, TypeOK, IdemDoc, WalletDoc, Statuses, NoView, Doc, Docs, Running, Finished

\* Every step of a request keeps the types: the service, the engine, the
\* limits and the Mongo transaction around them.
LEMMA StepType ==
  ASSUME TypeOK, NEW r \in Requests, Step(r) \/ Throw(r) \/ Crash(r) \/ ServerAbort(r)
  PROVE  TypeOK'
<1> USE RequestAssumption, AmountAssumption, WalletAssumption
    DEF TypeOK, Running, Finished, Goto, committed, txn
<1>t. Total(r) \in Nat
  BY DEF Total
<1>1. CASE CheckKey(r)
  BY <1>1 DEF CheckKey, UpsertKey, AlreadyCompleted, IsNew, IdemDoc
<1>2. CASE Begin(r)
  BY <1>2 DEF Begin
<1>3. CASE Reserve(r)
  <2>1. PICK l \in {"lock", "abort"} : pc' = [pc EXCEPT ![r] = l]
    BY <1>3 DEF Reserve
  <2> QED BY <1>3, <2>1 DEF Reserve
<1>4. CASE LockFunds(r)
  <2>1. CASE Conflict(r, <<"wallet", From[r]>>) \/ ~Affordable(r)
    BY <1>4, <2>1 DEF LockFunds
  <2>2. CASE ~(Conflict(r, <<"wallet", From[r]>>) \/ ~Affordable(r))
    <3>1. Held(view[r][From[r]], Total(r)) \in WalletDoc
      BY <1>t DEF Held, Doc, WalletDoc
    <3>2. {<<"wallet", From[r]>>} \in SUBSET Docs
      BY DEF Docs
    <3>3. view' \in [Requests -> [Wallets -> WalletDoc]]
      <4>1. view' = [view EXCEPT ![r][From[r]] = Held(view[r][From[r]], Total(r))]
        BY <1>4, <2>2 DEF LockFunds
      <4> QED BY <4>1, <3>1, ViewUpdate
    <3>4. writes' \in [Requests -> SUBSET Docs]
      <4>1. writes' = [writes EXCEPT ![r] = writes[r] \cup {<<"wallet", From[r]>>}]
        BY <1>4, <2>2 DEF LockFunds
      <4> QED BY ONLY <4>1, <3>2, TypeOK, r \in Requests, WritesUpdate DEF TypeOK
    <3> QED BY <1>4, <2>2, <3>3, <3>4 DEF LockFunds
  <2> QED BY <2>1, <2>2
<1>5. CASE CheckKeyAgain(r)
  BY <1>5 DEF CheckKeyAgain, UpsertKey, AlreadyCompleted, IsNew, IdemDoc
<1>6. CASE Post(r)
  <2> DEFINE accounts == {<<"account", From[r]>>, <<"account", To[r]>>}
  <2>1. accounts \in SUBSET Docs
    BY DEF Docs
  <2>2. CASE \E d \in accounts : Conflict(r, d)
    BY <1>6, <2>2 DEF Post
  <2>3. CASE ~ \E d \in accounts : Conflict(r, d)
    <3>1. writes' = [writes EXCEPT ![r] = writes[r] \cup accounts]
      BY <1>6, <2>3 DEF Post
    <3>2. writes' \in [Requests -> SUBSET Docs]
      BY ONLY <3>1, <2>1, TypeOK, r \in Requests, WritesUpdate DEF TypeOK
    <3>3. entries' \in [Requests -> SUBSET {"TRANSFER", "FEE"}]
      <4>1. PICK E \in SUBSET {"TRANSFER", "FEE"} :
                 entries' = [entries EXCEPT ![r] = E]
        <5>1. CASE Fee[r] > 0
          BY <1>6, <2>3, <5>1 DEF Post
        <5>2. CASE ~(Fee[r] > 0)
          BY <1>6, <2>3, <5>2 DEF Post
        <5> QED BY <5>1, <5>2
      <4> QED BY ONLY <4>1, TypeOK DEF TypeOK
    <3>4. PICK l \in {"fee", "complete"} : pc' = [pc EXCEPT ![r] = l]
      BY <1>6, <2>3 DEF Post
    <3> QED BY <1>6, <3>2, <3>3, <3>4 DEF Post
  <2> QED BY <2>2, <2>3
<1>7. CASE CreditRevenue(r)
  <2>1. CASE Conflict(r, <<"wallet", Revenue>>)
    BY <1>7, <2>1 DEF CreditRevenue
  <2>2. CASE ~Conflict(r, <<"wallet", Revenue>>)
    <3>1. Plus(view[r][Revenue], Fee[r]) \in WalletDoc
      BY DEF Plus, Doc, WalletDoc
    <3>2. {<<"wallet", Revenue>>} \in SUBSET Docs
      BY DEF Docs
    <3>3. view' \in [Requests -> [Wallets -> WalletDoc]]
      <4>1. view' = [view EXCEPT ![r][Revenue] = Plus(view[r][Revenue], Fee[r])]
        BY <1>7, <2>2 DEF CreditRevenue
      <4> QED BY <4>1, <3>1, ViewUpdate
    <3>4. writes' \in [Requests -> SUBSET Docs]
      <4>1. writes' = [writes EXCEPT ![r] = writes[r] \cup {<<"wallet", Revenue>>}]
        BY <1>7, <2>2 DEF CreditRevenue
      <4> QED BY ONLY <4>1, <3>2, TypeOK, r \in Requests, WritesUpdate DEF TypeOK
    <3> QED BY <1>7, <2>2, <3>3, <3>4 DEF CreditRevenue
  <2> QED BY <2>1, <2>2
<1>8. CASE MarkCompleted(r)
  BY <1>8 DEF MarkCompleted, CompleteKey, IdemDoc
<1>9. CASE Apply(r)
  <2>1. CASE view[r][From[r]].locked < Total(r) \/ Conflict(r, <<"wallet", To[r]>>)
    BY <1>9, <2>1 DEF Apply
  <2>2. CASE ~(view[r][From[r]].locked < Total(r) \/ Conflict(r, <<"wallet", To[r]>>))
    <3>1. Deducted(view[r][From[r]], Total(r)) \in WalletDoc
      BY <1>t, <2>2 DEF Deducted, Doc, WalletDoc
    <3>2. Credited(r, view[r][To[r]]) \in WalletDoc
      BY DEF Credited, Recovered, Plus, Doc, WalletDoc, Statuses
    <3>3. {<<"wallet", To[r]>>} \in SUBSET Docs
      BY DEF Docs
    <3>4. view' \in [Requests -> [Wallets -> WalletDoc]]
      <4> DEFINE v1 == [view EXCEPT ![r][From[r]] = Deducted(view[r][From[r]], Total(r))]
      <4>1. v1 \in [Requests -> [Wallets -> WalletDoc]]
        BY <3>1, ViewUpdate
      <4>2. view' = [v1 EXCEPT ![r][To[r]] = Credited(r, view[r][To[r]])]
        BY <1>9, <2>2 DEF Apply
      <4> HIDE DEF v1
      <4> QED BY <4>1, <4>2, <3>2, ViewUpdate
    <3>5. writes' \in [Requests -> SUBSET Docs]
      <4>1. writes' = [writes EXCEPT ![r] = writes[r] \cup {<<"wallet", To[r]>>}]
        BY <1>9, <2>2 DEF Apply
      <4> QED BY ONLY <4>1, <3>3, TypeOK, r \in Requests, WritesUpdate DEF TypeOK
    <3> QED BY <1>9, <2>2, <3>4, <3>5 DEF Apply
  <2> QED BY <2>1, <2>2
<1>10. CASE EmitEvent(r)
  BY <1>10 DEF EmitEvent
<1>11. CASE Commit(r)
  <2>1. wallets' \in [Wallets -> WalletDoc]
    BY <1>11 DEF Commit
  <2>2. ledgerNet' \in [Wallets -> Int]
    BY <1>11 DEF Commit, EntryNet
  <2>3. view' \in [Requests -> [Wallets -> WalletDoc]]
    BY <1>11, NoViewType DEF Commit, Forget
  <2>4. missed' \in [Requests -> SUBSET Docs]
    BY <1>11 DEF Commit, MissedBy
  <2> QED BY <1>11, <2>1, <2>2, <2>3, <2>4 DEF Commit, Forget, Unlock
<1>12. CASE Settle(r)
  BY <1>12 DEF Settle
<1>13. CASE Abort(r)
  BY <1>13, NoViewType DEF Abort, Forget, Unlock
<1>15. CASE Throw(r)
  BY <1>15 DEF Throw
<1>16. CASE Crash(r)
  BY <1>16, NoViewType DEF Crash, Forget
<1>17. CASE ServerAbort(r)
  BY <1>17 DEF ServerAbort, Unlock
<1> QED BY <1>1, <1>2, <1>3, <1>4, <1>5, <1>6, <1>7, <1>8, <1>9, <1>10,
           <1>11, <1>12, <1>13, <1>15, <1>16, <1>17 DEF Step

\* Taking a wallet out of use keeps the types.
LEMMA FreezeType ==
  ASSUME TypeOK, NEW w \in Freezable, FreezeWallet(w)
  PROVE  TypeOK'
<1> USE WalletAssumption DEF TypeOK
<1>1. \A s \in Statuses : Doc(wallets[w].available, wallets[w].locked, s) \in WalletDoc
  BY DocType DEF WalletDoc
<1>2. wallets' \in [Wallets -> WalletDoc]
  BY <1>1 DEF FreezeWallet, Statuses
<1>3. missed' \in [Requests -> SUBSET Docs]
  BY DEF FreezeWallet, MissedBy, Docs
<1> QED BY <1>2, <1>3 DEF FreezeWallet

\* Every variable keeps its type (module Transfer, all actions).
THEOREM TypeCorrect == Spec => []TypeOK
<1>1. TypeOK /\ [Next]_vars => TypeOK'
  <2> SUFFICES ASSUME TypeOK, [Next]_vars PROVE TypeOK'
    OBVIOUS
  <2>1. CASE UNCHANGED vars
    BY <2>1 DEF vars, TypeOK
  <2>2. ASSUME NEW r \in Requests, Step(r) \/ Throw(r) \/ Crash(r) \/ ServerAbort(r)
        PROVE  TypeOK'
    BY <2>2, StepType
  <2>3. ASSUME NEW w \in Freezable, FreezeWallet(w)
        PROVE  TypeOK'
    BY <2>3, FreezeType
  <2> QED BY <2>1, <2>2, <2>3 DEF Next, Terminated
<1> QED BY InitType, <1>1, PTL DEF Spec

\* A step on behalf of request r.
StepOf(r) == Step(r) \/ Throw(r) \/ Crash(r) \/ ServerAbort(r)

-----------------------------------------------------------------------------
(* What a step of r leaves alone.                                          *)

\* A step of r is invisible in the state of every other coroutine.
LEMMA Frame ==
  ASSUME TypeOK, NEW r \in Requests, StepOf(r), NEW q \in Requests, q # r
  PROVE  /\ pc'[q] = pc[q] /\ view'[q] = view[q] /\ writes'[q] = writes[q]
         /\ entries'[q] = entries[q] /\ hasRef'[q] = hasRef[q]
         /\ event'[q] = event[q]
<1> USE DEF TypeOK, Goto, txn
<1>1. CASE CheckKey(r) BY <1>1 DEF CheckKey
<1>2. CASE Begin(r) BY <1>2 DEF Begin
<1>3. CASE Reserve(r) BY <1>3 DEF Reserve
<1>4. CASE LockFunds(r) BY <1>4 DEF LockFunds
<1>5. CASE CheckKeyAgain(r) BY <1>5 DEF CheckKeyAgain
<1>6. CASE Post(r) BY <1>6 DEF Post
<1>7. CASE CreditRevenue(r) BY <1>7 DEF CreditRevenue
<1>8. CASE MarkCompleted(r) BY <1>8 DEF MarkCompleted
<1>9. CASE Apply(r) BY <1>9 DEF Apply
<1>10. CASE EmitEvent(r) BY <1>10 DEF EmitEvent
<1>11. CASE Commit(r) BY <1>11 DEF Commit, Forget, Unlock
<1>12. CASE Settle(r) BY <1>12 DEF Settle
<1>13. CASE Abort(r) BY <1>13 DEF Abort, Forget, Unlock
<1>15. CASE Throw(r) BY <1>15 DEF Throw
<1>16. CASE Crash(r) BY <1>16 DEF Crash, Forget
<1>17. CASE ServerAbort(r) BY <1>17 DEF ServerAbort, Unlock
<1> QED BY <1>1, <1>2, <1>3, <1>4, <1>5, <1>6, <1>7, <1>8, <1>9, <1>10,
           <1>11, <1>12, <1>13, <1>15, <1>16, <1>17 DEF StepOf, Step

\* Only a commit changes what the transactions of others read.
LEMMA Quiet ==
  ASSUME TypeOK, NEW r \in Requests, StepOf(r), ~Commit(r)
  PROVE  /\ UNCHANGED <<wallets, ledgerNet, posted, outbox>>
         /\ \A q \in Requests \ {r} : missed'[q] = missed[q]
<1> USE DEF TypeOK, committed, txn
<1>1. CASE CheckKey(r) BY <1>1 DEF CheckKey
<1>2. CASE Begin(r) BY <1>2 DEF Begin
<1>3. CASE Reserve(r) BY <1>3 DEF Reserve
<1>4. CASE LockFunds(r) BY <1>4 DEF LockFunds
<1>5. CASE CheckKeyAgain(r) BY <1>5 DEF CheckKeyAgain
<1>6. CASE Post(r) BY <1>6 DEF Post
<1>7. CASE CreditRevenue(r) BY <1>7 DEF CreditRevenue
<1>8. CASE MarkCompleted(r) BY <1>8 DEF MarkCompleted
<1>9. CASE Apply(r) BY <1>9 DEF Apply
<1>10. CASE EmitEvent(r) BY <1>10 DEF EmitEvent
<1>12. CASE Settle(r) BY <1>12 DEF Settle
<1>13. CASE Abort(r) BY <1>13 DEF Abort
<1>15. CASE Throw(r) BY <1>15 DEF Throw
<1>16. CASE Crash(r) BY <1>16 DEF Crash
<1>17. CASE ServerAbort(r) BY <1>17 DEF ServerAbort
<1> QED BY <1>1, <1>2, <1>3, <1>4, <1>5, <1>6, <1>7, <1>8, <1>9, <1>10,
           <1>12, <1>13, <1>15, <1>16, <1>17 DEF StepOf, Step

\* Idempotence records only move forward, and stay consistent.
LEMMA KeysAdvance ==
  ASSUME TypeOK, NEW r \in Requests, StepOf(r), NEW k \in Keys,
         \A j \in Keys : idem[j].status = "COMPLETED" <=> idem[j].touched
  PROVE  /\ idem'[k].status = "COMPLETED" <=> idem'[k].touched
         /\ AlreadyCompleted(k) => AlreadyCompleted(k)'
         /\ idem[k].status # "NONE" => idem'[k].status # "NONE"
<1> USE RequestAssumption DEF TypeOK, IdemDoc, AlreadyCompleted, IsNew
<1>1. CASE idem' = idem BY <1>1
<1>2. CASE CheckKey(r) \/ CheckKeyAgain(r)
  <2>1. UpsertKey(Key[r])
    BY <1>2 DEF CheckKey, CheckKeyAgain
  <2> QED BY <2>1 DEF UpsertKey
<1>3. CASE MarkCompleted(r)
  <2>1. CompleteKey(Key[r])
    BY <1>3 DEF MarkCompleted
  <2> QED BY <2>1 DEF CompleteKey
<1>4. idem' = idem \/ CheckKey(r) \/ CheckKeyAgain(r) \/ MarkCompleted(r)
  BY DEF StepOf, Step, Begin, Reserve, LockFunds, Post, CreditRevenue, Apply,
         EmitEvent, Commit, Settle, Abort, Throw, Crash, ServerAbort
<1> QED BY <1>1, <1>2, <1>3, <1>4

-----------------------------------------------------------------------------
(* Locks.                                                                  *)

\* Documents stay exclusively locked, and a transaction past lockWalletFunds
\* keeps its sender's wallet, whatever step a request takes.
LEMMA LockStep ==
  ASSUME TypeOK, LockInv, NEW r \in Requests, StepOf(r)
  PROVE  LockInv'
<1>1. \A q \in Requests \ {r} : writes'[q] = writes[q] /\ pc'[q] = pc[q]
  BY Frame
<1>2. LocksOf(r)
  BY DEF LockInv
<1>3. LocksOf(r)' /\ \A d \in writes'[r] \ writes[r] : ~Conflict(r, d)
  <2>a. /\ pc \in [Requests -> Running \cup Finished \cup
                              {"abort", "settle"}]
        /\ writes \in [Requests -> SUBSET Docs]
    BY DEF TypeOK
  <2>b. CASE writes' = writes /\ pc'[r] \in AfterLock \cup {"abort", "crashed"} /\ (pc'[r] \in AfterLock => pc[r] \in AfterLock)
    BY <2>b, <1>2 DEF LocksOf
  <2>c. CASE writes' = writes /\ pc[r] \notin AfterLock \cup {"abort", "crashed"} /\ pc'[r] \notin AfterLock
    BY <2>c, <1>2 DEF LocksOf
  <2>d. CASE writes'[r] = {} /\ pc'[r] \notin AfterLock
    BY <2>d, <1>2 DEF LocksOf
  <2> USE <2>a DEF Goto, txn, AfterLock, Running
  <2>1. CASE CheckKey(r) BY <2>1, <2>c DEF CheckKey
  <2>2. CASE Begin(r) BY <2>2, <2>c DEF Begin
  <2>3. CASE Reserve(r) BY <2>3, <2>c, <2>d, <1>2 DEF Reserve, LocksOf
  <2>4. CASE LockFunds(r)
    <3>1. CASE writes' = writes
      BY <2>4, <3>1, <1>2 DEF LockFunds, LocksOf
    <3>2. CASE writes' # writes
      BY <2>4, <3>2, <1>2 DEF LockFunds, LocksOf
    <3> QED BY <3>1, <3>2
  <2>5. CASE CheckKeyAgain(r) BY <2>5, <2>b DEF CheckKeyAgain
  <2>6. CASE Post(r) BY <2>6, <1>2 DEF Post, LocksOf
  <2>7. CASE CreditRevenue(r)
    <3>1. CASE Conflict(r, <<"wallet", Revenue>>)
      BY <2>7, <3>1, <2>b DEF CreditRevenue
    <3>2. CASE ~Conflict(r, <<"wallet", Revenue>>)
      BY <2>7, <3>2, <1>2 DEF CreditRevenue, LocksOf
    <3> QED BY <3>1, <3>2
  <2>8. CASE MarkCompleted(r) BY <2>8, <2>b DEF MarkCompleted
  <2>9. CASE Apply(r) BY <2>9, <1>2 DEF Apply, LocksOf
  <2>10. CASE EmitEvent(r) BY <2>10, <2>b DEF EmitEvent
  <2>11. CASE Commit(r) BY <2>11, <2>d DEF Commit, Unlock
  <2>12. CASE Settle(r) BY <2>12, <2>c DEF Settle
  <2>13. CASE Abort(r) BY <2>13, <2>d DEF Abort, Unlock
  <2>15. CASE Throw(r) BY <2>15, <2>b DEF Throw
  <2>16. CASE Crash(r) BY <2>16, <2>b DEF Crash
  <2>17. CASE ServerAbort(r) BY <2>17, <2>d DEF ServerAbort, Unlock
  <2> QED BY <2>1, <2>2, <2>3, <2>4, <2>5, <2>6, <2>7, <2>8, <2>9, <2>10,
             <2>11, <2>12, <2>13, <2>15, <2>16, <2>17 DEF StepOf, Step
<1>4. \A q \in Requests \ {r} : LocksOf(q)'
  BY <1>1 DEF LockInv, LocksOf
<1>5. \A q \in Requests \ {r} : writes'[r] \cap writes'[q] = {}
  BY <1>1, <1>3 DEF Conflict, LockInv
<1>6. \A p, q \in Requests \ {r} : p # q => writes'[p] \cap writes'[q] = {}
  BY <1>1 DEF LockInv
<1> QED BY <1>3, <1>4, <1>5, <1>6 DEF LockInv

-----------------------------------------------------------------------------
(* Keys.                                                                   *)

\* Every step of a request keeps what is known of keys: a request that posts
\* found its key incomplete while it held the wallet it debits.
LEMMA KeyStep ==
  ASSUME TypeOK, LockInv, KeyInv, NEW r \in Requests, StepOf(r)
  PROVE  KeyInv'
<1> USE RequestAssumption
<1>1. \A k \in Keys :
        /\ idem'[k].status = "COMPLETED" <=> idem'[k].touched
        /\ AlreadyCompleted(k) => AlreadyCompleted(k)'
        /\ idem[k].status # "NONE" => idem'[k].status # "NONE"
  BY KeysAdvance DEF KeyInv
<1>2. posted' = IF Commit(r) THEN posted \cup {r} ELSE posted
  BY Quiet DEF Commit
<1>3. Commit(r) => pc[r] = "commit" /\ hasRef[r] /\ event[r] /\ IsFirst(r)
  BY DEF Commit, KeyInv, KeyOf, IsFirst, Applied
<1>4. ASSUME NEW q \in Requests, q # r
      PROVE  KeyOf(q)'
  <2>1. /\ pc'[q] = pc[q] /\ hasRef'[q] = hasRef[q] /\ event'[q] = event[q]
        /\ IsFirst(q)' <=> IsFirst(q)
    BY <1>4, Frame DEF IsFirst, Applied
  <2>2. KeyOf(q) /\ Key[q] \in Keys
    BY DEF KeyInv
  <2>3. q \in posted' <=> q \in posted
    BY <1>2, <1>4
  <2>4. ASSUME IsFirst(q), Commit(r)
        PROVE  From[q] # From[r]
    <3>1. /\ <<"wallet", From[q]>> \in writes[q]
          /\ <<"wallet", From[r]>> \in writes[r]
          /\ writes[q] \cap writes[r] = {}
      BY <2>4, <1>3, <1>4 DEF LockInv, LocksOf, AfterLock, IsFirst, Applied
    <3> QED BY <3>1
  <2> QED BY <1>1, <1>2, <2>1, <2>2, <2>3, <2>4 DEF KeyOf
<1>5. KeyOf(r)'
  <2>a. KeyOf(r) /\ Key[r] \in Keys
    BY DEF KeyInv
  <2>b. /\ pc \in [Requests -> Running \cup Finished \cup
                              {"abort", "settle"}]
        /\ hasRef \in [Requests -> BOOLEAN]
        /\ event \in [Requests -> BOOLEAN]
        /\ idem \in [Keys -> IdemDoc]
    BY DEF TypeOK
  <2> USE <2>a, <2>b, <1>1, <1>2, <1>3 
      DEF KeyOf, IsFirst, Applied, Running, Finished, Goto, txn
  <2>1. CASE CheckKey(r)
    <3>1. idem'[Key[r]].status # "NONE"
      BY <2>1 DEF CheckKey, UpsertKey
    <3> QED BY <2>1, <3>1 DEF CheckKey
  <2>2. CASE Begin(r) BY <2>2 DEF Begin
  <2>3. CASE Reserve(r) BY <2>3 DEF Reserve
  <2>4. CASE LockFunds(r) BY <2>4 DEF LockFunds
  <2>5. CASE CheckKeyAgain(r)
    <3>1. ~AlreadyCompleted(Key[r]) =>
            \A q \in posted : Key[q] # Key[r]
      BY DEF KeyInv, TypeOK
    <3>2. ~Commit(r)
      BY <2>5 DEF Commit, CheckKeyAgain
    <3>3. /\ pc'[r] = IF AlreadyCompleted(Key[r]) THEN "apply" ELSE "post"
          /\ hasRef'[r] = hasRef[r] /\ event'[r] = event[r]
      BY <2>5 DEF CheckKeyAgain
    <3>4. pc[r] = "ensure" /\ ~hasRef[r] /\ ~event[r] /\ r \notin posted
      BY <2>5 DEF CheckKeyAgain
    <3> QED BY <1>1, <1>2, <2>a, <3>1, <3>2, <3>3, <3>4
  <2>6. CASE Post(r) BY <2>6 DEF Post
  <2>7. CASE CreditRevenue(r) BY <2>7 DEF CreditRevenue
  <2>8. CASE MarkCompleted(r)
    <3>1. AlreadyCompleted(Key[r])'
      BY <2>8 DEF MarkCompleted, CompleteKey, AlreadyCompleted, IsNew, IdemDoc, KeyInv
    <3> QED BY <2>8, <3>1 DEF MarkCompleted
  <2>9. CASE Apply(r) BY <2>9 DEF Apply
  <2>10. CASE EmitEvent(r) BY <2>10 DEF EmitEvent
  <2>11. CASE Commit(r) BY <2>11 DEF Commit, Forget
  <2>12. CASE Settle(r) BY <2>12 DEF Settle
  <2>13. CASE Abort(r) BY <2>13 DEF Abort, Forget
  <2>15. CASE Throw(r) BY <2>15 DEF Throw, committed
  <2>16. CASE Crash(r) BY <2>16 DEF Crash, Forget
  <2>17. CASE ServerAbort(r)
    <3>1. ~Commit(r)
      BY <2>17 DEF Commit, ServerAbort
    <3>2. pc' = pc /\ hasRef' = hasRef /\ event' = event /\ posted' = posted
          /\ pc[r] = "crashed"
      BY <2>17, <3>1 DEF ServerAbort
    <3> QED BY <3>2, <1>1, <2>a
  <2> QED BY <2>1, <2>2, <2>3, <2>4, <2>5, <2>6, <2>7, <2>8, <2>9, <2>10,
             <2>11, <2>12, <2>13, <2>15, <2>16, <2>17 DEF StepOf, Step
<1>6. AtMostOncePerKey'
  BY <1>2, <1>3 DEF AtMostOncePerKey, KeyInv, KeyOf
<1>7. EventPerTransfer'
  BY <1>2, <1>3, Quiet DEF EventPerTransfer, KeyInv, Commit
<1> QED BY <1>1, <1>4, <1>5, <1>6, <1>7 DEF KeyInv

-----------------------------------------------------------------------------
(* Money.                                                                  *)

\* What a sender pays, amount and fee, is a natural number.
LEMMA TotalType == \A r \in Requests : Total(r) \in Nat
  BY AmountAssumption DEF Total

\* lockWalletFunds followed by deductWalletFunds takes n out of a wallet.
LEMMA HeldThenDeducted ==
  ASSUME NEW doc \in WalletDoc, NEW n \in Nat
  PROVE  Deducted(Held(doc, n), n) = Plus(doc, -n)
  BY DEF Deducted, Held, Plus, Doc, WalletDoc

\* Crediting nothing changes nothing (internal transfers have no fee).
LEMMA PlusNothing ==
  ASSUME NEW doc \in WalletDoc
  PROVE  Plus(doc, 0) = doc
  BY DEF Plus, Doc, WalletDoc

\* What a commit publishes: exactly one transfer and its fee.
LEMMA CommitEffect ==
  ASSUME TypeOK, KeyInv, MoneyInv, NEW r \in Requests, Commit(r)
  PROVE  /\ wallets[From[r]].status = "ACTIVE"
         /\ wallets[From[r]].available >= Total(r)
         /\ MayReceive(r, wallets[To[r]]) /\ pc[r] = "commit"
         /\ \A w \in Wallets :
              /\ wallets'[w] = IF w = From[r] THEN Plus(wallets[w], -Total(r))
                               ELSE IF w = To[r] THEN Credited(r, wallets[w])
                               ELSE IF w = Revenue THEN Plus(wallets[w], Fee[r])
                               ELSE wallets[w]
              /\ ledgerNet'[w] = ledgerNet[w] + EntryNet(r, AllEntries(r), w)
<1> USE RequestAssumption
<1>1. pc[r] = "commit" /\ hasRef[r]
  BY DEF Commit, KeyInv, KeyOf
<1>2. entries[r] = AllEntries(r) /\ WritesOf(r)
  BY <1>1 DEF MoneyInv, MoneyOf, AfterLock
<1>3. Written(r) = {From[r], To[r]} \cup (IF Fee[r] > 0 THEN {Revenue} ELSE {})
  BY <1>1, <1>2 DEF Written, AllEntries, Applied
<1>4. ASSUME NEW w \in Wallets
      PROVE  wallets'[w] = IF w = From[r] THEN Plus(wallets[w], -Total(r))
                           ELSE IF w = To[r] THEN Credited(r, wallets[w])
                           ELSE IF w = Revenue THEN Plus(wallets[w], Fee[r])
                           ELSE wallets[w]
  <2>1. wallets'[w] = IF w \in Written(r) THEN view[r][w] ELSE wallets[w]
    BY <1>2 DEF Commit, WritesOf
  <2>2. /\ view[r][From[r]] = Plus(wallets[From[r]], -Total(r))
        /\ view[r][To[r]] = Credited(r, wallets[To[r]])
        /\ Revenue \in Written(r) => view[r][Revenue] = Plus(wallets[Revenue], Fee[r])
    BY <1>1, <1>2 DEF WritesOf, Applied
  <2>3. ~(Fee[r] > 0) => Plus(wallets[w], Fee[r]) = wallets[w]
    BY PlusNothing, AmountAssumption DEF TypeOK
  <2> QED BY <2>1, <2>2, <2>3, <1>3
<1>5. \A w \in Wallets :
        ledgerNet'[w] = ledgerNet[w] + EntryNet(r, AllEntries(r), w)
  BY <1>2 DEF Commit
<1> QED BY <1>1, <1>2, <1>4, <1>5 DEF WritesOf, Applied

\* The transaction of q is not disturbed by a step of r.
LEMMA MoneyOfOther ==
  ASSUME TypeOK, LockInv, MoneyInv, NEW r \in Requests, StepOf(r),
         NEW q \in Requests, q # r
  PROVE  MoneyOf(q)'
<1> USE RequestAssumption
<1>1. /\ pc'[q] = pc[q] /\ view'[q] = view[q] /\ writes'[q] = writes[q]
      /\ entries'[q] = entries[q] /\ hasRef'[q] = hasRef[q]
  BY Frame
<1>2. MoneyOf(q) /\ LocksOf(q)
  BY DEF MoneyInv, LockInv
<1>3. Written(q)' = Written(q)
  BY <1>1 DEF Written, Applied
<1>4. CASE ~Commit(r)
  <2>1. wallets' = wallets /\ missed'[q] = missed[q]
    BY <1>4, Quiet
  <2> QED BY <1>1, <1>2, <1>3, <2>1
          DEF MoneyOf, Sees, MayReceive, WritesOf, Begun, AfterLock, Applied
<1>5. CASE Commit(r)
  <2>1. \A w \in Wallets :
          <<"wallet", w>> \notin writes[r] => wallets'[w] = wallets[w]
    BY <1>5 DEF Commit
  <2>2. \A w \in Wallets :
          <<"wallet", w>> \in writes[q] => wallets'[w] = wallets[w]
    BY <2>1 DEF LockInv
  <2>3. pc[q] \in Begun => missed'[q] = missed[q] \cup writes[r]
    BY <1>5 DEF Commit, MissedBy, Begun, TypeOK
  <2>4. pc[q] \in Begun => Sees(q)'
    BY <1>1, <1>2, <2>1, <2>3 DEF MoneyOf, Sees
  <2>5. pc[q] \in AfterLock => WritesOf(q)'
    <3> SUFFICES ASSUME pc[q] \in AfterLock PROVE WritesOf(q)'
      OBVIOUS
    <3>1. WritesOf(q)
      BY <1>2 DEF MoneyOf
    <3>2. wallets'[From[q]] = wallets[From[q]]
      BY <2>2, <1>2 DEF LocksOf
    <3>3. Revenue \in Written(q) => wallets'[Revenue] = wallets[Revenue]
      BY <2>2, <3>1, WalletAssumption DEF WritesOf
    <3>4. pc[q] \in Applied => wallets'[To[q]] = wallets[To[q]]
      BY <2>2, <3>1 DEF WritesOf, Written
    <3> QED BY <1>1, <1>3, <3>1, <3>2, <3>3, <3>4 DEF WritesOf, MayReceive, Applied
  <2> QED BY <1>1, <1>2, <2>4, <2>5 DEF MoneyOf, MayReceive, Begun, AfterLock, Applied
<1> QED BY <1>4, <1>5

\* A step that changes neither the transaction of r nor the wallets, to a
\* place where as much or less is claimed.
LEMMA MoneyOfStill ==
  ASSUME TypeOK, MoneyInv, NEW r \in Requests,
         UNCHANGED <<wallets, view[r], writes[r], missed[r]>>,
         entries'[r] = entries[r],
         pc'[r] # "abort" => entries[r] = IF pc'[r] \in {"fee", "complete"} \/ hasRef'[r]
                                          THEN AllEntries(r) ELSE {},
         \/ pc'[r] \notin Begun
         \/ pc[r] \in {"ensure", "complete"} /\ pc'[r] \in {"post", "apply"}
         \/ pc[r] = "emit" /\ pc'[r] = "commit"
  PROVE  MoneyOf(r)'
<1>1. MoneyOf(r)
  BY DEF MoneyInv
<1>2. CASE pc'[r] \notin Begun
  BY <1>2 DEF MoneyOf, Begun, AfterLock, Applied, Running
<1>3. CASE pc'[r] \in Begun
  <2>1. Written(r)' = Written(r)
    BY <1>3 DEF Written, Applied
  <2>2. pc[r] \in AfterLock /\ pc[r] \in Begun /\ pc'[r] # "fee"
    BY <1>3 DEF AfterLock, Begun, Running
  <2>3. (pc[r] \in Applied) <=> (pc'[r] \in Applied)
    BY <1>3 DEF Applied
  <2>4. pc[r] # "reserve" /\ pc'[r] # "reserve"
    BY <1>3
  <2>5. Sees(r)' /\ WritesOf(r)'
    BY <1>1, <2>1, <2>2, <2>3, <2>4 DEF MoneyOf, Sees, WritesOf, MayReceive
  <2> QED BY <1>1, <1>3, <2>2, <2>3, <2>4, <2>5
          DEF MoneyOf, MayReceive, AfterLock
<1> QED BY <1>2, <1>3

\* r reads its snapshot, finds the limit and the cap kept.
LEMMA MoneyOfReads ==
  ASSUME TypeOK, LockInv, KeyInv, MoneyInv, NEW r \in Requests,
         Begin(r) \/ Reserve(r)
  PROVE  MoneyOf(r)'
<1> USE RequestAssumption DEF Goto
<1>1. MoneyOf(r)
  BY DEF MoneyInv
<1>2. /\ pc \in [Requests -> Running \cup Finished \cup
                            {"abort", "settle"}]
      /\ view \in [Requests -> [Wallets -> WalletDoc]]
      /\ From[r] \in Wallets /\ To[r] \in Wallets
  BY DEF TypeOK
<1>3. entries[r] = {} /\ ~hasRef[r]
  BY <1>1 DEF MoneyOf, KeyInv, KeyOf, Begin, Reserve, Applied
<1>4. CASE Begin(r)
  <2>1. CASE pc'[r] = "abort"
    BY <1>2, <2>1 DEF MoneyOf, Begun, AfterLock, Applied, Running
  <2>2. CASE pc'[r] # "abort"
    <3>1. /\ MayTransfer(r) /\ view'[r] = wallets /\ UNCHANGED <<entries, hasRef, wallets>>
          /\ pc'[r] = IF Kind[r] = "P2P" THEN "reserve" ELSE "lock"
      BY <1>2, <1>4, <2>2 DEF Begin, committed
    <3>2. MayReceive(r, view[r][To[r]])'
      BY <3>1 DEF MayReceive, MayTransfer, Receiving
    <3> QED BY <1>3, <3>1, <3>2
            DEF MoneyOf, Sees, MayTransfer, Begun, AfterLock, Applied
  <2> QED BY <2>1, <2>2
<1>5. CASE Reserve(r)
  <2>1. CASE pc'[r] = "abort"
    BY <1>2, <2>1 DEF MoneyOf, Begun, AfterLock, Applied, Running
  <2>2. CASE pc'[r] # "abort"
    <3>1. /\ BelowCap(r) /\ pc[r] = "reserve" /\ pc'[r] = "lock"
          /\ UNCHANGED <<wallets, view, writes, missed, entries, hasRef>>
      BY <1>2, <1>5, <2>2 DEF Reserve, committed, txn
    <3>2. MayReceive(r, view[r][To[r]])'
      BY <1>1, <3>1 DEF MoneyOf, MayReceive, BelowCap, Begun, Running, Applied
    <3> QED BY <1>1, <1>3, <3>1, <3>2
            DEF MoneyOf, Sees, Begun, Running, AfterLock, Applied
  <2> QED BY <2>1, <2>2
<1> QED BY <1>4, <1>5

\* r locks what it will pay.
LEMMA MoneyOfLock ==
  ASSUME TypeOK, LockInv, KeyInv, MoneyInv, NEW r \in Requests, LockFunds(r)
  PROVE  MoneyOf(r)'
<1> USE RequestAssumption DEF Goto
<1>1. MoneyOf(r)
  BY DEF MoneyInv
<1>2. /\ pc \in [Requests -> Running \cup Finished \cup
                            {"abort", "settle"}]
      /\ view \in [Requests -> [Wallets -> WalletDoc]]
      /\ writes \in [Requests -> SUBSET Docs]
      /\ From[r] \in Wallets /\ To[r] \in Wallets /\ From[r] # To[r]
  BY DEF TypeOK
<1>3. entries[r] = {} /\ ~hasRef[r] /\ pc[r] = "lock" /\ writes[r] = {}
  BY <1>1 DEF MoneyOf, KeyInv, KeyOf, LockFunds, Applied, LockInv, LocksOf, AfterLock
<1>4. CASE pc'[r] = "abort"
  BY <1>2, <1>4 DEF MoneyOf, Begun, AfterLock, Applied, Running
<1>5. CASE pc'[r] # "abort"
  <2>1. /\ ~Conflict(r, <<"wallet", From[r]>>) /\ Affordable(r)
        /\ view' = [view EXCEPT ![r][From[r]] = Held(view[r][From[r]], Total(r))]
        /\ writes'[r] = {<<"wallet", From[r]>>} /\ pc'[r] = "ensure"
        /\ UNCHANGED <<wallets, missed, entries, hasRef>>
    BY <1>2, <1>3, <1>5 DEF LockFunds, committed
  <2>2. /\ view'[r][From[r]] = Held(view[r][From[r]], Total(r))
        /\ \A w \in Wallets \ {From[r]} : view'[r][w] = view[r][w]
    BY <2>1, <1>2
  <2>3. view[r][From[r]] = wallets[From[r]] /\ Sees(r)
    BY <1>1, <1>2, <1>3, <2>1 DEF MoneyOf, Sees, Conflict, Begun, Running
  <2>4. Sees(r)'
    BY <1>3, <2>1, <2>2, <2>3 DEF Sees
  <2>5. Written(r)' = {From[r]}
    BY <1>3, <2>1 DEF Written, Applied
  <2>6. view[r][From[r]].status = "ACTIVE" /\ MayReceive(r, view[r][To[r]])
    BY <1>1, <1>3 DEF MoneyOf, Begun, AfterLock, Applied, Running
  <2>7. MayReceive(r, view[r][To[r]])'
    BY <1>2, <1>3, <2>1, <2>2, <2>6 DEF MayReceive
  <2>8. WritesOf(r)'
    BY <1>2, <2>1, <2>2, <2>3, <2>5, <2>6 DEF WritesOf, Affordable, Applied
  <2> QED BY <1>3, <2>1, <2>4, <2>7, <2>8 DEF MoneyOf, Begun, AfterLock, Applied
<1> QED BY <1>4, <1>5

\* r locks the accounts and inserts the ledger transactions.
LEMMA MoneyOfPost ==
  ASSUME TypeOK, LockInv, KeyInv, MoneyInv, NEW r \in Requests, Post(r)
  PROVE  MoneyOf(r)'
<1> USE RequestAssumption DEF Goto
<1>1. MoneyOf(r)
  BY DEF MoneyInv
<1>2. /\ pc \in [Requests -> Running \cup Finished \cup
                            {"abort", "settle"}]
      /\ writes \in [Requests -> SUBSET Docs]
      /\ entries \in [Requests -> SUBSET {"TRANSFER", "FEE"}]
  BY DEF TypeOK
<1>3. ~hasRef[r] /\ pc[r] = "post"
  BY DEF KeyInv, KeyOf, Post, Applied
<1>4. CASE pc'[r] = "abort"
  BY <1>2, <1>4 DEF MoneyOf, Begun, AfterLock, Applied, Running
<1>5. CASE pc'[r] # "abort"
  <2>1. /\ writes'[r] = writes[r] \cup {<<"account", From[r]>>, <<"account", To[r]>>}
        /\ UNCHANGED <<wallets, view, missed, hasRef>>
    BY <1>2, <1>5 DEF Post, committed
  <2>2. /\ entries'[r] = AllEntries(r)
        /\ pc'[r] = IF Fee[r] > 0 THEN "fee" ELSE "complete"
    BY <1>2, <1>5 DEF Post, AllEntries
  <2>3. entries[r] = {}
    BY <1>1, <1>3 DEF MoneyOf
  <2>4. Written(r)' = Written(r)
    BY <1>3, <2>2, <2>3 DEF Written, Applied, AllEntries
  <2>5. Sees(r) /\ MayReceive(r, view[r][To[r]]) /\ WritesOf(r)
    BY <1>1, <1>3 DEF MoneyOf, Begun, Running, Applied, AfterLock
  <2>6. Sees(r)' /\ MayReceive(r, view[r][To[r]])'
    BY <1>3, <2>1, <2>2, <2>5 DEF Sees, MayReceive
  <2>7. WritesOf(r)'
    BY <1>3, <2>1, <2>2, <2>4, <2>5 DEF WritesOf, Applied
  <2> QED BY <2>2, <2>6, <2>7 DEF MoneyOf, AfterLock
<1> QED BY <1>4, <1>5

\* r credits the fee to the revenue wallet.
LEMMA MoneyOfRevenue ==
  ASSUME TypeOK, LockInv, KeyInv, MoneyInv, NEW r \in Requests,
         CreditRevenue(r)
  PROVE  MoneyOf(r)'
<1> USE RequestAssumption, WalletAssumption DEF Goto
<1>1. MoneyOf(r)
  BY DEF MoneyInv
<1>2. /\ pc \in [Requests -> Running \cup Finished \cup
                            {"abort", "settle"}]
      /\ view \in [Requests -> [Wallets -> WalletDoc]]
      /\ writes \in [Requests -> SUBSET Docs]
      /\ From[r] \in Wallets \ {Revenue} /\ To[r] \in Wallets \ {Revenue}
  BY DEF TypeOK
<1>3. ~hasRef[r] /\ pc[r] = "fee"
  BY DEF KeyInv, KeyOf, CreditRevenue, Applied
<1>4. CASE pc'[r] = "abort"
  BY <1>2, <1>4 DEF MoneyOf, Begun, AfterLock, Applied, Running
<1>5. CASE pc'[r] # "abort"
  <2>1. /\ ~Conflict(r, <<"wallet", Revenue>>) /\ pc'[r] = "complete"
        /\ view' = [view EXCEPT ![r][Revenue] = Plus(view[r][Revenue], Fee[r])]
        /\ writes'[r] = writes[r] \cup {<<"wallet", Revenue>>}
        /\ UNCHANGED <<wallets, missed, entries, hasRef>>
    BY <1>2, <1>5 DEF CreditRevenue, committed
  <2>2. /\ view'[r][Revenue] = Plus(view[r][Revenue], Fee[r])
        /\ \A w \in Wallets \ {Revenue} : view'[r][w] = view[r][w]
    BY <2>1, <1>2
  <2>3. Sees(r) /\ MayReceive(r, view[r][To[r]]) /\ WritesOf(r) /\ Fee[r] > 0
        /\ entries[r] = AllEntries(r)
    BY <1>1, <1>3 DEF MoneyOf, Begun, Running, Applied, AfterLock
  <2>4. Written(r) = {From[r]} /\ Written(r)' = {From[r], Revenue}
    BY <1>3, <2>1, <2>3 DEF Written, Applied, AllEntries
  <2>5. view[r][Revenue] = wallets[Revenue]
    <3>1. <<"wallet", Revenue>> \notin writes[r]
      BY <1>2, <2>3, <2>4 DEF WritesOf
    <3> QED BY <2>1, <2>3, <3>1 DEF Sees, Conflict
  <2>6. Sees(r)' /\ MayReceive(r, view[r][To[r]])'
    BY <1>2, <1>3, <2>1, <2>2, <2>3 DEF Sees, MayReceive
  <2>7. \A w \in Wallets : <<"wallet", w>> \in writes'[r] <=> w \in Written(r)'
    BY <2>1, <2>3, <2>4 DEF WritesOf
  <2>8. WritesOf(r)'
    BY <1>2, <1>3, <2>1, <2>2, <2>3, <2>5, <2>7 DEF WritesOf, Applied
  <2> QED BY <2>1, <2>3, <2>6, <2>8 DEF MoneyOf, AfterLock, AllEntries
<1> QED BY <1>4, <1>5

\* r takes the locked funds and credits the receiver.
LEMMA MoneyOfApply ==
  ASSUME TypeOK, LockInv, KeyInv, MoneyInv, NEW r \in Requests, Apply(r)
  PROVE  MoneyOf(r)'
<1> USE RequestAssumption DEF Goto
<1>1. MoneyOf(r)
  BY DEF MoneyInv
<1>2. /\ pc \in [Requests -> Running \cup Finished \cup
                            {"abort", "settle"}]
      /\ view \in [Requests -> [Wallets -> WalletDoc]]
      /\ wallets \in [Wallets -> WalletDoc]
      /\ writes \in [Requests -> SUBSET Docs]
      /\ From[r] \in Wallets \ {Revenue} /\ To[r] \in Wallets \ {Revenue}
      /\ From[r] # To[r]
  BY DEF TypeOK
<1>3. pc[r] = "apply"
  BY DEF Apply
<1>4. CASE pc'[r] = "abort"
  BY <1>2, <1>4 DEF MoneyOf, Begun, AfterLock, Applied, Running
<1>5. CASE pc'[r] # "abort"
  <2>1. /\ ~Conflict(r, <<"wallet", To[r]>>) /\ pc'[r] = "emit"
        /\ view' = [view EXCEPT ![r][From[r]] = Deducted(view[r][From[r]], Total(r)),
                                ![r][To[r]] = Credited(r, view[r][To[r]])]
        /\ writes'[r] = writes[r] \cup {<<"wallet", To[r]>>}
        /\ UNCHANGED <<wallets, missed, entries, hasRef>>
    BY <1>2, <1>5 DEF Apply, committed
  <2>2. /\ view'[r][From[r]] = Deducted(view[r][From[r]], Total(r))
        /\ view'[r][To[r]] = Credited(r, view[r][To[r]])
        /\ \A w \in Wallets \ {From[r], To[r]} : view'[r][w] = view[r][w]
    BY <2>1, <1>2
  <2>3. Sees(r) /\ MayReceive(r, view[r][To[r]]) /\ WritesOf(r)
    BY <1>1, <1>3 DEF MoneyOf, Begun, Running, Applied, AfterLock
  <2>4. To[r] \notin Written(r) /\ Written(r)' = Written(r) \cup {To[r]}
    BY <1>2, <1>3, <2>1 DEF Written, Applied
  <2>5. view[r][To[r]] = wallets[To[r]]
    <3>1. <<"wallet", To[r]>> \notin writes[r]
      BY <1>2, <2>3, <2>4 DEF WritesOf
    <3> QED BY <1>2, <2>1, <2>3, <3>1 DEF Sees, Conflict
  <2>6. view[r][From[r]] = Held(wallets[From[r]], Total(r))
    BY <1>3, <2>3 DEF WritesOf, Applied
  <2>7. view'[r][From[r]] = Plus(wallets[From[r]], -Total(r))
    BY <1>2, <2>2, <2>6, HeldThenDeducted, TotalType
  <2>8. Sees(r)'
    <3>1. <<"wallet", From[r]>> \in writes[r]
      BY <1>3 DEF LockInv, LocksOf, AfterLock
    <3> QED BY <2>1, <2>2, <2>3, <3>1 DEF Sees
  <2>9. \A w \in Wallets : <<"wallet", w>> \in writes'[r] <=> w \in Written(r)'
    BY <2>1, <2>3, <2>4 DEF WritesOf
  <2>10. MayReceive(r, wallets[To[r]])'
    BY <1>3, <2>1, <2>3, <2>5 DEF MayReceive
  <2>11. Revenue \in Written(r)' => view'[r][Revenue] = Plus(wallets[Revenue], Fee[r])
    BY <1>2, <2>2, <2>3, <2>4, WalletAssumption DEF WritesOf
  <2>12. WritesOf(r)'
    BY <2>1, <2>2, <2>3, <2>5, <2>7, <2>9, <2>10, <2>11 DEF WritesOf, Applied
  <2> QED BY <1>1, <1>3, <2>1, <2>8, <2>12 DEF MoneyOf, AfterLock, Applied, Begun
<1> QED BY <1>4, <1>5

\* Every step of r keeps what is known of r's own transaction.
LEMMA MoneyOfSelf ==
  ASSUME TypeOK, LockInv, KeyInv, MoneyInv, NEW r \in Requests, StepOf(r)
  PROVE  MoneyOf(r)'
<1>a. MoneyOf(r) /\ KeyOf(r) /\ LocksOf(r)
  BY DEF MoneyInv, KeyInv, LockInv
<1>b. /\ pc \in [Requests -> Running \cup Finished \cup
                            {"abort", "settle"}]
      /\ hasRef \in [Requests -> BOOLEAN]
      /\ entries \in [Requests -> SUBSET {"TRANSFER", "FEE"}]
  BY DEF TypeOK
<1>c. CASE /\ pc'[r] \notin Begun
           /\ pc'[r] # "abort" => entries'[r] = {} /\ ~hasRef'[r]
  BY <1>c DEF MoneyOf, Begun, AfterLock, Applied, Running
<1>d. pc[r] \notin Begun \cup {"abort"} => entries[r] = {} /\ ~hasRef[r]
  BY <1>a DEF MoneyOf, KeyOf, Begun, Running, Applied
<1> USE <1>b DEF Goto, Begun, Running, Finished, committed, txn
<1>1. CASE CheckKey(r) BY <1>1, <1>c, <1>d DEF CheckKey
<1>2. CASE Begin(r) \/ Reserve(r) BY <1>2, MoneyOfReads
<1>3. CASE LockFunds(r) BY <1>3, MoneyOfLock
<1>4. CASE CheckKeyAgain(r)
  <2>1. entries[r] = {} /\ ~hasRef[r]
    BY <1>4, <1>a DEF CheckKeyAgain, MoneyOf, KeyOf, Applied
  <2> QED BY <1>4, <2>1, MoneyOfStill DEF CheckKeyAgain
<1>5. CASE Post(r) BY <1>5, MoneyOfPost
<1>6. CASE CreditRevenue(r) BY <1>6, MoneyOfRevenue
<1>7. CASE MarkCompleted(r)
  <2>1. entries[r] = AllEntries(r)
    BY <1>7, <1>a DEF MarkCompleted, MoneyOf
  <2> QED BY <1>7, <2>1, MoneyOfStill DEF MarkCompleted
<1>8. CASE Apply(r) BY <1>8, MoneyOfApply
<1>9. CASE EmitEvent(r)
  <2>1. CASE pc'[r] = "abort"
    BY <2>1, <1>c
  <2>2. CASE pc'[r] # "abort"
    <3>1. hasRef[r] /\ pc[r] = "emit" /\ pc'[r] = "commit"
      BY <1>9, <2>2 DEF EmitEvent
    <3>2. UNCHANGED <<wallets, view, writes, missed, entries, hasRef>>
      BY <1>9 DEF EmitEvent
    <3>3. entries[r] = AllEntries(r)
      BY <3>1, <1>a DEF MoneyOf
    <3> QED BY <3>1, <3>2, <3>3, MoneyOfStill
  <2> QED BY <2>1, <2>2
<1>10. CASE Commit(r) BY <1>10, <1>c DEF Commit, Forget
<1>11. CASE Settle(r) BY <1>11, <1>c, <1>d DEF Settle
<1>12. CASE Abort(r) BY <1>12, <1>c DEF Abort, Forget
<1>14. CASE Throw(r) BY <1>14, <1>c DEF Throw
<1>15. CASE Crash(r) BY <1>15, <1>c DEF Crash, Forget
<1>16. CASE ServerAbort(r) BY <1>16, <1>c, <1>d DEF ServerAbort
<1> QED BY <1>1, <1>2, <1>3, <1>4, <1>5, <1>6, <1>7, <1>8, <1>9, <1>10,
           <1>11, <1>12, <1>14, <1>15, <1>16 DEF StepOf, Step

\* Every step of a request keeps the balances in agreement with the ledger.
LEMMA MoneyStep ==
  ASSUME TypeOK, LockInv, KeyInv, MoneyInv, NEW r \in Requests, StepOf(r)
  PROVE  MoneyInv'
<1>1. \A q \in Requests : MoneyOf(q)'
  BY MoneyOfSelf, MoneyOfOther
<1>2. CASE ~Commit(r)
  BY <1>1, <1>2, Quiet DEF MoneyInv, NoOverdraft, LedgerAgreesWithWallets
<1>3. CASE Commit(r)
  <2> USE RequestAssumption, AmountAssumption, WalletAssumption
  <2>1. /\ wallets \in [Wallets -> WalletDoc]
        /\ ledgerNet \in [Wallets -> Int]
        /\ From[r] \in Wallets \ {Revenue} /\ To[r] \in Wallets \ {Revenue}
        /\ Amount[r] \in Nat /\ Fee[r] \in Nat /\ Total(r) = Amount[r] + Fee[r]
    BY DEF TypeOK, Total
  <2>2. ASSUME NEW w \in Wallets
        PROVE  /\ wallets'[w].available >= 0 \/ wallets'[w].available >= InitialBalance[w]
               /\ wallets'[w].locked = 0
               /\ w = Revenue => wallets'[w].status = wallets[w].status
               /\ wallets'[w].available + wallets'[w].locked = ledgerNet'[w]
    <3>1. /\ wallets[w].available >= 0 \/ wallets[w].available >= InitialBalance[w]
          /\ wallets[w].locked = 0
          /\ wallets[w].available + wallets[w].locked = ledgerNet[w]
          /\ wallets[w].available \in Int
      BY <2>1 DEF MoneyInv, NoOverdraft, LedgerAgreesWithWallets, WalletDoc
    <3>2. ledgerNet'[w] = ledgerNet[w] + EntryNet(r, AllEntries(r), w)
      BY <1>3, CommitEffect
    <3>3. CASE w = From[r]
      <4>1. wallets'[w] = Plus(wallets[w], -Total(r)) /\ wallets[w].available >= Total(r)
        BY <1>3, <3>3, CommitEffect
      <4>2. EntryNet(r, AllEntries(r), w) = -Total(r)
        BY <2>1, <3>3 DEF EntryNet, AllEntries
      <4> QED BY <2>1, <3>1, <3>2, <3>3, <4>1, <4>2 DEF Plus, Doc
    <3>4. CASE w = To[r]
      <4>1. wallets'[w] = Credited(r, wallets[w])
        BY <1>3, <3>4, CommitEffect
      <4>2. EntryNet(r, AllEntries(r), w) = Amount[r]
        BY <2>1, <3>4 DEF EntryNet, AllEntries
      <4> QED BY <2>1, <3>1, <3>2, <3>4, <4>1, <4>2
              DEF Credited, Recovered, Plus, Doc
    <3>5. CASE w = Revenue
      <4>1. wallets'[w] = Plus(wallets[w], Fee[r])
        BY <1>3, <2>1, <3>5, CommitEffect
      <4>2. EntryNet(r, AllEntries(r), w) = Fee[r]
        BY <2>1, <3>5 DEF EntryNet, AllEntries
      <4> QED BY <2>1, <3>1, <3>2, <3>5, <4>1, <4>2 DEF Plus, Doc
    <3>6. CASE w \notin {From[r], To[r], Revenue}
      <4>1. wallets'[w] = wallets[w]
        BY <1>3, <3>6, CommitEffect
      <4>2. EntryNet(r, AllEntries(r), w) = 0
        BY <3>6 DEF EntryNet
      <4> QED BY <2>1, <3>1, <3>2, <3>6, <4>1, <4>2
    <3> QED BY <3>3, <3>4, <3>5, <3>6
  <2> QED BY <1>1, <2>2 DEF MoneyInv, NoOverdraft, LedgerAgreesWithWallets
<1> QED BY <1>2, <1>3

-----------------------------------------------------------------------------
(* The other writers, and the invariant as a whole.                        *)

\* The other writers of wallet statuses keep the invariant.
LEMMA FreezeStep ==
  ASSUME TypeOK, LockInv, KeyInv, MoneyInv, NEW w \in Freezable, FreezeWallet(w)
  PROVE  LockInv' /\ KeyInv' /\ MoneyInv'
<1> USE RequestAssumption, WalletAssumption
<1>1. UNCHANGED <<idem, ledgerNet, posted, outbox, pc, view, writes, entries,
                  hasRef, event>>
  BY DEF FreezeWallet
<1>2. LockInv'
  BY <1>1 DEF LockInv, LocksOf
<1>3. KeyInv'
  BY <1>1 DEF KeyInv, KeyOf, IsFirst, AlreadyCompleted, IsNew, Applied,
              AtMostOncePerKey, EventPerTransfer
<1>4. PICK s \in Statuses :
         wallets' = [wallets EXCEPT ![w] = Doc(wallets[w].available, wallets[w].locked, s)]
  BY DEF FreezeWallet, Statuses
<1>5. /\ wallets'[w].available = wallets[w].available
      /\ wallets'[w].locked = wallets[w].locked
      /\ \A v \in Wallets \ {w} : wallets'[v] = wallets[v]
  BY <1>4 DEF Doc, TypeOK
<1>6. ASSUME NEW r \in Requests
      PROVE  MoneyOf(r)'
  <2>1. MoneyOf(r) /\ LocksOf(r) /\ <<"wallet", w>> \notin writes[r]
    BY DEF MoneyInv, LockInv, FreezeWallet
  <2>2. Written(r)' = Written(r)
    BY <1>1 DEF Written
  <2>3. pc[r] \in Begun => missed'[r] = missed[r] \cup {<<"wallet", w>>}
    BY DEF FreezeWallet, MissedBy, Begun
  <2>4. pc[r] \in Begun => Sees(r)'
    BY <1>1, <1>5, <2>1, <2>3 DEF MoneyOf, Sees
  <2>5. pc[r] \in AfterLock => WritesOf(r)'
    <3> SUFFICES ASSUME pc[r] \in AfterLock PROVE WritesOf(r)'
      OBVIOUS
    <3>1. WritesOf(r)
      BY <2>1 DEF MoneyOf
    <3>2. \A v \in Written(r) : wallets'[v] = wallets[v]
      BY <1>5, <2>1, <3>1 DEF WritesOf, Written
    <3>3. From[r] \in Written(r) /\ (pc[r] \in Applied => To[r] \in Written(r))
      BY DEF Written
    <3> QED BY <1>1, <2>2, <3>1, <3>2, <3>3 DEF WritesOf, MayReceive
  <2> QED BY <1>1, <2>1, <2>4, <2>5 DEF MoneyOf, MayReceive
<1>7. /\ NoOverdraft' /\ LedgerAgreesWithWallets'
      /\ wallets'[Revenue].status # "RECONCILING"
  BY <1>1, <1>5 DEF MoneyInv, NoOverdraft, LedgerAgreesWithWallets
<1> QED BY <1>2, <1>3, <1>6, <1>7 DEF MoneyInv

\* The initial state satisfies the inductive invariant.
LEMMA InitInv == Init => IInv
<1> SUFFICES ASSUME Init PROVE IInv
  OBVIOUS
<1> USE RequestAssumption, WalletAssumption
<1>1. TypeOK
  BY InitType
<1>2. LockInv
  BY DEF Init, LockInv, LocksOf, AfterLock
<1>3. KeyInv
  BY DEF Init, KeyInv, KeyOf, IsFirst, Applied, Running, AtMostOncePerKey,
         EventPerTransfer
<1>4. \A w \in Wallets :
        /\ wallets[w].available = InitialBalance[w] /\ wallets[w].locked = 0
        /\ wallets[w].status # "RECONCILING" /\ ledgerNet[w] = InitialBalance[w]
  BY DEF Init, Doc
<1>5. \A r \in Requests : MoneyOf(r)
  BY DEF Init, MoneyOf, Begun, AfterLock, Running, Applied
<1>6. NoOverdraft /\ LedgerAgreesWithWallets
  BY <1>4 DEF NoOverdraft, LedgerAgreesWithWallets
<1> QED BY <1>1, <1>2, <1>3, <1>4, <1>5, <1>6 DEF IInv, MoneyInv

\* Every step, of a request or of another writer, keeps the invariant.
LEMMA NextInv == IInv /\ [Next]_vars => IInv'
<1> SUFFICES ASSUME IInv, [Next]_vars PROVE IInv'
  OBVIOUS
<1>1. CASE UNCHANGED vars
  BY <1>1 DEF vars, IInv, TypeOK, LockInv, LocksOf, KeyInv, KeyOf, IsFirst,
              AlreadyCompleted, IsNew, AtMostOncePerKey, EventPerTransfer,
              MoneyInv, MoneyOf, Sees, WritesOf, Written, MayReceive,
              NoOverdraft, LedgerAgreesWithWallets
<1>2. ASSUME NEW r \in Requests, StepOf(r)
      PROVE  IInv'
  BY <1>2, StepType, LockStep, KeyStep, MoneyStep DEF IInv, StepOf
<1>3. ASSUME NEW w \in Freezable, FreezeWallet(w)
      PROVE  IInv'
  BY <1>3, FreezeType, FreezeStep DEF IInv
<1> QED BY <1>1, <1>2, <1>3 DEF Next, Terminated, StepOf

\* Every reachable state satisfies the inductive invariant.
THEOREM Inductive == Spec => []IInv
  BY InitInv, NextInv, PTL DEF Spec

-----------------------------------------------------------------------------
(* What follows from it.                                                   *)

\* However many requests carry a key, one at most takes money out of a
\* wallet (TransferService and TransferEngine with ext.idempotence).
THEOREM AtMostOnce == Spec => []AtMostOncePerKey
<1>1. IInv => AtMostOncePerKey
  BY DEF IInv, KeyInv
<1> QED BY <1>1, Inductive, PTL

\* A committed transfer leaves its key completed (markCompleted comes first).
THEOREM KeyCompleted == Spec => []PostedKeyIsCompleted
<1>1. IInv => PostedKeyIsCompleted
  BY DEF IInv, KeyInv, KeyOf, PostedKeyIsCompleted, TypeOK
<1> QED BY <1>1, Inductive, PTL

\* A transfer and its outbox row are committed together or not at all.
THEOREM EventCommitted == Spec => []EventPerTransfer
<1>1. IInv => EventPerTransfer
  BY DEF IInv, KeyInv
<1> QED BY <1>1, Inductive, PTL

\* A key is spent once and for good (module Transfer, all actions).
THEOREM KeySpent == Spec => []KeySpentOnce
<1> QED BY AtMostOnce, KeyCompleted, PTL DEF KeySpentOnce

\* The wallets and the ledger entries never drift apart by a transfer.
THEOREM LedgerAgrees == Spec => []LedgerAgreesWithWallets
<1>1. IInv => LedgerAgreesWithWallets
  BY DEF IInv, MoneyInv
<1> QED BY <1>1, Inductive, PTL

\* No interleaving of transfers overdraws a wallet or leaves funds locked.
THEOREM NeverOverdrawn == Spec => []NoOverdraft
<1>1. IInv => NoOverdraft
  BY DEF IInv, MoneyInv
<1> QED BY <1>1, Inductive, PTL

\* What is committed is whole: balances, entries and events agree and nothing
\* is overdrawn.
THEOREM WholeCommits == Spec => []CommitsAreWhole
<1> QED BY LedgerAgrees, NeverOverdrawn, EventCommitted, PTL DEF CommitsAreWhole

\* The cap a receiver was checked against still holds when the money arrives.
THEOREM CapHolds == Spec => CapHoldsAtCommit
<1>1. IInv /\ [Next]_vars =>
        [\A r \in posted' \ posted : Kind[r] = "P2P" =>
           wallets'[To[r]].available <= BalanceCap]_vars
  <2> SUFFICES ASSUME IInv, Next, NEW r \in posted' \ posted, Kind[r] = "P2P"
               PROVE  wallets'[To[r]].available <= BalanceCap
    OBVIOUS
  <2>1. r \in Requests /\ Commit(r)
    <3>1. PICK q \in Requests : StepOf(q) \/ UNCHANGED posted
      BY DEF Next, FreezeWallet, Terminated, vars, StepOf
    <3>2. StepOf(q)
      BY <3>1
    <3>3. Commit(q)
      BY <3>2, Quiet DEF IInv
    <3> QED BY <3>3 DEF Commit
  <2>2. /\ wallets'[To[r]] = Credited(r, wallets[To[r]])
        /\ MayReceive(r, wallets[To[r]]) /\ pc[r] = "commit"
    BY <2>1, CommitEffect, RequestAssumption DEF IInv
  <2> QED BY <2>2 DEF MayReceive, Credited, Recovered, Plus, Doc
<1> QED BY <1>1, Inductive, PTL DEF Spec, CapHoldsAtCommit

\* A wallet frozen or put under reconciliation between a request's check and
\* its commit is not debited, or not touched at all.
THEOREM BlockedUntouched == Spec => BlockedWalletsUntouched
<1> DEFINE Untouched(w) ==
      /\ wallets[w].status = "FROZEN" => wallets'[w].available >= wallets[w].available
      /\ wallets[w].status = "RECONCILING" => wallets'[w] = wallets[w]
<1>1. IInv /\ [Next]_vars => [\A w \in Wallets : Untouched(w)]_vars
  <2> SUFFICES ASSUME IInv, Next, NEW w \in Wallets
               PROVE  Untouched(w)
    OBVIOUS
  <2>1. wallets[w] \in WalletDoc
    BY DEF IInv, TypeOK
  <2>2. CASE wallets' = wallets
    BY <2>1, <2>2 DEF WalletDoc
  <2>3. ASSUME NEW v \in Freezable, FreezeWallet(v)
        PROVE  Untouched(w)
    BY <2>1, <2>3, WalletAssumption DEF FreezeWallet, WalletDoc, IInv, TypeOK
  <2>4. ASSUME NEW r \in Requests, Commit(r)
        PROVE  Untouched(w)
    <3> USE RequestAssumption, AmountAssumption
    <3>1. /\ wallets[From[r]].status = "ACTIVE"
          /\ wallets[To[r]].status # "RECONCILING"
          /\ wallets[Revenue].status # "RECONCILING"
          /\ wallets'[w] = IF w = From[r] THEN Plus(wallets[w], -Total(r))
                           ELSE IF w = To[r] THEN Credited(r, wallets[w])
                           ELSE IF w = Revenue THEN Plus(wallets[w], Fee[r])
                           ELSE wallets[w]
      BY <2>4, CommitEffect DEF IInv, MoneyInv, MayReceive, Receiving
    <3> QED BY <2>1, <3>1 DEF Credited, Recovered, Plus, Doc, WalletDoc
  <2> QED BY <2>2, <2>3, <2>4, Quiet DEF Next, Terminated, vars, StepOf, IInv
<1> QED BY <1>1, Inductive, PTL DEF Spec, BlockedWalletsUntouched

\* Read through committed documents, the interleaved and crashing requests
\* are the atomic transfers of AtomicTransfer.
THEOREM Refinement == Spec => ImplementsAtomicTransfer
<1> DEFINE balance == [w \in Wallets |-> wallets[w].available + wallets[w].locked]
<1>1. Init => Atomic!Init
  BY WalletAssumption DEF Init, Atomic!Init, Doc
<1>2. IInv /\ [Next]_vars => [Atomic!Next]_<<balance, posted>>
  <2> SUFFICES ASSUME IInv, [Next]_vars
               PROVE  Atomic!Next \/ UNCHANGED <<balance, posted>>
    OBVIOUS
  <2>1. CASE UNCHANGED <<wallets, posted>>
    BY <2>1
  <2>2. ASSUME NEW v \in Freezable, FreezeWallet(v)
        PROVE  UNCHANGED <<balance, posted>>
    <3>1. posted' = posted
      BY <2>2 DEF FreezeWallet
    <3>2. \A w \in Wallets : /\ wallets'[w].available = wallets[w].available
                             /\ wallets'[w].locked = wallets[w].locked
      BY <2>2 DEF FreezeWallet, Doc, IInv, TypeOK
    <3> QED BY <3>1, <3>2
  <2>3. ASSUME NEW r \in Requests, Commit(r)
        PROVE  Atomic!Execute(r)
    <3> USE RequestAssumption, AmountAssumption, WalletAssumption
    <3>1. \A q \in posted : ~(Key[q] = Key[r] /\ From[q] = From[r])
      BY <2>3 DEF Commit, IInv, KeyInv, KeyOf, IsFirst, Applied
    <3>2. /\ wallets[From[r]].available >= Total(r) /\ wallets[From[r]].locked = 0
          /\ wallets \in [Wallets -> WalletDoc]
      BY <2>3, CommitEffect DEF IInv, MoneyInv, NoOverdraft, TypeOK
    <3>3. ASSUME NEW w \in Wallets
          PROVE  balance'[w] = balance[w] + Atomic!Net(r, w)
      <4>1. wallets'[w] = IF w = From[r] THEN Plus(wallets[w], -Total(r))
                          ELSE IF w = To[r] THEN Credited(r, wallets[w])
                          ELSE IF w = Revenue THEN Plus(wallets[w], Fee[r])
                          ELSE wallets[w]
        BY <2>3, CommitEffect DEF IInv
      <4> QED BY <3>2, <4>1 DEF Atomic!Net, Credited, Recovered, Plus, Doc,
                                Total, WalletDoc
    <3>4. balance' = [w \in Wallets |-> balance[w] + Atomic!Net(r, w)]
      BY <3>3
    <3>5. balance[From[r]] >= Amount[r] + Fee[r]
      BY <3>2 DEF Total, WalletDoc
    <3>6. posted' = posted \cup {r}
      BY <2>3 DEF Commit
    <3> QED BY <3>1, <3>4, <3>5, <3>6 DEF Atomic!Execute
  <2> QED BY <2>1, <2>2, <2>3, Quiet
          DEF Next, Terminated, vars, StepOf, IInv, Atomic!Next
<1> QED BY <1>1, <1>2, Inductive, PTL DEF Spec, ImplementsAtomicTransfer, Atomic!Spec

=============================================================================
