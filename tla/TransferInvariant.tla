-------------------------- MODULE TransferInvariant --------------------------
(***************************************************************************)
(* The inductive invariant of module Transfer: what every step relies on   *)
(* and keeps.  It has three layers, each inductive relative to the ones    *)
(* before it: who holds which document, what a completed key tells about   *)
(* the requests that carry it, and how an open transaction's view of the   *)
(* wallets relates to the committed ones.                                  *)
(***************************************************************************)
EXTENDS Transfer

Begun == Running \ {"begin"}
AfterLock == {"ensure", "post", "fee", "complete", "apply", "emit", "commit"}
Applied == {"emit", "commit"}

-----------------------------------------------------------------------------
(* Locks.                                                                  *)

\* Only a transaction that has locked its funds, or has not been ended yet,
\* holds documents; from there to its end it holds its sender's wallet.
LocksOf(r) ==
    /\ writes[r] # {} => pc[r] \in AfterLock \cup {"abort", "crashed"}
    /\ pc[r] \in AfterLock => <<"wallet", From[r]>> \in writes[r]

\* No document is held by two transactions.
LockInv ==
    /\ \A r, q \in Requests : r # q => writes[r] \cap writes[q] = {}
    /\ \A r \in Requests : LocksOf(r)

-----------------------------------------------------------------------------
(* Keys.                                                                   *)

\* r has found its key incomplete while it held the wallet it debits.
IsFirst(r) ==
    \/ pc[r] \in {"post", "fee", "complete"}
    \/ pc[r] \in {"apply"} \cup Applied /\ hasRef[r]

KeyOf(r) ==
    /\ pc[r] \in Running => idem[Key[r]].status # "NONE"
    /\ hasRef[r] => /\ pc[r] \in {"apply", "abort"} \cup Applied
                    /\ AlreadyCompleted(Key[r])
    /\ event[r] => pc[r] \in {"commit", "abort"}
    /\ pc[r] = "commit" => hasRef[r] /\ event[r]
    /\ r \in posted => /\ AlreadyCompleted(Key[r])
                       /\ pc[r] \in Finished \cup {"settle"}
                       /\ pc[r] # "idle"
    /\ IsFirst(r) =>
         \A q \in posted : ~(Key[q] = Key[r] /\ From[q] = From[r])

KeyInv ==
    /\ \A k \in Keys : idem[k].status = "COMPLETED" <=> idem[k].touched
    /\ \A r \in Requests : KeyOf(r)
    /\ AtMostOncePerKey
    /\ EventPerTransfer

-----------------------------------------------------------------------------
(* Money.                                                                  *)

AllEntries(r) == IF Fee[r] > 0 THEN {"TRANSFER", "FEE"} ELSE {"TRANSFER"}

\* The wallets r has written.
Written(r) ==
    {From[r]} \cup (IF "FEE" \in entries[r] /\ pc[r] # "fee"
                    THEN {Revenue} ELSE {})
              \cup (IF pc[r] \in Applied THEN {To[r]} ELSE {})

\* The documents r sees are the committed ones, unless it wrote them or
\* somebody else has committed them since.
Sees(r) ==
    \A w \in Wallets :
      <<"wallet", w>> \notin missed[r] \cup writes[r] => view[r][w] = wallets[w]

\* The status and the cap r has checked.
Receiving(r) == IF Kind[r] = "P2P" THEN {"ACTIVE", "FROZEN"} ELSE {"ACTIVE"}
MayReceive(r, doc) ==
    /\ doc.status \in Receiving(r)
    /\ Kind[r] = "P2P" /\ pc[r] # "reserve" =>
         doc.available + Amount[r] <= BalanceCap

\* How what r has written follows from the committed wallets, which nobody
\* changes while r holds them.
WritesOf(r) ==
    /\ \A w \in Wallets : <<"wallet", w>> \in writes[r] <=> w \in Written(r)
    /\ wallets[From[r]].status = "ACTIVE"
    /\ wallets[From[r]].available >= Total(r)
    /\ view[r][From[r]] = IF pc[r] \in Applied
                          THEN Plus(wallets[From[r]], -Total(r))
                          ELSE Held(wallets[From[r]], Total(r))
    /\ Revenue \in Written(r) =>
         view[r][Revenue] = Plus(wallets[Revenue], Fee[r])
    /\ pc[r] \in Applied =>
         /\ view[r][To[r]] = Credited(r, wallets[To[r]])
         /\ MayReceive(r, wallets[To[r]])

MoneyOf(r) ==
    /\ pc[r] # "abort" => entries[r] = IF pc[r] \in {"fee", "complete"}
                                          \/ hasRef[r]
                                       THEN AllEntries(r) ELSE {}
    /\ pc[r] = "fee" => Fee[r] > 0
    /\ pc[r] \in Begun => Sees(r)
    /\ pc[r] \in Begun \ AfterLock => view[r][From[r]].status = "ACTIVE"
    /\ pc[r] \in Begun \ Applied => MayReceive(r, view[r][To[r]])
    /\ pc[r] \in AfterLock => WritesOf(r)

MoneyInv ==
    /\ \A r \in Requests : MoneyOf(r)
    /\ wallets[Revenue].status # "RECONCILING"
    /\ NoOverdraft
    /\ LedgerAgreesWithWallets

\* Every reachable state satisfies this, and every step keeps it.
IInv == TypeOK /\ LockInv /\ KeyInv /\ MoneyInv
=============================================================================
