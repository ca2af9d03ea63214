------------------------ MODULE PaymentFundingProofs ------------------------
(***************************************************************************)
(* The safety properties of PaymentFunding, for any number of payments,    *)
(* keys, webhook handlers and reaper jobs.  The inductive invariant says   *)
(* what a handler may rely on at each of its steps, since nothing it has   *)
(* read is locked.                                                         *)
(***************************************************************************)
EXTENDS PaymentFunding, TLAPS

\* The ledger's keys and the wallet's credits tell the same story.
LedgerInv ==
    \A p \in Payments :
      /\ credits[p] > 0 => charge[p] = "paid" /\ (Paid[p] = Asked[p] \/ p \in reaped)
      /\ \A ref \in {"payment", "provider"} :
           <<p, ref>> \in posted => credits[p] > 0
      /\ Echoes => /\ credits[p] <= 1
                   /\ <<p, "provider">> \notin posted
                   /\ <<p, "payment">> \notin posted => credits[p] = 0

\* What a handler knows of its payment: the outcome of a charge is final, and
\* so is a credit, and a webhook has looked at the amount.
HandlerInv ==
    \A a \in Actors :
      /\ pc[a] = "find" => charge[on[a]] \in {"paid", "failed"}
      /\ pc[a] \in {"credit", "post"} =>
            charge[on[a]] = "paid" /\ (Paid[on[a]] = Asked[on[a]] \/ a \in Reapers)
      /\ pc[a] \in {"succeed", "emit"} => credits[on[a]] > 0

\* A request that has called the provider, and a cancellation, have a payment.
RequestInv ==
    /\ \A p \in Payments :
         req[p] \in {"provider", "save", "refused", "initiated", "failed"}
           => status[p] # "NONE"
    /\ \A p \in cancelling : status[p] # "NONE"

IInv ==
    /\ TypeOK /\ LedgerInv /\ HandlerInv /\ RequestInv
    /\ SuccessIsCredited /\ OnePaymentPerKey

\* The invariant holds at the start.
LEMMA InitInv == ASSUME Payments # {} PROVE Init => IInv
<1> SUFFICES ASSUME Init PROVE IInv
  OBVIOUS
<1>0. PICK first \in Payments : on = [a \in Actors |-> first]
  <2>1. (CHOOSE p \in Payments : TRUE) \in Payments
    OBVIOUS
  <2> QED BY <2>1, Zenon DEF Init
<1>1. /\ status = [p \in Payments |-> "NONE"] /\ referenced = {}
      /\ retry = [p \in Payments |-> 0] /\ charge = [p \in Payments |-> "open"]
      /\ posted = {} /\ credits = [p \in Payments |-> 0] /\ outbox = {}
      /\ req = [p \in Payments |-> "new"] /\ pc = [a \in Actors |-> "idle"]
      /\ seen = [r \in Reapers |-> 0] /\ cancelling = {} /\ reaped = {}
  BY Zenon DEF Init
<1>2. TypeOK
  BY ONLY <1>0, <1>1, RetryAssumption DEF TypeOK, Statuses
<1>3. LedgerInv
  <2>1. ASSUME NEW p \in Payments PROVE credits[p] = 0
    BY <1>1
  <2>2. ASSUME NEW p \in Payments
        PROVE  ~(credits[p] > 0) /\ credits[p] <= 1
    BY <2>1
  <2>3. ASSUME NEW x PROVE x \notin posted
    BY <1>1
  <2> QED BY ONLY <2>1, <2>2, <2>3, Zenon DEF LedgerInv
<1>4. HandlerInv /\ RequestInv
  BY ONLY <1>0, <1>1 DEF HandlerInv, RequestInv
<1>5. SuccessIsCredited /\ OnePaymentPerKey
  BY ONLY <1>1 DEF SuccessIsCredited, OnePaymentPerKey
<1> QED BY <1>2, <1>3, <1>4, <1>5 DEF IInv

\* The steps of a request and of a cancellation.
LEMMA RequestStep ==
  ASSUME IInv, NEW p \in Payments,
         Request(p) \/ BeginCancel(p) \/ Cancel(p)
  PROVE  IInv'
<1> USE DEF IInv, TypeOK, Statuses, Reply, Emit, records, money, actors
<1>1. CASE CheckExisting(p) \/ CheckPending(p) \/ RequestDies(p)
  <2> USE <1>1 DEF CheckExisting, CheckPending, RequestDies
  <2>1. TypeOK'
    OBVIOUS
  <2>2. RequestInv'
    BY DEF RequestInv
  <2> QED BY <2>1, <2>2 DEF LedgerInv, HandlerInv, SuccessIsCredited, OnePaymentPerKey
<1>2. CASE Create(p)
  <2> USE <1>2 DEF Create
  <2>1. TypeOK'
    OBVIOUS
  <2>2. RequestInv'
    BY DEF RequestInv
  <2>3. OnePaymentPerKey'
    BY DEF OnePaymentPerKey, SameKey
  <2> QED BY <2>1, <2>2, <2>3 DEF LedgerInv, HandlerInv, SuccessIsCredited
<1>3. CASE CallProvider(p) \/ SaveReference(p) \/ EmitInitialization(p)
  <2> USE <1>3 DEF CallProvider, SaveReference, EmitInitialization
  <2>1. TypeOK'
    OBVIOUS
  <2>2. RequestInv'
    BY DEF RequestInv
  <2>3. SuccessIsCredited'
    BY DEF SuccessIsCredited
  <2> QED BY <2>1, <2>2, <2>3 DEF LedgerInv, HandlerInv, OnePaymentPerKey
<1>4. CASE ProviderFailed(p) \/ BeginCancel(p) \/ Cancel(p)
  <2> USE <1>4 DEF ProviderFailed, BeginCancel, Cancel
  <2>1. TypeOK'
    OBVIOUS
  <2>2. RequestInv' /\ OnePaymentPerKey'
    BY DEF RequestInv, OnePaymentPerKey
  <2> QED BY <2>1, <2>2 DEF LedgerInv, HandlerInv, SuccessIsCredited
<1> QED BY <1>1, <1>2, <1>3, <1>4 DEF Request

\* The provider's page: what has been paid or has failed stays so.
LEMMA PayStep ==
  ASSUME IInv, NEW p \in Payments, Pay(p)
  PROVE  IInv'
<1> USE DEF IInv, TypeOK, Pay, records, actors
<1>1. \A q \in Payments : charge[q] \in {"paid", "failed"} => charge'[q] = charge[q]
  OBVIOUS
<1>2. TypeOK'
  OBVIOUS
<1> QED BY <1>1, <1>2 DEF LedgerInv, HandlerInv, RequestInv, SuccessIsCredited,
                          OnePaymentPerKey

\* Crediting the wallet and marking the payment.
LEMMA CreditStep ==
  ASSUME IInv, NEW a \in Actors, Credit(a) \/ Dies(a)
  PROVE  IInv'
<1>0. on[a] \in Payments /\ FundingRef(a) \in {"payment", "provider"}
      /\ (Echoes => FundingRef(a) = "payment")
  BY EchoAssumption DEF FundingRef, IInv, TypeOK
<1> USE DEF IInv, TypeOK, Statuses, Goto, Emit, records, money
<1>1. CASE CheckPosted(a) \/ Dies(a)
  <2> USE <1>0, <1>1 DEF CheckPosted, Dies, Thrown
  <2>1. TypeOK'
    OBVIOUS
  <2>0. <<on[a], FundingRef(a)>> \in posted => credits[on[a]] > 0
    BY DEF LedgerInv
  <2>2. HandlerInv'
    BY <2>0 DEF HandlerInv
  <2> QED BY <2>1, <2>2 DEF LedgerInv, RequestInv, SuccessIsCredited, OnePaymentPerKey
<1>2. CASE Post(a)
  <2> USE <1>0, <1>2 DEF Post, Thrown
  <2>1. TypeOK'
    OBVIOUS
  <2>2. \A q \in Payments : credits'[q] >= credits[q]
    OBVIOUS
  <2>3. HandlerInv'
    BY <2>2 DEF HandlerInv
  <2>c. /\ credits[on[a]] \in Nat /\ charge[on[a]] = "paid"
        /\ Paid[on[a]] = Asked[on[a]] \/ a \in Reapers
    BY DEF HandlerInv
  <2>n. ASSUME <<on[a], FundingRef(a)>> \notin posted
        PROVE  LedgerInv'
    <3>1. /\ posted' = posted \cup {<<on[a], FundingRef(a)>>}
          /\ credits' = [credits EXCEPT ![on[a]] = @ + 1]
          /\ charge' = charge
          /\ reaped' = IF a \in Reapers THEN reaped \cup {on[a]} ELSE reaped
      BY <2>n
    <3>2. credits'[on[a]] = credits[on[a]] + 1
      BY <3>1
    <3>3. ASSUME NEW q \in Payments, q # on[a]
          PROVE  /\ credits'[q] = credits[q]
                 /\ \A ref \in {"payment", "provider"} :
                      <<q, ref>> \in posted' <=> <<q, ref>> \in posted
      BY <3>1, <3>3
    <3>4. Echoes => credits[on[a]] = 0 /\ <<on[a], "provider">> \notin posted'
      BY <1>0, <2>n, <3>1 DEF LedgerInv
    <3>5. Echoes => <<on[a], "payment">> \in posted'
      BY <1>0, <3>1
    <3>6. ASSUME NEW q \in Payments, q # on[a]
          PROVE  /\ credits'[q] > 0 =>
                      charge'[q] = "paid" /\ (Paid[q] = Asked[q] \/ q \in reaped')
                 /\ \A ref \in {"payment", "provider"} :
                      <<q, ref>> \in posted' => credits'[q] > 0
                 /\ Echoes => /\ credits'[q] <= 1
                              /\ <<q, "provider">> \notin posted'
                              /\ <<q, "payment">> \notin posted' => credits'[q] = 0
      BY <3>1, <3>3, <3>6 DEF LedgerInv
    <3>7. /\ credits'[on[a]] > 0 /\ charge'[on[a]] = "paid"
          /\ Paid[on[a]] = Asked[on[a]] \/ on[a] \in reaped'
          /\ Echoes => credits'[on[a]] <= 1
      BY <2>c, <3>1, <3>2, <3>4
    <3> QED BY ONLY <3>4, <3>5, <3>6, <3>7 DEF LedgerInv
  <2>y. ASSUME <<on[a], FundingRef(a)>> \in posted
        PROVE  LedgerInv'
    <3>1. posted' = posted /\ credits' = credits /\ charge' = charge /\ reaped' = reaped
      BY <2>y
    <3>2. LedgerInv
      OBVIOUS
    <3> QED BY ONLY <3>1, <3>2, Zenon DEF LedgerInv
  <2>4. LedgerInv'
    BY <2>n, <2>y
  <2>5. SuccessIsCredited'
    BY <2>2 DEF SuccessIsCredited
  <2> QED BY <2>1, <2>3, <2>4, <2>5 DEF RequestInv, OnePaymentPerKey
<1>3. CASE MarkSuccess(a)
  <2> USE <1>0, <1>3 DEF MarkSuccess, IfPending
  <2>1. TypeOK'
    BY RetryAssumption
  <2>2. HandlerInv' /\ SuccessIsCredited'
    BY DEF HandlerInv, SuccessIsCredited
  <2>3. RequestInv' /\ OnePaymentPerKey'
    BY DEF RequestInv, OnePaymentPerKey
  <2> QED BY <2>1, <2>2, <2>3 DEF LedgerInv
<1>4. CASE EmitSuccess(a)
  <2> USE <1>0, <1>4 DEF EmitSuccess
  <2>1. TypeOK'
    OBVIOUS
  <2>2. HandlerInv' /\ SuccessIsCredited'
    BY DEF HandlerInv, SuccessIsCredited
  <2> QED BY <2>1, <2>2 DEF LedgerInv, RequestInv, OnePaymentPerKey
<1> QED BY <1>1, <1>2, <1>3, <1>4 DEF Credit

\* The webhook and the reaper up to the point where they credit the wallet.
LEMMA PollStep ==
  ASSUME IInv, NEW a \in Actors,
         \/ a \in Hooks /\ Hook(a)
         \/ a \in Reapers /\ (Reap(a) \/ VerifyRejected(a))
  PROVE  IInv'
<1> USE DEF IInv, TypeOK, Statuses, Goto, Attempt, records, money
<1>0. on[a] \in Payments
  OBVIOUS
<1>1. ASSUME NEW p \in Payments, Deliver(a, p) PROVE IInv'
  BY <1>1 DEF Deliver, HandlerInv, LedgerInv, RequestInv, SuccessIsCredited,
              OnePaymentPerKey
<1>2. ASSUME a \in Reapers, NEW p \in Payments, Scan(a, p) PROVE IInv'
  BY <1>2 DEF Scan, HandlerInv, LedgerInv, RequestInv, SuccessIsCredited,
              OnePaymentPerKey
<1>3. CASE Find(a) \/ Verify(a) \/ NextPayment(a)
  <2> USE <1>0, <1>3 DEF Find, Verify, Verdict, NextPayment
  <2>1. TypeOK'
    OBVIOUS
  <2>2. HandlerInv'
    <3>1. pc'[a] \in {"credit", "post"} =>
            charge[on[a]] = "paid" /\ (Paid[on[a]] = Asked[on[a]] \/ a \in Reapers)
      BY DEF HandlerInv
    <3>2. pc'[a] \notin {"find", "succeed", "emit"}
      OBVIOUS
    <3> QED BY <3>1, <3>2 DEF HandlerInv
  <2> QED BY <2>1, <2>2 DEF LedgerInv, RequestInv, SuccessIsCredited, OnePaymentPerKey
<1>4. CASE Reject(a) \/ GiveUp(a)
  <2> USE <1>0, <1>4 DEF Reject, GiveUp, IfPending
  <2>1. TypeOK'
    BY RetryAssumption
  <2>2. RequestInv' /\ OnePaymentPerKey'
    BY DEF RequestInv, OnePaymentPerKey
  <2>3. SuccessIsCredited' /\ HandlerInv'
    BY DEF SuccessIsCredited, HandlerInv
  <2> QED BY <2>1, <2>2, <2>3 DEF LedgerInv
<1>5. CASE StillPending(a) \/ VerifyRejected(a)
  <2> USE <1>0, <1>5 DEF StillPending, VerifyRejected
  <2>1. TypeOK'
    BY RetryAssumption
  <2>2. HandlerInv'
    BY DEF HandlerInv
  <2> QED BY <2>1, <2>2 DEF LedgerInv, RequestInv, SuccessIsCredited, OnePaymentPerKey
<1> QED BY <1>1, <1>2, <1>3, <1>4, <1>5 DEF Hook, Reap

\* Every step preserves the invariant.
LEMMA NextInv == IInv /\ [Next]_vars => IInv'
<1>1. ASSUME IInv, UNCHANGED vars PROVE IInv'
  BY <1>1 DEF vars, IInv, TypeOK, LedgerInv, HandlerInv, RequestInv,
              SuccessIsCredited, OnePaymentPerKey
<1> QED BY <1>1, RequestStep, PayStep, CreditStep, PollStep DEF Next, Actors

\* The invariant of the payments.
THEOREM Inductive == ASSUME Payments # {} PROVE Spec => []IInv
<1> QED BY InitInv, NextInv, PTL DEF Spec

\* Every variable keeps its type.
THEOREM TypeCorrect ==
  ASSUME Payments # {}
  PROVE  Spec => []TypeOK
<1>1. IInv => TypeOK
  BY DEF IInv
<1> QED BY <1>1, Inductive, PTL

\* However many webhooks and reaper jobs work on a payment at a time, and
\* whenever they fail, its wallet is credited once at most, for what has been
\* paid (or, by a reaper job, asked), and before the payment is SUCCESS.
THEOREM Credited ==
  ASSUME Payments # {}
  PROVE  Spec => []CreditMatchesPayment
<1>1. IInv => CreditMatchesPayment
  BY DEF IInv, LedgerInv, CreditedOnce, CreditedWasPaid, CreditMatchesPayment
<1> QED BY <1>1, Inductive, PTL

\* Requests that race under one key never make two payments.
THEOREM PaymentPerKey ==
  ASSUME Payments # {}
  PROVE  Spec => []OnePaymentPerKey
<1>1. IInv => OnePaymentPerKey
  BY DEF IInv
<1> QED BY <1>1, Inductive, PTL
=============================================================================
