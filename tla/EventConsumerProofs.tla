------------------------ MODULE EventConsumerProofs ------------------------
(***************************************************************************)
(* The safety properties of EventConsumer, for any number of events,       *)
(* workers, retry topics and copies, and for any set of faults.            *)
(***************************************************************************)
EXTENDS EventConsumerInvariant, TLAPS

\* A message handed out on some topic, and its fields.
LEMMA MessageFields ==
  ASSUME NEW m \in Messages
  PROVE  EventOf(m) \in Events /\ LevelOf(m) \in Levels
  BY DEF Messages, EventOf, LevelOf

\* The invariant holds at the start.
LEMMA InitInv == Init => IInv
<1> SUFFICES ASSUME Init PROVE IInv
  OBVIOUS
<1> USE LevelAssumption, EventAssumption DEF Init
<1>0. Messages # {}
  <2>1. PICK e \in Events : TRUE
    OBVIOUS
  <2>2. <<e, 0>> \in Messages
    BY DEF Messages, Levels
  <2> QED BY <2>2
<1>1. (CHOOSE m \in Messages : TRUE) \in Messages
  BY <1>0
<1>2. \A m \in Messages : record[m] = Rec("NONE", 0, FALSE) /\ Rec("NONE", 0, FALSE) \in Record
  BY DEF Rec, Record, Status
<1>3. pending \in [Messages -> Nat]
  OBVIOUS
<1>4. TypeOK
  BY <1>1, <1>2, <1>3 DEF TypeOK, Steps
<1>5. CompletedOnce
  BY <1>2 DEF CompletedOnce, Rec
<1> QED BY <1>4, <1>5 DEF IInv, OwnerInv, LeaseInv, OneLeaseholder, Working

\* Every step of a handler and every failure in it preserves the invariant.
LEMMA StepInv ==
  ASSUME IInv, NEW w \in Workers, faults' = faults,
         Handle(w) \/ DatabaseError(w) \/ Crash(w) \/ Rebalance(w)
  PROVE  IInv'
<1> USE LevelAssumption DEF IInv, TypeOK, Goto, kafka, job
<1>1. CASE Read(w)
  <2> USE <1>1 DEF Read
  <2>1. TypeOK'
    <3>1. pc' \in [Workers -> Steps]
      BY DEF Steps
    <3>2. pending' \in [Messages -> Nat]
      BY DEF OwnerInv
    <3> QED BY <3>1, <3>2, MessageFields
  <2>2. OwnerInv'
    BY DEF OwnerInv
  <2>3. LeaseInv'
    BY DEF LeaseInv, Working
  <2>4. CompletedOnce'
    BY DEF CompletedOnce, LeaseInv, Working
  <2>5. OneLeaseholder'
    BY DEF OneLeaseholder, LeaseInv, Working
  <2> QED BY <2>1, <2>2, <2>3, <2>4, <2>5 DEF IInv
<1>2. CASE InitIdempotency(w)
  <2> USE <1>2 DEF InitIdempotency, Decision
  <2>0. Rec("PROCESSING", 0, FALSE) \in Record
    BY DEF Rec, Record, Status
  <2>v. /\ record[msg[w]].version \in Nat
        /\ version[w] + 1 \in Nat
        /\ effects[msg[w]] + 1 \in Nat
    BY DEF Record
  <2>p. PICK l \in Steps \ {"idle"} : pc' = [pc EXCEPT ![w] = l]
    BY DEF Steps
  <2>1. TypeOK'
    <3>1. record' \in [Messages -> Record]
      BY <2>0
    <3>2. version' \in [Workers -> Nat]
      <4>1. \/ \E n \in Nat : version' = [version EXCEPT ![w] = n]
            \/ version' = version
        BY <2>v
      <4> QED BY ONLY <4>1, TypeOK DEF TypeOK
    <3>3. effects' \in [Messages -> Nat]
      <4>1. \/ \E n \in Nat : effects' = [effects EXCEPT ![msg[w]] = n]
            \/ effects' = effects
        BY <2>v
      <4> QED BY ONLY <4>1, TypeOK DEF TypeOK
    <3> QED BY ONLY TypeOK, faults' = faults, <1>2, <2>p, <3>1, <3>2, <3>3 DEF TypeOK, InitIdempotency, kafka, job
  <2>2. OwnerInv'
    BY ONLY IInv, <1>2, <2>p DEF IInv, InitIdempotency, kafka, job, OwnerInv
  <2>3. LeaseInv'
    BY DEF LeaseInv, Working, Rec, Record
  <2>4. CompletedOnce'
    BY DEF CompletedOnce, LeaseInv, Working, Rec
  <2>5. OneLeaseholder'
    BY DEF OneLeaseholder, LeaseInv, Working, Rec
  <2> QED BY <2>1, <2>2, <2>3, <2>4, <2>5 DEF IInv
<1>3. CASE TakeOver(w)
  <2> USE <1>3 DEF TakeOver, Matches
  <2>0. Rec("PROCESSING", version[w] + 1, FALSE) \in Record
    BY DEF Rec, Record, Status
  <2>v. /\ record[msg[w]].version \in Nat
        /\ version[w] + 1 \in Nat
        /\ effects[msg[w]] + 1 \in Nat
    BY DEF Record
  <2>p. PICK l \in Steps \ {"idle"} : pc' = [pc EXCEPT ![w] = l]
    BY DEF Steps
  <2>1. TypeOK'
    <3>1. record' \in [Messages -> Record]
      BY <2>0
    <3>2. version' \in [Workers -> Nat]
      <4>1. \/ \E n \in Nat : version' = [version EXCEPT ![w] = n]
            \/ version' = version
        BY <2>v
      <4> QED BY ONLY <4>1, TypeOK DEF TypeOK
    <3>3. effects' \in [Messages -> Nat]
      <4>1. \/ \E n \in Nat : effects' = [effects EXCEPT ![msg[w]] = n]
            \/ effects' = effects
        BY <2>v
      <4> QED BY ONLY <4>1, TypeOK DEF TypeOK
    <3> QED BY ONLY TypeOK, faults' = faults, <1>3, <2>p, <3>1, <3>2, <3>3 DEF TypeOK, TakeOver, kafka, job
  <2>2. OwnerInv'
    BY ONLY IInv, <1>3, <2>p DEF IInv, TakeOver, kafka, job, OwnerInv
  <2>3. LeaseInv'
    BY DEF LeaseInv, Working, Rec, Record
  <2>4. CompletedOnce'
    BY DEF CompletedOnce, LeaseInv, Working, Rec
  <2>5. OneLeaseholder'
    BY DEF OneLeaseholder, LeaseInv, Working, Rec
  <2> QED BY <2>1, <2>2, <2>3, <2>4, <2>5 DEF IInv
<1>4. CASE Process(w)
  <2> USE <1>4 DEF Process, Matches, UnknownError
  <2>0. Rec("COMPLETED", version[w] + 1, FALSE) \in Record
    BY DEF Rec, Record, Status
  <2>v. /\ record[msg[w]].version \in Nat
        /\ version[w] + 1 \in Nat
        /\ effects[msg[w]] + 1 \in Nat
    BY DEF Record
  <2>p. PICK l \in Steps \ {"idle"} : pc' = [pc EXCEPT ![w] = l]
    BY DEF Steps
  <2>1. TypeOK'
    <3>1. record' \in [Messages -> Record]
      BY <2>0
    <3>2. version' \in [Workers -> Nat]
      <4>1. \/ \E n \in Nat : version' = [version EXCEPT ![w] = n]
            \/ version' = version
        BY <2>v
      <4> QED BY ONLY <4>1, TypeOK DEF TypeOK
    <3>3. effects' \in [Messages -> Nat]
      <4>1. \/ \E n \in Nat : effects' = [effects EXCEPT ![msg[w]] = n]
            \/ effects' = effects
        BY <2>v
      <4> QED BY ONLY <4>1, TypeOK DEF TypeOK
    <3> QED BY ONLY TypeOK, faults' = faults, <1>4, <2>p, <3>1, <3>2, <3>3 DEF TypeOK, Process, kafka, job
  <2>2. OwnerInv'
    BY ONLY IInv, <1>4, <2>p DEF IInv, Process, kafka, job, OwnerInv
  <2>3. LeaseInv'
    BY DEF LeaseInv, Working, Rec, Record
  <2>4. CompletedOnce'
    BY DEF CompletedOnce, LeaseInv, Working, Rec
  <2>5. OneLeaseholder'
    BY DEF OneLeaseholder, LeaseInv, Working, Rec
  <2> QED BY <2>1, <2>2, <2>3, <2>4, <2>5 DEF IInv
<1>5. CASE ProcessorError(w)
  <2> USE <1>5 DEF ProcessorError, ErrorPaths
  <2>1. TypeOK'
    <3>1. pc' \in [Workers -> Steps]
      BY DEF Steps
    <3>2. pending' \in [Messages -> Nat]
      BY DEF OwnerInv
    <3> QED BY <3>1, <3>2, MessageFields
  <2>2. OwnerInv'
    BY DEF OwnerInv
  <2>3. LeaseInv'
    BY DEF LeaseInv, Working
  <2>4. CompletedOnce'
    BY DEF CompletedOnce, LeaseInv, Working
  <2>5. OneLeaseholder'
    BY DEF OneLeaseholder, LeaseInv, Working
  <2> QED BY <2>1, <2>2, <2>3, <2>4, <2>5 DEF IInv
<1>6. CASE FailIdempotency(w)
  <2> USE <1>6 DEF FailIdempotency
  <2>0. Rec("FAILED", record[msg[w]].version + 1, record[msg[w]].stale) \in Record
    BY DEF Rec, Record, Status
  <2>v. /\ record[msg[w]].version \in Nat
        /\ version[w] + 1 \in Nat
        /\ effects[msg[w]] + 1 \in Nat
    BY DEF Record
  <2>p. PICK l \in Steps \ {"idle"} : pc' = [pc EXCEPT ![w] = l]
    BY DEF Steps
  <2>1. TypeOK'
    <3>1. record' \in [Messages -> Record]
      BY <2>0
    <3>2. version' \in [Workers -> Nat]
      <4>1. \/ \E n \in Nat : version' = [version EXCEPT ![w] = n]
            \/ version' = version
        BY <2>v
      <4> QED BY ONLY <4>1, TypeOK DEF TypeOK
    <3>3. effects' \in [Messages -> Nat]
      <4>1. \/ \E n \in Nat : effects' = [effects EXCEPT ![msg[w]] = n]
            \/ effects' = effects
        BY <2>v
      <4> QED BY ONLY <4>1, TypeOK DEF TypeOK
    <3> QED BY ONLY TypeOK, faults' = faults, <1>6, <2>p, <3>1, <3>2, <3>3 DEF TypeOK, FailIdempotency, kafka, job
  <2>2. OwnerInv'
    BY ONLY IInv, <1>6, <2>p DEF IInv, FailIdempotency, kafka, job, OwnerInv
  <2>3. LeaseInv'
    BY DEF LeaseInv, Working, Rec, Record
  <2>4. CompletedOnce'
    BY DEF CompletedOnce, LeaseInv, Working, Rec
  <2>5. OneLeaseholder'
    BY DEF OneLeaseholder, LeaseInv, Working, Rec
  <2> QED BY <2>1, <2>2, <2>3, <2>4, <2>5 DEF IInv
<1>7. CASE SendToRetry(w)
  <2> USE <1>7 DEF SendToRetry, NextLevel
  <2>1. TypeOK'
    <3>1. pc' \in [Workers -> Steps]
      BY DEF Steps
    <3>2. pending' \in [Messages -> Nat]
      BY DEF OwnerInv
    <3> QED BY <3>1, <3>2, MessageFields
  <2>2. OwnerInv'
    BY DEF OwnerInv
  <2>3. LeaseInv'
    BY DEF LeaseInv, Working
  <2>4. CompletedOnce'
    BY DEF CompletedOnce, LeaseInv, Working
  <2>5. OneLeaseholder'
    BY DEF OneLeaseholder, LeaseInv, Working
  <2> QED BY <2>1, <2>2, <2>3, <2>4, <2>5 DEF IInv
<1>8. CASE SendToDLQ(w)
  <2> USE <1>8 DEF SendToDLQ
  <2>1. TypeOK'
    <3>1. pc' \in [Workers -> Steps]
      BY DEF Steps
    <3>2. pending' \in [Messages -> Nat]
      BY DEF OwnerInv
    <3> QED BY <3>1, <3>2, MessageFields
  <2>2. OwnerInv'
    BY DEF OwnerInv
  <2>3. LeaseInv'
    BY DEF LeaseInv, Working
  <2>4. CompletedOnce'
    BY DEF CompletedOnce, LeaseInv, Working
  <2>5. OneLeaseholder'
    BY DEF OneLeaseholder, LeaseInv, Working
  <2> QED BY <2>1, <2>2, <2>3, <2>4, <2>5 DEF IInv
<1>9. CASE CommitProcessed(w)
  <2> USE <1>9 DEF CommitProcessed, MayCommit, CommitFails, UnknownError
  <2>1. TypeOK'
    <3>1. pc' \in [Workers -> Steps]
      BY DEF Steps
    <3>2. pending' \in [Messages -> Nat]
      BY DEF OwnerInv
    <3> QED BY <3>1, <3>2, MessageFields
  <2>2. OwnerInv'
    BY DEF OwnerInv
  <2>3. LeaseInv'
    BY DEF LeaseInv, Working
  <2>4. CompletedOnce'
    BY DEF CompletedOnce, LeaseInv, Working
  <2>5. OneLeaseholder'
    BY DEF OneLeaseholder, LeaseInv, Working
  <2> QED BY <2>1, <2>2, <2>3, <2>4, <2>5 DEF IInv
<1>10. CASE CommitOffset(w)
  <2> USE <1>10 DEF CommitOffset, MayCommit, CommitFails
  <2>1. TypeOK'
    <3>1. pc' \in [Workers -> Steps]
      BY DEF Steps
    <3>2. pending' \in [Messages -> Nat]
      BY DEF OwnerInv
    <3> QED BY <3>1, <3>2, MessageFields
  <2>2. OwnerInv'
    BY DEF OwnerInv
  <2>3. LeaseInv'
    BY DEF LeaseInv, Working
  <2>4. CompletedOnce'
    BY DEF CompletedOnce, LeaseInv, Working
  <2>5. OneLeaseholder'
    BY DEF OneLeaseholder, LeaseInv, Working
  <2> QED BY <2>1, <2>2, <2>3, <2>4, <2>5 DEF IInv
<1>11. CASE DatabaseError(w)
  <2> USE <1>11 DEF DatabaseError
  <2>1. TypeOK'
    <3>1. pc' \in [Workers -> Steps]
      BY DEF Steps
    <3>2. pending' \in [Messages -> Nat]
      BY DEF OwnerInv
    <3> QED BY <3>1, <3>2, MessageFields
  <2>2. OwnerInv'
    BY DEF OwnerInv
  <2>3. LeaseInv'
    BY DEF LeaseInv, Working
  <2>4. CompletedOnce'
    BY DEF CompletedOnce, LeaseInv, Working
  <2>5. OneLeaseholder'
    BY DEF OneLeaseholder, LeaseInv, Working
  <2> QED BY <2>1, <2>2, <2>3, <2>4, <2>5 DEF IInv
<1>12. CASE Crash(w)
  <2> USE <1>12 DEF Crash
  <2>1. TypeOK'
    <3>1. pc' \in [Workers -> Steps]
      BY DEF Steps
    <3>2. pending' \in [Messages -> Nat]
      BY DEF OwnerInv
    <3> QED BY <3>1, <3>2, MessageFields
  <2>2. OwnerInv'
    BY DEF OwnerInv
  <2>3. LeaseInv'
    BY DEF LeaseInv, Working
  <2>4. CompletedOnce'
    BY DEF CompletedOnce, LeaseInv, Working
  <2>5. OneLeaseholder'
    BY DEF OneLeaseholder, LeaseInv, Working
  <2> QED BY <2>1, <2>2, <2>3, <2>4, <2>5 DEF IInv
<1>13. CASE Rebalance(w)
  <2> USE <1>13 DEF Rebalance
  <2>1. TypeOK'
    <3>1. pc' \in [Workers -> Steps]
      BY DEF Steps
    <3>2. pending' \in [Messages -> Nat]
      BY DEF OwnerInv
    <3> QED BY <3>1, <3>2, MessageFields
  <2>2. OwnerInv'
    BY DEF OwnerInv
  <2>3. LeaseInv'
    BY DEF LeaseInv, Working
  <2>4. CompletedOnce'
    BY DEF CompletedOnce, LeaseInv, Working
  <2>5. OneLeaseholder'
    BY DEF OneLeaseholder, LeaseInv, Working
  <2> QED BY <2>1, <2>2, <2>3, <2>4, <2>5 DEF IInv
<1> QED BY <1>1, <1>2, <1>3, <1>4, <1>5, <1>6, <1>7, <1>8, <1>9, <1>10, <1>11, <1>12, <1>13 DEF Handle

\* So do the delivery of a message and the passing of time.
LEMMA OtherInv ==
  ASSUME IInv,
         \/ \E w \in Workers, m \in Messages : Take(w, m) /\ faults' = faults
         \/ \E m \in Messages : BecomeStale(m)
         \/ UNCHANGED vars
  PROVE  IInv'
<1> USE LevelAssumption DEF IInv, TypeOK, Goto, kafka, job
<1>1. ASSUME NEW w \in Workers, NEW m \in Messages, Take(w, m), faults' = faults
      PROVE  IInv'
  <2> USE <1>1 DEF Take
  <2>1. TypeOK'
    BY DEF Steps
  <2>2. OwnerInv'
    BY DEF OwnerInv, Holds
  <2> QED BY <2>1, <2>2 DEF LeaseInv, CompletedOnce, OneLeaseholder, Working
<1>2. ASSUME NEW m \in Messages, BecomeStale(m) PROVE IInv'
  <2> USE <1>2 DEF BecomeStale
  <2>1. \A n \in Messages : /\ record'[n].status = record[n].status
                            /\ record'[n].version = record[n].version
    BY DEF Record
  <2>2. TypeOK'
    BY DEF Record
  <2> QED BY <2>1, <2>2 DEF OwnerInv, LeaseInv, CompletedOnce, OneLeaseholder,
                            Working
<1>3. CASE UNCHANGED vars
  BY <1>3 DEF vars, OwnerInv, LeaseInv, CompletedOnce, OneLeaseholder, Working
<1> QED BY <1>1, <1>2, <1>3

\* Every step of the consumers preserves the invariant.
LEMMA NextInv == IInv /\ [Next]_vars => IInv'
  BY StepInv, OtherInv DEF Next, Work, Fail, AtRest

\* The invariant of the consumers: types, owners, leases, records.
THEOREM Inductive == Spec => []IInv
<1> QED BY InitInv, NextInv, PTL DEF Spec

\* Every variable has its type; no offset is committed twice.
THEOREM TypeCorrect == Spec => []TypeOK
<1>1. IInv => TypeOK
  BY DEF IInv
<1> QED BY <1>1, Inductive, PTL

\* A record is COMPLETED exactly when the effects of its message have been
\* committed, and they are committed once.
THEOREM EffectsOnce == Spec => []CompletedOnce
<1>1. IInv => CompletedOnce
  BY DEF IInv
<1> QED BY <1>1, Inductive, PTL

\* Workers that process one message do so under different record versions.
THEOREM Lease == Spec => []OneLeaseholder
<1>1. IInv => OneLeaseholder
  BY DEF IInv
<1> QED BY <1>1, Inductive, PTL

\* Takeovers neither repeat nor hide an effect (module EventConsumer).
THEOREM Protected == Spec => []LeaseProtects
<1> QED BY EffectsOnce, Lease, PTL DEF LeaseProtects

-----------------------------------------------------------------------------
(* One event on all its topics.                                            *)

\* While no partition moves and commits succeed.
Calm == IInv /\ NoZombies /\ OnceInv

\* A step of w that is not a rebalance.
Acts(w) == Handle(w) \/ (\E m \in Messages : Take(w, m)) \/ DatabaseError(w) \/ Crash(w)

\* Two handlers that run have two messages.
LEMMA Apart ==
  ASSUME Calm, NEW w \in Workers, NEW q \in Workers, w # q, pc[w] # "idle", pc[q] # "idle"
  PROVE  msg[w] # msg[q] /\ pending[msg[w]] > 0 /\ pending[msg[q]] > 0
BY DEF Calm, OnceInv, HandOf, IInv, OwnerInv

\* Messages are told apart by event and level.
LEMMA SameMessage ==
  ASSUME NEW m \in Messages, NEW n \in Messages, EventOf(m) = EventOf(n), LevelOf(m) = LevelOf(n)
  PROVE  m = n
BY DEF Messages, EventOf, LevelOf

\* The next topic up carries the same event.
LEMMA Upward ==
  ASSUME NEW m \in Messages, LevelOf(m) < MaxRetries
  PROVE  /\ NextLevel(m) \in Messages /\ EventOf(NextLevel(m)) = EventOf(m)
         /\ LevelOf(NextLevel(m)) = LevelOf(m) + 1
<1>1. PICK e \in Events, l \in Levels : m = <<e, l>>
  BY DEF Messages
<1>2. NextLevel(m) = <<e, l + 1>> /\ LevelOf(m) = l /\ EventOf(m) = e
  BY <1>1 DEF NextLevel, LevelOf, EventOf
<1>3. l + 1 \in Levels
  BY <1>2, LevelAssumption DEF Levels
<1> QED BY <1>2, <1>3 DEF Messages, LevelOf, EventOf

\* What the step of one handler leaves alone.
LEMMA ActFrame ==
  ASSUME Calm, NEW w \in Workers, Acts(w), faults' = faults
  PROVE  /\ \A q \in Workers \ {w} : /\ pc'[q] = pc[q] /\ msg'[q] = msg[q]
                                     /\ version'[q] = version[q] /\ fenced'[q] = fenced[q]
         /\ \A n \in Messages : n # msg[w] => record'[n] = record[n]
         /\ \A n \in Messages : pending'[n] > pending[n] =>
              SendToRetry(w) /\ n = NextLevel(msg[w])
         /\ \A n \in Messages : HasFailed(n) => HasFailed(n)'
         /\ \A n \in Messages : record'[n].status # "NONE" =>
              record[n].status # "NONE" \/ (InitIdempotency(w) /\ n = msg[w])
<1> USE DEF Calm, IInv, TypeOK, Acts, Handle, Goto, job, kafka
<1>1. \A q \in Workers \ {w} : /\ pc'[q] = pc[q] /\ msg'[q] = msg[q]
                               /\ version'[q] = version[q] /\ fenced'[q] = fenced[q]
  BY DEF Read, InitIdempotency, TakeOver, Process, ProcessorError, FailIdempotency, SendToRetry,
     SendToDLQ, CommitProcessed, CommitOffset, Take, DatabaseError, Crash
<1>2. \A n \in Messages : n # msg[w] => record'[n] = record[n]
  BY DEF Read, InitIdempotency, TakeOver, Process, ProcessorError, FailIdempotency, SendToRetry,
     SendToDLQ, CommitProcessed, CommitOffset, Take, DatabaseError, Crash
<1>3. ASSUME NEW n \in Messages, pending'[n] > pending[n]
      PROVE  SendToRetry(w) /\ n = NextLevel(msg[w])
  <2>1. CASE SendToRetry(w)
    BY <1>3, <2>1 DEF SendToRetry
  <2>2. CASE ~ SendToRetry(w)
    <3>1. pending[n] \in Nat /\ pending[msg[w]] \in Nat
      OBVIOUS
    <3>2. pending' = pending \/ pending' = [pending EXCEPT ![msg[w]] = @ - 1]
      BY <2>2 DEF Read, InitIdempotency, TakeOver, Process, ProcessorError, FailIdempotency,
         SendToDLQ, CommitProcessed, CommitOffset, Take, DatabaseError, Crash
    <3> QED BY <1>3, <3>1, <3>2
  <2> QED BY <2>1, <2>2
<1>4. ASSUME NEW n \in Messages, HasFailed(n)
      PROVE  HasFailed(n)'
  BY <1>4 DEF HasFailed, HandOf, OnceInv, Read, InitIdempotency, TakeOver, Process, ProcessorError,
     FailIdempotency, SendToRetry, SendToDLQ, CommitProcessed, CommitOffset, Take, DatabaseError,
     Crash, Matches, Rec
<1>5. ASSUME NEW n \in Messages, record'[n].status # "NONE", record[n].status = "NONE"
      PROVE  InitIdempotency(w) /\ n = msg[w]
  BY <1>2, <1>5 DEF HandOf, OnceInv, Read, TakeOver, Process, ProcessorError,
     FailIdempotency, SendToRetry, SendToDLQ, CommitProcessed, CommitOffset, Take, DatabaseError,
     Crash, Matches, Rec
<1> QED BY <1>1, <1>2, <1>3, <1>4, <1>5

\* Copies are counted in naturals.
LEMMA PendingType ==
  ASSUME Calm, NEW w \in Workers, Acts(w), faults' = faults
  PROVE  pending' \in [Messages -> Nat]
<1>1. ASSUME Handle(w) \/ DatabaseError(w) \/ Crash(w)
      PROVE  pending' \in [Messages -> Nat]
  <2>1. IInv'
    BY <1>1, StepInv DEF Calm
  <2> QED BY <2>1 DEF IInv, TypeOK
<1>2. ASSUME NEW m \in Messages, Take(w, m) PROVE pending' \in [Messages -> Nat]
  BY <1>2 DEF Take, kafka, Calm, IInv, TypeOK
<1> QED BY <1>1, <1>2 DEF Acts

\* A message that was not begun is so only because it has just been sent on.
LEMMA Begins ==
  ASSUME Calm, NEW w \in Workers, Acts(w), faults' = faults, NEW n \in Messages, Begun(n)'
  PROVE  Begun(n) \/ (SendToRetry(w) /\ n = NextLevel(msg[w]))
<1>1. CASE pending'[n] > pending[n]
  BY <1>1, ActFrame
<1>2. CASE record'[n].status # "NONE" /\ record[n].status = "NONE"
  <2>1. InitIdempotency(w) /\ n = msg[w]
    BY <1>2, ActFrame
  <2>2. pc[w] # "idle" /\ ~fenced[w]
    BY <2>1 DEF InitIdempotency, Calm, OnceInv, HandOf
  <2>3. pending[n] > 0
    BY <2>1, <2>2 DEF Calm, IInv, OwnerInv
  <2> QED BY <2>3 DEF Begun
<1>3. CASE /\ ~ (pending'[n] > pending[n])
           /\ ~ (record'[n].status # "NONE" /\ record[n].status = "NONE")
  <2>2. pending'[n] \in Nat
    BY PendingType
  <2>3. pending[n] \in Nat
    BY DEF Calm, IInv, TypeOK
  <2> QED BY <1>3, <2>2, <2>3 DEF Begun
<1> QED BY <1>1, <1>2, <1>3

\* The handler that acts keeps to what HandOf says.
LEMMA OwnHand ==
  ASSUME Calm, NEW w \in Workers, Acts(w), faults' = faults
  PROVE  HandOf(w)'
<1> USE LevelAssumption DEF Calm, IInv, TypeOK, Goto, job, kafka
<1>0. HandOf(w)
  BY DEF OnceInv
<1>m. /\ msg[w] \in Messages /\ LevelOf(msg[w]) \in Levels
      /\ record[msg[w]] \in Record /\ record[msg[w]].version \in Nat /\ version[w] \in Nat
  BY MessageFields DEF Record
<1>1. CASE Read(w)
  <2>1. /\ pc'[w] \in {"dlq", "commit", "idle", "init"} /\ msg' = msg /\ record' = record
        /\ fenced' = fenced /\ pending' = pending
        /\ pc'[w] = "dlq" => LevelOf(msg[w]) = MaxRetries
        /\ pc'[w] = "init" => LevelOf(msg[w]) # MaxRetries
        /\ pc[w] = "read"
    BY <1>1 DEF Read
  <2>2. LevelOf(msg[w]) = MaxRetries => Above(msg[w]) = {}
    BY MessageFields DEF Above, Levels
  <2>3. LevelOf(msg[w]) # MaxRetries => LevelOf(msg[w]) < MaxRetries
    BY <1>m DEF Levels
  <2>4. Above(msg[w])' = Above(msg[w])
    BY <2>1 DEF Above
  <2> QED BY <1>0, <2>1, <2>2, <2>3, <2>4 DEF HandOf, BeforeLast, Working
<1>2. CASE InitIdempotency(w)
  BY <1>0, <1>2, <1>m DEF InitIdempotency, Decision, HandOf, BeforeLast, Working, Rec
<1>3. CASE TakeOver(w)
  BY <1>0, <1>3, <1>m DEF TakeOver, Matches, HandOf, BeforeLast, Working, Rec
<1>4. CASE Process(w)
  BY <1>0, <1>4, <1>m DEF Process, Matches, HandOf, BeforeLast, Working
<1>5. CASE ProcessorError(w)
  BY <1>0, <1>5, <1>m DEF ProcessorError, ErrorPaths, HandOf, BeforeLast, Working
<1>6. CASE FailIdempotency(w)
  <2>1. /\ pc'[w] \in {"retry", "dlq"} /\ msg' = msg /\ pending' = pending /\ fenced' = fenced
        /\ record'[msg[w]].status = "FAILED"
        /\ record[msg[w]].status = "PROCESSING"
        /\ \A n \in Messages : n # msg[w] => record'[n] = record[n]
    BY <1>0, <1>6, <1>m DEF FailIdempotency, HandOf, Rec
  <2>2. ASSUME NEW n \in Above(msg[w]) PROVE ~Begun(n)'
    <3>1. n \in Messages /\ n # msg[w]
      BY <1>m DEF Above, Levels
    <3>2. ~Begun(n)
      BY <2>1, <2>2, <3>1 DEF OnceInv, ChainOf, HasFailed
    <3> QED BY <2>1, <3>1, <3>2 DEF Begun
  <2>3. LevelOf(msg[w]) < MaxRetries /\ ~fenced[w]
    BY <1>0, <1>6 DEF FailIdempotency, HandOf, BeforeLast, Working
  <2>4. Above(msg[w])' = Above(msg[w])
    BY <2>1 DEF Above
  <2>5. HasFailed(msg[w])'
    BY <2>1 DEF HasFailed
  <2> QED BY <2>1, <2>2, <2>3, <2>4, <2>5 DEF HandOf, BeforeLast, Working
<1>7. CASE SendToRetry(w)
  <2>1. /\ pc'[w] \in {"commit", "dlq", "idle"}
        /\ msg' = msg /\ record' = record /\ fenced' = fenced
        /\ pc'[w] = "dlq" => "broker" \in faults
        /\ pc[w] = "retry"
    BY <1>7 DEF SendToRetry
  <2> QED BY <1>0, <2>1 DEF HandOf, BeforeLast, Working, HasFailed
<1>8. CASE SendToDLQ(w)
  BY <1>0, <1>8 DEF SendToDLQ, HandOf, BeforeLast, Working
<1>9. CASE CommitProcessed(w)
  BY <1>0, <1>9 DEF CommitProcessed, CommitFails, NoZombies, HandOf, BeforeLast, Working
<1>10. CASE CommitOffset(w)
  BY <1>0, <1>10 DEF CommitOffset, HandOf, BeforeLast, Working
<1>11. CASE \E m \in Messages : Take(w, m)
  BY <1>11 DEF Take, HandOf, BeforeLast, Working
<1>12. CASE DatabaseError(w)
  BY <1>12 DEF DatabaseError, HandOf, BeforeLast, Working
<1>13. CASE Crash(w)
  BY <1>13 DEF Crash, HandOf, BeforeLast, Working
<1> QED BY <1>1, <1>2, <1>3, <1>4, <1>5, <1>6, <1>7, <1>8, <1>9, <1>10, <1>11, <1>12, <1>13
     DEF Acts, Handle

\* So do the others, whose messages are not touched.
LEMMA OtherHand ==
  ASSUME Calm, NEW w \in Workers, Acts(w), faults' = faults, NEW q \in Workers, q # w
  PROVE  HandOf(q)'
<1>1. /\ pc'[q] = pc[q] /\ msg'[q] = msg[q] /\ version'[q] = version[q] /\ fenced'[q] = fenced[q]
  BY ActFrame
<1>2. HandOf(q) /\ HandOf(w)
  BY DEF Calm, OnceInv
<1>3. msg[q] \in Messages /\ msg[w] \in Messages
  BY DEF Calm, IInv, TypeOK
<1>4. CASE pc[q] = "idle"
  BY <1>1, <1>4 DEF HandOf, BeforeLast, Working
<1>5. CASE pc[q] # "idle"
  <2>1. CASE record'[msg[q]] = record[msg[q]]
    <3>1. ASSUME pc[q] = "retry" \/ (pc[q] = "dlq" /\ "broker" \notin faults),
                 NEW n \in Above(msg[q]), Begun(n)'
          PROVE  FALSE
      <4>1. n \in Messages /\ ~Begun(n)
        BY <1>2, <3>1 DEF HandOf, Above
      <4>2. SendToRetry(w) /\ n = NextLevel(msg[w])
        BY <3>1, <4>1, Begins
      <4>3. pc[w] = "retry" /\ pc[w] # "idle"
        BY <4>2 DEF SendToRetry
      <4>4. msg[w] # msg[q] /\ pending[msg[w]] > 0 /\ pending[msg[q]] > 0
        BY <1>5, <4>3, Apart
      <4>5. LevelOf(msg[w]) < MaxRetries
        BY <1>2, <4>3 DEF HandOf, BeforeLast
      <4>6. EventOf(msg[w]) = EventOf(msg[q]) /\ LevelOf(msg[w]) + 1 > LevelOf(msg[q])
        BY <1>3, <4>2, <4>5, Upward DEF Above
      <4>7. LevelOf(msg[w]) \in Int /\ LevelOf(msg[q]) \in Int
        BY <1>3, MessageFields, LevelAssumption DEF Levels
      <4>8. LevelOf(msg[w]) # LevelOf(msg[q])
        BY <1>3, <4>4, <4>6, SameMessage
      <4>9. msg[w] \in Above(msg[q])
        BY <1>3, <4>6, <4>7, <4>8 DEF Above
      <4>10. ~Begun(msg[w])
        BY <1>2, <3>1, <4>9 DEF HandOf
      <4> QED BY <4>4, <4>10 DEF Begun
    <3>2. Above(msg[q])' = Above(msg[q])
      BY <1>1 DEF Above
    <3>3. ASSUME NEW n \in Above(msg[q])',
                 pc'[q] = "retry" \/ (pc'[q] = "dlq" /\ "broker" \notin faults')
          PROVE  ~Begun(n)'
      BY <1>1, <3>1, <3>2, <3>3
    <3>4. HasFailed(msg[q]) => HasFailed(msg[q])'
      BY <1>1, <2>1 DEF HasFailed
    <3> QED BY <1>1, <1>2, <2>1, <3>3, <3>4 DEF HandOf
  <2>2. CASE record'[msg[q]] # record[msg[q]]
    <3>1. msg[q] = msg[w] /\ record' # record
      BY <1>3, <2>2, ActFrame
    <3>2. pc[w] # "idle"
      BY <3>1 DEF Acts, Take, Handle, Read, InitIdempotency, TakeOver, Process, ProcessorError,
         FailIdempotency, SendToRetry, SendToDLQ, CommitProcessed, CommitOffset, DatabaseError, Crash
    <3> QED BY <1>5, <3>1, <3>2, Apart
  <2> QED BY <2>1, <2>2
<1> QED BY <1>4, <1>5

\* A step publishes nothing above a message that has not failed.
LEMMA ChainStep ==
  ASSUME Calm, NEW w \in Workers, Acts(w), faults' = faults, NEW n \in Messages
  PROVE  ChainOf(n)'
<1>1. ChainOf(n) /\ HandOf(w) /\ msg[w] \in Messages /\ ChainOf(msg[w])
  BY DEF Calm, OnceInv, IInv, TypeOK
<1>2. ASSUME LevelOf(n) = MaxRetries PROVE record'[n].status = "NONE"
  <2>1. record[n].status = "NONE"
    BY <1>1, <1>2 DEF ChainOf
  <2>2. ~ (InitIdempotency(w) /\ n = msg[w])
    <3>1. InitIdempotency(w) => LevelOf(msg[w]) < MaxRetries
      BY <1>1 DEF InitIdempotency, HandOf, BeforeLast
    <3>2. ~ (MaxRetries < MaxRetries)
      BY LevelAssumption
    <3> QED BY <1>2, <3>1, <3>2
  <2> QED BY <2>1, <2>2, ActFrame
<1>3. ASSUME Begun(n)', NEW k \in Messages, n \in Above(k)
      PROVE  HasFailed(k)'
  <2>1. CASE Begun(n)
    BY <1>1, <1>3, <2>1, ActFrame DEF ChainOf
  <2>2. CASE ~Begun(n)
    <3>1. SendToRetry(w) /\ n = NextLevel(msg[w])
      BY <1>3, <2>2, Begins
    <3>2. pc[w] = "retry" /\ HasFailed(msg[w]) /\ ~fenced[w] /\ LevelOf(msg[w]) < MaxRetries
      BY <1>1, <3>1 DEF SendToRetry, HandOf, BeforeLast
    <3>3. Begun(msg[w])
      BY <3>2 DEF Calm, IInv, OwnerInv, Begun
    <3>4. EventOf(k) = EventOf(msg[w]) /\ LevelOf(msg[w]) + 1 > LevelOf(k)
      BY <1>1, <1>3, <3>1, <3>2, Upward DEF Above
    <3>5. LevelOf(k) \in Int /\ LevelOf(msg[w]) \in Int
      BY <1>1, MessageFields, LevelAssumption DEF Levels
    <3>6. CASE k = msg[w]
      BY <3>2, <3>6, ActFrame
    <3>7. CASE k # msg[w]
      <4>1. LevelOf(k) # LevelOf(msg[w])
        BY <1>1, <3>4, <3>7, SameMessage
      <4>2. msg[w] \in Above(k)
        BY <1>1, <3>4, <3>5, <4>1 DEF Above
      <4>3. HasFailed(k)
        BY <1>1, <3>3, <4>2 DEF ChainOf
      <4> QED BY <4>3, ActFrame
    <3> QED BY <3>6, <3>7
  <2> QED BY <2>1, <2>2
<1>4. \A k \in Messages : Above(k)' = Above(k)
  BY DEF Above
<1> QED BY <1>2, <1>3, <1>4 DEF ChainOf

\* An event that is dead stays so.
LEMMA DeadStays ==
  ASSUME Calm, NEW w \in Workers, Acts(w), faults' = faults, NEW e \in Events, DeadOf(e)
  PROVE  DeadOf(e)'
<1>1. HandOf(w) /\ msg[w] \in Messages
  BY DEF Calm, OnceInv, IInv, TypeOK
<1>2. ASSUME NEW n \in Messages, EventOf(n) = e PROVE Over(n)'
  <2>1. Over(n)
    BY <1>2 DEF DeadOf
  <2>2. CASE HasFailed(n)
    BY <2>2, ActFrame DEF Over
  <2>3. CASE ~HasFailed(n)
    <3>1. record[n].status = "NONE" /\ (pending[n] = 0 \/ LevelOf(n) = MaxRetries)
      BY <2>1, <2>3 DEF Over
    <3>2. ~ (InitIdempotency(w) /\ n = msg[w])
      <4>1. SUFFICES ASSUME InitIdempotency(w), n = msg[w] PROVE FALSE
        OBVIOUS
      <4>2. pc[w] = "init" /\ LevelOf(n) < MaxRetries /\ ~fenced[w]
        BY <1>1, <4>1 DEF InitIdempotency, HandOf, BeforeLast
      <4>3. pending[n] > 0
        BY <4>1, <4>2 DEF Calm, IInv, OwnerInv
      <4> QED BY <3>1, <4>2, <4>3, LevelAssumption
    <3>3. record'[n].status = "NONE"
      BY <3>1, <3>2, ActFrame
    <3>4. ASSUME pending[n] = 0 PROVE pending'[n] = 0
      <4>1. ~ (SendToRetry(w) /\ n = NextLevel(msg[w]))
        <5>1. SUFFICES ASSUME SendToRetry(w), n = NextLevel(msg[w]) PROVE FALSE
          OBVIOUS
        <5>2. pc[w] = "retry" /\ LevelOf(msg[w]) < MaxRetries
          BY <1>1, <5>1 DEF SendToRetry, HandOf, BeforeLast
        <5>3. EventOf(msg[w]) = e
          BY <1>1, <1>2, <5>1, <5>2, Upward
        <5> QED BY <5>2, <5>3 DEF DeadOf
      <4>2. ~ (pending'[n] > pending[n])
        BY <4>1, ActFrame
      <4>3. pending'[n] \in Nat
        BY PendingType
      <4> QED BY <3>4, <4>2, <4>3
    <3> QED BY <3>1, <3>3, <3>4 DEF Over
  <2> QED BY <2>2, <2>3
<1>3. ASSUME NEW q \in Workers, pc'[q] = "retry" PROVE EventOf(msg'[q]) # e
  <2>1. CASE q # w
    <3>1. pc[q] = "retry" /\ msg'[q] = msg[q]
      BY <1>3, <2>1, ActFrame
    <3> QED BY <3>1 DEF DeadOf
  <2>2. CASE q = w
    <3>1. FailIdempotency(w)
      BY <1>3, <2>2 DEF Acts, Handle, Read, InitIdempotency, TakeOver, Process, ProcessorError,
         Decision, SendToRetry, SendToDLQ, CommitProcessed, CommitOffset, Take, DatabaseError,
         Goto, UnknownError, ErrorPaths, Crash, Calm, IInv, TypeOK
    <3>2. record[msg[w]].status = "PROCESSING" /\ msg' = msg
      BY <1>1, <3>1 DEF FailIdempotency, HandOf, job
    <3>3. ~Over(msg[w])
      BY <3>2 DEF Over, HasFailed
    <3> QED BY <1>1, <2>2, <3>2, <3>3 DEF DeadOf
  <2> QED BY <2>1, <2>2
<1> QED BY <1>2, <1>3 DEF DeadOf

\* An event is dead once it has been published as such.
LEMMA DeadSent ==
  ASSUME Calm, "broker" \notin faults, NEW w \in Workers, SendToDLQ(w), faults' = faults
  PROVE  DeadOf(EventOf(msg[w]))
<1> DEFINE m == msg[w]
           e == EventOf(m)
<1>1. HandOf(w) /\ m \in Messages /\ pc[w] = "dlq" /\ ChainOf(m)
  BY DEF Calm, OnceInv, IInv, TypeOK, SendToDLQ
<1>2. Begun(m) /\ pending[m] > 0
  BY <1>1 DEF HandOf, Calm, IInv, OwnerInv, Begun
<1>3. \A n \in Above(m) : ~Begun(n)
  BY <1>1 DEF HandOf
<1>4. ASSUME NEW n \in Messages, EventOf(n) = e PROVE n = m \/ n \in Above(m) \/ m \in Above(n)
  <2>1. LevelOf(n) \in Int /\ LevelOf(m) \in Int
    BY <1>1, MessageFields, LevelAssumption DEF Levels
  <2>2. LevelOf(n) = LevelOf(m) => n = m
    BY <1>1, <1>4, SameMessage
  <2> QED BY <1>1, <1>4, <2>1, <2>2 DEF Above
<1>5. ASSUME NEW n \in Messages, EventOf(n) = e PROVE Over(n)
  <2>1. CASE n = m
    BY <1>1, <2>1 DEF HandOf, ChainOf, Over
  <2>2. CASE n \in Above(m)
    <3>1. ~Begun(n) /\ pending[n] \in Nat
      BY <1>3, <2>2 DEF Calm, IInv, TypeOK
    <3> QED BY <3>1 DEF Begun, Over
  <2>3. CASE m \in Above(n)
    BY <1>1, <1>2, <2>3 DEF ChainOf, Over
  <2> QED BY <1>4, <1>5, <2>1, <2>2, <2>3
<1>6. ASSUME NEW q \in Workers, pc[q] = "retry", EventOf(msg[q]) = e PROVE FALSE
  <2>1. q # w /\ pc[q] # "idle" /\ pc[w] # "idle"
    BY <1>1, <1>6
  <2>2. msg[q] # m /\ pending[msg[q]] > 0 /\ msg[q] \in Messages
    BY <2>1, Apart DEF Calm, IInv, TypeOK
  <2>3. msg[q] \in Above(m) \/ m \in Above(msg[q])
    BY <1>4, <1>6, <2>2
  <2>4. HandOf(q)
    BY DEF Calm, OnceInv
  <2>5. ~ (m \in Above(msg[q]))
    BY <1>2, <1>6, <2>4 DEF HandOf
  <2> QED BY <1>3, <2>2, <2>3, <2>5 DEF Begun
<1> QED BY <1>5, <1>6 DEF DeadOf

\* Every step keeps the invariant.
LEMMA OnceStep ==
  ASSUME IInv, OnceInv, [Next]_vars
  PROVE  OnceInv'
<1> SUFFICES ASSUME NoZombies'
             PROVE  /\ \A w \in Workers : HandOf(w)'
                    /\ \A m \in Messages : ChainOf(m)'
                    /\ "broker" \notin faults' => \A e \in dlq' : DeadOf(e)'
  BY DEF OnceInv
<1>1. faults' = faults
  BY DEF Next, Work, Fail, BecomeStale, AtRest, vars
<1>2. Calm
  BY <1>1 DEF Calm, NoZombies
<1>3. CASE \E w \in Workers : Acts(w)
  <2>1. PICK w \in Workers : Acts(w)
    BY <1>3
  <2>2. \A q \in Workers : HandOf(q)'
    BY <1>1, <1>2, <2>1, OwnHand, OtherHand
  <2>3. \A m \in Messages : ChainOf(m)'
    BY <1>1, <1>2, <2>1, ChainStep
  <2>4. ASSUME "broker" \notin faults', NEW e \in dlq' PROVE DeadOf(e)'
    <3>1. "broker" \notin faults
      BY <1>1, <2>4
    <3>2. CASE e \in dlq
      <4>1. DeadOf(e) /\ e \in Events
        BY <1>2, <3>1, <3>2 DEF Calm, OnceInv, IInv, TypeOK
      <4> QED BY <1>1, <1>2, <2>1, <4>1, DeadStays
    <3>3. CASE e \notin dlq
      <4>1. SendToDLQ(w) /\ e = EventOf(msg[w])
        BY <2>1, <2>4, <3>3 DEF Acts, Handle, Read, InitIdempotency, TakeOver, Process,
             ProcessorError, FailIdempotency, SendToRetry, SendToDLQ, CommitProcessed,
             CommitOffset, Take, DatabaseError, Crash, kafka
      <4>2. DeadOf(e) /\ e \in Events
        BY <1>1, <1>2, <3>1, <4>1, DeadSent, MessageFields DEF Calm, IInv, TypeOK
      <4> QED BY <1>1, <1>2, <2>1, <4>2, DeadStays
    <3> QED BY <3>2, <3>3
  <2> QED BY <2>2, <2>3, <2>4
<1>4. CASE UNCHANGED <<pending, dlq, pc, msg, version, fenced>>
            /\ \A n \in Messages : /\ record'[n].status = record[n].status
                                   /\ record'[n].version = record[n].version
  <2>1. \A n \in Messages : /\ Begun(n)' <=> Begun(n)
                            /\ HasFailed(n)' <=> HasFailed(n)
                            /\ Over(n)' <=> Over(n)
    BY <1>4 DEF Begun, HasFailed, Over
  <2>2. \A n : Above(n)' = Above(n)
    BY DEF Above
  <2>3. msg \in [Workers -> Messages]
    BY DEF IInv, TypeOK
  <2>4. \A w \in Workers : HandOf(w)'
    <3>1. \A w \in Workers : HandOf(w)
      BY <1>2 DEF Calm, OnceInv
    <3>2. \A w \in Workers : \A n \in Above(msg[w]) : n \in Messages
      BY DEF Above
    <3> QED BY <1>1, <1>4, <2>1, <2>2, <2>3, <3>1, <3>2 DEF HandOf
  <2>5. \A m \in Messages : ChainOf(m)'
    BY <1>2, <1>4, <2>1, <2>2 DEF ChainOf, Calm, OnceInv
  <2>6. \A e \in Events : DeadOf(e) => DeadOf(e)'
    BY <1>4, <2>1 DEF DeadOf
  <2> QED BY <1>1, <1>2, <1>4, <2>4, <2>5, <2>6 DEF Calm, OnceInv, IInv, TypeOK
<1>5. ASSUME NEW m \in Messages, BecomeStale(m)
      PROVE  UNCHANGED <<pending, dlq, pc, msg, version, fenced>>
             /\ \A n \in Messages : /\ record'[n].status = record[n].status
                                    /\ record'[n].version = record[n].version
  BY <1>5 DEF BecomeStale, kafka, job, IInv, TypeOK, Record
<1>6. UNCHANGED vars =>
        UNCHANGED <<pending, dlq, pc, msg, version, fenced>>
             /\ \A n \in Messages : /\ record'[n].status = record[n].status
                                    /\ record'[n].version = record[n].version
  BY DEF vars
<1>7. ASSUME NEW w \in Workers, Work(w) \/ Fail(w) PROVE Acts(w)
  BY <1>1, <1>2, <1>7 DEF Work, Fail, Acts, Rebalance, Calm, NoZombies
<1> QED BY <1>3, <1>4, <1>5, <1>6, <1>7 DEF Next, AtRest

\* Where an event is handed on from topic to topic, its effects are applied
\* once on all of them together, and not at all once it is dead, as long as no
\* partition moves while its handler runs (the consumers and BaseRetryConsumer,
\* which mark a message FAILED before they publish the next): OnceInv follows
\* the event up the topics.
THEOREM Once == Spec => []AppliedOnce
<1>1. Init => OnceInv
  <2> SUFFICES ASSUME Init
               PROVE  /\ \A w \in Workers : HandOf(w)
                      /\ \A m \in Messages : ChainOf(m)
                      /\ \A e \in dlq : DeadOf(e)
    BY DEF OnceInv
  <2>1. \A w \in Workers : pc[w] = "idle"
    BY DEF Init
  <2>2. \A m \in Messages : record[m].status = "NONE" /\ (Begun(m) => LevelOf(m) = 0)
    BY DEF Init, Rec, Begun
  <2>3. \A n, k \in Messages : n \in Above(k) => LevelOf(n) # 0
    BY MessageFields, LevelAssumption DEF Above, Levels
  <2> QED BY <2>1, <2>2, <2>3 DEF Init, HandOf, ChainOf, BeforeLast, Working
<1>2. IInv /\ OnceInv => AppliedOnce
  <2> SUFFICES ASSUME IInv, OnceInv, NoZombies
               PROVE  /\ \A m, n \in Messages :
                           EventOf(m) = EventOf(n) /\ effects[m] > 0 /\ effects[n] > 0
                           => m = n /\ effects[m] = 1
                      /\ "broker" \notin faults => \A e \in dlq : ~Processed(e)
    BY DEF AppliedOnce, EffectOncePerEvent, DeadLettersUnprocessed
  <2>1. \A m \in Messages : effects[m] > 0 => effects[m] = 1 /\ record[m].status = "COMPLETED"
    BY DEF IInv, CompletedOnce
  <2>2. ASSUME NEW m \in Messages, NEW n \in Messages, EventOf(m) = EventOf(n),
               effects[m] > 0, effects[n] > 0
        PROVE  m = n
    <3>1. LevelOf(m) \in Int /\ LevelOf(n) \in Int
      BY MessageFields, LevelAssumption DEF Levels
    <3>2. Begun(m) /\ Begun(n) /\ ~HasFailed(m) /\ ~HasFailed(n)
      BY <2>1, <2>2 DEF Begun, HasFailed
    <3>3. ~ (m \in Above(n)) /\ ~ (n \in Above(m))
      BY <3>2 DEF OnceInv, ChainOf
    <3>4. LevelOf(m) = LevelOf(n)
      BY <2>2, <3>1, <3>3 DEF Above
    <3> QED BY <2>2, <3>4, SameMessage
  <2>3. ASSUME "broker" \notin faults, NEW e \in dlq, Processed(e) PROVE FALSE
    <3>1. PICK m \in Messages : EventOf(m) = e /\ effects[m] > 0
      BY <2>3 DEF Processed
    <3>2. Over(m)
      BY <2>3, <3>1 DEF OnceInv, DeadOf
    <3> QED BY <2>1, <3>1, <3>2 DEF Over, HasFailed
  <2> QED BY <2>1, <2>2, <2>3
<1>3. Spec => []IInv
  BY Inductive
<1>4. Spec => []OnceInv
  BY <1>1, <1>3, OnceStep, PTL DEF Spec
<1> QED BY <1>2, <1>3, <1>4, PTL

-----------------------------------------------------------------------------
(* Delivery.  No event is lost as long as processes live and calls succeed. *)
(* The argument follows a message through the retry topics: whatever level  *)
(* it has been begun at, something at that level or further on answers for  *)
(* its event.                                                               *)


\* The next retry topic exists for a message that is not on the last one.
LEMMA NextLevelFields ==
  ASSUME NEW m \in Messages, LevelOf(m) < MaxRetries
  PROVE  /\ NextLevel(m) \in Messages
         /\ EventOf(NextLevel(m)) = EventOf(m)
         /\ LevelOf(NextLevel(m)) = LevelOf(m) + 1
  BY LevelAssumption DEF Messages, Levels, EventOf, LevelOf, NextLevel

\* The next state keeps what this one has of the events: an event that was
\* settled stays so, a message that waits still waits or is being answered
\* for, and a worker of S that answers for a message goes on answering.
Carries(S) ==
  /\ \A e \in Events : Settled(e) => Settled(e)'
  /\ \A m \in Messages :
       EventOf(m) \notin Garbled /\ Waiting(m) =>
         \/ Waiting(m)'
         \/ Settled(EventOf(m))'
         \/ \E w \in Workers : pc'[w] \in Answering /\ msg'[w] = m
  /\ \A w \in S :
       pc[w] \in Answering =>
         /\ msg'[w] = msg[w]
         /\ pc'[w] \in Answering \/ Settled(EventOf(msg[w]))'

\* Then an event kept from some level on, not just by workers outside S,
\* still is.
LEMMA Carry ==
  ASSUME TypeOK, TypeOK', NEW S \in SUBSET Workers, Carries(S),
         NEW e \in Events \ Garbled, NEW l \in Nat, KeptFrom(e, l),
         \A w \in Workers \ S : ~ (/\ pc[w] \in Answering
                                   /\ EventOf(msg[w]) = e /\ LevelOf(msg[w]) >= l)
  PROVE  KeptFrom(e, l)'
<1>1. CASE Settled(e)
  BY <1>1 DEF Carries, KeptFrom
<1>2. ASSUME NEW m \in Messages, EventOf(m) = e, LevelOf(m) >= l, Waiting(m)
      PROVE  KeptFrom(e, l)'
  BY <1>2 DEF Carries, KeptFrom
<1>3. ASSUME NEW w \in Workers, pc[w] \in Answering, EventOf(msg[w]) = e,
             LevelOf(msg[w]) >= l
      PROVE  KeptFrom(e, l)'
  BY <1>3 DEF Carries, KeptFrom
<1>4. \/ Settled(e)
      \/ \E m \in Messages : EventOf(m) = e /\ LevelOf(m) >= l /\ Waiting(m)
      \/ \E w \in Workers : /\ pc[w] \in Answering
                            /\ EventOf(msg[w]) = e /\ LevelOf(msg[w]) >= l
  BY DEF KeptFrom
<1> QED BY <1>1, <1>2, <1>3, <1>4

\* Effects are never undone and dead letters never withdrawn.
LEMMA SettledStays ==
  ASSUME TypeOK, TypeOK', NEW e \in Events, Settled(e), dlq \subseteq dlq',
         \A m \in Messages : effects'[m] >= effects[m]
  PROVE  Settled(e)'
  BY DEF Settled, Processed, TypeOK

\* A step that begins no record and takes no message off keeps the invariant.
LEMMA KeptStays ==
  ASSUME TypeOK, TypeOK', KeptInv, Carries(Workers),
         \A m \in Messages : /\ record'[m].status # "NONE" => record[m].status # "NONE"
                             /\ record'[m].status = "NONE" => record[m].status = "NONE"
                             /\ record[m].status = "NONE" /\ Waiting(m) /\ EventOf(m) \notin Garbled
                                  => Waiting(m)' \/ Settled(EventOf(m))'
  PROVE  KeptInv'
<1>1. ASSUME NEW m \in Messages, EventOf(m) \notin Garbled,
             record'[m].status # "NONE"
      PROVE  KeptFrom(EventOf(m), LevelOf(m))'
  <2>1. EventOf(m) \in Events /\ LevelOf(m) \in Nat
    BY MessageFields, LevelAssumption DEF Levels
  <2>2. KeptFrom(EventOf(m), LevelOf(m))
    BY <1>1 DEF KeptInv
  <2>3. KeptFrom(EventOf(m), LevelOf(m))'
    BY <1>1, <2>1, <2>2, Carry
  <2> QED BY <2>3
<1>2. ASSUME NEW e \in Events \ Garbled, record'[<<e, 0>>].status = "NONE"
      PROVE  Waiting(<<e, 0>>)' \/ Settled(e)'
  <2>1. <<e, 0>> \in Messages /\ EventOf(<<e, 0>>) = e
    BY LevelAssumption DEF Messages, Levels, EventOf
  <2>2. Waiting(<<e, 0>>) \/ Settled(e)
    BY <1>2, <2>1 DEF KeptInv
  <2> QED BY <1>2, <2>1, <2>2 DEF Carries
<1> QED BY <1>1, <1>2 DEF KeptInv

\* The steps that neither begin a record nor publish to a retry topic.
LEMMA PlainStep ==
  ASSUME Reliable, IInv, IInv', DeliveryInv, NEW w \in Workers,
         \/ Read(w) \/ TakeOver(w) \/ Process(w) \/ ProcessorError(w)
         \/ FailIdempotency(w) \/ SendToDLQ(w) \/ CommitProcessed(w)
         \/ CommitOffset(w) \/ Rebalance(w)
  PROVE  DeliveryInv'
<1>t. TypeOK /\ TypeOK' /\ msg[w] \in Messages /\ msg' = msg
  BY DEF IInv, TypeOK, Read, TakeOver, Process, ProcessorError, FailIdempotency,
         SendToDLQ, CommitProcessed, CommitOffset, Rebalance, job
<1>l. LevelOf(msg[w]) \in Levels /\ EventOf(msg[w]) \in Events
  BY <1>t, MessageFields
<1>1. CASE Read(w)
  <2> USE <1>t, <1>l, <1>1 DEF TypeOK, Goto, kafka, job, Read
  <2>0. \/ pc' = [pc EXCEPT ![w] = "dlq"]
        \/ pc' = [pc EXCEPT ![w] = "idle"]
        \/ pc' = [pc EXCEPT ![w] = "init"] /\ LevelOf(msg[w]) # MaxRetries
        \/ pc' = [pc EXCEPT ![w] = "commit"] /\ EventOf(msg[w]) \in Garbled
    OBVIOUS
  <2>a. LevelOf(msg[w]) # MaxRetries => LevelOf(msg[w]) < MaxRetries
    BY LevelAssumption DEF Levels
  <2>1. PlaceInv'
    BY <2>0, <2>a, LevelAssumption DEF DeliveryInv, PlaceInv, BeforeLast, Working, Levels, Reliable, Record, IInv
  <2>2. \A e \in Events : Settled(e) => Settled(e)'
    BY SettledStays
  <2>3. Carries(Workers)
    BY <2>2 DEF Carries, Waiting, Answering, DeliveryInv, PlaceInv, Working, Record, Settled, Processed, Reliable
  <2>4. KeptInv'
    BY <2>3, KeptStays DEF DeliveryInv, Waiting, Record, PlaceInv, Settled
  <2> QED BY <2>1, <2>4 DEF DeliveryInv
<1>2. CASE TakeOver(w)
  <2> USE <1>t, <1>l, <1>2 DEF TypeOK, Goto, kafka, job, TakeOver, Matches, Rec
  <2>1. PlaceInv'
    BY LevelAssumption DEF DeliveryInv, PlaceInv, BeforeLast, Working, Levels, Reliable, Record, IInv
  <2>2. \A e \in Events : Settled(e) => Settled(e)'
    BY SettledStays
  <2>3. Carries(Workers)
    BY <2>2 DEF Carries, Waiting, Answering, DeliveryInv, PlaceInv, Working, Record, Settled, Processed, Reliable
  <2>4. KeptInv'
    BY <2>3, KeptStays DEF DeliveryInv, Waiting, Record, PlaceInv, Settled
  <2> QED BY <2>1, <2>4 DEF DeliveryInv
<1>3. CASE Process(w)
  <2> USE <1>t, <1>l, <1>3 DEF TypeOK, Goto, kafka, job, Process, Matches, UnknownError, Rec
  <2>1. PlaceInv'
    BY LevelAssumption DEF DeliveryInv, PlaceInv, BeforeLast, Working, Levels, Reliable, Record, IInv
  <2>2. \A e \in Events : Settled(e) => Settled(e)'
    BY SettledStays
  <2>3. Carries(Workers)
    BY <2>2 DEF Carries, Waiting, Answering, DeliveryInv, PlaceInv, Working, Record, Settled, Processed, Reliable
  <2>4. KeptInv'
    BY <2>3, KeptStays DEF DeliveryInv, Waiting, Record, PlaceInv, Settled
  <2> QED BY <2>1, <2>4 DEF DeliveryInv
<1>4. CASE ProcessorError(w)
  <2> USE <1>t, <1>l, <1>4 DEF TypeOK, Goto, kafka, job, ProcessorError, ErrorPaths
  <2>1. PlaceInv'
    BY LevelAssumption DEF DeliveryInv, PlaceInv, BeforeLast, Working, Levels, Reliable, Record, IInv
  <2>2. \A e \in Events : Settled(e) => Settled(e)'
    BY SettledStays
  <2>3. Carries(Workers)
    BY <2>2 DEF Carries, Waiting, Answering, DeliveryInv, PlaceInv, Working, Record, Settled, Processed, Reliable
  <2>4. KeptInv'
    BY <2>3, KeptStays DEF DeliveryInv, Waiting, Record, PlaceInv, Settled
  <2> QED BY <2>1, <2>4 DEF DeliveryInv
<1>5. CASE FailIdempotency(w)
  <2> USE <1>t, <1>l, <1>5 DEF TypeOK, Goto, kafka, job, FailIdempotency, Rec
  <2>0. record[msg[w]].status # "NONE"
    BY DEF DeliveryInv, PlaceInv, Working
  <2>1. PlaceInv'
    BY LevelAssumption DEF DeliveryInv, PlaceInv, BeforeLast, Working, Levels, Reliable, Record, IInv
  <2>2. \A e \in Events : Settled(e) => Settled(e)'
    BY SettledStays
  <2>3. Carries(Workers)
    BY <2>2 DEF Carries, Waiting, Answering, DeliveryInv, PlaceInv, Working, Record, Settled, Processed, Reliable
  <2>4. KeptInv'
    BY <2>0, <2>3, KeptStays DEF DeliveryInv, Waiting, Record, PlaceInv, Settled
  <2> QED BY <2>1, <2>4 DEF DeliveryInv
<1>6. CASE SendToDLQ(w)
  <2> USE <1>t, <1>l, <1>6 DEF TypeOK, Goto, kafka, job, SendToDLQ
  <2>1. PlaceInv'
    BY LevelAssumption DEF DeliveryInv, PlaceInv, BeforeLast, Working, Levels, Reliable, Record, IInv
  <2>2. \A e \in Events : Settled(e) => Settled(e)'
    BY SettledStays
  <2>3. Carries(Workers)
    BY <2>2 DEF Carries, Waiting, Answering, DeliveryInv, PlaceInv, Working, Record, Settled, Processed, Reliable
  <2>4. KeptInv'
    BY <2>3, KeptStays DEF DeliveryInv, Waiting, Record, PlaceInv, Settled
  <2> QED BY <2>1, <2>4 DEF DeliveryInv
<1>7. CASE CommitProcessed(w)
  <2> USE <1>t, <1>l, <1>7 DEF TypeOK, Goto, kafka, job, CommitProcessed, MayCommit, CommitFails, UnknownError
  <2>0. record[msg[w]].status # "NONE"
    BY DEF DeliveryInv, PlaceInv, Working
  <2>1. PlaceInv'
    BY LevelAssumption DEF DeliveryInv, PlaceInv, BeforeLast, Working, Levels, Reliable, Record, IInv
  <2>2. \A e \in Events : Settled(e) => Settled(e)'
    BY SettledStays
  <2>3. Carries(Workers)
    BY <2>2 DEF Carries, Waiting, Answering, DeliveryInv, PlaceInv, Working, Record, Settled, Processed, Reliable
  <2>4. KeptInv'
    BY <2>0, <2>3, KeptStays DEF DeliveryInv, Waiting, Record, PlaceInv, Settled
  <2> QED BY <2>1, <2>4 DEF DeliveryInv
<1>8. CASE CommitOffset(w)
  <2> USE <1>t, <1>l, <1>8 DEF TypeOK, Goto, kafka, job, CommitOffset, MayCommit, CommitFails
  <2>0. \/ ~Waiting(msg[w])
        \/ EventOf(msg[w]) \in Garbled
        \/ Settled(EventOf(msg[w]))
    BY LevelAssumption DEF DeliveryInv, PlaceInv, Waiting, Settled, Levels
  <2>a. \A m \in Messages : m # msg[w] /\ Waiting(m) => Waiting(m)'
    BY DEF Waiting
  <2>b. \A q \in Workers : pc[q] \in Answering => pc'[q] = pc[q]
    BY DEF Answering
  <2>1. PlaceInv'
    BY LevelAssumption DEF DeliveryInv, PlaceInv, BeforeLast, Working, Levels, Reliable, Record, IInv
  <2>2. \A e \in Events : Settled(e) => Settled(e)'
    BY SettledStays
  <2>3. Carries(Workers)
    BY <2>0, <2>a, <2>b, <2>2 DEF Carries, Waiting, Answering, DeliveryInv, PlaceInv, Working, Record, Settled, Processed, Reliable
  <2>4. KeptInv'
    BY <2>0, <2>a, <2>2, <2>3, KeptStays DEF DeliveryInv, Waiting, Record, PlaceInv, Settled
  <2> QED BY <2>1, <2>4 DEF DeliveryInv
<1>9. CASE Rebalance(w)
  <2> USE <1>t, <1>l, <1>9 DEF TypeOK, Goto, kafka, job, Rebalance
  <2>1. PlaceInv'
    BY LevelAssumption DEF DeliveryInv, PlaceInv, BeforeLast, Working, Levels, Reliable, Record, IInv
  <2>2. \A e \in Events : Settled(e) => Settled(e)'
    BY SettledStays
  <2>3. Carries(Workers)
    BY <2>2 DEF Carries, Waiting, Answering, DeliveryInv, PlaceInv, Working, Record, Settled, Processed, Reliable
  <2>4. KeptInv'
    BY <2>3, KeptStays DEF DeliveryInv, Waiting, Record, PlaceInv, Settled
  <2> QED BY <2>1, <2>4 DEF DeliveryInv
<1> QED BY <1>1, <1>2, <1>3, <1>4, <1>5, <1>6, <1>7, <1>8, <1>9

\* Beginning a record: the worker answers for the message from then on.
LEMMA BeginStep ==
  ASSUME IInv, IInv', DeliveryInv, NEW w \in Workers, InitIdempotency(w)
  PROVE  DeliveryInv'
<1> USE DEF TypeOK, Goto, kafka, job, InitIdempotency, Decision, Rec
<1>t. TypeOK /\ TypeOK' /\ msg[w] \in Messages /\ msg' = msg
  BY DEF IInv
<1>1. PlaceInv'
  BY <1>t DEF DeliveryInv, PlaceInv, BeforeLast, Working
<1>2. \A e \in Events : Settled(e) => Settled(e)'
  BY <1>t, SettledStays
<1>3. Carries(Workers)
  <2>1. \A m \in Messages : m # msg[w] /\ Waiting(m) => Waiting(m)'
    BY <1>t DEF Waiting
  <2>2. \/ pc'[w] \in Answering
        \/ record' = record
    BY <1>t DEF Answering
  <2>3. Waiting(msg[w]) => Waiting(msg[w])' \/ pc'[w] \in Answering
    BY <1>t, <2>2 DEF Waiting
  <2>4. \A q \in Workers : pc[q] \in Answering => pc'[q] = pc[q]
    BY <1>t DEF Answering
  <2> QED BY <1>t, <1>2, <2>1, <2>3, <2>4 DEF Carries
<1>4. CASE record[msg[w]].status # "NONE"
  <2>1. record' = record /\ pending' = pending
    BY <1>4
  <2>2. \A m \in Messages : Waiting(m) => Waiting(m)'
    BY <2>1 DEF Waiting
  <2>3. KeptInv'
    BY <1>t, <1>3, <2>1, <2>2, KeptStays DEF DeliveryInv
  <2> QED BY <1>1, <2>3 DEF DeliveryInv
<1>5. CASE record[msg[w]].status = "NONE"
  <2>1. pc'[w] \in Answering
    BY <1>t, <1>5 DEF Answering
  <2>2. ASSUME NEW m \in Messages, EventOf(m) \notin Garbled,
               record'[m].status # "NONE"
        PROVE  KeptFrom(EventOf(m), LevelOf(m))'
    <3>1. EventOf(m) \in Events /\ LevelOf(m) \in Nat
      BY MessageFields, LevelAssumption DEF Levels
    <3>2. CASE m = msg[w]
      BY <1>t, <2>1, <3>1, <3>2 DEF KeptFrom
    <3>3. CASE m # msg[w]
      <4>1. record[m].status # "NONE"
        BY <1>t, <2>2, <3>3
      <4>2. KeptFrom(EventOf(m), LevelOf(m))
        BY <2>2, <4>1 DEF DeliveryInv, KeptInv
      <4> QED BY <1>t, <1>3, <2>2, <3>1, <4>2, Carry
    <3> QED BY <3>2, <3>3
  <2>3. ASSUME NEW e \in Events \ Garbled, record'[<<e, 0>>].status = "NONE"
        PROVE  Waiting(<<e, 0>>)' \/ Settled(e)'
    <3>1. <<e, 0>> \in Messages
      BY LevelAssumption DEF Messages, Levels
    <3>2. <<e, 0>> # msg[w]
      BY <1>t, <1>5, <2>3
    <3>3. record[<<e, 0>>].status = "NONE"
      BY <1>t, <2>3, <3>1, <3>2
    <3>4. Waiting(<<e, 0>>) \/ Settled(e)
      BY <3>3 DEF DeliveryInv, KeptInv
    <3>5. Waiting(<<e, 0>>) => Waiting(<<e, 0>>)'
      BY <1>t, <3>1, <3>2 DEF Waiting
    <3> QED BY <1>2, <3>4, <3>5
  <2> QED BY <1>1, <2>2, <2>3 DEF DeliveryInv, KeptInv
<1> QED BY <1>4, <1>5

\* Forwarding a message: it waits on the next topic, or has already been
\* carried further than that.
LEMMA ForwardStep ==
  ASSUME Reliable, IInv, IInv', DeliveryInv, NEW w \in Workers, SendToRetry(w)
  PROVE  DeliveryInv'
<1>t. TypeOK /\ TypeOK' /\ msg[w] \in Messages
  BY DEF IInv, TypeOK
<1>a. pc[w] = "retry"
  BY DEF SendToRetry
<1>l. LevelOf(msg[w]) < MaxRetries /\ record[msg[w]].status # "NONE"
  BY <1>a DEF DeliveryInv, PlaceInv, BeforeLast
<1>n. PICK n \in Messages : /\ n = NextLevel(msg[w])
                            /\ EventOf(n) = EventOf(msg[w])
                            /\ LevelOf(n) = LevelOf(msg[w]) + 1
  BY <1>t, <1>l, NextLevelFields
<1>s. /\ pending' = [pending EXCEPT ![n] = @ + 1]
      /\ pc' = [pc EXCEPT ![w] = "commit"]
      /\ UNCHANGED <<dlq, record, effects, msg>>
  BY <1>n DEF SendToRetry, Reliable, Goto, job
<1>1. PlaceInv'
  BY <1>t, <1>s, <1>l DEF TypeOK, DeliveryInv, PlaceInv, BeforeLast, Working
<1>2. \A e \in Events : Settled(e) => Settled(e)'
  BY <1>t, <1>s, SettledStays DEF TypeOK
<1>3. \A m \in Messages : Waiting(m) => Waiting(m)'
  BY <1>t, <1>s, <1>n DEF TypeOK, Waiting
<1>4. Carries(Workers \ {w})
  BY <1>t, <1>s, <1>2, <1>3 DEF TypeOK, Carries, Answering
<1>5. pending'[n] > 0
  BY <1>t, <1>s, <1>n DEF TypeOK
<1>6. ASSUME NEW m \in Messages, EventOf(m) \notin Garbled,
             record'[m].status # "NONE"
      PROVE  KeptFrom(EventOf(m), LevelOf(m))'
  <2>1. EventOf(m) \in Events \ Garbled /\ LevelOf(m) \in Nat
    BY <1>6, MessageFields, LevelAssumption DEF Levels
  <2>2. KeptFrom(EventOf(m), LevelOf(m))
    BY <1>6, <1>s DEF DeliveryInv, KeptInv
  <2>3. CASE ~(EventOf(msg[w]) = EventOf(m) /\ LevelOf(msg[w]) >= LevelOf(m))
    BY <1>t, <1>4, <2>1, <2>2, <2>3, Carry
  <2>4. CASE EventOf(msg[w]) = EventOf(m) /\ LevelOf(msg[w]) >= LevelOf(m)
    <3>1. LevelOf(msg[w]) \in Nat /\ LevelOf(n) \in Nat
      BY <1>t, <1>n, MessageFields, LevelAssumption DEF Levels
    <3>2. LevelOf(n) >= LevelOf(m) /\ ~(LevelOf(msg[w]) >= LevelOf(n))
      BY <1>n, <2>1, <2>4, <3>1
    <3>3. CASE record[n].status = "NONE"
      <4>1. Waiting(n)'
        BY <1>s, <1>5, <3>3 DEF Waiting
      <4> QED BY <1>n, <2>4, <3>2, <4>1 DEF KeptFrom
    <3>4. CASE record[n].status # "NONE"
      <4>1. KeptFrom(EventOf(m), LevelOf(n))
        BY <1>6, <1>n, <2>4, <3>4 DEF DeliveryInv, KeptInv
      <4>2. KeptFrom(EventOf(m), LevelOf(n))'
        BY <1>t, <1>4, <2>1, <3>1, <3>2, <4>1, Carry
      <4> QED BY <4>2, <3>1, <3>2, <2>1, <1>t, MessageFields, LevelAssumption
              DEF KeptFrom, Levels, TypeOK
    <3> QED BY <3>3, <3>4
  <2> QED BY <2>3, <2>4
<1>7. ASSUME NEW e \in Events \ Garbled, record'[<<e, 0>>].status = "NONE"
      PROVE  Waiting(<<e, 0>>)' \/ Settled(e)'
  <2>1. <<e, 0>> \in Messages
    BY LevelAssumption DEF Messages, Levels
  <2>2. Waiting(<<e, 0>>) \/ Settled(e)
    BY <1>7, <1>s DEF DeliveryInv, KeptInv
  <2> QED BY <1>2, <1>3, <2>1, <2>2
<1> QED BY <1>1, <1>6, <1>7 DEF DeliveryInv, KeptInv

\* Every step of a run without such failures preserves the invariant.
LEMMA DeliveryNext ==
  ASSUME Reliable, IInv, IInv', DeliveryInv, [Next]_vars
  PROVE  DeliveryInv'
<1>t. TypeOK /\ TypeOK'
  BY DEF IInv
<1>1. ASSUME NEW w \in Workers, Handle(w) \/ Rebalance(w) PROVE DeliveryInv'
  BY <1>1, PlainStep, BeginStep, ForwardStep DEF Handle
<1>2. ASSUME NEW w \in Workers, NEW m \in Messages, Take(w, m)
      PROVE  DeliveryInv'
  <2> USE <1>t, <1>2 DEF TypeOK, Take, Goto, kafka
  <2>1. PlaceInv'
    BY DEF DeliveryInv, PlaceInv, BeforeLast, Working
  <2>2. Carries(Workers)
    BY SettledStays DEF Carries, Waiting, Answering
  <2>3. KeptInv'
    BY <2>2, KeptStays DEF DeliveryInv, Waiting
  <2> QED BY <2>1, <2>3 DEF DeliveryInv
<1>3. ASSUME NEW m \in Messages, BecomeStale(m) PROVE DeliveryInv'
  <2> USE <1>t, <1>3 DEF TypeOK, BecomeStale, kafka, job
  <2>0. \A k \in Messages : record'[k].status = record[k].status
    BY DEF Record
  <2>1. PlaceInv'
    BY <2>0 DEF DeliveryInv, PlaceInv, BeforeLast, Working
  <2>2. \A e \in Events : Settled(e) => Settled(e)'
    BY SettledStays
  <2>3. \A k \in Messages : Waiting(k) => Waiting(k)'
    BY <2>0 DEF Waiting
  <2>4. Carries(Workers)
    BY <2>2, <2>3 DEF Carries
  <2>5. KeptInv'
    BY <2>0, <2>3, <2>4, KeptStays DEF DeliveryInv
  <2> QED BY <2>1, <2>5 DEF DeliveryInv
<1>4. CASE UNCHANGED vars
  BY <1>4 DEF vars, DeliveryInv, PlaceInv, KeptInv, KeptFrom, Settled,
              Processed, Waiting
<1>5. ASSUME NEW w \in Workers, DatabaseError(w) \/ Crash(w) PROVE FALSE
  BY <1>5 DEF DatabaseError, Crash, Reliable
<1> QED BY <1>1, <1>2, <1>3, <1>4, <1>5 DEF Next, Work, Fail, AtRest

\* The invariant holds at the start: the main topic has every event.
LEMMA DeliveryInit == Init => DeliveryInv
<1> SUFFICES ASSUME Init PROVE DeliveryInv
  OBVIOUS
<1>1. \A m \in Messages : record[m].status = "NONE"
  BY DEF Init, Rec
<1>2. ASSUME NEW e \in Events PROVE Waiting(<<e, 0>>)
  <2>1. <<e, 0>> \in Messages /\ LevelOf(<<e, 0>>) = 0
    BY LevelAssumption DEF Messages, Levels, LevelOf
  <2>2. PICK n \in 1..Deliveries :
               pending = [m \in Messages |-> IF LevelOf(m) = 0 THEN n ELSE 0]
    BY DEF Init
  <2>3. pending[<<e, 0>>] > 0
    BY <2>1, <2>2
  <2> QED BY <1>1, <2>1, <2>3 DEF Waiting
<1> QED BY <1>1, <1>2 DEF Init, DeliveryInv, PlaceInv, KeptInv, BeforeLast,
                         Working

\* What the invariant says of an event no topic and no worker has.
LEMMA DeliveryImplies == TypeOK /\ DeliveryInv => EventsKept
<1> SUFFICES ASSUME TypeOK, DeliveryInv, NEW e \in Events \ Garbled
             PROVE  Busy(e) \/ Settled(e)
  BY DEF EventsKept, Settled
<1>1. <<e, 0>> \in Messages /\ EventOf(<<e, 0>>) = e
  BY LevelAssumption DEF Messages, Levels, EventOf
<1>2. CASE record[<<e, 0>>].status = "NONE"
  BY <1>1, <1>2 DEF DeliveryInv, KeptInv, Waiting, Busy
<1>3. CASE record[<<e, 0>>].status # "NONE"
  <2>1. KeptFrom(e, LevelOf(<<e, 0>>))
    BY <1>1, <1>3 DEF DeliveryInv, KeptInv
  <2> QED BY <2>1 DEF KeptFrom, Waiting, Answering, Busy
<1> QED BY <1>2, <1>3

\* As long as no process dies and every call to the database and the broker
\* succeeds, no event that parses is lost: rebalances, commits that fail,
\* slow workers and duplicate deliveries do not matter.
THEOREM Delivered == Spec => []NothingLost
<1>1. Init => KeepsEvents
  BY DeliveryInit DEF KeepsEvents
<1>2. KeepsEvents /\ IInv /\ IInv' /\ [Next]_vars => KeepsEvents'
  <2>1. [Next]_vars => faults' = faults
    BY DEF Next, Work, Fail, BecomeStale, AtRest, vars
  <2> QED BY <2>1, DeliveryNext DEF KeepsEvents, Reliable
<1>3. IInv /\ KeepsEvents => NothingLost
  BY DeliveryImplies DEF IInv, KeepsEvents, NothingLost
<1> QED BY Inductive, <1>1, <1>2, <1>3, PTL DEF Spec
=============================================================================
