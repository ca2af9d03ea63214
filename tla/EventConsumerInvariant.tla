----------------------- MODULE EventConsumerInvariant -----------------------
(***************************************************************************)
(* The inductive invariants behind the safety properties of EventConsumer. *)
(* They are stated apart from their proofs so that TLC can check them.     *)
(***************************************************************************)
EXTENDS EventConsumer

\* The handler has entered its try block and not left it.
Working == {"process", "done", "failRetry", "failDlq"}
\* It answers for the message: the event is in its hands alone.
Answering == {"process", "failRetry", "failDlq", "retry", "dlq"}
\* It has got past the check for the last retry topic.
BeforeLast == {"init", "takeover", "retry"} \cup Working

\* The owner of the partition holds a copy that is not committed, and there
\* is one owner.
OwnerInv ==
    /\ \A w \in Workers :
         pc[w] # "idle" /\ ~fenced[w] => pending[msg[w]] > 0
    /\ \A w, q \in Workers :
         /\ pc[w] # "idle" /\ ~fenced[w] /\ pc[q] # "idle" /\ ~fenced[q]
         /\ msg[w] = msg[q]
         => w = q

\* A record's version never falls behind its workers, and is ahead of them
\* all once the record is completed.
LeaseInv ==
    \A w \in Workers :
      LET r == record[msg[w]] IN
      /\ pc[w] \in Working => r.status # "NONE" /\ version[w] <= r.version
      /\ pc[w] \in Working /\ r.status = "COMPLETED" => version[w] < r.version
      /\ pc[w] = "done" => version[w] < r.version

IInv == TypeOK /\ OwnerInv /\ LeaseInv /\ CompletedOnce /\ OneLeaseholder

-----------------------------------------------------------------------------
(* What keeps an event from being lost.                                    *)

\* The message is waiting and will not be skipped.
Waiting(m) ==
    pending[m] > 0 /\ (record[m].status = "NONE" \/ LevelOf(m) = MaxRetries)

\* The event is settled, or waits or is worked on at some level from l on.
Settled(e) == Processed(e) \/ e \in dlq

KeptFrom(e, l) ==
    \/ Settled(e)
    \/ \E m \in Messages : EventOf(m) = e /\ LevelOf(m) >= l /\ Waiting(m)
    \/ \E w \in Workers : /\ pc[w] \in Answering
                          /\ EventOf(msg[w]) = e /\ LevelOf(msg[w]) >= l

PlaceInv ==
    \A w \in Workers :
      LET m == msg[w] IN
      /\ pc[w] \in BeforeLast => LevelOf(m) < MaxRetries
      /\ pc[w] \in {"takeover", "retry"} \cup Working
           => record[m].status # "NONE"
      /\ pc[w] = "done" => effects[m] > 0
      /\ pc[w] = "commit" => \/ record[m].status # "NONE"
                                /\ LevelOf(m) < MaxRetries
                             \/ EventOf(m) \in Garbled \cup dlq

\* A message that was begun has been carried further; one of the main topic
\* that was not is still waiting.
KeptInv ==
    /\ \A m \in Messages :
         EventOf(m) \notin Garbled /\ record[m].status # "NONE"
           => KeptFrom(EventOf(m), LevelOf(m))
    /\ \A e \in Events \ Garbled :
         record[<<e, 0>>].status = "NONE" => Waiting(<<e, 0>>) \/ Settled(e)

DeliveryInv == PlaceInv /\ KeptInv
KeepsEvents == Reliable => DeliveryInv
-----------------------------------------------------------------------------
(* What keeps the effects of an event from being applied on two topics,    *)
(* while no handler acts for a partition it has lost.                      *)

\* The message has been published or begun; it has failed for good.
Begun(m) == pending[m] > 0 \/ record[m].status # "NONE"
HasFailed(m) == record[m].status = "FAILED"

\* The messages of the same event on the topics above.
Above(m) == {n \in Messages : EventOf(n) = EventOf(m) /\ LevelOf(n) > LevelOf(m)}

\* Its handler alone moves a message on, and sends it on after it has failed
\* and before anything is above.
HandOf(w) ==
    LET m == msg[w] IN
    /\ pc[w] # "idle" => ~fenced[w]
    /\ pc[w] \in BeforeLast => LevelOf(m) < MaxRetries
    /\ pc[w] \in {"takeover", "process", "failRetry", "failDlq"}
         => record[m].status = "PROCESSING" /\ record[m].version = version[w]
    /\ pc[w] = "retry" => HasFailed(m)
    /\ pc[w] = "dlq" => HasFailed(m) \/ LevelOf(m) = MaxRetries
    /\ pc[w] = "retry" \/ (pc[w] = "dlq" /\ "broker" \notin faults)
         => \A n \in Above(m) : ~Begun(n)

\* A message is published when those below have failed, and none is begun on
\* the last topic.
ChainOf(m) ==
    /\ LevelOf(m) = MaxRetries => record[m].status = "NONE"
    /\ Begun(m) => \A n \in Messages : m \in Above(n) => HasFailed(n)

\* No message of a dead event will be begun any more.
Over(m) ==
    \/ HasFailed(m)
    \/ record[m].status = "NONE" /\ (pending[m] = 0 \/ LevelOf(m) = MaxRetries)
DeadOf(e) ==
    /\ \A m \in Messages : EventOf(m) = e => Over(m)
    /\ \A w \in Workers : pc[w] = "retry" => EventOf(msg[w]) # e

OnceInv ==
    NoZombies =>
      /\ \A w \in Workers : HandOf(w)
      /\ \A m \in Messages : ChainOf(m)
      /\ "broker" \notin faults => \A e \in dlq : DeadOf(e)
=============================================================================
