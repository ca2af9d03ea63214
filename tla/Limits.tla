-------------------------------- MODULE Limits --------------------------------
(***************************************************************************)
(* The daily limit of one sender in one currency (transactionLimit.        *)
(* service.ts).  A transfer reserves its amount before its transaction and *)
(* commits or gives back the reservation after it.  Two counters keep what *)
(* is used up of a day: a Redis key, which the reservations are made in as *)
(* long as Redis answers, and the TransactionUsage document in Mongo, which *)
(* they are made in when it does not, and to which a reservation made in   *)
(* Redis is added once its transfer has committed.  A missing key is set   *)
(* to what the document says.  The number of transfers in an hour is       *)
(* limited in the same way; here that check lets through or it does not.   *)
(***************************************************************************)
EXTENDS Integers, FiniteSets, Functions

CONSTANTS
    Requests,    \* the transfers of the sender
    Amount,      \* what each of them moves
    DailyLimit,  \* maxPerDay of the sender's tier
    LastDay,     \* how many days the runs last (a bound on the runs)
    Workloads    \* what may go wrong: sets of "outage" (the connection to
                 \* Redis is lost), "command" (Redis fails a command: timed
                 \* out, or the breaker is open), "loss" (it loses a key),
                 \* "reply" (the reply of a commit is lost), "error" (Mongo
                 \* fails a call), "crash", and "midnight"

\* maxPerTransaction of every tier that has a daily limit is below it
\* (transactionLimits.seeder.ts).
ASSUME AmountAssumption ==
    /\ IsFiniteSet(Requests)
    /\ DailyLimit \in Nat
    /\ Amount \in [Requests -> 0..DailyLimit]
    /\ LastDay \in Nat \ {0}

VARIABLES
    faults,     \* what may go wrong in this behaviour
    day,        \* getToday()
    healthy,    \* isHealthy() of the Redis client: it is connected
    purging,    \* the rehydration after a reconnect has yet to purge the keys
    key,        \* the Redis key of each day
    doc,        \* the TransactionUsage document of each day
    flights,    \* reads of the document that others may still join
    pc,         \* the next step of each request
    on,         \* the day it reserves on
    source,     \* the counter it has reserved in
    seed,       \* what it has read to set the key to
    \* kept for the properties only
    sent,       \* requests whose transaction has committed
    returned,   \* requests whose reservation has been given back
    missed,     \* <<q, r>>: q was let through by a counter without r
    forgotten,  \* requests a key was lost with that were yet to be settled
    overlooked, \* requests the document had when the key was made without
    debts       \* requests given back on a day by a counter without them

vars == <<faults, day, healthy, purging, key, doc, flights, pc, on, source, seed,
          sent, returned, missed, forgotten, overlooked, debts>>
world == <<faults, day, healthy, purging>>
ghosts == <<sent, returned, missed, forgotten, overlooked, debts>>

Days == 1..LastDay
May(f) == f \in faults

\* A counter knows a total; of is the requests whose amounts it is made of.
Counter == [there : BOOLEAN, total : Int, of : SUBSET Requests]
Empty == [there |-> FALSE, total |-> 0, of |-> {}]
Plus(c, r) == [there |-> TRUE, total |-> c.total + Amount[r], of |-> c.of \cup {r}]
Minus(c, r) == [there |-> TRUE, total |-> c.total - Amount[r], of |-> c.of \ {r}]

Init ==
    /\ faults \in Workloads
    /\ day = 1
    /\ healthy = TRUE
    /\ purging = FALSE
    /\ key = [d \in Days |-> Empty]
    /\ doc = [d \in Days |-> Empty]
    /\ flights = {}
    /\ pc = [r \in Requests |-> "idle"]
    /\ on = [r \in Requests |-> 1]
    /\ source = [r \in Requests |-> "none"]
    /\ seed = [r \in Requests |-> Empty]
    /\ sent = {}
    /\ returned = {}
    /\ missed = {}
    /\ forgotten = {}
    /\ overlooked = {}
    /\ debts = [d \in Days |-> {}]

Goto(r, l) == pc' = [pc EXCEPT ![r] = l]

\* A command that goes through execute may reach Redis, or be answered by its
\* fallback; one that has timed out may have been carried out all the same.
Reaches == healthy
Fails == ~healthy \/ May("command")

-----------------------------------------------------------------------------
(* ensureDailyKey.                                                         *)

Enforce(r) ==
    /\ pc[r] = "idle"
    /\ on' = [on EXCEPT ![r] = day]
    /\ Goto(r, IF healthy THEN "look" ELSE "mongo")
    /\ UNCHANGED <<world, key, doc, flights, source, seed, ghosts>>

\* EXISTS: a failing one says no.
Look(r) ==
    /\ pc[r] = "look"
    /\ \/ Reaches /\ key[on[r]].there /\ Goto(r, "reserve")
       \/ Reaches /\ ~key[on[r]].there /\ Goto(r, "read")
       \/ Fails /\ Goto(r, "read")
    /\ UNCHANGED <<world, key, doc, flights, on, source, seed, ghosts>>

\* coalesce: the document as it is now, or as a read under way has found it;
\* each process has reads of its own, and they do not tell days apart.
ReadSeed(r) ==
    /\ pc[r] = "read"
    /\ \E c \in {doc[day]} \cup flights :
          /\ seed' = [seed EXCEPT ![r] = c]
          /\ flights' = flights \cup {c}
    /\ Goto(r, "set")
    /\ UNCHANGED <<world, key, doc, on, source, ghosts>>

FlightEnds ==
    /\ \E c \in flights : flights' = flights \ {c}
    /\ UNCHANGED <<world, key, doc, pc, on, source, seed, ghosts>>

\* The key of day d is made of c, whatever the document has by now.
Made(d, c) == overlooked' = overlooked \cup (doc[d].of \ c.of)

\* mutant: SET without NX
Settable_Always(d) == TRUE

\* SET NX: "never overwrite a value another request already wrote".
Settable(d) == ~key[d].there

SetSeed(r) ==
    LET d == on[r] IN
    /\ pc[r] = "set"
    /\ \/ /\ Reaches /\ Settable(d)
          /\ key' = [key EXCEPT ![d] = [seed[r] EXCEPT !.there = TRUE]]
          /\ Made(d, seed[r])
       \/ (Fails \/ ~Settable(d)) /\ UNCHANGED <<key, overlooked>>
    /\ Goto(r, "confirm")
    /\ UNCHANGED <<world, doc, flights, on, source, seed>>
    /\ UNCHANGED <<sent, returned, missed, forgotten, debts>>

Confirm(r) ==
    /\ pc[r] = "confirm"
    /\ \/ Reaches /\ key[on[r]].there /\ Goto(r, "reserve")
       \/ Reaches /\ ~key[on[r]].there /\ Goto(r, "mongo")
       \/ Fails /\ Goto(r, "mongo")
    /\ UNCHANGED <<world, key, doc, flights, on, source, seed, ghosts>>

-----------------------------------------------------------------------------
(* The reservation.                                                        *)

\* mutant: the amount asked for is not added before the comparison
Fits_Before(c, r) == c.total <= DailyLimit

Fits(c, r) == c.total + Amount[r] <= DailyLimit

\* Those who have reserved on day d and have sent, or may yet.
Live(d) == {r \in Requests : on[r] = d /\ (pc[r] \in {"checked", "held"} \/ r \in sent)}

\* Counter c of day d has let r through.
LetThrough(r, s, d, c) ==
    /\ source' = [source EXCEPT ![r] = s]
    /\ missed' = missed \cup ({r} \X (Live(d) \ c.of))
    /\ Goto(r, "checked")

\* CHECK_AND_INCREMENT_SCRIPT: a missing key counts as zero.  The fallback is
\* Mongo, also when the script has run and its answer has not come in time.
Reserve(r) ==
    LET d == on[r]
        c == key[d]
        Counted == /\ Fits(c, r)
                   /\ key' = [key EXCEPT ![d] = Plus(c, r)]
                   /\ IF c.there THEN UNCHANGED overlooked ELSE Made(d, Empty)
    IN
    /\ pc[r] = "reserve"
    /\ \/ Reaches /\ Counted /\ LetThrough(r, "redis", d, c)
       \/ /\ Reaches /\ ~Fits(c, r) /\ Goto(r, "failed")
          /\ UNCHANGED <<key, source, missed, overlooked>>
       \/ /\ Fails /\ Goto(r, "mongo")
          /\ UNCHANGED <<key, source, missed, overlooked>>
       \/ /\ May("command") /\ Reaches /\ Counted /\ Goto(r, "mongo")
          /\ UNCHANGED <<source, missed>>
    /\ UNCHANGED <<world, doc, flights, on, seed, sent, returned, forgotten, debts>>

\* atomicIncrementDailyTotal: one conditional update, or the document is
\* created, without a comparison, for the first transfer of the day.
MongoTakes(c, r) == ~c.there \/ Fits(c, r)

ReserveInMongo(r) ==
    LET c == doc[day] IN
    /\ pc[r] = "mongo"
    /\ \/ /\ MongoTakes(c, r)
          /\ doc' = [doc EXCEPT ![day] = Plus(c, r)]
          /\ on' = [on EXCEPT ![r] = day]
          /\ LetThrough(r, "mongo", day, c)
       \/ /\ ~MongoTakes(c, r) /\ Goto(r, "failed")
          /\ UNCHANGED <<doc, on, source, missed>>
    /\ UNCHANGED <<world, key, flights, seed>>
    /\ UNCHANGED <<sent, returned, forgotten, overlooked, debts>>

\* The check of the hour, whose refusal gives back what this one reserved.
CheckHour(r) ==
    /\ pc[r] = "checked"
    /\ Goto(r, "held") \/ Goto(r, "giveBack")
    /\ UNCHANGED <<world, key, doc, flights, on, source, seed, ghosts>>

-----------------------------------------------------------------------------
(* The transfer, and what becomes of its reservation.                      *)

\* The transaction commits; if the reply is lost the service takes its error
\* path.
Send(r) ==
    /\ pc[r] = "held"
    /\ sent' = sent \cup {r}
    /\ Goto(r, "settle") \/ (May("reply") /\ Goto(r, "giveBack"))
    /\ UNCHANGED <<world, key, doc, flights, on, source, seed>>
    /\ UNCHANGED <<returned, missed, forgotten, overlooked, debts>>

\* The transaction fails: every step of it may.
Abort(r) ==
    /\ pc[r] = "held"
    /\ Goto(r, "giveBack")
    /\ UNCHANGED <<world, key, doc, flights, on, source, seed, ghosts>>

\* mutant: what was reserved in Redis never reaches Mongo
Settled_Nowhere(r) == doc

\* commitToDatabase.
Settled(r) == [doc EXCEPT ![day] = Plus(@, r)]

\* commitTransactionLimits: a failure is logged.
Settle(r) ==
    /\ pc[r] = "settle"
    /\ \/ /\ source[r] = "redis"
          /\ doc' = Settled(r)
          /\ Goto(r, IF on[r] = day THEN "done" ELSE "unsettled")
       \/ source[r] = "redis" /\ May("error") /\ Goto(r, "unsettled") /\ UNCHANGED doc
       \/ source[r] = "mongo" /\ Goto(r, "done") /\ UNCHANGED doc
    /\ UNCHANGED <<world, key, flights, on, source, seed, ghosts>>

Owed(r, c) ==
    debts' = IF r \in c.of THEN debts ELSE [debts EXCEPT ![day] = @ \cup {r}]

\* rollbackTransactionLimits, on the counter of the day it is by now: INCRBY
\* makes a key that is missing, the update finds no document that is.
GiveBack(r) ==
    /\ pc[r] = "giveBack"
    /\ \/ /\ source[r] = "redis" /\ Reaches
          /\ key' = [key EXCEPT ![day] = Minus(@, r)]
          /\ IF key[day].there THEN UNCHANGED overlooked ELSE Made(day, Empty)
          /\ Owed(r, key[day])
          /\ returned' = returned \cup {r}
          /\ UNCHANGED doc
       \/ /\ source[r] = "mongo" /\ doc[day].there
          /\ doc' = [doc EXCEPT ![day] = Minus(@, r)]
          /\ Owed(r, doc[day])
          /\ returned' = returned \cup {r}
          /\ UNCHANGED <<key, overlooked>>
       \/ /\ \/ source[r] = "redis" /\ Fails
             \/ source[r] = "mongo" /\ (~doc[day].there \/ May("error"))
          /\ UNCHANGED <<key, doc, debts, returned, overlooked>>
    /\ Goto(r, "failed")
    /\ UNCHANGED <<world, flights, on, source, seed, sent, missed, forgotten>>

\* Mongo fails a read, or an increment, which it may have made all the same.
MongoError(r) ==
    /\ May("error")
    /\ \/ pc[r] = "read" /\ UNCHANGED doc
       \/ /\ pc[r] = "mongo"
          /\ \/ UNCHANGED doc
             \/ MongoTakes(doc[day], r) /\ doc' = [doc EXCEPT ![day] = Plus(@, r)]
    /\ Goto(r, "failed")
    /\ UNCHANGED <<world, key, flights, on, source, seed, ghosts>>

Crash(r) ==
    /\ May("crash")
    /\ pc[r] \notin {"idle", "done", "unsettled", "failed", "crashed"}
    /\ Goto(r, "crashed")
    /\ UNCHANGED <<world, key, doc, flights, on, source, seed, ghosts>>

-----------------------------------------------------------------------------
(* Redis and the clock.                                                    *)

\* Redis has no key of the days ds any more.
KeysGo(ds) ==
    /\ key' = [d \in Days |-> IF d \in ds THEN Empty ELSE key[d]]
    /\ forgotten' = forgotten \cup {r \in UNION {key[d].of \ doc[d].of : d \in ds} :
                                    pc[r] # "done"}

Outage ==
    /\ May("outage")
    /\ healthy
    /\ healthy' = FALSE
    /\ UNCHANGED <<faults, day, purging, key, doc, flights, pc, on, source, seed, ghosts>>

\* "ready": commands reach Redis again while the rehydration reads sessions.
Ready ==
    /\ ~healthy
    /\ healthy' = TRUE
    /\ purging' = TRUE
    /\ UNCHANGED <<faults, day, key, doc, flights, pc, on, source, seed, ghosts>>

\* purgeByPattern("daily_tx:*"), in vain if Redis or Mongo fails it.
Purge ==
    /\ purging
    /\ purging' = FALSE
    /\ \/ healthy /\ KeysGo(Days)
       \/ (Fails \/ May("error")) /\ UNCHANGED <<key, forgotten>>
    /\ UNCHANGED <<faults, day, healthy, doc, flights, pc, on, source, seed>>
    /\ UNCHANGED <<sent, returned, missed, overlooked, debts>>

\* A key expires at midnight where the server is, or is lost.
KeyGoes ==
    /\ May("loss")
    /\ \E d \in Days : KeysGo({d})
    /\ UNCHANGED <<world, doc, flights, pc, on, source, seed>>
    /\ UNCHANGED <<sent, returned, missed, overlooked, debts>>

Midnight ==
    /\ May("midnight")
    /\ day < LastDay
    /\ day' = day + 1
    /\ UNCHANGED <<faults, healthy, purging, key, doc, flights, pc, on, source, seed,
                   ghosts>>

Step(r) ==
    \/ Enforce(r)   \/ Look(r)     \/ ReadSeed(r) \/ SetSeed(r)  \/ Confirm(r)
    \/ Reserve(r)   \/ ReserveInMongo(r)          \/ CheckHour(r) \/ Send(r)
    \/ Abort(r)     \/ Settle(r)   \/ GiveBack(r) \/ MongoError(r) \/ Crash(r)

Next ==
    \/ \E r \in Requests : Step(r)
    \/ FlightEnds \/ Outage \/ Ready \/ Purge \/ KeyGoes \/ Midnight

Spec == Init /\ [][Next]_vars

-----------------------------------------------------------------------------
(* Properties.                                                             *)

Labels == {"idle", "look", "read", "set", "confirm", "reserve", "mongo", "checked",
           "held", "settle", "giveBack", "done", "unsettled", "failed", "crashed"}

\* Every variable has its type.
TypeOK ==
    /\ faults \in Workloads
    /\ day \in Days
    /\ {healthy, purging} \subseteq BOOLEAN
    /\ {key, doc} \subseteq [Days -> Counter]
    /\ flights \subseteq Counter
    /\ pc \in [Requests -> Labels]
    /\ on \in [Requests -> Days]
    /\ source \in [Requests -> {"none", "redis", "mongo"}]
    /\ seed \in [Requests -> Counter]
    /\ {sent, returned, forgotten, overlooked} \subseteq SUBSET Requests
    /\ missed \subseteq Requests \X Requests
    /\ debts \in [Days -> SUBSET Requests]

Worth(rs) == FoldFunctionOnSet(+, 0, Amount, rs)
SentOn(d) == {r \in sent : on[r] = d}
MissedOn(d) == {r \in SentOn(d) : \E q \in Requests : <<q, r>> \in missed}

Debts == UNION {debts[d] : d \in Days}

WithinBound(d) == Worth(SentOn(d)) <= DailyLimit + Worth(MissedOn(d)) + Worth(Debts)

ExcessForCause ==
    /\ \A q, r \in Requests : <<q, r>> \in missed =>
          source[q] # source[r] \/ r \in forgotten \cup overlooked \cup returned
    /\ \A d \in Days : \A r \in debts[d] : on[r] # d \/ r \in forgotten \cup overlooked

\* A sender gets no more out on a day than the limit, what a counter did not
\* know when it let another through, and what was taken off a counter that had
\* never had it (transactionLimit.service.ts: enforce, commit and rollback).  And
\* the counter that let q through did not know r only if the two reserved in
\* different stores, if Redis lost r before it was settled, if the key was made
\* of a count that was older than r's, or if the reservation of r was given
\* back; and a reservation is taken off a counter that has never had it only
\* on another day or after such a loss.
LimitHolds == (\A d \in Days : WithinBound(d)) /\ ExcessForCause
=============================================================================
