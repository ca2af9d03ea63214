---------------------------- MODULE LimitsProofs ----------------------------
(***************************************************************************)
(* What a sender gets out on a day, for any number of transfers of any     *)
(* amounts, any number of days and any set of faults.                      *)
(***************************************************************************)
EXTENDS Limits, Sums

-----------------------------------------------------------------------------
(* The inductive invariant.                                                *)

Early == {"idle", "look", "read", "set", "confirm", "reserve", "mongo"}
Late == {"settle", "giveBack", "done", "unsettled", "failed", "crashed"}

\* Every counter, wherever it is, is short of what it is made of by no more
\* than the debts o.
Sound(c, o) ==
    /\ c.total + o >= Worth(c.of)
    /\ ~c.there => c.of = {}

CountersSound ==
    /\ \A d \in Days : Sound(key[d], Worth(Debts)) /\ Sound(doc[d], Worth(Debts))
    /\ \A c \in flights : Sound(c, Worth(Debts))
    /\ \A r \in Requests : Sound(seed[r], Worth(Debts))

\* How far a request is says what can be known of it.
InOrder ==
    /\ \A r \in sent : pc[r] \in Late
    /\ \A r \in returned \cup Debts : pc[r] = "failed"
    /\ \A r \in Requests : pc[r] = "settle" => r \in sent
    /\ \A q, r \in Requests : <<q, r>> \in missed => pc[q] \notin Early /\ pc[r] \notin Early

Unknown == {r \in Requests : \E q \in Requests : <<q, r>> \in missed}

\* LimitHolds, for all who may yet send.
Room ==
    \A d \in Days :
        Worth(Live(d)) <= DailyLimit + Worth(Live(d) \cap Unknown) + Worth(Debts)

\* A reservation that has not been given back is where it was made, or the
\* properties name what has become of it.
Holding(r) == pc[r] \in {"checked", "held", "giveBack"} \/ r \in sent

KeptOf(r) ==
    /\ Holding(r) => source[r] \in {"redis", "mongo"}
    /\ Holding(r) /\ source[r] = "redis" =>
          \/ r \in returned \cup forgotten \cup overlooked
          \/ r \in key[on[r]].of
          \/ ~key[on[r]].there /\ r \in doc[on[r]].of
    /\ Holding(r) /\ source[r] = "mongo" => r \in returned \/ r \in doc[on[r]].of
    /\ pc[r] = "done" => r \in doc[on[r]].of

Kept == \A r \in Requests : KeptOf(r)

IInv == TypeOK /\ CountersSound /\ InOrder /\ Room /\ Kept /\ ExcessForCause

-----------------------------------------------------------------------------
(* What requests are worth.                                                *)

\* It is a sum.
LEMMA WorthIs ==
  ASSUME NEW S
  PROVE  Worth(S) = Sum(Amount, S)
  BY DEF Worth, Sum

\* Sets of requests are worth a natural number.
LEMMA WorthNat ==
  ASSUME NEW S \in SUBSET Requests
  PROVE  IsFiniteSet(S) /\ Worth(S) \in Nat /\ Worth({}) = 0
<1>1. IsFiniteSet(S) /\ \A x \in S : Amount[x] \in Nat /\ Amount[x] \in Int
  BY AmountAssumption, FS_Subset
<1>2. Sum(Amount, S) \in Int
  BY <1>1, SumType
<1>3. Sum(Amount, {}) = 0
  BY FS_EmptySet, SumStep
<1>4. Sum(Amount, {}) <= Sum(Amount, S)
  BY <1>1, SumOverSubset
<1> QED BY <1>1, <1>2, <1>3, <1>4, WorthIs

\* One request more.
LEMMA WorthAdd ==
  ASSUME NEW S \in SUBSET Requests, NEW r \in Requests, r \notin S
  PROVE  Worth(S \cup {r}) = Worth(S) + Amount[r]
<1>1. (S \cup {r}) \ {r} = S /\ IsFiniteSet(S \cup {r})
  BY WorthNat
<1>2. \A x \in S \cup {r} : Amount[x] \in Int
  BY AmountAssumption
<1>3. Sum(Amount, S \cup {r}) = Amount[r] + Sum(Amount, S)
  BY <1>1, <1>2, SumRemove
<1>4. Amount[r] \in Int /\ Worth(S) \in Int
  BY AmountAssumption, WorthNat
<1> QED BY <1>3, <1>4, WorthIs

\* A part, and the rest.
LEMMA WorthSplit ==
  ASSUME NEW S \in SUBSET Requests, NEW T
  PROVE  Worth(S) = Worth(S \cap T) + Worth(S \ T)
<1>1. IsFiniteSet(S) /\ \A x \in S : Amount[x] \in Int
  BY AmountAssumption, WorthNat
<1>2. Sum(Amount, S) = Sum(Amount, S \cap T) + Sum(Amount, S \ T)
  BY <1>1, SumSplit
<1> QED BY <1>2, WorthIs

\* A part is worth no more than the whole.
LEMMA WorthMono ==
  ASSUME NEW S \in SUBSET Requests, NEW T \in SUBSET S
  PROVE  Worth(T) <= Worth(S)
<1>1. S \cap T = T /\ S \ T \in SUBSET Requests /\ T \in SUBSET Requests
  OBVIOUS
<1>2. Worth(S) = Worth(T) + Worth(S \ T)
  BY <1>1, WorthSplit
<1>3. Worth(T) \in Nat /\ Worth(S \ T) \in Nat /\ Worth(S) \in Nat
  BY <1>1, WorthNat
<1> QED BY <1>2, <1>3

\* A bound that grows with the members of M holds of every part.
LEMMA BoundOfPart ==
  ASSUME NEW S \in SUBSET Requests, NEW T \in SUBSET S, NEW M \in SUBSET Requests,
         NEW k \in Int, Worth(S) <= k + Worth(S \cap M)
  PROVE  Worth(T) <= k + Worth(T \cap M)
<1>1. /\ S \cap T = T /\ (S \cap M) \cap T = T \cap M
      /\ S \cap M \in SUBSET Requests /\ S \ T \in SUBSET Requests
      /\ (S \cap M) \ T \in SUBSET (S \ T)
      /\ T \in SUBSET Requests /\ T \cap M \in SUBSET Requests
  OBVIOUS
<1>2. Worth(S) = Worth(T) + Worth(S \ T)
  BY <1>1, WorthSplit
<1>3. Worth(S \cap M) = Worth(T \cap M) + Worth((S \cap M) \ T)
  <2>1. Worth(S \cap M) = Worth((S \cap M) \cap T) + Worth((S \cap M) \ T)
    BY <1>1, WorthSplit
  <2> QED BY <1>1, <2>1
<1>4. Worth((S \cap M) \ T) <= Worth(S \ T)
  BY <1>1, WorthMono
<1>5. /\ Worth(T) \in Nat /\ Worth(S \ T) \in Nat
      /\ Worth(T \cap M) \in Nat /\ Worth((S \cap M) \ T) \in Nat
  BY <1>1, WorthNat
<1> QED BY <1>2, <1>3, <1>4, <1>5

-----------------------------------------------------------------------------
(* Counters.                                                               *)

\* A counter with a request more or less is a counter.
LEMMA CounterType ==
  ASSUME NEW c \in Counter, NEW r \in Requests
  PROVE  Plus(c, r) \in Counter /\ Minus(c, r) \in Counter /\ Empty \in Counter
BY AmountAssumption DEF Counter, Plus, Minus, Empty

\* More debts excuse more.
LEMMA SoundMore ==
  ASSUME NEW c \in Counter, NEW o \in Nat, NEW p \in Nat, o <= p, Sound(c, o)
  PROVE  Sound(c, p)
<1>1. c.total \in Int /\ Worth(c.of) \in Nat
  BY WorthNat DEF Counter
<1> QED BY <1>1 DEF Sound

LEMMA SoundEmpty ==
  ASSUME NEW o \in Nat
  PROVE  Sound(Empty, o)
<1>1. Worth({}) = 0
  BY WorthNat
<1> QED BY <1>1 DEF Sound, Empty

LEMMA SoundPlus ==
  ASSUME NEW c \in Counter, NEW o \in Nat, NEW r \in Requests, Sound(c, o)
  PROVE  Sound(Plus(c, r), o)
<1>1. c.total \in Int /\ c.of \in SUBSET Requests /\ Worth(c.of) \in Nat /\ Amount[r] \in Nat
  BY WorthNat, AmountAssumption DEF Counter
<1>2. CASE r \in c.of
  <2>1. c.of \cup {r} = c.of
    BY <1>2
  <2>2. Worth(c.of \cup {r}) = Worth(c.of)
    BY <2>1
  <2> QED BY <1>1, <2>2 DEF Sound, Plus
<1>3. CASE r \notin c.of
  <2>1. Worth(c.of \cup {r}) = Worth(c.of) + Amount[r]
    BY <1>1, <1>3, WorthAdd
  <2> QED BY <1>1, <2>1 DEF Sound, Plus
<1> QED BY <1>2, <1>3

\* What is taken off a counter that has it leaves its shortage as it is; what
\* is taken off one that has not adds to it.
LEMMA SoundMinus ==
  ASSUME NEW c \in Counter, NEW o \in Nat, NEW r \in Requests, Sound(c, o)
  PROVE  Sound(Minus(c, r), IF r \in c.of THEN o ELSE o + Amount[r])
<1>1. c.total \in Int /\ c.of \in SUBSET Requests /\ Worth(c.of) \in Nat /\ Amount[r] \in Nat
  BY WorthNat, AmountAssumption DEF Counter
<1>2. CASE r \in c.of
  <2>1. r \notin c.of \ {r} /\ (c.of \ {r}) \cup {r} = c.of /\ c.of \ {r} \in SUBSET Requests
    BY <1>1, <1>2
  <2>2. Worth(c.of) = Worth(c.of \ {r}) + Amount[r] /\ Worth(c.of \ {r}) \in Nat
    BY <2>1, WorthAdd, WorthNat
  <2> QED BY <1>1, <1>2, <2>2 DEF Sound, Minus
<1>3. CASE r \notin c.of
  <2>1. c.of \ {r} = c.of
    BY <1>3
  <2>2. Worth(c.of \ {r}) = Worth(c.of)
    BY <2>1
  <2> QED BY <1>1, <1>3, <2>2 DEF Sound, Minus
<1> QED BY <1>2, <1>3

-----------------------------------------------------------------------------
(* Steps.                                                                  *)

\* The debts are requests.
LEMMA DebtsType ==
  ASSUME TypeOK
  PROVE  Debts \in SUBSET Requests /\ Worth(Debts) \in Nat
<1>1. Debts \in SUBSET Requests
  BY DEF TypeOK, Debts
<1> QED BY <1>1, WorthNat

\* Every step keeps the types.
LEMMA TypeStep ==
  ASSUME TypeOK, [Next]_vars
  PROVE  TypeOK'
<1> USE DEF Goto
<1>1. ASSUME NEW r \in Requests, Enforce(r) PROVE TypeOK'
  BY <1>1 DEF TypeOK, Enforce, world, ghosts, Labels
<1>2. ASSUME NEW r \in Requests, Look(r) PROVE TypeOK'
  BY <1>2 DEF TypeOK, Look, world, ghosts, Labels
<1>3. ASSUME NEW r \in Requests, ReadSeed(r) PROVE TypeOK'
  BY <1>3 DEF TypeOK, ReadSeed, world, ghosts, Labels
<1>4. ASSUME NEW r \in Requests, SetSeed(r) PROVE TypeOK'
  <2> DEFINE c == [seed[r] EXCEPT !.there = TRUE]
  <2>1. c \in Counter
    <3>1. seed[r] \in Counter
      BY DEF TypeOK
    <3> QED BY <3>1 DEF Counter
  <2>2. on[r] \in Days /\ doc[on[r]].of \in SUBSET Requests
    BY DEF TypeOK, Counter
  <2> HIDE DEF c
  <2>3. key' \in [Days -> Counter] /\ overlooked' \in SUBSET Requests
    <3>1. key' = [key EXCEPT ![on[r]] = c] \/ key' = key
      BY <1>4 DEF SetSeed, c
    <3>2. overlooked' = overlooked \cup (doc[on[r]].of \ seed[r].of) \/ overlooked' = overlooked
      BY <1>4 DEF SetSeed, Made
    <3> QED BY <2>1, <2>2, <3>1, <3>2 DEF TypeOK
  <2> QED BY <1>4, <2>3 DEF TypeOK, SetSeed, world, Labels
<1>5. ASSUME NEW r \in Requests, Confirm(r) PROVE TypeOK'
  BY <1>5 DEF TypeOK, Confirm, world, ghosts, Labels
<1>6. ASSUME NEW r \in Requests, Reserve(r) PROVE TypeOK'
  <2>1. Plus(key[on[r]], r) \in Counter
    BY CounterType DEF TypeOK
  <2>2. key' \in [Days -> Counter]
    <3>1. key' = [key EXCEPT ![on[r]] = Plus(key[on[r]], r)] \/ key' = key
      BY <1>6 DEF Reserve
    <3> QED BY <2>1, <3>1 DEF TypeOK
  <2>3. overlooked' \in SUBSET Requests
    <3>1. doc[on[r]].of \in SUBSET Requests
      BY DEF TypeOK, Counter
    <3>2. overlooked' = overlooked \cup (doc[on[r]].of \ Empty.of) \/ overlooked' = overlooked
      BY <1>6 DEF Reserve, Made
    <3> QED BY <3>1, <3>2 DEF TypeOK
  <2>4. /\ pc' \in [Requests -> Labels]
        /\ source' \in [Requests -> {"none", "redis", "mongo"}]
        /\ missed' \subseteq Requests \X Requests
    BY <1>6 DEF TypeOK, Reserve, LetThrough, Live, Labels
  <2> QED BY <1>6, <2>2, <2>3, <2>4 DEF TypeOK, Reserve, world
<1>7. ASSUME NEW r \in Requests, ReserveInMongo(r) PROVE TypeOK'
  <2>1. Plus(doc[day], r) \in Counter
    BY CounterType DEF TypeOK
  <2>2. doc' \in [Days -> Counter] /\ on' \in [Requests -> Days]
    <3>1. doc' = [doc EXCEPT ![day] = Plus(doc[day], r)] \/ doc' = doc
      BY <1>7 DEF ReserveInMongo
    <3>2. on' = [on EXCEPT ![r] = day] \/ on' = on
      BY <1>7 DEF ReserveInMongo
    <3> QED BY <2>1, <3>1, <3>2 DEF TypeOK
  <2>3. /\ pc' \in [Requests -> Labels]
        /\ source' \in [Requests -> {"none", "redis", "mongo"}]
        /\ missed' \subseteq Requests \X Requests
    BY <1>7 DEF TypeOK, ReserveInMongo, LetThrough, Live, Labels
  <2> QED BY <1>7, <2>2, <2>3 DEF TypeOK, ReserveInMongo, world
<1>8. ASSUME NEW r \in Requests, CheckHour(r) PROVE TypeOK'
  BY <1>8 DEF TypeOK, CheckHour, world, ghosts, Labels
<1>9. ASSUME NEW r \in Requests, Send(r) PROVE TypeOK'
  BY <1>9 DEF TypeOK, Send, world, Labels
<1>10. ASSUME NEW r \in Requests, Abort(r) PROVE TypeOK'
  BY <1>10 DEF TypeOK, Abort, world, ghosts, Labels
<1>11. ASSUME NEW r \in Requests, Settle(r) PROVE TypeOK'
  <2>1. Plus(doc[day], r) \in Counter
    BY CounterType DEF TypeOK
  <2> QED BY <1>11, <2>1 DEF TypeOK, Settle, Settled, world, ghosts, Labels
<1>12. ASSUME NEW r \in Requests, GiveBack(r) PROVE TypeOK'
  <2>1. Minus(doc[day], r) \in Counter /\ Minus(key[day], r) \in Counter
    BY CounterType DEF TypeOK
  <2>2. key' \in [Days -> Counter] /\ doc' \in [Days -> Counter]
    <3>1. key' = [key EXCEPT ![day] = Minus(key[day], r)] \/ key' = key
      BY <1>12 DEF GiveBack
    <3>2. doc' = [doc EXCEPT ![day] = Minus(doc[day], r)] \/ doc' = doc
      BY <1>12 DEF GiveBack
    <3> QED BY <2>1, <3>1, <3>2 DEF TypeOK
  <2>3. overlooked' \in SUBSET Requests
    <3>1. doc[day].of \in SUBSET Requests
      BY DEF TypeOK, Counter
    <3>2. overlooked' = overlooked \cup (doc[day].of \ Empty.of) \/ overlooked' = overlooked
      BY <1>12 DEF GiveBack, Made
    <3> QED BY <3>1, <3>2 DEF TypeOK
  <2>4. debts' \in [Days -> SUBSET Requests]
    <3>1. debts' = [debts EXCEPT ![day] = @ \cup {r}] \/ debts' = debts
      BY <1>12 DEF GiveBack, Owed
    <3> QED BY <3>1 DEF TypeOK
  <2>5. returned' \in SUBSET Requests /\ pc' \in [Requests -> Labels]
    BY <1>12 DEF TypeOK, GiveBack, Labels
  <2> QED BY <1>12, <2>2, <2>3, <2>4, <2>5 DEF TypeOK, GiveBack, world
<1>13. ASSUME NEW r \in Requests, MongoError(r) PROVE TypeOK'
  <2>1. Plus(doc[day], r) \in Counter
    BY CounterType DEF TypeOK
  <2> QED BY <1>13, <2>1 DEF TypeOK, MongoError, world, ghosts, Labels
<1>14. ASSUME NEW r \in Requests, Crash(r) PROVE TypeOK'
  BY <1>14 DEF TypeOK, Crash, world, ghosts, Labels
<1>15. ASSUME FlightEnds PROVE TypeOK'
  BY <1>15 DEF TypeOK, FlightEnds, world, ghosts
<1>16. ASSUME Outage \/ Ready PROVE TypeOK'
  BY <1>16 DEF TypeOK, Outage, Ready, ghosts
<1>17. ASSUME NEW ds \in SUBSET Days, KeysGo(ds) 
             PROVE  key' \in [Days -> Counter] /\ forgotten' \in SUBSET Requests
  <2>1. Empty \in Counter
    BY DEF Empty, Counter
  <2> QED BY <1>17, <2>1 DEF TypeOK, KeysGo, Counter
<1>18. ASSUME Purge PROVE TypeOK'
  BY <1>17, <1>18 DEF TypeOK, Purge, May
<1>19. ASSUME KeyGoes PROVE TypeOK'
  BY <1>17, <1>19 DEF TypeOK, KeyGoes, world
<1>20. ASSUME Midnight PROVE TypeOK'
  <2>1. day + 1 \in Days
    BY <1>20, AmountAssumption DEF TypeOK, Midnight, Days
  <2> QED BY <1>20, <2>1 DEF TypeOK, Midnight, ghosts
<1>21. CASE UNCHANGED vars
  BY <1>21 DEF TypeOK, vars
<1> QED
  BY <1>1, <1>2, <1>3, <1>4, <1>5, <1>6, <1>7, <1>8, <1>9, <1>10, <1>11, <1>12, <1>13,
     <1>14, <1>15, <1>16, <1>18, <1>19, <1>20, <1>21 DEF Next, Step

\* A counter a step leaves as it was is as short as it was of what it is made of.
LEMMA CountersFrom ==
  ASSUME TypeOK, TypeOK', CountersSound, Worth(Debts) <= Worth(Debts'),
         \A d \in Days : key'[d] = key[d] \/ Sound(key'[d], Worth(Debts')),
         \A d \in Days : doc'[d] = doc[d] \/ Sound(doc'[d], Worth(Debts')),
         \A c \in flights' : c \in flights \/ Sound(c, Worth(Debts')),
         \A r \in Requests : seed'[r] = seed[r] \/ Sound(seed'[r], Worth(Debts'))
  PROVE  CountersSound'
<1>1. Worth(Debts) \in Nat /\ Worth(Debts') \in Nat
  <2>1. Debts' \in SUBSET Requests
    BY DEF TypeOK, Debts
  <2> QED BY <2>1, DebtsType, WorthNat
<1>2. ASSUME NEW c \in Counter, Sound(c, Worth(Debts)) PROVE Sound(c, Worth(Debts'))
  BY <1>1, <1>2, SoundMore
<1>3. /\ \A d \in Days : key[d] \in Counter /\ doc[d] \in Counter
      /\ \A c \in flights : c \in Counter
      /\ \A r \in Requests : seed[r] \in Counter
  BY DEF TypeOK
<1>4. \A d \in Days : Sound(key'[d], Worth(Debts')) /\ Sound(doc'[d], Worth(Debts'))
  BY <1>2, <1>3 DEF CountersSound
<1>5. \A c \in flights' : Sound(c, Worth(Debts'))
  BY <1>2, <1>3 DEF CountersSound
<1>6. \A r \in Requests : Sound(seed'[r], Worth(Debts'))
  BY <1>2, <1>3 DEF CountersSound
<1> QED BY <1>4, <1>5, <1>6 DEF CountersSound

\* Every step keeps the counters sound.
LEMMA CountersStep ==
  ASSUME IInv, [Next]_vars
  PROVE  CountersSound'
<1> USE DEF IInv
<1> DEFINE o == Worth(Debts)
<1>t. TypeOK'
  BY TypeStep
<1>o. o \in Nat
  BY DebtsType
<1>k. \A d \in Days : Sound(key[d], o) /\ Sound(doc[d], o) /\ key[d] \in Counter /\ doc[d] \in Counter
  BY DEF CountersSound, TypeOK
<1>s. ASSUME UNCHANGED debts PROVE Debts' = Debts
  BY <1>s DEF Debts
<1>1. ASSUME UNCHANGED <<key, doc, flights, seed, debts>> PROVE CountersSound'
  BY <1>1, <1>s, <1>t, <1>o, CountersFrom
<1>2. ASSUME NEW r \in Requests, ReadSeed(r) PROVE CountersSound'
  <2>1. PICK c \in {doc[day]} \cup flights : seed' = [seed EXCEPT ![r] = c] /\ flights' = flights \cup {c}
    BY <1>2 DEF ReadSeed
  <2>2. Sound(c, o)
    BY <1>k DEF TypeOK, CountersSound
  <2>3. UNCHANGED <<key, doc, debts>>
    BY <1>2 DEF ReadSeed, ghosts
  <2>4. \A q \in Requests : seed'[q] = seed[q] \/ seed'[q] = c
    BY <2>1 DEF TypeOK
  <2> QED BY <1>s, <1>t, <1>o, <2>1, <2>2, <2>3, <2>4, CountersFrom
<1>3. ASSUME FlightEnds PROVE CountersSound'
  <2>1. flights' \subseteq flights /\ UNCHANGED <<key, doc, seed, debts>>
    BY <1>3 DEF FlightEnds, ghosts
  <2> QED BY <1>s, <1>t, <1>o, <2>1, CountersFrom
<1>4. ASSUME NEW r \in Requests, SetSeed(r) PROVE CountersSound'
  <2> DEFINE c == [seed[r] EXCEPT !.there = TRUE]
  <2>1. Sound(c, o)
    <3>1. Sound(seed[r], o) /\ seed[r] \in Counter
      BY DEF TypeOK, CountersSound
    <3>2. c.total = seed[r].total /\ c.of = seed[r].of /\ c.there = TRUE
      BY <3>1 DEF Counter
    <3> QED BY <3>1, <3>2 DEF Sound
  <2> HIDE DEF c
  <2>2. key' = [key EXCEPT ![on[r]] = c] \/ key' = key
    BY <1>4 DEF SetSeed, c
  <2>3. UNCHANGED <<doc, flights, seed, debts>>
    BY <1>4 DEF SetSeed
  <2>4. \A d \in Days : key'[d] = key[d] \/ key'[d] = c
    BY <2>2 DEF TypeOK
  <2> QED BY <1>s, <1>t, <1>o, <2>1, <2>3, <2>4, CountersFrom
<1>5. ASSUME NEW r \in Requests, Reserve(r) PROVE CountersSound'
  <2>1. on[r] \in Days /\ Sound(Plus(key[on[r]], r), o)
    <3>1. on[r] \in Days
      BY DEF TypeOK
    <3> QED BY <3>1, <1>k, <1>o, SoundPlus
  <2>2. key' = [key EXCEPT ![on[r]] = Plus(key[on[r]], r)] \/ key' = key
    BY <1>5 DEF Reserve
  <2>3. UNCHANGED <<doc, flights, seed, debts>>
    BY <1>5 DEF Reserve
  <2>4. \A d \in Days : key'[d] = key[d] \/ key'[d] = Plus(key[on[r]], r)
    BY <2>2 DEF TypeOK
  <2> QED BY <1>s, <1>t, <1>o, <2>1, <2>3, <2>4, CountersFrom
<1>6. ASSUME NEW r \in Requests, ReserveInMongo(r) \/ Settle(r) \/ MongoError(r) PROVE CountersSound'
  <2>1. Sound(Plus(doc[day], r), o)
    <3>1. day \in Days
      BY DEF TypeOK
    <3> QED BY <3>1, <1>k, <1>o, SoundPlus
  <2>2. doc' = [doc EXCEPT ![day] = Plus(doc[day], r)] \/ doc' = doc
    BY <1>6 DEF ReserveInMongo, Settle, Settled, MongoError
  <2>3. UNCHANGED <<key, flights, seed, debts>>
    BY <1>6 DEF ReserveInMongo, Settle, MongoError, ghosts
  <2>4. \A d \in Days : doc'[d] = doc[d] \/ doc'[d] = Plus(doc[day], r)
    BY <2>2 DEF TypeOK
  <2> QED BY <1>s, <1>t, <1>o, <2>1, <2>3, <2>4, CountersFrom
<1>7. ASSUME NEW r \in Requests, GiveBack(r) PROVE CountersSound'
  <2>1. day \in Days /\ Debts \in SUBSET Requests /\ debts \in [Days -> SUBSET Requests]
    BY DebtsType DEF TypeOK
  <2>2. r \notin Debts
    BY <1>7 DEF GiveBack, InOrder
  <2>3. UNCHANGED <<flights, seed>>
    BY <1>7 DEF GiveBack
  <2>4. ASSUME NEW c \in Counter, Sound(c, o), Owed(r, c)
        PROVE  Worth(Debts) <= Worth(Debts') /\ Sound(Minus(c, r), Worth(Debts'))
    <3>1. CASE r \in c.of
      <4>1. Debts' = Debts
        BY <2>4, <3>1 DEF Owed, Debts
      <4> QED BY <1>o, <2>4, <3>1, <4>1, SoundMinus
    <3>2. CASE r \notin c.of
      <4>1. Debts' = Debts \cup {r}
        BY <2>1, <2>4, <3>2 DEF Owed, Debts
      <4>2. Worth(Debts') = o + Amount[r] /\ Amount[r] \in Nat
        BY <2>1, <2>2, <4>1, WorthAdd, AmountAssumption
      <4> QED BY <1>o, <2>4, <3>2, <4>2, SoundMinus
    <3> QED BY <3>1, <3>2
  <2>5. ASSUME key' = [key EXCEPT ![day] = Minus(@, r)], Owed(r, key[day]), doc' = doc
        PROVE  CountersSound'
    <3>1. \A d \in Days : key'[d] = key[d] \/ key'[d] = Minus(key[day], r)
      BY <2>5 DEF TypeOK
    <3> QED BY <1>k, <1>t, <2>1, <2>3, <2>4, <2>5, <3>1, CountersFrom
  <2>6. ASSUME doc' = [doc EXCEPT ![day] = Minus(@, r)], Owed(r, doc[day]), key' = key
        PROVE  CountersSound'
    <3>1. \A d \in Days : doc'[d] = doc[d] \/ doc'[d] = Minus(doc[day], r)
      BY <2>6 DEF TypeOK
    <3> QED BY <1>k, <1>t, <2>1, <2>3, <2>4, <2>6, <3>1, CountersFrom
  <2> QED BY <1>7, <1>1, <2>3, <2>5, <2>6 DEF GiveBack
<1>8. ASSUME NEW ds \in SUBSET Days, KeysGo(ds), UNCHANGED <<doc, flights, seed, debts>>
      PROVE  CountersSound'
  <2>1. \A d \in Days : key'[d] = key[d] \/ key'[d] = Empty
    BY <1>8 DEF KeysGo
  <2>2. Sound(Empty, o)
    BY <1>o, SoundEmpty
  <2> QED BY <1>8, <1>s, <1>t, <1>o, <2>1, <2>2, CountersFrom
<1>9. ASSUME NEW r \in Requests,
             Enforce(r) \/ Look(r) \/ Confirm(r) \/ CheckHour(r) \/ Send(r) \/ Abort(r) \/ Crash(r)
      PROVE  CountersSound'
  BY <1>1, <1>9 DEF Enforce, Look, Confirm, CheckHour, Send, Abort, Crash, ghosts
<1>10. ASSUME Outage \/ Ready \/ Midnight PROVE CountersSound'
  BY <1>1, <1>10 DEF Outage, Ready, Midnight, ghosts
<1>11. ASSUME Purge PROVE CountersSound'
  BY <1>1, <1>8, <1>11 DEF Purge
<1>12. ASSUME KeyGoes PROVE CountersSound'
  BY <1>8, <1>12 DEF KeyGoes
<1>13. CASE UNCHANGED vars
  BY <1>1, <1>13 DEF vars
<1> QED
  BY <1>2, <1>3, <1>4, <1>5, <1>6, <1>7, <1>9, <1>10, <1>11, <1>12, <1>13 DEF Next, Step

\* Every step keeps the order of a request's steps.
LEMMA OrderStep ==
  ASSUME IInv, [Next]_vars
  PROVE  InOrder'
<1> USE DEF IInv, TypeOK
<1>s. ASSUME UNCHANGED debts PROVE Debts' = Debts
  BY <1>s DEF Debts
<1>1. ASSUME NEW r \in Requests, NEW l,
             pc' = [pc EXCEPT ![r] = l], UNCHANGED <<sent, returned, missed, debts>>,
             pc[r] # "failed", l # "settle",
             r \in sent => l \in Late, l \in Early => pc[r] \in Early
      PROVE  InOrder'
  BY <1>1, <1>s DEF InOrder
<1>2. ASSUME NEW r \in Requests,
             Enforce(r) \/ Look(r) \/ ReadSeed(r) \/ SetSeed(r) \/ Confirm(r) \/ MongoError(r)
      PROVE  InOrder'
  <2>1. pc[r] \in Early /\ r \notin sent
    BY <1>2 DEF Enforce, Look, ReadSeed, SetSeed, Confirm, MongoError, Early, Late, InOrder
  <2>2. PICK l \in Early \cup {"failed"} : pc' = [pc EXCEPT ![r] = l]
    BY <1>2 DEF Enforce, Look, ReadSeed, SetSeed, Confirm, MongoError, Goto, Early
  <2>3. UNCHANGED <<sent, returned, missed, debts>>
    BY <1>2 DEF Enforce, Look, ReadSeed, SetSeed, Confirm, MongoError, ghosts
  <2> QED BY <1>1, <2>1, <2>2, <2>3 DEF Early
<1>3. ASSUME NEW r \in Requests, CheckHour(r) \/ Abort(r) \/ Settle(r) \/ Crash(r)
      PROVE  InOrder'
  <2>1. UNCHANGED <<sent, returned, missed, debts>>
    BY <1>3 DEF CheckHour, Abort, Settle, Crash, ghosts
  <2>2. PICK l \in {"held", "giveBack", "done", "unsettled", "crashed"} : pc' = [pc EXCEPT ![r] = l]
    BY <1>3 DEF CheckHour, Abort, Settle, Crash, Goto
  <2>3. pc[r] # "failed" /\ (l = "held" => r \notin sent)
    BY <1>3, <2>2 DEF CheckHour, Abort, Settle, Crash, Goto, InOrder, Late
  <2> QED BY <1>1, <2>1, <2>2, <2>3 DEF Early, Late
<1>4. ASSUME NEW r \in Requests, Send(r) PROVE InOrder'
  <2>1. pc[r] = "held" /\ sent' = sent \cup {r} /\ UNCHANGED <<returned, missed, debts>>
    BY <1>4 DEF Send
  <2>2. PICK l \in {"settle", "giveBack"} : pc' = [pc EXCEPT ![r] = l]
    BY <1>4 DEF Send, Goto
  <2> QED BY <1>s, <2>1, <2>2 DEF InOrder, Early, Late
<1>5. ASSUME NEW r \in Requests, GiveBack(r) PROVE InOrder'
  <2>1. Debts' \subseteq Debts \cup {r} /\ returned' \subseteq returned \cup {r}
    BY <1>5 DEF GiveBack, Owed, Debts
  <2> QED BY <1>5, <2>1 DEF GiveBack, Goto, InOrder, Early, Late
<1>6. ASSUME NEW r \in Requests, Reserve(r) \/ ReserveInMongo(r) PROVE InOrder'
  <2>1. pc[r] \in Early /\ r \notin sent /\ UNCHANGED <<sent, returned, debts>>
    BY <1>6 DEF Reserve, ReserveInMongo, InOrder, Early, Late
  <2>2. PICK l \in {"checked", "mongo", "failed"} : pc' = [pc EXCEPT ![r] = l]
    BY <1>6 DEF Reserve, ReserveInMongo, LetThrough, Goto
  <2>3. CASE UNCHANGED missed
    BY <1>1, <2>1, <2>2, <2>3 DEF Early
  <2>4. CASE \E d, c : LetThrough(r, source'[r], d, c)
    <3>1. PICK d, c : LetThrough(r, source'[r], d, c)
      BY <2>4
    <3>2. pc' = [pc EXCEPT ![r] = "checked"]
      BY <3>1 DEF LetThrough, Goto
    <3>3. \A q, x \in Requests : <<q, x>> \in missed' =>
             <<q, x>> \in missed \/ (q = r /\ pc[x] \notin Early /\ x # r)
      BY <2>1, <3>1 DEF LetThrough, Live, InOrder, Early, Late
    <3> QED BY <1>s, <2>1, <3>2, <3>3 DEF InOrder, Early, Late
  <2>5. UNCHANGED missed \/ \E d, c : LetThrough(r, source'[r], d, c)
    BY <1>6 DEF Reserve, ReserveInMongo, LetThrough
  <2> QED BY <2>3, <2>4, <2>5
<1>7. ASSUME UNCHANGED <<pc, sent, returned, missed, debts>> PROVE InOrder'
  BY <1>7, <1>s DEF InOrder
<1>8. ASSUME FlightEnds \/ Outage \/ Ready \/ Purge \/ KeyGoes \/ Midnight PROVE InOrder'
  BY <1>7, <1>8 DEF FlightEnds, Outage, Ready, Purge, KeyGoes, Midnight, ghosts
<1>9. CASE UNCHANGED vars
  BY <1>7, <1>9 DEF vars
<1> QED BY <1>2, <1>3, <1>4, <1>5, <1>6, <1>8, <1>9 DEF Next, Step

\* Those who may yet send have room as long as they get no more.
LEMMA RoomKept ==
  ASSUME TypeOK, TypeOK', Room, Worth(Debts) <= Worth(Debts'), missed \subseteq missed',
         \A d \in Days : Live(d)' \subseteq Live(d)
  PROVE  Room'
<1> SUFFICES ASSUME NEW d \in Days
             PROVE  Worth(Live(d)') <= DailyLimit + Worth(Live(d)' \cap Unknown') + Worth(Debts')
  BY DEF Room
<1>1. /\ Live(d) \in SUBSET Requests /\ Live(d)' \in SUBSET Live(d)
      /\ Unknown \in SUBSET Requests /\ Unknown' \in SUBSET Requests /\ Unknown \subseteq Unknown'
      /\ Debts' \in SUBSET Requests
  <2>1. Live(d) \in SUBSET Requests /\ Live(d)' \in SUBSET Live(d)
    BY DEF Live
  <2>2. /\ Unknown \in SUBSET Requests /\ Unknown' \in SUBSET Requests
        /\ Unknown \subseteq Unknown'
    BY DEF Unknown
  <2>3. Debts' \in SUBSET Requests
    BY DEF TypeOK, Debts
  <2> QED BY <2>1, <2>2, <2>3
<1>2. Worth(Debts) \in Nat /\ Worth(Debts') \in Nat /\ DailyLimit \in Nat
  BY <1>1, DebtsType, WorthNat, AmountAssumption
<1>3. Worth(Live(d)) <= (DailyLimit + Worth(Debts)) + Worth(Live(d) \cap Unknown)
  <2>1. Worth(Live(d) \cap Unknown) \in Nat /\ Worth(Live(d)) \in Nat
    BY <1>1, WorthNat
  <2>2. Worth(Live(d)) <= DailyLimit + Worth(Live(d) \cap Unknown) + Worth(Debts)
    BY DEF Room
  <2> QED BY <1>2, <2>1, <2>2
<1>4. Worth(Live(d)') <= (DailyLimit + Worth(Debts)) + Worth(Live(d)' \cap Unknown)
  <2>1. DailyLimit + Worth(Debts) \in Int
    BY <1>2
  <2> QED BY <1>1, <1>3, <2>1, BoundOfPart
<1>5. Worth(Live(d)' \cap Unknown) <= Worth(Live(d)' \cap Unknown')
  <2>1. Live(d)' \cap Unknown' \in SUBSET Requests
    BY <1>1
  <2> QED BY <1>1, <2>1, WorthMono
<1>6. Worth(Live(d)' \cap Unknown) \in Nat /\ Worth(Live(d)' \cap Unknown') \in Nat /\ Worth(Live(d)') \in Nat
  BY <1>1, WorthNat
<1> QED BY <1>2, <1>4, <1>5, <1>6

\* A counter lets through what it has room for, and notes what it does not know.
LEMMA RoomLetThrough ==
  ASSUME IInv, NEW r \in Requests, NEW s, NEW d \in Days, NEW c \in Counter,
         Sound(c, Worth(Debts)), c.there => Fits(c, r), pc[r] \in Early,
         LetThrough(r, s, d, c), on' = [on EXCEPT ![r] = d], UNCHANGED <<sent, debts>>
  PROVE  Room'
<1> USE DEF IInv
<1> DEFINE o == Worth(Debts)
<1> SUFFICES ASSUME NEW e \in Days
             PROVE  Worth(Live(e)') <= DailyLimit + Worth(Live(e)' \cap Unknown') + Worth(Debts')
  BY DEF Room
<1>1. Debts' = Debts /\ o \in Nat /\ DailyLimit \in Nat /\ Amount[r] \in Nat /\ Amount[r] <= DailyLimit
  BY DebtsType, AmountAssumption DEF Debts
<1>2. r \notin sent /\ r \notin Live(e) /\ r \notin Live(d) /\ pc' = [pc EXCEPT ![r] = "checked"]
  BY DEF InOrder, Early, Late, Live, LetThrough, Goto
<1>3. /\ Live(e) \in SUBSET Requests /\ Unknown \in SUBSET Requests /\ Unknown' \in SUBSET Requests
      /\ Unknown \subseteq Unknown'
  BY DEF Live, Unknown, LetThrough
<1>4. Live(e)' = IF e = d THEN Live(e) \cup {r} ELSE Live(e)
  BY <1>2 DEF Live, TypeOK
<1>5. CASE e # d
  <2>1. Worth(Live(e)) <= DailyLimit + Worth(Live(e) \cap Unknown) + o
    BY DEF Room
  <2>2. Worth(Live(e) \cap Unknown) <= Worth(Live(e) \cap Unknown')
    <3>1. Live(e) \cap Unknown' \in SUBSET Requests
      BY <1>3
    <3> QED BY <1>3, <3>1, WorthMono
  <2>3. Worth(Live(e)) \in Nat /\ Worth(Live(e) \cap Unknown) \in Nat /\ Worth(Live(e) \cap Unknown') \in Nat
    BY <1>3, WorthNat
  <2>4. Live(e)' = Live(e)
    BY <1>4, <1>5
  <2>5. Worth(Live(e)) <= DailyLimit + Worth(Live(e) \cap Unknown') + o
    BY <1>1, <2>1, <2>2, <2>3
  <2> QED BY <1>1, <2>4, <2>5
<1>6. CASE e = d
  <2> DEFINE L == Live(d)
             U == (L \cup {r}) \cap Unknown'
  <2>1. /\ L \in SUBSET Requests /\ L \cap c.of \in SUBSET c.of /\ c.of \in SUBSET Requests
        /\ L \ c.of \in SUBSET U /\ U \in SUBSET Requests
    <3>1. L \ c.of \in SUBSET Unknown'
      BY DEF LetThrough, Unknown, Live
    <3> QED BY <1>3, <3>1 DEF Counter, Live
  <2> HIDE DEF L, U
  <2>2. Worth(L \cup {r}) = Worth(L) + Amount[r]
    BY <1>2, <2>1, WorthAdd DEF L
  <2>3. Worth(L) = Worth(L \cap c.of) + Worth(L \ c.of)
    BY <2>1, WorthSplit
  <2>4. Worth(L \ c.of) <= Worth(U)
    BY <2>1, WorthMono
  <2>5. Worth(L \cap c.of) <= Worth(c.of)
    BY <2>1, WorthMono
  <2>6. /\ Worth(L) \in Nat /\ Worth(L \cap c.of) \in Nat /\ Worth(L \ c.of) \in Nat
        /\ Worth(U) \in Nat /\ Worth(c.of) \in Nat /\ c.total \in Int
    <3>1. L \cap c.of \in SUBSET Requests /\ L \ c.of \in SUBSET Requests
      BY <2>1
    <3> QED BY <2>1, <3>1, WorthNat DEF Counter
  <2>7. Worth(c.of) + Amount[r] <= DailyLimit + o
    <3>1. CASE c.there
      <4>1. c.total + Amount[r] <= DailyLimit /\ c.total + o >= Worth(c.of)
        BY <3>1 DEF Sound, Fits
      <4> QED BY <1>1, <2>6, <4>1
    <3>2. CASE ~c.there
      <4>1. Worth(c.of) = 0
        BY <3>2, WorthNat DEF Sound
      <4> QED BY <1>1, <4>1
    <3> QED BY <3>1, <3>2 DEF Counter
  <2>8. Worth(L \cup {r}) <= DailyLimit + Worth(U) + o
    BY <1>1, <2>2, <2>3, <2>4, <2>5, <2>6, <2>7
  <2> QED BY <1>1, <1>4, <1>6, <2>8 DEF L, U
<1> QED BY <1>5, <1>6

\* Every step keeps the room.
LEMMA RoomStep ==
  ASSUME IInv, [Next]_vars
  PROVE  Room'
<1> USE DEF IInv
<1>t. TypeOK'
  BY TypeStep
<1>o. Worth(Debts) \in Nat
  BY DebtsType
<1>s. ASSUME UNCHANGED debts PROVE Debts' = Debts
  BY <1>s DEF Debts
<1>1. ASSUME UNCHANGED <<debts, missed>>, \A d \in Days : Live(d)' \subseteq Live(d) PROVE Room'
  BY <1>1, <1>s, <1>t, <1>o, RoomKept
<1>2. ASSUME NEW r \in Requests, NEW l, pc' = [pc EXCEPT ![r] = l],
             UNCHANGED <<sent, debts, missed>>, l \notin {"checked", "held"} \/ pc[r] = "checked",
             r \in sent \/ l \in {"checked", "held"} => on'[r] = on[r],
             \A x \in Requests \ {r} : on'[x] = on[x]
      PROVE  Room'
  <2>1. \A d \in Days : Live(d)' \subseteq Live(d)
    BY <1>2 DEF Live, TypeOK
  <2> QED BY <1>1, <1>2, <2>1
<1>3. ASSUME NEW r \in Requests, Enforce(r) PROVE Room'
  <2>1. r \notin sent /\ \A x \in Requests \ {r} : on'[x] = on[x]
    BY <1>3 DEF Enforce, InOrder, Late, TypeOK
  <2>2. PICK l \in {"look", "mongo"} : pc' = [pc EXCEPT ![r] = l]
    BY <1>3 DEF Enforce, Goto
  <2> QED BY <1>2, <1>3, <2>1, <2>2 DEF Enforce, ghosts
<1>4. ASSUME NEW r \in Requests,
             Look(r) \/ ReadSeed(r) \/ SetSeed(r) \/ Confirm(r) \/ CheckHour(r) \/ Abort(r)
             \/ Settle(r) \/ MongoError(r) \/ Crash(r)
      PROVE  Room'
  <2>1. UNCHANGED <<on, sent, debts, missed>>
    BY <1>4 DEF Look, ReadSeed, SetSeed, Confirm, CheckHour, Abort, Settle, MongoError, Crash, ghosts
  <2>2. PICK l : pc' = [pc EXCEPT ![r] = l] /\ (l \notin {"checked", "held"} \/ pc[r] = "checked")
    BY <1>4 DEF Look, ReadSeed, SetSeed, Confirm, CheckHour, Abort, Settle, MongoError, Crash, Goto
  <2> QED BY <1>2, <2>1, <2>2
<1>5. ASSUME NEW r \in Requests, Send(r) PROVE Room'
  <2>1. UNCHANGED <<on, debts, missed>> /\ sent' = sent \cup {r} /\ pc[r] = "held"
    BY <1>5 DEF Send
  <2>2. PICK l \in {"settle", "giveBack"} : pc' = [pc EXCEPT ![r] = l]
    BY <1>5 DEF Send, Goto
  <2>3. \A d \in Days : Live(d)' \subseteq Live(d)
    BY <2>1, <2>2 DEF Live, TypeOK
  <2> QED BY <1>1, <2>1, <2>3
<1>6. ASSUME NEW r \in Requests, GiveBack(r) PROVE Room'
  <2>1. UNCHANGED <<on, sent, missed>> /\ pc' = [pc EXCEPT ![r] = "failed"]
    BY <1>6 DEF GiveBack, Goto
  <2>2. \A d \in Days : Live(d)' \subseteq Live(d)
    BY <2>1 DEF Live, TypeOK
  <2>3. Worth(Debts) <= Worth(Debts')
    <3>1. Debts \subseteq Debts' /\ Debts' \in SUBSET Requests
      BY <1>6, <1>t DEF GiveBack, Owed, Debts, TypeOK
    <3> QED BY <3>1, WorthMono
  <2> QED BY <1>t, <2>1, <2>2, <2>3, RoomKept
<1>7. ASSUME NEW r \in Requests, Reserve(r) PROVE Room'
  <2> DEFINE d == on[r]
             c == key[d]
  <2>1. d \in Days /\ c \in Counter /\ Sound(c, Worth(Debts)) /\ pc[r] \in Early
    BY <1>7 DEF TypeOK, CountersSound, Reserve, Early
  <2>2. UNCHANGED <<on, sent, debts>> /\ on' = [on EXCEPT ![r] = d]
    BY <1>7 DEF Reserve, TypeOK
  <2>3. CASE LetThrough(r, "redis", d, c) /\ Fits(c, r)
    BY <2>1, <2>2, <2>3, RoomLetThrough
  <2>4. CASE (Goto(r, "failed") \/ Goto(r, "mongo")) /\ UNCHANGED missed
    <3>1. PICK l \in {"failed", "mongo"} : pc' = [pc EXCEPT ![r] = l]
      BY <2>4 DEF Goto
    <3> QED BY <1>2, <2>2, <2>4, <3>1
  <2> QED BY <1>7, <2>3, <2>4 DEF Reserve
<1>8. ASSUME NEW r \in Requests, ReserveInMongo(r) PROVE Room'
  <2> DEFINE c == doc[day]
  <2>1. day \in Days /\ c \in Counter /\ Sound(c, Worth(Debts)) /\ pc[r] \in Early
    BY <1>8 DEF TypeOK, CountersSound, ReserveInMongo, Early
  <2>2. UNCHANGED <<sent, debts>>
    BY <1>8 DEF ReserveInMongo
  <2>3. CASE /\ LetThrough(r, "mongo", day, c) /\ MongoTakes(c, r)
             /\ on' = [on EXCEPT ![r] = day]
    BY <2>1, <2>2, <2>3, RoomLetThrough DEF MongoTakes
  <2>4. CASE Goto(r, "failed") /\ UNCHANGED <<on, missed>>
    <3>1. pc' = [pc EXCEPT ![r] = "failed"]
      BY <2>4 DEF Goto
    <3> QED BY <1>2, <2>2, <2>4, <3>1
  <2> QED BY <1>8, <2>3, <2>4 DEF ReserveInMongo
<1>9. ASSUME UNCHANGED <<pc, on, sent, debts, missed>> PROVE Room'
  <2>1. \A d \in Days : Live(d)' \subseteq Live(d)
    BY <1>9 DEF Live
  <2> QED BY <1>1, <1>9, <2>1
<1>10. ASSUME FlightEnds \/ Outage \/ Ready \/ Purge \/ KeyGoes \/ Midnight PROVE Room'
  BY <1>9, <1>10 DEF FlightEnds, Outage, Ready, Purge, KeyGoes, Midnight, ghosts
<1>11. CASE UNCHANGED vars
  BY <1>9, <1>11 DEF vars
<1> QED BY <1>3, <1>4, <1>5, <1>6, <1>7, <1>8, <1>10, <1>11 DEF Next, Step

\* Where a reservation is, or what has become of it, if only counters change.
LEMMA KeptOther ==
  ASSUME NEW x \in Requests, KeptOf(x), pc'[x] = pc[x], on'[x] = on[x], source'[x] = source[x],
         x \in sent' => x \in sent, returned \subseteq returned', forgotten \subseteq forgotten',
         overlooked \subseteq overlooked',
         x \in doc[on[x]].of => x \in returned' \/ x \in doc'[on[x]].of,
         x \in doc[on[x]].of => (pc[x] = "done" => x \in doc'[on[x]].of),
         x \in key[on[x]].of =>
            \/ x \in returned' \cup forgotten' \cup overlooked'
            \/ x \in key'[on[x]].of
            \/ ~key'[on[x]].there /\ x \in doc'[on[x]].of,
         ~key[on[x]].there /\ x \in doc[on[x]].of =>
            \/ x \in returned' \cup forgotten' \cup overlooked'
            \/ x \in key'[on[x]].of
            \/ ~key'[on[x]].there /\ x \in doc'[on[x]].of
  PROVE  KeptOf(x)'
BY DEF KeptOf, Holding

\* A step of r that leaves the counters alone, and ends nowhere it has not
\* been on the way to.
LEMMA KeptMoved ==
  ASSUME TypeOK, Kept, NEW r \in Requests, NEW l, pc' = [pc EXCEPT ![r] = l],
         UNCHANGED <<key, doc, source, returned, forgotten, overlooked>>,
         l \notin {"checked", "done"}, l \in {"held", "giveBack"} => Holding(r),
         sent' \subseteq sent \cup {r}, r \in sent' => Holding(r),
         on' = on \/ (~Holding(r) /\ on' = [on EXCEPT ![r] = on'[r]])
  PROVE  Kept'
<1> SUFFICES ASSUME NEW x \in Requests PROVE KeptOf(x)'
  BY DEF Kept
<1>1. KeptOf(x)
  BY DEF Kept
<1>2. CASE x # r
  <2>1. pc'[x] = pc[x] /\ on'[x] = on[x] /\ (x \in sent' => x \in sent)
    BY <1>2 DEF TypeOK
  <2> QED BY <1>1, <2>1, KeptOther
<1>3. CASE x = r
  <2>1. pc'[r] = l /\ l # "done"
    BY DEF TypeOK
  <2>2. Holding(r)' => Holding(r)
    BY <2>1 DEF Holding
  <2>3. Holding(r) => on'[r] = on[r]
    OBVIOUS
  <2> QED BY <1>1, <1>3, <2>1, <2>2, <2>3 DEF KeptOf
<1> QED BY <1>2, <1>3

\* Every step keeps track of the reservations.
LEMMA KeptStep ==
  ASSUME IInv, [Next]_vars
  PROVE  Kept'
<1> USE DEF IInv
<1>k. \A x \in Requests : KeptOf(x) /\ on[x] \in Days
  BY DEF Kept, TypeOK
<1>1. ASSUME NEW r \in Requests,
             Enforce(r) \/ Look(r) \/ ReadSeed(r) \/ Confirm(r) \/ CheckHour(r) \/ Abort(r) \/ Crash(r)
      PROVE  Kept'
  <2>1. UNCHANGED <<key, doc, source, returned, forgotten, overlooked, sent>>
    BY <1>1 DEF Enforce, Look, ReadSeed, Confirm, CheckHour, Abort, Crash, ghosts
  <2>2. PICK l : /\ pc' = [pc EXCEPT ![r] = l] /\ l \notin {"checked", "done"}
                 /\ l \in {"held", "giveBack"} => Holding(r)
    BY <1>1 DEF Enforce, Look, ReadSeed, Confirm, CheckHour, Abort, Crash, Goto, Holding
  <2>3. on' = on \/ (~Holding(r) /\ on' = [on EXCEPT ![r] = on'[r]])
    BY <1>1 DEF Enforce, Look, ReadSeed, Confirm, CheckHour, Abort, Crash, TypeOK, InOrder, Holding, Late
  <2>4. r \in sent => Holding(r)
    BY DEF Holding
  <2> QED BY <2>1, <2>2, <2>3, <2>4, KeptMoved
<1>2. ASSUME NEW r \in Requests, Send(r) PROVE Kept'
  <2>1. UNCHANGED <<key, doc, source, returned, forgotten, overlooked, on>> /\ sent' = sent \cup {r}
    BY <1>2 DEF Send
  <2>2. PICK l \in {"settle", "giveBack"} : pc' = [pc EXCEPT ![r] = l]
    BY <1>2 DEF Send, Goto
  <2>3. Holding(r)
    BY <1>2 DEF Send, Holding
  <2> QED BY <2>1, <2>2, <2>3, KeptMoved
<1>3. ASSUME NEW r \in Requests, SetSeed(r) PROVE Kept'
  <2> DEFINE d == on[r]
             c == [seed[r] EXCEPT !.there = TRUE]
  <2>1. /\ UNCHANGED <<doc, source, returned, forgotten, on, sent>> /\ pc[r] = "set"
        /\ pc' = [pc EXCEPT ![r] = "confirm"]
    BY <1>3 DEF SetSeed, Goto
  <2>2. CASE UNCHANGED <<key, overlooked>>
    <3>1. r \notin sent
      BY <2>1 DEF InOrder, Late
    <3>2. PICK l \in {"confirm"} : pc' = [pc EXCEPT ![r] = l]
      BY <2>1
    <3> QED BY <2>1, <2>2, <3>1, <3>2, KeptMoved
  <2>3. CASE ~key[d].there /\ key' = [key EXCEPT ![d] = c]
             /\ overlooked' = overlooked \cup (doc[d].of \ seed[r].of)
    <3>1. /\ d \in Days /\ key[d].of = {} /\ c.of = seed[r].of
      <4>1. d \in Days /\ seed[r] \in Counter
        BY DEF TypeOK
      <4>2. Sound(key[d], Worth(Debts))
        BY <4>1 DEF CountersSound
      <4> QED BY <2>3, <4>1, <4>2 DEF Sound, Counter
    <3> HIDE DEF c
    <3>2. key'[d].of = seed[r].of /\ \A e \in Days \ {d} : key'[e] = key[e]
      BY <2>3, <3>1 DEF TypeOK
    <3> SUFFICES ASSUME NEW x \in Requests PROVE KeptOf(x)'
      BY DEF Kept
    <3>3. CASE x # r
      <4>1. pc'[x] = pc[x] /\ KeptOf(x) /\ on[x] \in Days
        BY <1>k, <2>1, <3>3 DEF TypeOK
      <4>2. CASE on[x] = d
        BY <2>1, <2>3, <3>1, <3>2, <4>1, <4>2, KeptOther
      <4>3. CASE on[x] # d
        <5>1. key'[on[x]] = key[on[x]]
          BY <3>2, <4>1, <4>3
        <5> QED BY <2>1, <2>3, <4>1, <5>1, KeptOther
      <4> QED BY <4>2, <4>3
    <3>4. CASE x = r
      BY <2>1, <3>4 DEF KeptOf, Holding, InOrder, Late, TypeOK
    <3> QED BY <3>3, <3>4
  <2> QED BY <1>3, <2>2, <2>3 DEF SetSeed, Settable, Made
<1>4. ASSUME NEW r \in Requests, Reserve(r) PROVE Kept'
  <2> DEFINE d == on[r]
  <2>1. UNCHANGED <<doc, on, sent, returned, forgotten>> /\ pc[r] = "reserve" /\ d \in Days /\ r \notin sent
    BY <1>4 DEF Reserve, InOrder, Late, TypeOK
  <2>2. ASSUME NEW x \in Requests \ {r}, key' = [key EXCEPT ![d] = Plus(key[d], r)],
               overlooked \subseteq overlooked',
               ~key[d].there => doc[d].of \subseteq overlooked',
               pc'[x] = pc[x], source'[x] = source[x]
        PROVE  KeptOf(x)'
    <3>1. KeptOf(x) /\ on[x] \in Days
      BY <1>k
    <3>2. CASE on[x] = d
      <4>1. key'[on[x]].of = key[d].of \cup {r}
        BY <2>1, <2>2, <3>2 DEF TypeOK, Plus
      <4> QED BY <2>1, <2>2, <3>1, <3>2, <4>1, KeptOther
    <3>3. CASE on[x] # d
      <4>1. key'[on[x]] = key[on[x]]
        BY <2>1, <2>2, <3>1, <3>3 DEF TypeOK
      <4> QED BY <2>1, <2>2, <3>1, <4>1, KeptOther
    <3> QED BY <3>2, <3>3
  <2>3. ASSUME IF key[d].there THEN UNCHANGED overlooked ELSE Made(d, Empty)
        PROVE  overlooked \subseteq overlooked' /\ (~key[d].there => doc[d].of \subseteq overlooked')
    BY <2>3 DEF Made, Empty
  <2>4. CASE /\ key' = [key EXCEPT ![d] = Plus(key[d], r)]
             /\ IF key[d].there THEN UNCHANGED overlooked ELSE Made(d, Empty)
             /\ LetThrough(r, "redis", d, key[d])
    <3>1. \A x \in Requests \ {r} : pc'[x] = pc[x] /\ source'[x] = source[x]
      BY <2>4 DEF LetThrough, Goto, TypeOK
    <3>2. KeptOf(r)'
      <4>1. r \in key'[on'[r]].of /\ source'[r] = "redis" /\ pc'[r] = "checked"
        BY <2>1, <2>4 DEF LetThrough, Goto, TypeOK, Plus
      <4> QED BY <4>1 DEF KeptOf
    <3> QED BY <2>2, <2>3, <2>4, <3>1, <3>2 DEF Kept
  <2>5. CASE /\ key' = [key EXCEPT ![d] = Plus(key[d], r)]
             /\ IF key[d].there THEN UNCHANGED overlooked ELSE Made(d, Empty)
             /\ Goto(r, "mongo") /\ UNCHANGED source
    <3>1. \A x \in Requests \ {r} : pc'[x] = pc[x] /\ source'[x] = source[x]
      BY <2>5 DEF Goto, TypeOK
    <3>2. KeptOf(r)'
      BY <2>1, <2>5 DEF Goto, TypeOK, KeptOf, Holding
    <3> QED BY <2>2, <2>3, <2>5, <3>1, <3>2 DEF Kept
  <2>6. CASE (Goto(r, "failed") \/ Goto(r, "mongo")) /\ UNCHANGED <<key, source, overlooked>>
    <3>1. PICK l \in {"failed", "mongo"} : pc' = [pc EXCEPT ![r] = l]
      BY <2>6 DEF Goto
    <3> QED BY <2>1, <2>6, <3>1, KeptMoved
  <2> QED BY <1>4, <2>4, <2>5, <2>6 DEF Reserve
<1>5. ASSUME NEW r \in Requests, doc' = [doc EXCEPT ![day] = Plus(@, r)], UNCHANGED key,
             sent' \subseteq sent, UNCHANGED <<returned, forgotten, overlooked>>, KeptOf(r)',
             \A x \in Requests \ {r} : pc'[x] = pc[x] /\ on'[x] = on[x] /\ source'[x] = source[x]
      PROVE  Kept'
  <2> SUFFICES ASSUME NEW x \in Requests \ {r} PROVE KeptOf(x)'
    BY <1>5 DEF Kept
  <2>1. KeptOf(x) /\ doc[on[x]].of \subseteq doc'[on[x]].of
    <3>1. doc'[on[x]] = IF on[x] = day THEN Plus(doc[day], r) ELSE doc[on[x]]
      BY <1>k, <1>5 DEF TypeOK
    <3> QED BY <1>k, <3>1 DEF Plus
  <2> QED BY <1>5, <2>1, KeptOther
<1>6. ASSUME NEW r \in Requests, ReserveInMongo(r) PROVE Kept'
  <2>1. UNCHANGED <<key, sent, returned, forgotten, overlooked>> /\ pc[r] = "mongo" /\ r \notin sent /\ day \in Days
    BY <1>6 DEF ReserveInMongo, InOrder, Late, TypeOK
  <2>2. CASE /\ doc' = [doc EXCEPT ![day] = Plus(@, r)] /\ on' = [on EXCEPT ![r] = day]
             /\ LetThrough(r, "mongo", day, doc[day])
    <3>1. \A x \in Requests \ {r} : pc'[x] = pc[x] /\ on'[x] = on[x] /\ source'[x] = source[x]
      BY <2>2 DEF LetThrough, Goto, TypeOK
    <3>2. KeptOf(r)'
      <4>1. r \in doc'[on'[r]].of /\ source'[r] = "mongo" /\ pc'[r] = "checked"
        BY <2>1, <2>2 DEF LetThrough, Goto, TypeOK, Plus
      <4> QED BY <4>1 DEF KeptOf
    <3> QED BY <1>5, <2>1, <2>2, <3>1, <3>2
  <2>3. CASE Goto(r, "failed") /\ UNCHANGED <<doc, on, source>>
    <3>1. PICK l \in {"failed"} : pc' = [pc EXCEPT ![r] = l]
      BY <2>3 DEF Goto
    <3> QED BY <2>1, <2>3, <3>1, KeptMoved
  <2> QED BY <1>6, <2>2, <2>3 DEF ReserveInMongo
<1>7. ASSUME NEW r \in Requests, Settle(r) PROVE Kept'
  <2>1. /\ UNCHANGED <<key, on, source, sent, returned, forgotten, overlooked>>
        /\ pc[r] = "settle" /\ r \in sent /\ r \notin returned /\ day \in Days
    BY <1>7 DEF Settle, InOrder, ghosts, TypeOK
  <2>2. Holding(r) /\ KeptOf(r) /\ source[r] \in {"redis", "mongo"}
    BY <1>k, <2>1 DEF Holding, KeptOf
  <2>3. PICK l \in {"done", "unsettled"} : pc' = [pc EXCEPT ![r] = l]
    BY <1>7 DEF Settle, Goto
  <2>4. \A x \in Requests \ {r} : pc'[x] = pc[x] /\ on'[x] = on[x] /\ source'[x] = source[x]
    BY <2>1, <2>3 DEF TypeOK
  <2>5. CASE source[r] = "redis" /\ doc' = Settled(r) /\ l = IF on[r] = day THEN "done" ELSE "unsettled"
    <3>1. doc[on[r]].of \subseteq doc'[on[r]].of /\ (on[r] = day => r \in doc'[on[r]].of)
      <4>1. doc'[on[r]] = IF on[r] = day THEN Plus(doc[day], r) ELSE doc[on[r]]
        BY <1>k, <2>5 DEF TypeOK, Settled
      <4> QED BY <4>1 DEF Plus
    <3>2. KeptOf(r)'
      BY <2>1, <2>2, <2>3, <2>5, <3>1 DEF KeptOf, Holding, TypeOK
    <3> QED BY <1>5, <2>1, <2>4, <2>5, <3>2 DEF Settled
  <2>6. CASE UNCHANGED doc /\ l = "unsettled"
    BY <2>1, <2>2, <2>3, <2>6, KeptMoved
  <2>7. CASE source[r] = "mongo" /\ UNCHANGED doc
    <3> SUFFICES ASSUME NEW x \in Requests PROVE KeptOf(x)'
      BY DEF Kept
    <3>1. CASE x # r
      BY <1>k, <2>1, <2>4, <2>7, <3>1, KeptOther
    <3>2. CASE x = r
      BY <2>1, <2>2, <2>3, <2>7, <3>2 DEF KeptOf, Holding, TypeOK
    <3> QED BY <3>1, <3>2
  <2> QED BY <1>7, <2>3, <2>5, <2>6, <2>7 DEF Settle, Goto, TypeOK
<1>8. ASSUME NEW r \in Requests, GiveBack(r) PROVE Kept'
  <2>1. /\ UNCHANGED <<on, source, sent, forgotten>> /\ day \in Days /\ KeptOf(r) /\ pc[r] = "giveBack"
        /\ pc' = [pc EXCEPT ![r] = "failed"] /\ Holding(r)
    BY <1>k, <1>8 DEF GiveBack, Goto, TypeOK, Holding
  <2>2. CASE UNCHANGED <<key, doc, returned, overlooked>>
    <3>1. PICK l \in {"failed"} : pc' = [pc EXCEPT ![r] = l]
      BY <2>1
    <3> QED BY <2>1, <2>2, <3>1, KeptMoved
  <2>3. ASSUME returned' = returned \cup {r} PROVE KeptOf(r)'
    <3>1. source[r] \in {"redis", "mongo"} /\ r \in returned' /\ pc'[r] = "failed"
      BY <2>1, <2>3 DEF KeptOf, TypeOK
    <3> QED BY <2>1, <3>1 DEF KeptOf
  <2>4. ASSUME NEW x \in Requests \ {r} PROVE KeptOf(x) /\ on[x] \in Days /\ pc'[x] = pc[x]
    BY <1>k, <2>1 DEF TypeOK
  <2>5. CASE /\ key' = [key EXCEPT ![day] = Minus(@, r)] /\ UNCHANGED doc
             /\ IF key[day].there THEN UNCHANGED overlooked ELSE Made(day, Empty)
             /\ returned' = returned \cup {r}
    <3> SUFFICES ASSUME NEW x \in Requests \ {r} PROVE KeptOf(x)'
      BY <2>3, <2>5 DEF Kept
    <3>1. overlooked \subseteq overlooked' /\ (~key[day].there => doc[day].of \subseteq overlooked')
      BY <2>5 DEF Made, Empty
    <3>2. key'[on[x]] = IF on[x] = day THEN Minus(key[day], r) ELSE key[on[x]]
      BY <2>4, <2>5 DEF TypeOK
    <3>3. CASE on[x] = day
      <4>1. key'[on[x]].of = key[day].of \ {r}
        BY <3>2, <3>3 DEF Minus
      <4> QED BY <2>1, <2>4, <2>5, <3>1, <3>3, <4>1, KeptOther
    <3>4. CASE on[x] # day
      BY <2>1, <2>4, <2>5, <3>1, <3>2, <3>4, KeptOther
    <3> QED BY <3>3, <3>4
  <2>6. CASE /\ doc' = [doc EXCEPT ![day] = Minus(@, r)] /\ UNCHANGED <<key, overlooked>>
             /\ returned' = returned \cup {r}
    <3> SUFFICES ASSUME NEW x \in Requests \ {r} PROVE KeptOf(x)'
      BY <2>3, <2>6 DEF Kept
    <3>1. x \in doc[on[x]].of => x \in doc'[on[x]].of
      <4>1. doc'[on[x]] = IF on[x] = day THEN Minus(doc[day], r) ELSE doc[on[x]]
        BY <2>4, <2>6 DEF TypeOK
      <4> QED BY <4>1 DEF Minus
    <3> QED BY <2>1, <2>4, <2>6, <3>1, KeptOther
  <2> QED BY <1>8, <2>2, <2>5, <2>6 DEF GiveBack
<1>9. ASSUME NEW r \in Requests, MongoError(r) PROVE Kept'
  <2>1. /\ UNCHANGED <<key, on, source, sent, returned, forgotten, overlooked>>
        /\ pc[r] \in {"read", "mongo"} /\ pc' = [pc EXCEPT ![r] = "failed"] /\ r \notin sent
    BY <1>9 DEF MongoError, Goto, ghosts, InOrder, Late
  <2>2. CASE UNCHANGED doc
    <3>1. PICK l \in {"failed"} : pc' = [pc EXCEPT ![r] = l]
      BY <2>1
    <3> QED BY <2>1, <2>2, <3>1, KeptMoved
  <2>3. CASE doc' = [doc EXCEPT ![day] = Plus(@, r)]
    <3>1. \A x \in Requests \ {r} : pc'[x] = pc[x] /\ on'[x] = on[x] /\ source'[x] = source[x]
      BY <2>1 DEF TypeOK
    <3>2. KeptOf(r)'
      BY <2>1 DEF KeptOf, Holding, TypeOK
    <3> QED BY <1>5, <2>1, <2>3, <3>1, <3>2
  <2> QED BY <1>9, <2>2, <2>3 DEF MongoError
<1>10. ASSUME NEW ds \in SUBSET Days, KeysGo(ds),
              UNCHANGED <<doc, pc, on, source, sent, returned, overlooked>>
       PROVE  Kept'
  <2> SUFFICES ASSUME NEW x \in Requests PROVE KeptOf(x)'
    BY DEF Kept
  <2>1. KeptOf(x) /\ on[x] \in Days
    BY <1>k
  <2>2. forgotten \subseteq forgotten'
    BY <1>10 DEF KeysGo
  <2>3. CASE on[x] \in ds
    <3>1. key'[on[x]] = Empty
      BY <1>10, <2>1, <2>3 DEF KeysGo
    <3>2. ASSUME x \in key[on[x]].of, x \notin doc[on[x]].of PROVE x \in forgotten'
      <4>1. pc[x] # "done"
        BY <2>1, <3>2 DEF KeptOf
      <4> QED BY <1>10, <2>3, <3>2, <4>1 DEF KeysGo
    <3> QED BY <1>10, <2>1, <2>2, <3>1, <3>2, KeptOther DEF Empty
  <2>4. CASE on[x] \notin ds
    <3>1. key'[on[x]] = key[on[x]]
      BY <1>10, <2>1, <2>4 DEF KeysGo
    <3> QED BY <1>10, <2>1, <2>2, <3>1, KeptOther
  <2> QED BY <2>3, <2>4
<1>11. ASSUME UNCHANGED <<key, doc, pc, on, source, sent, returned, forgotten, overlooked>> PROVE Kept'
  BY <1>11 DEF Kept, KeptOf, Holding
<1>12. ASSUME FlightEnds \/ Outage \/ Ready \/ Midnight PROVE Kept'
  BY <1>11, <1>12 DEF FlightEnds, Outage, Ready, Midnight, ghosts
<1>13. ASSUME Purge PROVE Kept'
  BY <1>10, <1>11, <1>13 DEF Purge
<1>14. ASSUME KeyGoes PROVE Kept'
  BY <1>10, <1>14 DEF KeyGoes
<1>15. CASE UNCHANGED vars
  BY <1>11, <1>15 DEF vars
<1> QED
  BY <1>1, <1>2, <1>3, <1>4, <1>6, <1>7, <1>8, <1>9, <1>12, <1>13, <1>14, <1>15 DEF Next, Step

\* A counter that lets r through misses no one without a cause.
LEMMA ExcessLetThrough ==
  ASSUME IInv, NEW r \in Requests, NEW s \in {"redis", "mongo"}, NEW d \in Days, NEW c,
         LetThrough(r, s, d, c), pc[r] \in Early, UNCHANGED <<returned, forgotten, debts>>,
         overlooked \subseteq overlooked', \A x \in Requests \ {r} : on'[x] = on[x],
         \A x \in Live(d) \ c.of : source[x] = s => x \in forgotten' \cup overlooked' \cup returned'
  PROVE  ExcessForCause'
<1> USE DEF IInv
<1>1. ASSUME NEW q \in Requests, NEW x \in Requests, <<q, x>> \in missed'
      PROVE  source'[q] # source'[x] \/ x \in forgotten' \cup overlooked' \cup returned'
  <2>1. source' = [source EXCEPT ![r] = s] /\ r \notin Live(d)
    BY DEF LetThrough, Live, InOrder, Early, Late
  <2>2. CASE <<q, x>> \in missed
    <3>1. q # r /\ x # r
      BY <2>2 DEF InOrder
    <3>2. source'[q] = source[q] /\ source'[x] = source[x]
      BY <2>1, <3>1 DEF TypeOK
    <3> QED BY <2>2, <3>2 DEF ExcessForCause
  <2>3. CASE q = r /\ x \in Live(d) \ c.of
    <3>1. source'[r] = s /\ source'[x] = source[x]
      BY <2>1, <2>3 DEF TypeOK
    <3> QED BY <2>3, <3>1
  <2> QED BY <1>1, <2>2, <2>3 DEF LetThrough
<1>2. ASSUME NEW e \in Days, NEW x \in debts'[e]
      PROVE  on'[x] # e \/ x \in forgotten' \cup overlooked'
  <2>1. x \in Requests /\ x \in Debts
    BY <1>2 DEF TypeOK, Debts
  <2>2. x # r
    BY <2>1 DEF InOrder, Early
  <2> QED BY <1>2, <2>1, <2>2 DEF ExcessForCause
<1> QED BY <1>1, <1>2 DEF ExcessForCause

\* Every step keeps a cause for every excess.
LEMMA ExcessStep ==
  ASSUME IInv, [Next]_vars
  PROVE  ExcessForCause'
<1> USE DEF IInv
<1>1. ASSUME UNCHANGED <<missed, debts, source>>, returned \subseteq returned',
             forgotten \subseteq forgotten', overlooked \subseteq overlooked',
             \A x \in Requests : pc[x] = "failed" => on'[x] = on[x]
      PROVE  ExcessForCause'
  <2>1. ASSUME NEW e \in Days, NEW x \in debts'[e]
        PROVE  on'[x] # e \/ x \in forgotten' \cup overlooked'
    <3>1. x \in Requests /\ pc[x] = "failed"
      BY <1>1, <2>1 DEF TypeOK, Debts, InOrder
    <3> QED BY <1>1, <2>1, <3>1 DEF ExcessForCause
  <2> QED BY <1>1, <2>1 DEF ExcessForCause
<1>2. ASSUME NEW r \in Requests, Enforce(r) PROVE ExcessForCause'
  <2>1. \A x \in Requests : pc[x] = "failed" => on'[x] = on[x]
    BY <1>2 DEF Enforce, TypeOK
  <2> QED BY <1>1, <1>2, <2>1 DEF Enforce, ghosts
<1>3. ASSUME NEW r \in Requests,
             Look(r) \/ ReadSeed(r) \/ Confirm(r) \/ CheckHour(r) \/ Send(r) \/ Abort(r)
             \/ Settle(r) \/ MongoError(r) \/ Crash(r)
      PROVE  ExcessForCause'
  BY <1>1, <1>3 DEF Look, ReadSeed, Confirm, CheckHour, Send, Abort, Settle, MongoError, Crash, ghosts
<1>4. ASSUME NEW r \in Requests, SetSeed(r) PROVE ExcessForCause'
  BY <1>1, <1>4 DEF SetSeed, Made
<1>5. ASSUME NEW r \in Requests, Reserve(r) PROVE ExcessForCause'
  <2> DEFINE d == on[r]
  <2>1. pc[r] = "reserve" /\ d \in Days /\ UNCHANGED <<on, returned, forgotten, debts>>
    BY <1>5 DEF Reserve, TypeOK
  <2>2. overlooked \subseteq overlooked'
    BY <1>5 DEF Reserve, Made
  <2>3. CASE UNCHANGED <<source, missed>>
    BY <1>1, <2>1, <2>2, <2>3
  <2>4. CASE LetThrough(r, "redis", d, key[d])
             /\ IF key[d].there THEN UNCHANGED overlooked ELSE Made(d, Empty)
    <3>1. ASSUME NEW x \in Live(d) \ key[d].of, source[x] = "redis"
          PROVE  x \in forgotten' \cup overlooked' \cup returned'
      <4>1. x \in Requests /\ on[x] = d /\ Holding(x) /\ x \notin key[d].of
        BY <3>1 DEF Live, Holding
      <4>2. \/ x \in returned \cup forgotten \cup overlooked
            \/ ~key[d].there /\ x \in doc[d].of
        BY <3>1, <4>1 DEF Kept, KeptOf
      <4> QED BY <2>1, <2>2, <2>4, <4>2 DEF Made, Empty
    <3> QED BY <2>1, <2>2, <2>4, <3>1, ExcessLetThrough DEF Early
  <2> QED BY <1>5, <2>3, <2>4 DEF Reserve
<1>6. ASSUME NEW r \in Requests, ReserveInMongo(r) PROVE ExcessForCause'
  <2>1. pc[r] = "mongo" /\ day \in Days /\ UNCHANGED <<returned, forgotten, overlooked, debts>>
    BY <1>6 DEF ReserveInMongo, TypeOK
  <2>2. CASE UNCHANGED <<source, missed, on>>
    BY <1>1, <2>1, <2>2
  <2>3. CASE LetThrough(r, "mongo", day, doc[day]) /\ on' = [on EXCEPT ![r] = day]
    <3>1. ASSUME NEW x \in Live(day) \ doc[day].of, source[x] = "mongo"
          PROVE  x \in forgotten' \cup overlooked' \cup returned'
      <4>1. x \in Requests /\ on[x] = day /\ Holding(x) /\ x \notin doc[day].of
        BY <3>1 DEF Live, Holding
      <4>2. x \in returned
        BY <3>1, <4>1 DEF Kept, KeptOf
      <4> QED BY <2>1, <4>2
    <3>2. \A x \in Requests \ {r} : on'[x] = on[x]
      BY <2>3 DEF TypeOK
    <3> QED BY <2>1, <2>3, <3>1, <3>2, ExcessLetThrough DEF Early
  <2> QED BY <1>6, <2>2, <2>3 DEF ReserveInMongo
<1>7. ASSUME NEW r \in Requests, GiveBack(r) PROVE ExcessForCause'
  <2>1. /\ pc[r] = "giveBack" /\ day \in Days /\ UNCHANGED <<missed, source, on, forgotten>>
        /\ returned \subseteq returned' /\ overlooked \subseteq overlooked'
    BY <1>7 DEF GiveBack, Made, TypeOK
  <2>2. KeptOf(r) /\ Holding(r) /\ r \notin returned
    BY <2>1 DEF Kept, Holding, InOrder
  <2>3. ASSUME NEW e \in Days, NEW x \in debts'[e]
        PROVE  on'[x] # e \/ x \in forgotten' \cup overlooked'
    <3>1. CASE x \in debts[e]
      BY <2>1, <3>1 DEF ExcessForCause
    <3>2. CASE x \notin debts[e]
      <4>1. x = r /\ e = day
        BY <1>7, <2>3, <3>2 DEF GiveBack, Owed, TypeOK
      <4>2. SUFFICES ASSUME on[r] = day PROVE r \in forgotten' \cup overlooked'
        BY <2>1, <4>1
      <4>3. CASE /\ source[r] = "redis" /\ Owed(r, key[day])
                 /\ IF key[day].there THEN UNCHANGED overlooked ELSE Made(day, Empty)
        <5>1. r \notin key[day].of
          BY <2>3, <3>2, <4>1, <4>3 DEF Owed
        <5>2. r \in forgotten \cup overlooked \/ (~key[day].there /\ r \in doc[day].of)
          BY <2>2, <4>2, <4>3, <5>1 DEF KeptOf
        <5> QED BY <2>1, <4>3, <5>2 DEF Made, Empty
      <4>4. CASE source[r] = "mongo" /\ Owed(r, doc[day])
        <5>1. r \notin doc[day].of
          BY <2>3, <3>2, <4>1, <4>4 DEF Owed
        <5> QED BY <2>2, <4>2, <4>4, <5>1 DEF KeptOf
      <4> QED BY <1>7, <2>3, <3>2, <4>3, <4>4 DEF GiveBack
    <3> QED BY <3>1, <3>2
  <2> QED BY <2>1, <2>3 DEF ExcessForCause
<1>8. ASSUME FlightEnds \/ Outage \/ Ready \/ Midnight PROVE ExcessForCause'
  BY <1>1, <1>8 DEF FlightEnds, Outage, Ready, Midnight, ghosts
<1>9. ASSUME Purge \/ KeyGoes PROVE ExcessForCause'
  BY <1>1, <1>9 DEF Purge, KeyGoes, KeysGo
<1>10. CASE UNCHANGED vars
  BY <1>1, <1>10 DEF vars
<1> QED BY <1>2, <1>3, <1>4, <1>5, <1>6, <1>7, <1>8, <1>9, <1>10 DEF Next, Step

-----------------------------------------------------------------------------
(* The properties.                                                         *)

LEMMA InitInv == Init => IInv
<1> SUFFICES ASSUME Init PROVE IInv
  OBVIOUS
<1>1. Empty \in Counter /\ 1 \in Days
  BY AmountAssumption DEF Empty, Counter, Days
<1>2. TypeOK
  BY <1>1 DEF Init, TypeOK, Labels
<1>3. Debts = {} /\ Unknown = {} /\ \A d \in Days : Live(d) = {}
  BY DEF Init, Debts, Unknown, Live
<1>4. Worth({}) = 0
  BY WorthNat
<1>5. CountersSound
  <2>1. Sound(Empty, Worth(Debts))
    BY <1>3, <1>4, SoundEmpty
  <2> QED BY <2>1 DEF Init, CountersSound
<1>6. Room
  <2> SUFFICES ASSUME NEW d \in Days
               PROVE  Worth(Live(d)) <= DailyLimit + Worth(Live(d) \cap Unknown) + Worth(Debts)
    BY DEF Room
  <2>1. Live(d) = {} /\ Live(d) \cap Unknown = {} /\ Debts = {}
    BY <1>3
  <2>2. Worth(Live(d)) = 0 /\ Worth(Live(d) \cap Unknown) = 0 /\ Worth(Debts) = 0
    BY <1>4, <2>1
  <2> QED BY <2>2, AmountAssumption
<1>7. InOrder /\ Kept /\ ExcessForCause
  BY <1>3 DEF Init, InOrder, Kept, KeptOf, Holding, ExcessForCause
<1> QED BY <1>2, <1>5, <1>6, <1>7 DEF IInv

\* The invariant is inductive.
THEOREM Inductive == Spec => []IInv
<1>1. IInv /\ [Next]_vars => IInv'
  BY TypeStep, CountersStep, OrderStep, RoomStep, KeptStep, ExcessStep DEF IInv
<1> QED BY InitInv, <1>1, PTL DEF Spec

\* Every variable has its type.
THEOREM TypesHold == Spec => []TypeOK
<1>1. IInv => TypeOK
  BY DEF IInv
<1> QED BY Inductive, <1>1, PTL

\* A sender gets no more out on a day than the limit, what a counter did not
\* know when it let another through, and what was taken off a counter that had
\* never had it.  The counter that let q through did not know r only if the two
\* reserved in different stores, if Redis lost r before it was settled, if the
\* key was made of an older count, or if r's reservation was given back; and a
\* reservation is taken off a counter that never had it only on another day or
\* after a loss.
THEOREM DayHasALimit == Spec => []LimitHolds
<1>1. ASSUME IInv, NEW d \in Days PROVE WithinBound(d)
  <2> SUFFICES Worth(SentOn(d)) <= DailyLimit + Worth(MissedOn(d)) + Worth(Debts)
    BY DEF WithinBound
  <2>1. /\ Live(d) \in SUBSET Requests /\ SentOn(d) \in SUBSET Live(d) /\ SentOn(d) \in SUBSET Requests
        /\ Unknown \in SUBSET Requests /\ MissedOn(d) = SentOn(d) \cap Unknown
    BY <1>1 DEF Live, SentOn, Unknown, MissedOn, IInv, TypeOK
  <2>2. Worth(Debts) \in Nat /\ DailyLimit \in Nat
    BY <1>1, DebtsType, AmountAssumption DEF IInv
  <2>3. Worth(Live(d)) <= (DailyLimit + Worth(Debts)) + Worth(Live(d) \cap Unknown)
    <3>1. Worth(Live(d)) \in Nat /\ Worth(Live(d) \cap Unknown) \in Nat
      BY <2>1, WorthNat
    <3>2. Worth(Live(d)) <= DailyLimit + Worth(Live(d) \cap Unknown) + Worth(Debts)
      BY <1>1 DEF IInv, Room
    <3> QED BY <2>2, <3>1, <3>2
  <2>4. Worth(SentOn(d)) <= (DailyLimit + Worth(Debts)) + Worth(MissedOn(d))
    <3>1. DailyLimit + Worth(Debts) \in Int
      BY <2>2
    <3>2. Worth(SentOn(d)) <= (DailyLimit + Worth(Debts)) + Worth(SentOn(d) \cap Unknown)
      BY <2>1, <2>3, <3>1, BoundOfPart
    <3> QED BY <2>1, <3>2
  <2>5. Worth(SentOn(d)) \in Nat /\ Worth(MissedOn(d)) \in Nat
    BY <2>1, WorthNat DEF MissedOn
  <2> QED BY <2>2, <2>4, <2>5
<1>2. IInv => ExcessForCause
  BY DEF IInv
<1>3. IInv => LimitHolds
  BY <1>1, <1>2 DEF LimitHolds
<1> QED BY Inductive, <1>3, PTL
=============================================================================
