----------------------------- MODULE Revocations -----------------------------
(***************************************************************************)
(* requireAuth, and what ends sessions: logout, logout everywhere, killing *)
(* others, a new password, a reused refresh token.  A revocation marks the *)
(* session in MongoDB first and then tells Redis as best it can; a request *)
(* is let in by what Redis says, or by MongoDB where it says nothing.      *)
(***************************************************************************)
EXTENDS Sessions

\* Where a request goes once requireAuth has let it in.
Admitted(j) ==
    CASE Kind(j) = "api" -> "ok"
      [] Kind(j) \in {"logoutAll", "killOthers"} -> "revokeFind"
      [] Kind(j) = "kill" -> "killFind"
      [] Kind(j) = "changePassword" -> "changeRead"

Admit(j) == log' = [log EXCEPT !.admitted = @ \cup {j}]

-----------------------------------------------------------------------------
(* requireAuth.  The four keys are asked for in one go, and so are the     *)
(* session and the user where Redis does not know.                         *)

AuthCache(j) ==
    LET t == carried[j]
        fast == redis.jti[Dev(j)] = t /\ redis.pwdver # NoVersion
        current == redis.pwdver = minted[t]
    IN
    /\ At(j, "cache")
    /\ mem' = [mem EXCEPT ![j].up = redis.up]
    /\ IF redis.up /\ t \notin redis.black /\ fast /\ current /\ t \in redis.confirmed
       THEN Admit(j) /\ Goto(j, Admitted(j))
       ELSE /\ Goto(j, IF redis.up /\ t \in redis.black THEN "401"
                       ELSE IF ~(redis.up /\ fast) THEN "lookup"
                       ELSE IF current THEN "confirm" ELSE "401")
            /\ UNCHANGED log
    /\ UNCHANGED <<workload, carried, minted, db, redis, client>>

AuthConfirm(j) ==
    /\ At(j, "confirm")
    /\ Goto(j, IF Active(carried[j]) THEN "setConfirm" ELSE "401")
    /\ UNCHANGED <<workload, carried, mem, minted, db, redis, client, log>>

\* For two minutes MongoDB is not asked again.
AuthSetConfirm(j) ==
    /\ At(j, "setConfirm")
    /\ Redis([redis EXCEPT !.confirmed = @ \cup {carried[j]}])
    /\ Admit(j)
    /\ Goto(j, Admitted(j))
    /\ UNCHANGED <<workload, carried, mem, minted, db, client>>

AuthLookup(j) ==
    LET passes == Active(carried[j]) /\ user.version = minted[carried[j]] IN
    /\ At(j, "lookup")
    /\ mem' = [mem EXCEPT ![j].version = user.version]
    /\ IF passes /\ ~mem[j].up
       THEN Admit(j) /\ Goto(j, Admitted(j))
       ELSE Goto(j, IF passes THEN "repair" ELSE "401") /\ UNCHANGED log
    /\ UNCHANGED <<workload, carried, minted, db, redis, client>>

\* What was read goes into Redis, whatever has become of it.
AuthRepair(j) ==
    /\ At(j, "repair")
    /\ Redis([redis EXCEPT !.jti[Dev(j)] = carried[j], !.pwdver = mem[j].version])
    /\ log' = [log EXCEPT !.blind = @ \cup BlindlyBy(j), !.admitted = @ \cup {j}]
    /\ Goto(j, Admitted(j))
    /\ UNCHANGED <<workload, carried, mem, minted, db, client>>

AuthStep(j) ==
    \/ AuthCache(j) \/ AuthConfirm(j) \/ AuthSetConfirm(j)
    \/ AuthLookup(j) \/ AuthRepair(j)

-----------------------------------------------------------------------------
(* revokeSessionFull, for a logout or for a session killed elsewhere.      *)

Target(j) == IF Kind(j) = "kill" THEN Job(j).target ELSE Dev(j)
Blacklisted(ts) == Redis([redis EXCEPT !.black = @ \cup ts])

RevokedFind(j) ==
    /\ At(j, "logoutFind") \/ At(j, "killFind")
    /\ LET s == sessions[Target(j)] IN
       /\ mem' = [mem EXCEPT ![j].found = IF s.active THEN {s.token} ELSE {}]
       /\ Goto(j, IF Kind(j) = "kill" /\ ~s.active THEN "404"
                  ELSE IF Kind(j) = "kill" /\ Target(j) = Dev(j) THEN "400"
                  ELSE "endMark")
    /\ UNCHANGED <<workload, carried, minted, db, redis, client, log>>

EndMark(j) ==
    /\ At(j, "endMark")
    /\ sessions' = [sessions EXCEPT ![Target(j)].active = FALSE]
    /\ Goto(j, "endPurge")
    /\ UNCHANGED <<workload, carried, mem, minted, user, dirty, redis, client, log>>

\* The keys of the devices ds go, and the latest refresh tokens with them.
Purged(ds) ==
    [redis EXCEPT !.payloads = @ \ {redis.latest[d] : d \in ds},
                  !.latest = [d \in Devices |-> IF d \in ds THEN NoToken ELSE @[d]],
                  !.jti = [d \in Devices |-> IF d \in ds THEN NoToken ELSE @[d]],
                  !.devices = @ \ ds]

EndPurge(j) ==
    /\ At(j, "endPurge")
    /\ Redis(Purged({Target(j)}))
    /\ Goto(j, "endBlacklist")
    /\ UNCHANGED <<workload, carried, mem, minted, db, client, log>>

\* mutant: the token is left to its cached copies
EndBlacklist_Not(j) ==
    /\ At(j, "endBlacklist")
    /\ log' = [log EXCEPT !.gone = @ \cup mem[j].found]
    /\ Goto(j, IF Kind(j) = "logout" THEN "clearCookie" ELSE "ok")
    /\ UNCHANGED <<workload, carried, mem, minted, db, redis, client>>

EndBlacklist(j) ==
    /\ At(j, "endBlacklist")
    /\ Blacklisted(mem[j].found)
    /\ log' = [log EXCEPT !.gone = @ \cup mem[j].found]
    /\ Goto(j, IF Kind(j) = "logout" THEN "clearCookie" ELSE "ok")
    /\ UNCHANGED <<workload, carried, mem, minted, db, client>>

ClearCookie(j) ==
    /\ At(j, "clearCookie")
    /\ \/ cookie' = [cookie EXCEPT ![Dev(j)] = NoToken] /\ Goto(j, "ok")
       \/ May("lost") /\ Goto(j, "lost") /\ UNCHANGED cookie
    /\ UNCHANGED <<workload, carried, mem, minted, db, redis, access, log>>

-----------------------------------------------------------------------------
(* revokeAllSessionsFull.                                                  *)

\* The device that is spared.
Spared(j) ==
    IF Kind(j) \in {"killOthers", "changePassword"} THEN {Dev(j)} ELSE {}

\* mutant: the session of the device itself is found as well
Found_All(j) == {d \in Devices : sessions[d].active}

Found(j) == {d \in Devices \ Spared(j) : sessions[d].active}

RevokeFind(j) ==
    /\ At(j, "revokeFind")
    /\ mem' = [mem EXCEPT ![j].found = {sessions[d].token : d \in Found(j)}]
    /\ Goto(j, "revokeMark")
    /\ UNCHANGED <<workload, carried, minted, db, redis, client, log>>

RevokeMark(j) ==
    /\ At(j, "revokeMark")
    /\ sessions' = [d \in Devices |->
                      [sessions[d] EXCEPT !.active = @ /\ d \in Spared(j)]]
    /\ Goto(j, "revokeBlacklist")
    /\ UNCHANGED <<workload, carried, mem, minted, user, dirty, redis, client, log>>

\* Those that were found, one after the other.
RevokeBlacklist(j) ==
    /\ At(j, "revokeBlacklist")
    /\ Blacklisted(mem[j].found)
    /\ Goto(j, "revokePurge")
    /\ UNCHANGED <<workload, carried, mem, minted, db, client, log>>

RevokePurge(j) ==
    /\ At(j, "revokePurge")
    /\ Redis(Purged(redis.devices \ Spared(j)))
    /\ Goto(j, "revokeSpare")
    /\ UNCHANGED <<workload, carried, mem, minted, db, client, log>>

RevokeSpare(j) ==
    /\ At(j, "revokeSpare")
    /\ Redis([redis EXCEPT !.devices = @ \cup Spared(j)])
    /\ log' = [log EXCEPT !.gone = @ \cup mem[j].found]
    /\ Goto(j, CASE Kind(j) = "refresh" -> "401"
                 [] Kind(j) = "logoutAll" -> "clearCookie"
                 [] Kind(j) = "killOthers" -> "ok"
                 [] Kind(j) \in {"changePassword", "resetPassword"} -> "forget")
    /\ UNCHANGED <<workload, carried, mem, minted, db, client>>

RevokeStep(j) ==
    \/ RevokedFind(j) \/ EndMark(j) \/ EndPurge(j) \/ EndBlacklist(j)
    \/ ClearCookie(j)
    \/ RevokeFind(j) \/ RevokeMark(j) \/ RevokeBlacklist(j) \/ RevokePurge(j)
    \/ RevokeSpare(j)

-----------------------------------------------------------------------------
(* changePassword.                                                         *)

ChangeRead(j) ==
    /\ At(j, "changeRead")
    /\ mem' = [mem EXCEPT ![j].version = user.version, ![j].failed = user.failed]
    /\ ReadsUser(j)
    /\ Goto(j, IF Refused(user.lock) THEN "400"
               ELSE IF Job(j).knows # user.version THEN "loginWrong" ELSE "loginReset")
    /\ UNCHANGED <<workload, carried, minted, user, sessions, redis, client, log>>

ChangeCommit(j) ==
    /\ At(j, "changeCommit")
    /\ WritesUser(j, [user EXCEPT !.version = @ + 1])
    /\ Goto(j, "revokeFind")
    /\ UNCHANGED <<workload, carried, mem, minted, sessions, redis, client, log>>

\* mutant: the cached version is left to expire
Forget_Not(j) ==
    /\ At(j, "forget")
    /\ Goto(j, IF Kind(j) = "resetPassword" THEN "invalidate" ELSE "ok")
    /\ UNCHANGED <<workload, carried, mem, minted, db, redis, client, log>>

Forget(j) ==
    /\ At(j, "forget")
    /\ Redis([redis EXCEPT !.pwdver = NoVersion])
    /\ Goto(j, IF Kind(j) = "resetPassword" THEN "invalidate" ELSE "ok")
    /\ UNCHANGED <<workload, carried, mem, minted, db, client, log>>

-----------------------------------------------------------------------------
(* Redis fails, and rehydrateBlacklistOnRedisReconnect once it is back.    *)

RedisFails == May("redis") /\ redis.outages < MaxOutages

RedisDown ==
    /\ RedisFails /\ redis.ready
    /\ redis' = [redis EXCEPT !.up = FALSE, !.ready = FALSE, !.outages = @ + 1]
    /\ UNCHANGED <<workload, pc, carried, mem, minted, db, client, log>>

\* Commands time out though the connection stands: one alone, or three on end
\* (of any user, or of the rate limiter) and the breaker opens.
BreakerOpens ==
    /\ RedisFails /\ redis.up
    /\ redis' = [redis EXCEPT !.up = FALSE, !.outages = @ + 1]
    /\ UNCHANGED <<workload, pc, carried, mem, minted, db, client, log>>

\* Fifteen seconds later it is half open, and the next command closes it.
BreakerCloses ==
    /\ redis.ready /\ ~redis.up
    /\ redis' = [redis EXCEPT !.up = TRUE]
    /\ UNCHANGED <<workload, pc, carried, mem, minted, db, client, log>>

\* 'ready': the breaker may still be open from the outage, and the cache is
\* rehydrated whether it is or not.
RedisReady ==
    /\ ~redis.ready
    /\ \E through \in BOOLEAN :
         redis' = [redis EXCEPT !.ready = TRUE, !.up = through]
    /\ pc' = [j \in Jobs |-> IF Kind(j) = "rehydrate" THEN "rehydrate" ELSE pc[j]]
    /\ UNCHANGED <<workload, carried, mem, minted, db, client, log>>

RehydrateFind(j) ==
    /\ At(j, "rehydrate")
    /\ mem' = [mem EXCEPT ![j].found =
                 {sessions[d].token : d \in {e \in Devices : ~sessions[e].active}}
                    \ {NoToken},
               ![j].up = redis.up, ![j].outages = redis.outages]
    /\ Goto(j, "rehydrateBlacklist")
    /\ UNCHANGED <<workload, carried, minted, db, redis, client, log>>

RehydrateBlacklist(j) ==
    /\ At(j, "rehydrateBlacklist")
    /\ Blacklisted(mem[j].found)
    /\ Goto(j, "rehydratePurge")
    /\ UNCHANGED <<workload, carried, mem, minted, db, client, log>>

RehydratePurge(j) ==
    /\ At(j, "rehydratePurge")
    /\ Redis([redis EXCEPT !.pwdver = NoVersion, !.jti = [d \in Devices |-> NoToken]])
    /\ Goto(j, "ok")
    /\ UNCHANGED <<workload, carried, mem, minted, db, client, log>>

ChangeStep(j) == ChangeRead(j) \/ ChangeCommit(j) \/ Forget(j)
RehydrateStep(j) == RehydrateFind(j) \/ RehydrateBlacklist(j) \/ RehydratePurge(j)

-----------------------------------------------------------------------------
(* Time: the marker and the retired payload of a rotated token live for    *)
(* thirty seconds, a confirmation for two minutes, a lock for minutes.     *)

Expire(r) ==
    /\ May("clock")
    /\ redis' = r
    /\ UNCHANGED <<workload, pc, carried, mem, minted, db, client>>

MarkerExpires(t) ==
    /\ t \in redis.rotated
    /\ Expire([redis EXCEPT !.rotated = @ \ {t}])
    /\ log' = [log EXCEPT !.unmarked = @ \cup {t}]

PayloadExpires(t) ==
    /\ t \in redis.retiring \cap redis.payloads
    /\ Expire([redis EXCEPT !.payloads = @ \ {t}])
    /\ UNCHANGED log

ConfirmationExpires(t) ==
    /\ t \in redis.confirmed
    /\ Expire([redis EXCEPT !.confirmed = @ \ {t}])
    /\ UNCHANGED log

LockExpires ==
    /\ May("clock")
    /\ user.lock = "locked"
    /\ user' = [user EXCEPT !.lock = "expired"]
    /\ UNCHANGED <<workload, pc, carried, mem, minted, dirty, sessions, redis,
                   client, log>>

SessionsClock ==
    \/ RedisDown \/ RedisReady \/ BreakerOpens \/ BreakerCloses \/ LockExpires
    \/ \E t \in Tokens :
           MarkerExpires(t) \/ PayloadExpires(t) \/ ConfirmationExpires(t)
=============================================================================
