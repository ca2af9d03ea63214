------------------------------ MODULE Sessions ------------------------------
(***************************************************************************)
(* Sessions of one user: login, the rotation of refresh tokens, logout and *)
(* the other revocations, a change of the password, and requireAuth.       *)
(* MongoDB decides; Redis holds copies of what it says (which tokens are   *)
(* current, blacklisted, confirmed; the version of the password), written  *)
(* as best they can be and in no transaction with it.                      *)
(*                                                                         *)
(* A job is one request, a coroutine that gives way at each await.  Tokens *)
(* come in pairs, an access token and the refresh token issued with it;    *)
(* a pair is named for the job that issued it, or for its device if it was *)
(* there at the start.                                                     *)
(***************************************************************************)
EXTENDS Integers, FiniteSets

CONSTANTS
    Devices,     \* browsers of the user
    Tabs,        \* tabs of these browsers
    Jobs,        \* slots for the requests of one behaviour
    Requests,    \* what may be asked
    Request,     \* its kind and parameters
    Workloads,   \* which requests come together, with which faults
    MaxAttempts, \* failures that lock: 5 in getLockTime
    MaxPerHour,  \* codes of one purpose an hour: 3 or 5 in OTPConfigs
    MaxOutages,  \* bound: how often Redis fails in one behaviour
    NoToken

Tokens == Jobs \cup Devices
Kinds == {"idle", "api", "refresh", "login", "logout", "logoutAll", "killOthers",
          "kill", "changePassword", "rehydrate", "createCode", "confirmReset",
          "verifyEmail", "resetPassword", "setupPin", "pin", "changePin", "resetPin"}
Purposes == {"password", "email", "pinReset", "pinChange"}
Faults == {"redis", "lost", "clock", "mail"}
Locks == {"none", "locked", "expired"}

ASSUME TokenAssumption ==
    /\ Jobs \cap Devices = {}
    /\ NoToken \notin Tokens
    /\ MaxAttempts \in Nat \ {0} /\ MaxPerHour \in Nat \ {0} /\ MaxOutages \in Nat
ASSUME RequestAssumption ==
    \A r \in Requests :
        /\ Request[r].kind \in Kinds
        /\ Request[r].tab \in Tabs
        /\ Request[r].device \in Devices
        /\ Request[r].target \in Devices
        /\ Request[r].knows \in Nat
        /\ Request[r].code \in Jobs \cup {NoToken}
        /\ Request[r].kind = "resetPassword" => Request[r].code \in Jobs
        /\ Request[r].purpose \in Purposes

\* The refresh and the retry of a call have slots of their own, asked for by
\* nobody else.
Slots(w, c) == {w.calls[c][1], w.calls[c][2]}
SlotsApart(w) ==
    \A c \in DOMAIN w.calls :
        /\ w.calls[c][1] # w.calls[c][2]
        /\ Slots(w, c) \subseteq w.later \ DOMAIN w.calls
        /\ \A j \in Slots(w, c) : Request[w.asks[j]].kind # "rehydrate"
        /\ \A e \in DOMAIN w.calls \ {c} : Slots(w, c) \cap Slots(w, e) = {}

ASSUME WorkloadAssumption ==
    \A w \in Workloads :
        /\ w.asks \in [Jobs -> Requests]
        /\ w.later \subseteq Jobs
        /\ w.signedIn \subseteq Devices
        /\ w.open \in [Tabs -> Devices \cup {NoToken}]
        /\ DOMAIN w.calls \subseteq Jobs
        /\ \A c \in DOMAIN w.calls : w.calls[c] \in Jobs \X Jobs
        /\ SlotsApart(w)
        /\ w.pin \in Nat
        /\ w.rehydrated \in BOOLEAN
        /\ w.faults \subseteq Faults

VARIABLES
    workload,   \* the request of each job, and the faults there may be
    pc,         \* where each job is
    carried,    \* the token each request carries
    mem,        \* what each request has read and still uses
    minted,     \* the password version each access token is bound to
    user,       \* the user document: password version, failures, lock
    dirty,      \* jobs for which the user document has changed since read
    sessions,   \* the session document of each device
    redis,      \* the keys of Redis
    cookie,     \* the refresh token in each browser's cookie
    access,     \* the access token each tab holds
    log         \* what the properties remember of the past

client == <<cookie, access>>
db == <<user, dirty, sessions>>

Job(j) == Request[workload.asks[j]]
Dev(j) == Job(j).device
Kind(j) == Job(j).kind
At(j, l) == pc[j] = l
Goto(j, l) == pc' = [pc EXCEPT ![j] = l]
Replies == {"ok", "400", "401", "404", "429", "500", "lost"}
Ended == Replies \cup {"start", "later"}
May(fault) == fault \in workload.faults

NoVersion == -1

\* Redis knows of the sessions, or it has just been rehydrated and only the
\* confirmations of a moment ago are left.
SessionsInit ==
    /\ workload \in Workloads
    /\ pc = [j \in Jobs |-> IF j \in workload.later THEN "later" ELSE "start"]
    /\ carried = [j \in Jobs |-> NoToken]
    /\ mem = [j \in Jobs |-> [version |-> 0, failed |-> 0, found |-> {},
                              up |-> FALSE, outages |-> 0]]
    /\ minted = [t \in Tokens |-> 0]
    /\ user = [version |-> 0, failed |-> 0, lock |-> "none"]
    /\ dirty = {}
    /\ sessions = [d \in Devices |->
                     IF d \in workload.signedIn
                     THEN [active |-> TRUE, token |-> d]
                     ELSE [active |-> FALSE, token |-> NoToken]]
    /\ redis = [up |-> TRUE, ready |-> TRUE, outages |-> 0,
                payloads |-> workload.signedIn,
                latest |-> [d \in Devices |-> sessions[d].token],
                jti |-> [d \in Devices |-> IF workload.rehydrated THEN NoToken
                                           ELSE sessions[d].token],
                devices |-> workload.signedIn,
                pwdver |-> IF workload.rehydrated THEN NoVersion ELSE 0,
                confirmed |-> IF workload.rehydrated THEN workload.signedIn ELSE {},
                black |-> {}, rotated |-> {}, retiring |-> {}]
    /\ cookie = [d \in Devices |-> sessions[d].token]
    /\ access = workload.open
    /\ log = [exchanged |-> {}, reuse |-> {}, unmarked |-> {}, gone |-> {},
              replaced |-> {}, late |-> {}, admitted |-> {}, blind |-> {}]

\* redis.execute: every command runs inside the circuit breaker, and a failure
\* is answered by the fallback, never thrown.  ready: the connection is there;
\* up: commands get through, for which the breaker has to be closed as well.
Redis(r) == redis' = IF redis.up THEN r ELSE redis
Active(t) == \E d \in Devices : sessions[d] = [active |-> TRUE, token |-> t]

\* A user document read, and written whatever it has become since.
ReadsUser(j) == dirty' = dirty \ {j}
WritesUser(j, u) ==
    /\ user' = u
    /\ dirty' = dirty \cup (Jobs \ {j})

-----------------------------------------------------------------------------
(* A request is sent with the cookie of the browser or the token of a tab. *)

WithCookie == {"refresh", "logout"}
WithAccess == {"api", "logoutAll", "killOthers", "kill", "changePassword"}

\* Every command of the rehydration j has got through, and so has every other
\* one since it began.
Whole(j) == mem[j].up /\ mem[j].outages = redis.outages

\* What was skipped while Redis failed has been made good.
Rehydrated ==
    \/ redis.outages = 0
    \/ \E j \in Jobs : Kind(j) = "rehydrate" /\ At(j, "ok") /\ Whole(j)

\* Tokens of revoked sessions that the blacklist should know of by now: Redis
\* has never failed, or it has been rebuilt from the session documents and
\* no login has replaced the one that held the token.
BlacklistDue(t) ==
    /\ t \in log.gone
    /\ \/ redis.outages = 0
       \/ Rehydrated /\ \E d \in Devices : sessions[d] = [active |-> FALSE, token |-> t]

Send(j) ==
    LET t == IF Kind(j) \in WithCookie THEN cookie[Dev(j)] ELSE access[Job(j).tab] IN
    /\ At(j, "start")
    /\ Kind(j) \in WithCookie \cup WithAccess
    /\ carried' = [carried EXCEPT ![j] = t]
    /\ log' = [log EXCEPT !.late = IF BlacklistDue(t) THEN @ \cup {j} ELSE @]
    /\ Goto(j, IF t # NoToken
               THEN IF Kind(j) \in WithCookie THEN "verify" ELSE "cache"
               ELSE CASE Kind(j) = "refresh" -> "400"
                      [] Kind(j) = "logout" -> "ok"
                      [] OTHER -> "401")
    /\ UNCHANGED <<workload, mem, minted, db, redis, client>>

\* verifyRefreshToken: the payload in Redis or else the session in Mongo.
Verified(j) == IF Kind(j) = "refresh" THEN "session" ELSE "logoutFind"

VerifyCached(j) ==
    /\ At(j, "verify")
    /\ Goto(j, IF redis.up /\ carried[j] \in redis.payloads
               THEN Verified(j) ELSE "verifyMongo")
    /\ UNCHANGED <<workload, carried, mem, minted, db, redis, client, log>>

VerifyMongo(j) ==
    /\ At(j, "verifyMongo")
    /\ Goto(j, IF Active(carried[j]) THEN "verifyStore" ELSE "401")
    /\ UNCHANGED <<workload, carried, mem, minted, db, redis, client, log>>

\* storeRefreshToken.
Stored(d, t) ==
    Redis([redis EXCEPT !.payloads = @ \cup {t}, !.latest[d] = t,
                        !.devices = @ \cup {d}])

VerifyStore(j) ==
    /\ At(j, "verifyStore")
    /\ Stored(Dev(j), carried[j])
    /\ Goto(j, Verified(j))
    /\ UNCHANGED <<workload, carried, mem, minted, db, client, log>>

-----------------------------------------------------------------------------
(* refreshToken.                                                           *)

RefreshSession(j) ==
    LET s == sessions[Dev(j)] IN
    /\ At(j, "session")
    /\ Goto(j, IF ~s.active THEN "401"
               ELSE IF s.token # carried[j] THEN "marker" ELSE "user")
    /\ UNCHANGED <<workload, carried, mem, minted, db, redis, client, log>>

\* Another request has rotated the token.  The marker tells a harmless race
\* from reuse, which signs the user out everywhere; without Redis nobody can.
RefreshMarker(j) ==
    LET reuse == redis.up /\ carried[j] \notin redis.rotated IN
    /\ At(j, "marker")
    /\ log' = [log EXCEPT !.reuse = IF reuse THEN @ \cup {j} ELSE @]
    /\ Goto(j, IF reuse THEN "revokeFind" ELSE "401")
    /\ UNCHANGED <<workload, carried, mem, minted, db, redis, client>>

RefreshUser(j) ==
    /\ At(j, "user")
    /\ mem' = [mem EXCEPT ![j].version = user.version]
    /\ ReadsUser(j)
    /\ Goto(j, "mark")
    /\ UNCHANGED <<workload, carried, minted, user, sessions, redis, client, log>>

\* mutant: the marker is forgotten
RefreshMark_Not(j) ==
    /\ At(j, "mark")
    /\ Goto(j, "issue")
    /\ UNCHANGED <<workload, carried, mem, minted, db, redis, client, log>>

RefreshMark(j) ==
    /\ At(j, "mark")
    /\ Redis([redis EXCEPT !.rotated = @ \cup {carried[j]}])
    /\ log' = [log EXCEPT !.unmarked = IF redis.up THEN @ ELSE @ \cup {carried[j]}]
    /\ Goto(j, "issue")
    /\ UNCHANGED <<workload, carried, mem, minted, db, client>>

\* issueTokensForUser, for a refresh, a login or a verified email.
Issue(j) ==
    /\ At(j, "issue")
    /\ minted' = [minted EXCEPT ![j] = mem[j].version]
    /\ Stored(Dev(j), j)
    /\ Goto(j, IF Kind(j) = "refresh" THEN "rotate" ELSE "createSession")
    /\ UNCHANGED <<workload, carried, mem, db, client, log>>

\* mutant: any active session of the device is rotated
Rotates_Any(j) == sessions[Dev(j)].active

\* The filter of the update: the session still has the hash that came in.
Rotates(j) == sessions[Dev(j)] = [active |-> TRUE, token |-> carried[j]]

Rotate(j) ==
    /\ At(j, "rotate")
    /\ IF Rotates(j)
       THEN /\ sessions' = [sessions EXCEPT ![Dev(j)].token = j]
            /\ log' = [log EXCEPT !.exchanged = @ \cup {<<carried[j], j>>}]
            /\ Goto(j, "publish")
       ELSE /\ Goto(j, "401")
            /\ UNCHANGED <<sessions, log>>
    /\ UNCHANGED <<workload, carried, mem, minted, user, dirty, redis, client>>

RefreshPublish(j) ==
    /\ At(j, "publish")
    /\ Redis([redis EXCEPT !.latest[Dev(j)] = j, !.jti[Dev(j)] = j])
    /\ Goto(j, "retire")
    /\ UNCHANGED <<workload, carried, mem, minted, db, client, log>>

\* markOldTokenForDeletionAfter: the old payload is given thirty seconds.
RefreshRetire(j) ==
    /\ At(j, "retire")
    /\ Redis([redis EXCEPT !.retiring = @ \cup {carried[j]}])
    /\ Goto(j, "respond")
    /\ UNCHANGED <<workload, carried, mem, minted, db, client, log>>

\* Requests whose answers go through Browser; the others are told here.
Posted == LET C == DOMAIN workload.calls IN
          C \cup UNION {{workload.calls[c][1], workload.calls[c][2]} : c \in C}

Holding(tab, j) == [access EXCEPT ![tab] = j]

\* The answer sets the cookie, and the tab keeps the access token; or it is
\* lost on its way.
Respond(j) ==
    /\ At(j, "respond")
    /\ \/ /\ cookie' = [cookie EXCEPT ![Dev(j)] = j]
          /\ access' = IF j \in Posted THEN access ELSE Holding(Job(j).tab, j)
          /\ Goto(j, "ok")
       \/ /\ May("lost")
          /\ Goto(j, "lost")
          /\ UNCHANGED client
    /\ UNCHANGED <<workload, carried, mem, minted, db, redis, log>>

RefreshStep(j) ==
    \/ VerifyCached(j) \/ VerifyMongo(j) \/ VerifyStore(j)
    \/ RefreshSession(j) \/ RefreshMarker(j) \/ RefreshUser(j) \/ RefreshMark(j)
    \/ Issue(j) \/ Rotate(j) \/ RefreshPublish(j) \/ RefreshRetire(j)
    \/ Respond(j)

-----------------------------------------------------------------------------
(* login.                                                                  *)

\* mutant: the lock is not looked at
Refused_Never(lock) == FALSE

\* lockedUntil is still to come.
Refused(lock) == lock = "locked"

LoginRead(j) ==
    /\ At(j, "start") /\ Kind(j) = "login"
    /\ mem' = [mem EXCEPT ![j].version = user.version, ![j].failed = user.failed]
    /\ ReadsUser(j)
    /\ Goto(j, IF Refused(user.lock) THEN "400"
               ELSE IF Job(j).knows # user.version THEN "loginWrong" ELSE "loginReset")
    /\ UNCHANGED <<workload, carried, minted, user, sessions, redis, client, log>>

\* The count is incremented where it stands, the lock set from what was read.
\* changePassword does the same with a wrong current password.
LockFor(failures) == IF failures >= MaxAttempts THEN "locked" ELSE "none"

WrongPassword(j) ==
    /\ At(j, "loginWrong")
    /\ WritesUser(j, [user EXCEPT !.failed = @ + 1,
                                  !.lock = LockFor(mem[j].failed + 1)])
    /\ Goto(j, "400")
    /\ UNCHANGED <<workload, carried, mem, minted, sessions, redis, client, log>>

\* A new password may turn out to be an old one.
LoginReset(j) ==
    /\ At(j, "loginReset")
    /\ WritesUser(j, [user EXCEPT !.failed = 0, !.lock = "none"])
    /\ \E l \in IF Kind(j) = "login" THEN {"issue"} ELSE {"changeCommit", "400"} : Goto(j, l)
    /\ UNCHANGED <<workload, carried, mem, minted, sessions, redis, client, log>>

\* createMongoSession: one session per device, replaced whatever it was.  A
\* login then seeds Redis without waiting for it.
CreateSession(j) ==
    /\ At(j, "createSession")
    /\ sessions' = [sessions EXCEPT ![Dev(j)] = [active |-> TRUE, token |-> j]]
    /\ log' = [log EXCEPT !.replaced = @ \cup {sessions[Dev(j)].token}]
    /\ Goto(j, IF Kind(j) = "login" THEN "seed" ELSE "respond")
    /\ UNCHANGED <<workload, carried, mem, minted, user, dirty, redis, client>>

\* The answer is given while the seeds are still on their way.
LoginRespond(j) ==
    /\ At(j, "seed")
    /\ cookie' = [cookie EXCEPT ![Dev(j)] = j]
    /\ access' = Holding(Job(j).tab, j)
    /\ Goto(j, "seeding")
    /\ UNCHANGED <<workload, carried, mem, minted, db, redis, log>>

\* Whoever writes the version it has read, after the user's has changed.
BlindlyBy(j) == IF redis.up /\ mem[j].version # user.version THEN {j} ELSE {}

LoginSeed(j) ==
    /\ At(j, "seeding")
    /\ Redis([redis EXCEPT !.jti[Dev(j)] = j, !.pwdver = mem[j].version])
    /\ log' = [log EXCEPT !.blind = @ \cup BlindlyBy(j)]
    /\ Goto(j, "ok")
    /\ UNCHANGED <<workload, carried, mem, minted, db, client>>

LoginStep(j) ==
    \/ LoginRead(j) \/ WrongPassword(j) \/ LoginReset(j)
    \/ CreateSession(j) \/ LoginRespond(j) \/ LoginSeed(j)
=============================================================================
