-------------------------------- MODULE Access --------------------------------
(***************************************************************************)
(* One user's access to the system: the sessions, the credentials and the  *)
(* tabs of the browsers, side by side on one MongoDB and one Redis.        *)
(***************************************************************************)
EXTENDS Credentials, Browser

vars == <<workload, pc, carried, mem, minted, user, dirty, sessions, redis, cookie,
          access, log, credentials, browser>>

Init == SessionsInit /\ CredentialsInit /\ BrowserInit

SessionStep(j) ==
    /\ \/ Send(j) \/ RefreshStep(j) \/ LoginStep(j) \/ AuthStep(j) \/ RevokeStep(j)
       \/ ChangeStep(j) \/ RehydrateStep(j)
    /\ UNCHANGED <<credentials, browser>>

CredentialStep(j) ==
    (CodeStep(j) \/ ResetStep(j) \/ PinStep(j)) /\ UNCHANGED browser

ClientStep(j) == BrowserStep(j) /\ UNCHANGED credentials

Clock ==
    \/ SessionsClock /\ UNCHANGED <<credentials, browser>>
    \/ CredentialsClock /\ UNCHANGED browser

Step(j) == SessionStep(j) \/ CredentialStep(j) \/ ClientStep(j)
Next == Clock \/ \E j \in Jobs : Step(j)

Spec == Init /\ [][Next]_vars

\* A request that can go on does, and a callback that may run is run; nothing
\* is said of outages and clocks.  Every request ends, so that this is fairness to each.
FairSpec == Spec /\ WF_vars(\E j \in Jobs : Step(j))

-----------------------------------------------------------------------------
Token == Tokens \cup {NoToken}
Lock == [version : Nat, failed : Nat, lock : Locks]

\* The state of the services and of the tabs is what the code can write.
TypeOK ==
    /\ workload \in Workloads
    /\ carried \in [Jobs -> Token]
    /\ minted \in [Tokens -> Nat]
    /\ user \in Lock /\ pin \in Lock
    /\ sessions \in [Devices -> [active : BOOLEAN, token : Token]]
    /\ \A d \in Devices : sessions[d].active => sessions[d].token # NoToken
    /\ cookie \in [Devices -> Token] /\ access \in [Tabs -> Token]
    /\ redis.pwdver \in {NoVersion} \cup 0..user.version
    /\ redis.black \cup redis.confirmed \cup redis.rotated \subseteq Tokens
    /\ codes \in [Jobs -> [state : CodeStates, tries : 0..MaxAttempts]]
    /\ recent \cup mailed \subseteq Jobs
    /\ resets \in [Jobs -> {"none", "live", "spent"}]
    /\ call \in [Jobs -> CallStates]
    /\ waits \in [Jobs -> Jobs \cup {NoToken}]
    /\ promise \in [Tabs -> Jobs \cup {NoToken}]

\* A refresh token is exchanged for a new one at most once, however many
\* tabs present it together (refreshToken, the filter of its update).
ExchangedOnce ==
    \A x, y \in log.exchanged : x[1] = y[1] => x[2] = y[2]

\* A token presented twice signs the user out everywhere only if nothing could
\* tell the harmless race: the marker of the rotation was never written or has
\* expired, or the session was replaced by a login (refreshToken, its race).
ReuseForCause ==
    \A j \in log.reuse : carried[j] \in log.unmarked \cup log.replaced

\* A request sent once a revocation had told every copy of the token it found
\* is not let in, and where Redis has failed, not once a rehydration that failed
\* in no command has rebuilt the blacklist, unless a login has replaced the
\* document it is rebuilt from (requireAuth's fast path, revokeSessionFull,
\* rehydrateBlacklistOnRedisReconnect).
RevokedRefused == log.late \cap log.admitted = {}

\* No token of a session that is in use is blacklisted: a revocation of the
\* others spares the device it comes from, whatever rotates meanwhile.
BlacklistedIsDead == \A t \in redis.black : ~Active(t)

\* A revocation keeps out the sessions it found, and only those.
RevocationsHold == RevokedRefused /\ BlacklistedIsDead

\* The version of the password that requireAuth compares with falls behind the
\* user's only while a change is on its way, until a rehydration that failed in
\* no command has made good what Redis missed of it, or where a request wrote
\* the older version it had read.
Changing(j) ==
    /\ Kind(j) \in {"changePassword", "resetPassword"}
    /\ pc[j] \in {"revokeFind", "revokeMark", "revokeBlacklist", "revokePurge",
                  "revokeSpare", "forget"}
PasswordCacheFresh ==
    \/ redis.pwdver \in {NoVersion, user.version}
    \/ \E j \in Jobs : Changing(j)
    \/ ~Rehydrated
    \/ log.blind # {}

\* A lock ends by its time, by a reset of the password or the PIN, or because
\* a request overlapped the failure that set it: never by one that found it
\* (login, changePassword, requirePin, changePin).
Moves(j) == pc'[j] # pc[j]
LockEndsForCause ==
    [][/\ (user.lock = "locked" /\ user'.lock = "none") =>
              \E j \in Jobs : Moves(j) /\ (j \in dirty \/ At(j, "resetCommit"))
       /\ (pin.lock = "locked" /\ pin'.lock = "none") =>
              \E j \in Jobs : Moves(j) /\ (j \in stale \/ At(j, "pinSave"))]_vars

\* A code lets one request through (OTPManager.verify under two requests).
CodeOnce == \A x, y \in acts.used : x[1] = y[1] => x[2] = y[2]

\* A user never has two codes of one purpose to choose from, unless they were
\* created side by side (OTPManager.create deletes, then inserts).
OneLiveCode ==
    \A c, k \in Jobs :
        (c # k /\ k \in Pending(c) /\ c \in Pending(k)) => {c, k} \in acts.overlap

\* A reset that is asked for again after its mail failed is taken for a
\* duplicate only of a code that was sent or is on its way, or of one whose
\* withdrawal failed or whose consumer died over it (resetPasswordProcessor).
DropsForCause ==
    \A x \in acts.dropped : Job(x[1]).purpose = "password" => x[2] \in acts.stuck

\* Codes that were asked for are neither left standing beside a newer one nor
\* dropped when their mail failed, but for these causes.
CodesHold == OneLiveCode /\ DropsForCause

\* A reset token sets one password, and none once the password it was issued
\* for has been changed, unless the change fell between check and commit
\* (resetPassword).
ResetsOnce ==
    /\ \A x, y \in acts.spent : x[1] = y[1] => x[2] = y[2]
    /\ acts.outdated = {}

\* What is made to be used once is: refresh tokens, codes and reset tokens.
SecretsSingleUse == ExchangedOnce /\ CodeOnce /\ ResetsOnce

\* MaxAttempts wrong PINs lock the PIN, unless two requests wrote what they
\* had read side by side (requirePin and changePin set the count, not add).
PinLockHolds == (acts.wrong >= MaxAttempts /\ ~acts.lost) => pin.lock # "none"

\* MAX_PIN_ATTEMPTS as it reads: so many wrong PINs in a row lock the PIN,
\* side by side or one after the other.
MaxPinAttempts == acts.wrong >= MaxAttempts => pin.lock # "none"

\* Every call of the application is answered, retried or given up, unless the
\* refresh it awaits is itself answered with a 401 (the interceptor).
Unanswerable(c) ==
    \E r \in Jobs : /\ r \notin Calls /\ Tab(r) = Tab(c)
                    /\ call[r] = "waits" /\ pc[r] = "401"
CallsSettle ==
    <>[](\A c \in Jobs : call[c] \in Settled \cup {"idle"} \/ Unanswerable(c))
=============================================================================
