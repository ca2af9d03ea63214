---------------------------- MODULE AccessProofs ----------------------------
(***************************************************************************)
(* The safety properties of the sessions, the codes, the locks and the     *)
(* tabs, for every number of devices, tabs, requests and attempts. Each    *)
(* follows from a part of the inductive invariant (AccessInvariant). A     *)
(* step is the work of one request, or one in which nobody works (Quiet).  *)
(* The lemmas named ...Frame say whose work writes a variable, the ones    *)
(* named ...Step that a part of the invariant is kept by every step.       *)
(***************************************************************************)
EXTENDS AccessInvariant, TLAPS

-----------------------------------------------------------------------------
(* Types.                                                                  *)

\* What a request asks for is what its kind can ask for.
JobFacts(j) ==
    /\ Kind(j) \in Kinds /\ Job(j).tab \in Tabs /\ Dev(j) \in Devices
    /\ Target(j) \in Devices /\ Typed(j) \in Jobs \cup {NoToken}
    /\ Kind(j) = "resetPassword" => Typed(j) \in Jobs
    /\ NoToken \notin Jobs \cup Devices /\ Jobs \cap Devices = {}

\* What a job is given, from the assumption on workloads.
LEMMA JobType ==
  ASSUME workload \in Workloads, NEW j \in Jobs
  PROVE  JobFacts(j)
BY RequestAssumption, WorkloadAssumption, TokenAssumption
   DEF JobFacts, Job, Kind, Dev, Target, Typed, Tokens

\* The two slots of a call, for its refresh and for its retry, are its own.
LEMMA CallType ==
  ASSUME workload \in Workloads, NEW c \in Calls
  PROVE  /\ c \in Jobs /\ Refresher(c) \in Jobs /\ Retry(c) \in Jobs
         /\ Refresher(c) # Retry(c)
         /\ Refresher(c) \notin Calls /\ Retry(c) \notin Calls
         /\ {Refresher(c), Retry(c)} \subseteq workload.later
         /\ Kind(Refresher(c)) # "rehydrate" /\ Kind(Retry(c)) # "rehydrate"
         /\ \A e \in Calls \ {c} : /\ Refresher(e) # Refresher(c) /\ Refresher(e) # Retry(c)
                                 /\ Retry(e) # Refresher(c) /\ Retry(e) # Retry(c)
<1>1. SlotsApart(workload) /\ c \in Jobs /\ workload.calls[c] \in Jobs \X Jobs
  BY WorkloadAssumption DEF Calls
<1>2. /\ Slots(workload, c) = {Refresher(c), Retry(c)}
      /\ \A e \in Calls : Slots(workload, e) = {Refresher(e), Retry(e)}
  BY DEF Slots, Refresher, Retry
<1>3. Refresher(c) \in Jobs /\ Retry(c) \in Jobs
  BY <1>1 DEF Refresher, Retry
<1> QED BY <1>1, <1>2, <1>3 DEF SlotsApart, Calls, Refresher, Retry, Kind, Job

\* Who is at a step that needs a token carries one.
LEMMA Carrying ==
  ASSUME Located, Carries, NEW j \in Jobs,
         pc[j] \in {"verify", "verifyMongo", "verifyStore", "session", "marker", "user",
                   "mark", "rotate", "publish", "retire"} \cup AuthSteps
  PROVE  carried[j] \in Tokens
<1>1. pc[j] \in {"session", "marker", "user", "mark", "rotate", "publish", "retire"} =>
          Kind(j) = "refresh"
  BY DEF Located, Fits
<1> QED BY <1>1 DEF Carries

\* To end a session is not to touch its token, nor the other sessions.
LEMMA Ending ==
  ASSUME NEW s \in [Devices -> Session], NEW e \in Devices
  PROVE  /\ [s EXCEPT ![e].active = FALSE] \in [Devices -> Session]
         /\ \A d \in Devices :
                /\ [s EXCEPT ![e].active = FALSE][d].token = s[d].token
                /\ [s EXCEPT ![e].active = FALSE][d].active => s[d].active
BY DEF Session

\* Types: one lemma for each service (refreshToken, login, requireAuth, ...).
LEMMA RefreshTyped ==
  ASSUME Wellformed, NEW j \in Jobs, RefreshStep(j)
  PROVE  SessionsTyped'
<1> USE DEF SessionsTyped, Goto, At, db, client, sessionData
<1>0. JobFacts(j) /\ SessionsTyped /\ CredentialsTyped /\ Located /\ Carries
  BY JobType DEF Wellformed
<1>1. CASE VerifyCached(j)
  BY <1>0, <1>1 DEF VerifyCached, Verified
<1>2. CASE VerifyMongo(j)
  BY <1>0, <1>2 DEF VerifyMongo
<1>3. CASE VerifyStore(j)
  <2>1. carried[j] \in Tokens
    BY <1>0, <1>3, Carrying DEF VerifyStore
  <2> QED BY <1>0, <1>3, <2>1 DEF VerifyStore, Keys, Redis, Stored, Verified, JobFacts, Token
<1>4. CASE RefreshSession(j)
  BY <1>0, <1>4 DEF RefreshSession
<1>5. CASE RefreshMarker(j)
  BY <1>0, <1>5 DEF RefreshMarker, Log
<1>6. CASE RefreshUser(j)
  BY <1>0, <1>6 DEF RefreshUser, ReadsUser, Mem, Lock
<1>7. CASE RefreshMark(j)
  <2>1. carried[j] \in Tokens
    BY <1>0, <1>7, Carrying DEF RefreshMark
  <2> QED BY <1>0, <1>7, <2>1 DEF RefreshMark, Keys, Log, Redis
<1>8. CASE Issue(j)
  BY <1>0, <1>8 DEF Issue, Mem, Keys, Redis, Stored, Token, Tokens, JobFacts
<1>9. CASE Rotate(j)
  BY <1>0, <1>9 DEF Rotate, Session, Log, Located, Fits, Carries, AuthSteps, Token, Tokens, JobFacts
<1>10. CASE RefreshPublish(j)
  BY <1>0, <1>10 DEF RefreshPublish, Keys, Redis, Token, Tokens, JobFacts
<1>11. CASE RefreshRetire(j)
  <2>1. carried[j] \in Tokens
    BY <1>0, <1>11, Carrying DEF RefreshRetire
  <2> QED BY <1>0, <1>11, <2>1 DEF RefreshRetire, Keys, Redis
<1>12. CASE Respond(j)
  BY <1>0, <1>12 DEF Respond, Holding, Token, Tokens, JobFacts
<1> QED BY <1>1, <1>2, <1>3, <1>4, <1>5, <1>6, <1>7, <1>8, <1>9, <1>10, <1>11, <1>12 DEF RefreshStep

\* login keeps the types.
LEMMA LoginTyped ==
  ASSUME Wellformed, NEW j \in Jobs, LoginStep(j)
  PROVE  SessionsTyped'
<1> USE DEF SessionsTyped, Goto, At, db, client, sessionData
<1>0. JobFacts(j) /\ SessionsTyped /\ CredentialsTyped /\ Located /\ Carries
  BY JobType DEF Wellformed
<1>1. CASE LoginRead(j)
  BY <1>0, <1>1 DEF LoginRead, ReadsUser, Mem, Lock
<1>2. CASE WrongPassword(j)
  <2>1. /\ user.failed + 1 \in Nat /\ mem[j].failed + 1 \in Nat
        /\ LockFor(mem[j].failed + 1) \in Locks
    BY <1>0 DEF Mem, Lock, LockFor, Locks
  <2>2. user' = [user EXCEPT !.failed = user.failed + 1, !.lock = LockFor(mem[j].failed + 1)]
    BY <1>2 DEF WrongPassword, WritesUser
  <2>3. user' \in Lock
    BY <1>0, <2>1, <2>2 DEF Lock
  <2> QED BY <1>0, <1>2, <2>3 DEF WrongPassword, WritesUser
<1>3. CASE LoginReset(j)
  BY <1>0, <1>3 DEF LoginReset, WritesUser, Lock, Locks
<1>4. CASE CreateSession(j)
  <2>1. sessions[Dev(j)].token \in Token
    BY <1>0 DEF JobFacts, Session
  <2>2. log' \in Log
    BY <1>0, <1>4, <2>1 DEF CreateSession, Log
  <2>3. [active |-> TRUE, token |-> j] \in Session /\ j # NoToken
    BY <1>0 DEF Session, Token, Tokens, JobFacts
  <2> QED BY <1>0, <1>4, <2>2, <2>3 DEF CreateSession
<1>5. CASE LoginRespond(j)
  BY <1>0, <1>5 DEF LoginRespond, Holding, Token, Tokens, JobFacts
<1>6. CASE LoginSeed(j)
  BY <1>0, <1>6 DEF LoginSeed, Keys, Redis, Log, Mem, BlindlyBy, Token, Tokens, JobFacts
<1> QED BY <1>1, <1>2, <1>3, <1>4, <1>5, <1>6 DEF LoginStep

\* requireAuth keeps the types.
LEMMA AuthTyped ==
  ASSUME Wellformed, NEW j \in Jobs, AuthStep(j)
  PROVE  SessionsTyped'
<1> USE DEF SessionsTyped, Goto, At, db, client, sessionData
<1>0. JobFacts(j) /\ SessionsTyped /\ CredentialsTyped /\ Located /\ Carries
  BY JobType DEF Wellformed
<1>1. CASE AuthCache(j)
  <2>1. mem' \in [Jobs -> Mem]
    <3>1. mem' = [mem EXCEPT ![j].up = redis.up] /\ redis.up \in BOOLEAN
      BY <1>0, <1>1 DEF AuthCache, Keys
    <3> QED BY <1>0, <3>1 DEF Mem
  <2>2. log' \in Log /\ pc' = [k \in Jobs |-> pc'[k]]
    BY <1>0, <1>1 DEF AuthCache, Log, Admit
  <2> QED BY <1>0, <1>1, <2>1, <2>2 DEF AuthCache
<1>2. CASE AuthConfirm(j)
  BY <1>0, <1>2 DEF AuthConfirm
<1>3. CASE AuthSetConfirm(j)
  <2>1. carried[j] \in Tokens
    BY <1>0, <1>3, Carrying DEF AuthSetConfirm, AuthSteps
  <2>2. redis' \in Keys
    BY <1>0, <1>3, <2>1 DEF AuthSetConfirm, Keys, Redis
  <2>3. log' \in Log
    BY <1>0, <1>3 DEF AuthSetConfirm, Log, Admit
  <2> QED BY <1>0, <1>3, <2>2, <2>3 DEF AuthSetConfirm
<1>4. CASE AuthLookup(j)
  <2>1. mem' \in [Jobs -> Mem]
    <3>1. mem' = [mem EXCEPT ![j].version = user.version] /\ user.version \in Nat
      BY <1>0, <1>4 DEF AuthLookup, Lock
    <3> QED BY <1>0, <3>1 DEF Mem
  <2>2. log' \in Log /\ pc' = [k \in Jobs |-> pc'[k]]
    BY <1>0, <1>4 DEF AuthLookup, Log, Admit
  <2> QED BY <1>0, <1>4, <2>1, <2>2 DEF AuthLookup
<1>5. CASE AuthRepair(j)
  BY <1>0, <1>5 DEF AuthRepair, Keys, Redis, Log, Mem, BlindlyBy, Carries, AuthSteps, Token,
     Tokens, JobFacts
<1> QED BY <1>1, <1>2, <1>3, <1>4, <1>5 DEF AuthStep

\* revokeSessionFull and revokeAllSessionsFull keep the types.
LEMMA RevokeTyped ==
  ASSUME Wellformed, NEW j \in Jobs, RevokeStep(j)
  PROVE  SessionsTyped'
<1> USE DEF SessionsTyped, Goto, At, db, client, sessionData
<1>0. JobFacts(j) /\ SessionsTyped /\ CredentialsTyped /\ Located /\ Carries
  BY JobType DEF Wellformed
<1>1. CASE RevokedFind(j)
  <2>1. sessions[Target(j)].active => sessions[Target(j)].token \in Tokens
    BY <1>0 DEF JobFacts, Token, Session
  <2>2. mem' \in [Jobs -> Mem]
    BY <1>0, <1>1, <2>1 DEF RevokedFind, Mem
  <2> QED BY <1>0, <1>1, <2>2 DEF RevokedFind
<1>2. CASE EndMark(j)
  <2>1. sessions' = [sessions EXCEPT ![Target(j)].active = FALSE] /\ Target(j) \in Devices
    BY <1>0, <1>2 DEF EndMark, JobFacts
  <2>2. /\ sessions' \in [Devices -> Session]
        /\ \A d \in Devices : sessions'[d].active => sessions'[d].token # NoToken
    BY <1>0, <2>1, Ending
  <2>3. pc' = [k \in Jobs |-> pc'[k]]
    BY <1>0, <1>2 DEF EndMark
  <2> QED BY <1>0, <1>2, <2>2, <2>3 DEF EndMark
<1>3. CASE EndPurge(j)
  BY <1>0, <1>3 DEF EndPurge, Keys, Redis, Purged, Token, Tokens, JobFacts
<1>4. CASE EndBlacklist(j)
  BY <1>0, <1>4 DEF EndBlacklist, Keys, Redis, Blacklisted, Log, Mem
<1>5. CASE ClearCookie(j)
  BY <1>0, <1>5 DEF ClearCookie, Token, Tokens, JobFacts
<1>6. CASE RevokeFind(j)
  <2>1. {sessions[d].token : d \in Found(j)} \subseteq Tokens
    BY <1>0 DEF Found, Token, Session
  <2>2. mem' \in [Jobs -> Mem]
    BY <1>0, <1>6, <2>1 DEF RevokeFind, Mem
  <2> QED BY <1>0, <1>6, <2>2 DEF RevokeFind
<1>7. CASE RevokeMark(j)
  BY <1>0, <1>7 DEF RevokeMark, Session
<1>8. CASE RevokeBlacklist(j)
  BY <1>0, <1>8 DEF RevokeBlacklist, Keys, Redis, Blacklisted, Mem
<1>9. CASE RevokePurge(j)
  BY <1>0, <1>9 DEF RevokePurge, Keys, Redis, Purged, Token, Tokens, JobFacts
<1>10. CASE RevokeSpare(j)
  <2>1. Spared(j) \subseteq Devices
    BY <1>0 DEF Spared, JobFacts
  <2>2. redis' \in Keys
    BY <1>0, <1>10, <2>1 DEF RevokeSpare, Keys, Redis
  <2>3. log' \in Log
    BY <1>0, <1>10 DEF RevokeSpare, Log, Mem
  <2>4. pc' = [k \in Jobs |-> pc'[k]]
    <3>1. Kind(j) \in {"refresh", "logoutAll", "killOthers", "changePassword", "resetPassword"}
      BY <1>0, <1>10 DEF RevokeSpare, Located, Fits, RevokeSteps
    <3> QED BY <1>0, <1>10, <3>1 DEF RevokeSpare
  <2> QED BY <1>0, <1>10, <2>2, <2>3, <2>4 DEF RevokeSpare
<1> QED BY <1>1, <1>2, <1>3, <1>4, <1>5, <1>6, <1>7, <1>8, <1>9, <1>10 DEF RevokeStep

\* changePassword keeps the types.
LEMMA ChangeTyped ==
  ASSUME Wellformed, NEW j \in Jobs, ChangeStep(j)
  PROVE  SessionsTyped'
<1> USE DEF SessionsTyped, Goto, At, db, client, sessionData
<1>0. JobFacts(j) /\ SessionsTyped /\ CredentialsTyped /\ Located /\ Carries
  BY JobType DEF Wellformed
<1>1. CASE ChangeRead(j)
  BY <1>0, <1>1 DEF ChangeRead, ReadsUser, Mem, Lock
<1>2. CASE ChangeCommit(j)
  <2>1. user' \in Lock /\ dirty' \subseteq Jobs
    BY <1>0, <1>2 DEF ChangeCommit, WritesUser, Lock
  <2> QED BY <1>0, <1>2, <2>1 DEF ChangeCommit
<1>3. CASE Forget(j)
  BY <1>0, <1>3 DEF Forget, Keys, Redis
<1> QED BY <1>1, <1>2, <1>3 DEF ChangeStep

\* rehydrateBlacklistOnRedisReconnect keeps the types.
LEMMA RehydrateTyped ==
  ASSUME Wellformed, NEW j \in Jobs, RehydrateStep(j)
  PROVE  SessionsTyped'
<1> USE DEF SessionsTyped, Goto, At, db, client, sessionData
<1>0. JobFacts(j) /\ SessionsTyped /\ CredentialsTyped /\ Located /\ Carries
  BY JobType DEF Wellformed
<1>1. CASE RehydrateFind(j)
  <2>1. {sessions[d].token : d \in {e \in Devices : ~sessions[e].active}} \ {NoToken}
             \subseteq Tokens
    BY <1>0 DEF Token, Session
  <2>2. mem' \in [Jobs -> Mem]
    <3> DEFINE F == {sessions[d].token : d \in {e \in Devices : ~sessions[e].active}} \ {NoToken}
    <3>1. redis.up \in BOOLEAN /\ redis.outages \in Nat /\ F \in SUBSET Tokens
      BY <1>0, <2>1 DEF Keys
    <3>2. mem' = [mem EXCEPT ![j].found = F, ![j].up = redis.up, ![j].outages = redis.outages]
      BY <1>1 DEF RehydrateFind
    <3> HIDE DEF F
    <3>3. ASSUME NEW k \in Jobs PROVE mem'[k] \in Mem
      BY <1>0, <3>1, <3>2 DEF Mem
    <3> QED BY <1>0, <3>2, <3>3
  <2> QED BY <1>0, <1>1, <2>2 DEF RehydrateFind
<1>2. CASE RehydrateBlacklist(j)
  BY <1>0, <1>2 DEF RehydrateBlacklist, Keys, Redis, Blacklisted, Mem
<1>3. CASE RehydratePurge(j)
  BY <1>0, <1>3 DEF RehydratePurge, Keys, Redis, Token, Tokens, JobFacts
<1> QED BY <1>1, <1>2, <1>3 DEF RehydrateStep

\* OTPManager keeps the types of the sessions.
LEMMA CodeTyped ==
  ASSUME Wellformed, NEW j \in Jobs, CodeStep(j)
  PROVE  SessionsTyped'
<1> USE DEF SessionsTyped, Goto, At, db, client, sessionData
<1>0. JobFacts(j) /\ SessionsTyped /\ CredentialsTyped /\ Located /\ Carries
  BY JobType DEF Wellformed
<1>1. CASE CodeCooldown(j)
  BY <1>0, <1>1 DEF CodeCooldown
<1>2. CASE CodeCeiling(j)
  BY <1>0, <1>2 DEF CodeCeiling
<1>3. CASE CodeReplace(j)
  BY <1>0, <1>3 DEF CodeReplace
<1>4. CASE CodeInsert(j)
  BY <1>0, <1>4 DEF CodeInsert
<1>5. CASE CodeMail(j)
  BY <1>0, <1>5 DEF CodeMail
<1>6. CASE CodeInvalidate(j) \/ CodeStuck(j)
  BY <1>0, <1>6 DEF CodeInvalidate, CodeStuck
<1>7. CASE CodeFind(j)
  <2>1. CASE Pending(j) = {}
    BY <1>0, <1>7, <2>1 DEF CodeFind
  <2>2. CASE Pending(j) # {}
    <3>1. PICK c \in Pending(j) : mem' = [mem EXCEPT ![j].found = {c}]
      BY <1>7, <2>2 DEF CodeFind
    <3>2. mem' \in [Jobs -> Mem]
      BY <1>0, <3>1 DEF Mem, Pending, Existing, Tokens
    <3>3. pc' = [k \in Jobs |-> pc'[k]]
      BY <1>0, <1>7, <2>2 DEF CodeFind
    <3> QED BY <1>0, <1>7, <3>2, <3>3 DEF CodeFind
  <2> QED BY <2>1, <2>2
<1>8. CASE CodeMiss(j)
  BY <1>0, <1>8 DEF CodeMiss
<1>9. CASE CodeConsume(j)
  BY <1>0, <1>9 DEF CodeConsume
<1> QED BY <1>1, <1>2, <1>3, <1>4, <1>5, <1>6, <1>7, <1>8, <1>9 DEF CodeStep

\* The resets of the password keep the types of the sessions.
LEMMA ResetTyped ==
  ASSUME Wellformed, NEW j \in Jobs, ResetStep(j)
  PROVE  SessionsTyped'
<1> USE DEF SessionsTyped, Goto, At, db, client, sessionData
<1>0. JobFacts(j) /\ SessionsTyped /\ CredentialsTyped /\ Located /\ Carries
  BY JobType DEF Wellformed
<1>1. CASE EmailCommit(j)
  BY <1>0, <1>1 DEF EmailCommit, ReadsUser, Mem, Lock
<1>2. CASE ResetUser(j)
  BY <1>0, <1>2 DEF ResetUser, Mem, Lock
<1>3. CASE ResetToken(j)
  BY <1>0, <1>3 DEF ResetToken
<1>4. CASE ResetRead(j)
  BY <1>0, <1>4 DEF ResetRead, ReadsUser
<1>5. CASE ResetCommit(j)
  BY <1>0, <1>5 DEF ResetCommit, WritesUser, Lock, Locks
<1> QED BY <1>1, <1>2, <1>3, <1>4, <1>5 DEF ResetStep

\* requirePin and the changes of the PIN keep the types of the sessions.
LEMMA PinTyped ==
  ASSUME Wellformed, NEW j \in Jobs, PinStep(j)
  PROVE  SessionsTyped'
<1> USE DEF SessionsTyped, Goto, At, db, client, sessionData
<1>0. JobFacts(j) /\ SessionsTyped /\ CredentialsTyped /\ Located /\ Carries
  BY JobType DEF Wellformed
<1>1. CASE PinRead(j)
  <2>1. mem' \in [Jobs -> Mem]
    <3>1. /\ mem' = [mem EXCEPT ![j].failed = pin.failed, ![j].version = pin.version]
          /\ pin.failed \in Nat /\ pin.version \in Nat
      BY <1>0, <1>1 DEF PinRead, Lock, CredentialsTyped
    <3> QED BY <1>0, <3>1 DEF Mem
  <2>2. pc' = [k \in Jobs |-> pc'[k]]
    BY <1>0, <1>1 DEF PinRead
  <2> QED BY <1>0, <1>1, <2>1, <2>2 DEF PinRead
<1>2. CASE PinUnlock(j)
  BY <1>0, <1>2 DEF PinUnlock, Mem
<1>3. CASE PinWrong(j)
  BY <1>0, <1>3 DEF PinWrong
<1>4. CASE PinReset(j)
  BY <1>0, <1>4 DEF PinReset
<1>5. CASE SetupRead(j)
  BY <1>0, <1>5 DEF SetupRead
<1>6. CASE PinSave(j)
  BY <1>0, <1>6 DEF PinSave
<1> QED BY <1>1, <1>2, <1>3, <1>4, <1>5, <1>6 DEF PinStep

\* So does the sending of a request,
LEMMA SendTyped ==
  ASSUME Wellformed, NEW j \in Jobs, Send(j)
  PROVE  SessionsTyped'
<1> DEFINE t == IF Kind(j) \in WithCookie THEN cookie[Dev(j)] ELSE access[Job(j).tab]
<1> USE DEF SessionsTyped
<1>0. JobFacts(j) /\ SessionsTyped
  BY JobType DEF Wellformed
<1>1. t \in Token /\ carried' = [carried EXCEPT ![j] = t]
  BY <1>0 DEF Send, JobFacts
<1>2. carried' \in [Jobs -> Token]
  BY <1>0, <1>1
<1>3. log' \in Log
  BY <1>0 DEF Send, Log
<1>4. pc' = [k \in Jobs |-> pc'[k]]
  BY <1>0 DEF Send, Goto
<1> QED BY <1>0, <1>2, <1>3, <1>4 DEF Send, db, client

\* and so does time.
LEMMA ClockTyped ==
  ASSUME Wellformed, SessionsClock
  PROVE  SessionsTyped'
<1> USE DEF SessionsTyped, db, client, Expire
<1>0. SessionsTyped
  BY DEF Wellformed
<1>1. CASE RedisDown \/ BreakerOpens
  <2>1. redis.outages + 1 \in Nat
    BY <1>0 DEF Keys
  <2>2. redis' \in Keys
    BY <1>0, <1>1, <2>1 DEF RedisDown, BreakerOpens, Keys
  <2> QED BY <1>0, <1>1, <2>2 DEF RedisDown, BreakerOpens
<1>2. CASE RedisReady \/ BreakerCloses
  BY <1>0, <1>2 DEF RedisReady, BreakerCloses, Keys
<1>3. CASE LockExpires
  BY <1>0, <1>3 DEF LockExpires, Lock, Locks
<1>4. ASSUME NEW t \in Tokens, MarkerExpires(t)
      PROVE  SessionsTyped'
  BY <1>0, <1>4 DEF MarkerExpires, Keys, Log
<1>5. ASSUME NEW t \in Tokens, PayloadExpires(t) \/ ConfirmationExpires(t)
      PROVE  SessionsTyped'
  BY <1>0, <1>5 DEF PayloadExpires, ConfirmationExpires, Keys
<1> QED BY <1>1, <1>2, <1>3, <1>4, <1>5 DEF SessionsClock

\* OTPManager keeps the types of codes, locks and what is recorded of them.
LEMMA CodeStepTyped ==
  ASSUME Wellformed, NEW j \in Jobs, CodeStep(j)
  PROVE  CredentialsTyped'
<1> USE DEF CredentialsTyped, credentials, pinVars
<1>0. JobFacts(j) /\ CredentialsTyped
  BY JobType DEF Wellformed, SessionsTyped
<1>d. ASSUME NEW cs, Deleted(cs) PROVE codes' \in [Jobs -> Code]
  BY <1>0, <1>d DEF Deleted, Code, CodeStates
<1>1. CASE CodeCooldown(j)
  <2>1. acts' \in Acts
    <3>1. {<<j, c>> : c \in {k \in Existing(j) \cap recent : ~OnItsWay(k)}} \subseteq Jobs \X Jobs
      BY <1>0
    <3>2. \E D \in SUBSET (Jobs \X Jobs) : acts' = [acts EXCEPT !.dropped = acts.dropped \cup D]
      BY <1>1, <3>1 DEF CodeCooldown
    <3> QED BY <1>0, <3>2 DEF Acts
  <2> QED BY <1>0, <1>1, <2>1 DEF CodeCooldown
<1>2. CASE CodeCeiling(j)
  BY <1>0, <1>2 DEF CodeCeiling
<1>3. CASE CodeReplace(j)
  BY <1>0, <1>3, <1>d DEF CodeReplace
<1>4. CASE CodeInsert(j)
  <2>1. {{j, k} : k \in {i \in Jobs : pc[i] \in {"codeCeiling", "codeReplace", "codeInsert"}}}
          \subseteq SUBSET Jobs
    OBVIOUS
  <2>2. acts' \in Acts
    BY <1>0, <1>4, <2>1 DEF CodeInsert, Acts
  <2>3. codes' \in [Jobs -> Code]
    BY <1>0, <1>4 DEF CodeInsert, Code, CodeStates
  <2> QED BY <1>0, <1>4, <2>2, <2>3 DEF CodeInsert
<1>5. CASE CodeMail(j)
  BY <1>0, <1>5 DEF CodeMail
<1>6. CASE CodeInvalidate(j)
  BY <1>0, <1>6, <1>d DEF CodeInvalidate
<1>10. CASE CodeStuck(j)
  BY <1>0, <1>10 DEF CodeStuck, Acts
<1>7. CASE CodeFind(j)
  BY <1>0, <1>7 DEF CodeFind
<1>8. CASE CodeMiss(j)
  <2>1. \A c \in Jobs : Counts(c) => [codes[c] EXCEPT !.tries = codes[c].tries + 1] \in Code
    BY <1>0, TokenAssumption DEF Counts, Code
  <2>2. codes' \in [Jobs -> Code]
    BY <1>0, <1>8, <2>1 DEF CodeMiss
  <2> QED BY <1>0, <1>8, <2>2 DEF CodeMiss
<1>9. CASE CodeConsume(j)
  <2>1. codes' \in [Jobs -> Code]
    BY <1>0, <1>9 DEF CodeConsume, Code, CodeStates
  <2>2. acts' \in Acts
    BY <1>0, <1>9 DEF CodeConsume, Acts, JobFacts, Token, Tokens
  <2> QED BY <1>0, <1>9, <2>1, <2>2 DEF CodeConsume
<1> QED BY <1>1, <1>2, <1>3, <1>4, <1>5, <1>6, <1>7, <1>8, <1>9, <1>10 DEF CodeStep

\* The resets of the password do,
LEMMA ResetStepTyped ==
  ASSUME Wellformed, NEW j \in Jobs, ResetStep(j)
  PROVE  CredentialsTyped'
<1> USE DEF CredentialsTyped, credentials, pinVars
<1>0. JobFacts(j) /\ CredentialsTyped /\ Located
  BY JobType DEF Wellformed, SessionsTyped
<1>1. CASE EmailCommit(j) \/ ResetUser(j) \/ ResetToken(j) \/ ResetRead(j)
  BY <1>0, <1>1 DEF EmailCommit, ResetUser, ResetToken, ResetRead
<1>2. CASE ResetCommit(j)
  <2>1. Typed(j) \in Jobs
    BY <1>0, <1>2 DEF ResetCommit, At, Located, Fits, JobFacts
  <2>2. acts' \in Acts
    <3>1. \/ acts' = acts
          \/ \E O \in SUBSET Jobs :
                acts' = [acts EXCEPT !.spent = acts.spent \cup {<<Typed(j), j>>}, !.outdated = O]
      <4>1. CASE Spends(Typed(j))
        <5>1. \A b \in BOOLEAN :
                (IF b THEN acts.outdated \cup {j} ELSE acts.outdated) \in SUBSET Jobs
          BY <1>0 DEF Acts
        <5> QED BY <1>2, <4>1, <5>1 DEF ResetCommit
      <4> QED BY <1>2, <4>1 DEF ResetCommit
    <3>2. ASSUME NEW O \in SUBSET Jobs
          PROVE  [acts EXCEPT !.spent = acts.spent \cup {<<Typed(j), j>>}, !.outdated = O] \in Acts
      <4>1. acts.spent \cup {<<Typed(j), j>>} \in SUBSET (Jobs \X Jobs)
        BY <1>0, <2>1 DEF Acts
      <4> QED BY <1>0, <4>1 DEF Acts
    <3> QED BY <1>0, <3>1, <3>2
  <2> QED BY <1>0, <1>2, <2>1, <2>2 DEF ResetCommit
<1> QED BY <1>1, <1>2 DEF ResetStep

\* requirePin and the changes of the PIN do,
LEMMA PinStepTyped ==
  ASSUME Wellformed, NEW j \in Jobs, PinStep(j)
  PROVE  CredentialsTyped'
<1> USE DEF CredentialsTyped, WritesPin
<1>0. CredentialsTyped /\ mem[j].failed + 1 \in Nat
  BY DEF Wellformed, SessionsTyped, Mem
<1>1. ASSUME NEW n \in Nat, Counted(j, n) PROVE acts' \in Acts
  BY <1>0, <1>1 DEF Acts, Counted
<1>2. CASE PinRead(j) \/ SetupRead(j)
  BY <1>0, <1>2 DEF PinRead, SetupRead
<1>3. CASE PinUnlock(j) \/ PinReset(j)
  <2>1. pin' = [pin EXCEPT !.failed = 0, !.lock = "none"] /\ Counted(j, 0)
    BY <1>3 DEF PinUnlock, PinReset
  <2>2. pin' \in Lock /\ acts' \in Acts
    BY <1>0, <1>1, <2>1 DEF Lock, Locks
  <2> QED BY <1>0, <1>3, <2>2 DEF PinUnlock, PinReset
<1>4. CASE PinWrong(j)
  <2>1. PinLockFor(mem[j].failed + 1) \in Locks
    BY DEF PinLockFor, LockFor, Locks
  <2>2. /\ pin' = [pin EXCEPT !.failed = mem[j].failed + 1, !.lock = PinLockFor(mem[j].failed + 1)]
        /\ acts.wrong + 1 \in Nat
    BY <1>0, <1>4 DEF PinWrong, Acts
  <2>3. pin' \in Lock
    BY <1>0, <2>1, <2>2 DEF Lock
  <2> QED BY <1>0, <1>1, <1>4, <2>2, <2>3 DEF PinWrong
<1>5. CASE PinSave(j)
  <2>1. /\ pin' = [version |-> pin.version + 1, failed |-> 0, lock |-> "none"]
        /\ Counted(j, 0) /\ pin.version + 1 \in Nat
    BY <1>0, <1>5 DEF PinSave, Lock
  <2>2. pin' \in Lock /\ acts' \in Acts
    BY <1>0, <1>1, <2>1 DEF Lock, Locks
  <2> QED BY <1>0, <1>5, <2>2 DEF PinSave
<1> QED BY <1>2, <1>3, <1>4, <1>5 DEF PinStep

\* and so does time.
LEMMA CredentialsClockTyped ==
  ASSUME Wellformed, CredentialsClock
  PROVE  CredentialsTyped'
<1> USE DEF CredentialsTyped, pinVars
<1>0. CredentialsTyped
  BY DEF Wellformed
<1>1. CASE CooldownPasses
  BY <1>0, <1>1 DEF CooldownPasses
<1>2. CASE PinLockExpires
  BY <1>0, <1>2 DEF PinLockExpires, Lock, Locks
<1>3. ASSUME NEW c \in Jobs, CodeExpires(c)
      PROVE  CredentialsTyped'
  BY <1>0, <1>3 DEF CodeExpires, Code, CodeStates
<1> QED BY <1>1, <1>2, <1>3 DEF CredentialsClock

\* The axios interceptors keep the types of everything they touch.
LEMMA TabsTyped ==
  ASSUME Wellformed, NEW c \in Jobs, BrowserStep(c)
  PROVE  SessionsTyped' /\ BrowserTyped'
<1> USE DEF BrowserTyped
<1>0. JobFacts(c) /\ SessionsTyped /\ BrowserTyped
  BY JobType DEF Wellformed, SessionsTyped
<1>1. \A j \in Jobs \cup {NoToken} : Holding(Tab(c), j) \in [Tabs -> Token]
  BY <1>0 DEF SessionsTyped, Holding, Tab, JobFacts, Token, Tokens
<1>2. \A j \in Jobs : AccessAfter(c, j) \in [Tabs -> Token]
  BY <1>0, <1>1 DEF AccessAfter, SessionsTyped
<1>3. \A j : Outcome(j) \in CallStates
  BY DEF Outcome, CallStates, Settled
<1>4. CASE Settle(c)
  <2>1. SessionsTyped'
    BY <1>0, <1>2, <1>4 DEF Settle, SessionsTyped, server, db
  <2>2. BrowserTyped'
    BY <1>0, <1>3, <1>4 DEF Settle, Tab, JobFacts
  <2> QED BY <2>1, <2>2
<1>5. CASE Intercept(c)
  <2>1. CASE Refreshing(Tab(c))
    <3>1. SessionsTyped'
      BY <1>0, <1>5, <2>1 DEF Intercept, SessionsTyped, server, db, client
    <3>2. promise[Tab(c)] \in Jobs \cup {NoToken}
      BY <1>0 DEF Tab, JobFacts
    <3>3. BrowserTyped'
      BY <1>0, <1>5, <2>1, <3>2 DEF Intercept, CallStates
    <3> QED BY <3>1, <3>3
  <2>2. CASE ~Refreshing(Tab(c))
    <3>1. Refresher(c) \in Jobs /\ c \in Calls
      BY <1>0, <1>5, <2>2, CallType DEF Intercept, SessionsTyped
    <3>2. SessionsTyped'
      BY <1>0, <1>5, <2>2 DEF Intercept, SessionsTyped, server, db, client, Goto
    <3>3. BrowserTyped'
      BY <1>0, <1>5, <2>2, <3>1 DEF Intercept, CallStates, Tab, JobFacts
    <3> QED BY <3>2, <3>3
  <2> QED BY <2>1, <2>2
<1>6. CASE ResumeRetry(c)
  BY <1>0, <1>6 DEF ResumeRetry, SessionsTyped, server, db, client, CallStates, Goto
<1>7. CASE ResumeReject(c)
  <2>1. SessionsTyped'
    BY <1>0, <1>1, <1>7 DEF ResumeReject, SessionsTyped, server, db
  <2>2. BrowserTyped'
    BY <1>0, <1>7 DEF ResumeReject, CallStates, Settled
  <2> QED BY <2>1, <2>2
<1>8. CASE SettleRetry(c)
  <2>1. Retry(c) \in Jobs
    BY <1>0, <1>8, CallType DEF SettleRetry, Wellformed, SlotsInv, SessionsTyped
  <2>2. AccessAfter(c, Retry(c)) \in [Tabs -> Token]
    BY <1>2, <2>1
  <2>3. SessionsTyped'
    BY <1>0, <1>8, <2>2 DEF SettleRetry, SessionsTyped, server, db
  <2>4. BrowserTyped'
    BY <1>0, <1>3, <1>8 DEF SettleRetry
  <2> QED BY <2>3, <2>4
<1> QED BY <1>4, <1>5, <1>6, <1>7, <1>8 DEF BrowserStep

-----------------------------------------------------------------------------
(* Who moves.                                                              *)

\* A job that nobody moves.
Still(k) == mem'[k] = mem[k] /\ carried'[k] = carried[k] /\ pc'[k] = pc[k]

\* A step of the service at which a request is.
Works(j) == SessionStep(j) \/ CredentialStep(j)

\* A job that does not work stays, or is put to work.
Woken(k) == pc[k] = "later" /\ pc'[k] = "start"
Recalled(k) == Kind(k) = "rehydrate" /\ pc'[k] = "rehydrate" /\ RedisReady
Waits(k) ==
    /\ mem'[k] = mem[k] /\ carried'[k] = carried[k]
    /\ pc'[k] = pc[k] \/ Woken(k) \/ Recalled(k)

\* The steps of a service move one job: its own.
LEMMA RefreshAlone ==
  ASSUME SessionsTyped, NEW j \in Jobs, RefreshStep(j), NEW k \in Jobs \ {j}
  PROVE  Still(k)
BY DEF Still, SessionsTyped, RefreshStep, VerifyCached, VerifyMongo, VerifyStore,
   RefreshSession, RefreshMarker, RefreshUser, RefreshMark, Issue, Rotate, RefreshPublish,
   RefreshRetire, Respond, Goto

\* So do those of login.
LEMMA LoginAlone ==
  ASSUME SessionsTyped, NEW j \in Jobs, LoginStep(j), NEW k \in Jobs \ {j}
  PROVE  Still(k)
BY DEF Still, SessionsTyped, LoginStep, LoginRead, WrongPassword, LoginReset, CreateSession,
   LoginRespond, LoginSeed, Goto

\* So do those of requireAuth.
LEMMA AuthAlone ==
  ASSUME SessionsTyped, NEW j \in Jobs, AuthStep(j), NEW k \in Jobs \ {j}
  PROVE  Still(k)
BY DEF Still, SessionsTyped, AuthStep, AuthCache, AuthConfirm, AuthSetConfirm, AuthLookup,
   AuthRepair, Goto

\* So do those of the revocations.
LEMMA RevokeAlone ==
  ASSUME SessionsTyped, NEW j \in Jobs, RevokeStep(j), NEW k \in Jobs \ {j}
  PROVE  Still(k)
BY DEF Still, SessionsTyped, RevokeStep, RevokedFind, EndMark, EndPurge, EndBlacklist,
   ClearCookie, RevokeFind, RevokeMark, RevokeBlacklist, RevokePurge, RevokeSpare, Goto

\* So do those of changePassword.
LEMMA ChangeAlone ==
  ASSUME SessionsTyped, NEW j \in Jobs, ChangeStep(j), NEW k \in Jobs \ {j}
  PROVE  Still(k)
BY DEF Still, SessionsTyped, ChangeStep, ChangeRead, ChangeCommit, Forget, Goto

\* So do those of what rehydrates Redis.
LEMMA RehydrateAlone ==
  ASSUME SessionsTyped, NEW j \in Jobs, RehydrateStep(j), NEW k \in Jobs \ {j}
  PROVE  Still(k)
BY DEF Still, SessionsTyped, RehydrateStep, RehydrateFind, RehydrateBlacklist, RehydratePurge, Goto

\* So do those of OTPManager.
LEMMA CodeAlone ==
  ASSUME SessionsTyped, NEW j \in Jobs, CodeStep(j), NEW k \in Jobs \ {j}
  PROVE  Still(k)
BY DEF Still, SessionsTyped, CodeStep, CodeCooldown, CodeCeiling, CodeReplace, CodeInsert,
   CodeMail, CodeInvalidate, CodeStuck, CodeFind, CodeMiss, CodeConsume, Goto, sessionData

\* So do those of the resets of the password.
LEMMA ResetAlone ==
  ASSUME SessionsTyped, NEW j \in Jobs, ResetStep(j), NEW k \in Jobs \ {j}
  PROVE  Still(k)
BY DEF Still, SessionsTyped, ResetStep, EmailCommit, ResetUser, ResetToken, ResetRead,
   ResetCommit, Goto, sessionData

\* So do those of the transaction PIN.
LEMMA PinAlone ==
  ASSUME SessionsTyped, NEW j \in Jobs, PinStep(j), NEW k \in Jobs \ {j}
  PROVE  Still(k)
BY DEF Still, SessionsTyped, PinStep, PinRead, PinUnlock, PinWrong, PinReset, SetupRead,
   PinSave, Goto, sessionData

\* Whoever works, the others stay where they are.
LEMMA Alone ==
  ASSUME SessionsTyped, NEW j \in Jobs, Works(j), NEW k \in Jobs \ {j}
  PROVE  Still(k)
<1>1. CASE Send(j)
  BY <1>1 DEF Send, Still, SessionsTyped, Goto
<1> QED BY <1>1, RefreshAlone, LoginAlone, AuthAlone, RevokeAlone, ChangeAlone,
           RehydrateAlone, CodeAlone, ResetAlone, PinAlone
        DEF Works, SessionStep, CredentialStep

\* Time wakes nobody but what rehydrates.
LEMMA ClockWaits ==
  ASSUME SessionsTyped, Clock, NEW k \in Jobs
  PROVE  Waits(k) /\ ~Woken(k)
<1>1. CASE SessionsClock
  BY <1>1 DEF SessionsClock, RedisDown, RedisReady, BreakerOpens, BreakerCloses, LockExpires, MarkerExpires, PayloadExpires,
     ConfirmationExpires, Expire, Waits, Woken, Recalled, SessionsTyped, Keys
<1>2. CASE CredentialsClock
  BY <1>2 DEF CredentialsClock, CooldownPasses, PinLockExpires, CodeExpires, sessionData, Waits,
     Woken
<1> QED BY <1>1, <1>2 DEF Clock

\* The tabs put slots to work, and touch no other job.
LEMMA TabsWait ==
  ASSUME Wellformed, NEW c \in Jobs, BrowserStep(c), NEW k \in Jobs
  PROVE  Waits(k)
<1> USE DEF Waits, server
<1>0. SessionsTyped /\ SlotsInv
  BY DEF Wellformed
<1>1. CASE Settle(c) \/ ResumeReject(c) \/ SettleRetry(c)
  BY <1>1 DEF Settle, ResumeReject, SettleRetry
<1>2. CASE Intercept(c)
  BY <1>0, <1>2 DEF Intercept, SlotsInv, SessionsTyped, Goto, Woken
<1>3. CASE ResumeRetry(c)
  BY <1>0, <1>3 DEF ResumeRetry, SlotsInv, SessionsTyped, Goto, Woken
<1> QED BY <1>1, <1>2, <1>3 DEF BrowserStep

\* Every step is the work of one job, or only wakes some.
LEMMA Frame ==
  ASSUME Wellformed, [Next]_vars, NEW k \in Jobs
  PROVE  Works(k) \/ Waits(k)
<1>0. SessionsTyped
  BY DEF Wellformed
<1>1. ASSUME NEW j \in Jobs, Works(j)
      PROVE  Works(k) \/ Waits(k)
  BY <1>0, <1>1, Alone DEF Waits, Still
<1>2. ASSUME NEW j \in Jobs, ClientStep(j)
      PROVE  Waits(k)
  BY <1>2, TabsWait DEF ClientStep
<1>3. CASE Clock
  BY <1>0, <1>3, ClockWaits
<1>4. CASE UNCHANGED vars
  BY <1>4 DEF vars, Waits
<1> QED BY <1>1, <1>2, <1>3, <1>4 DEF Next, Step, Works

\* No step changes what was asked for.
LEMMA Given ==
  ASSUME [Next]_vars
  PROVE  workload' = workload
<1>1. ASSUME NEW j \in Jobs, Works(j)
      PROVE  workload' = workload
  <2>1. CASE RefreshStep(j)
    BY <2>1 DEF RefreshStep, VerifyCached, VerifyMongo, VerifyStore, RefreshSession,
       RefreshMarker, RefreshUser, RefreshMark, Issue, Rotate, RefreshPublish, RefreshRetire,
       Respond
  <2>2. CASE LoginStep(j)
    BY <2>2 DEF LoginStep, LoginRead, WrongPassword, LoginReset, CreateSession, LoginRespond,
       LoginSeed
  <2>3. CASE AuthStep(j)
    BY <2>3 DEF AuthStep, AuthCache, AuthConfirm, AuthSetConfirm, AuthLookup, AuthRepair
  <2>4. CASE RevokeStep(j)
    BY <2>4 DEF RevokeStep, RevokedFind, EndMark, EndPurge, EndBlacklist, ClearCookie,
       RevokeFind, RevokeMark, RevokeBlacklist, RevokePurge, RevokeSpare
  <2>5. CASE ChangeStep(j)
    BY <2>5 DEF ChangeStep, ChangeRead, ChangeCommit, Forget
  <2>6. CASE RehydrateStep(j)
    BY <2>6 DEF RehydrateStep, RehydrateFind, RehydrateBlacklist, RehydratePurge
  <2>7. CASE CodeStep(j)
    BY <2>7 DEF CodeStep, CodeCooldown, CodeCeiling, CodeReplace, CodeInsert, CodeMail,
       CodeInvalidate, CodeStuck, CodeFind, CodeMiss, CodeConsume, sessionData
  <2>8. CASE ResetStep(j)
    BY <2>8 DEF ResetStep, EmailCommit, ResetUser, ResetToken, ResetRead, ResetCommit, sessionData
  <2>9. CASE PinStep(j)
    BY <2>9 DEF PinStep, PinRead, PinUnlock, PinWrong, PinReset, SetupRead, PinSave, sessionData
  <2>10. CASE Send(j)
    BY <2>10 DEF Send
  <2> QED BY <1>1, <2>1, <2>2, <2>3, <2>4, <2>5, <2>6, <2>7, <2>8, <2>9, <2>10 DEF Works,
     SessionStep, CredentialStep
<1>2. ASSUME NEW j \in Jobs, ClientStep(j)
      PROVE  workload' = workload
  BY <1>2 DEF ClientStep, BrowserStep, Settle, Intercept, ResumeRetry, ResumeReject,
     SettleRetry, server
<1>3. CASE Clock
  BY <1>3 DEF Clock, SessionsClock, RedisDown, RedisReady, BreakerOpens, BreakerCloses,
     LockExpires, MarkerExpires,
     PayloadExpires, ConfirmationExpires, Expire, CredentialsClock, CooldownPasses,
     PinLockExpires, CodeExpires, sessionData
<1>4. CASE UNCHANGED vars
  BY <1>4 DEF vars
<1> QED BY <1>1, <1>2, <1>3, <1>4 DEF Next, Step, Works

\* The steps of a service lead where the kind of its request may be.
LEMMA RefreshFits ==
  ASSUME SessionsTyped, Located, NEW j \in Jobs, RefreshStep(j)
  PROVE  Fits(pc'[j], Kind(j))
<1> USE DEF Goto, At, SessionsTyped, Fits, AuthSteps, RevokeSteps, Rehydrates,
       WithCookie, WithAccess, WithCode
<1>0. Fits(pc[j], Kind(j))
  BY DEF Located
<1>1. CASE VerifyCached(j)
  BY <1>0, <1>1 DEF VerifyCached, Verified
<1>2. CASE VerifyMongo(j)
  BY <1>0, <1>2 DEF VerifyMongo
<1>3. CASE VerifyStore(j)
  BY <1>0, <1>3 DEF VerifyStore, Verified
<1>4. CASE RefreshSession(j)
  BY <1>0, <1>4 DEF RefreshSession
<1>5. CASE RefreshMarker(j)
  BY <1>0, <1>5 DEF RefreshMarker
<1>6. CASE RefreshUser(j)
  BY <1>0, <1>6 DEF RefreshUser
<1>7. CASE RefreshMark(j)
  BY <1>0, <1>7 DEF RefreshMark
<1>8. CASE Issue(j)
  BY <1>0, <1>8 DEF Issue
<1>9. CASE Rotate(j)
  BY <1>0, <1>9 DEF Rotate
<1>10. CASE RefreshPublish(j)
  BY <1>0, <1>10 DEF RefreshPublish
<1>11. CASE RefreshRetire(j)
  BY <1>0, <1>11 DEF RefreshRetire
<1>12. CASE Respond(j)
  BY <1>0, <1>12 DEF Respond
<1> QED BY <1>1, <1>2, <1>3, <1>4, <1>5, <1>6, <1>7, <1>8, <1>9, <1>10, <1>11, <1>12 DEF RefreshStep

\* So do those of login.
LEMMA LoginFits ==
  ASSUME SessionsTyped, Located, NEW j \in Jobs, LoginStep(j)
  PROVE  Fits(pc'[j], Kind(j))
<1> USE DEF Goto, At, SessionsTyped, Fits, AuthSteps, RevokeSteps, Rehydrates,
       WithCookie, WithAccess, WithCode
<1>0. Fits(pc[j], Kind(j))
  BY DEF Located
<1>1. CASE LoginRead(j)
  BY <1>0, <1>1 DEF LoginRead
<1>2. CASE WrongPassword(j)
  BY <1>0, <1>2 DEF WrongPassword
<1>3. CASE LoginReset(j)
  BY <1>0, <1>3 DEF LoginReset
<1>4. CASE CreateSession(j)
  BY <1>0, <1>4 DEF CreateSession
<1>5. CASE LoginRespond(j)
  BY <1>0, <1>5 DEF LoginRespond
<1>6. CASE LoginSeed(j)
  BY <1>0, <1>6 DEF LoginSeed
<1> QED BY <1>1, <1>2, <1>3, <1>4, <1>5, <1>6 DEF LoginStep

\* So do those of requireAuth.
LEMMA AuthFits ==
  ASSUME SessionsTyped, Located, NEW j \in Jobs, AuthStep(j)
  PROVE  Fits(pc'[j], Kind(j))
<1> USE DEF Goto, At, SessionsTyped, Fits, AuthSteps, RevokeSteps, Rehydrates,
       WithCookie, WithAccess, WithCode
<1>0. Fits(pc[j], Kind(j))
  BY DEF Located
<1>1. CASE AuthCache(j)
  BY <1>0, <1>1 DEF AuthCache, Admitted
<1>2. CASE AuthConfirm(j)
  BY <1>0, <1>2 DEF AuthConfirm
<1>3. CASE AuthSetConfirm(j)
  BY <1>0, <1>3 DEF AuthSetConfirm, Admitted
<1>4. CASE AuthLookup(j)
  BY <1>0, <1>4 DEF AuthLookup, Admitted
<1>5. CASE AuthRepair(j)
  BY <1>0, <1>5 DEF AuthRepair, Admitted
<1> QED BY <1>1, <1>2, <1>3, <1>4, <1>5 DEF AuthStep

\* So do those of the revocations.
LEMMA RevokeFits ==
  ASSUME SessionsTyped, Located, NEW j \in Jobs, RevokeStep(j)
  PROVE  Fits(pc'[j], Kind(j))
<1> USE DEF Goto, At, SessionsTyped, Fits, AuthSteps, RevokeSteps, Rehydrates,
       WithCookie, WithAccess, WithCode
<1>0. Fits(pc[j], Kind(j))
  BY DEF Located
<1>1. CASE RevokedFind(j)
  BY <1>0, <1>1 DEF RevokedFind
<1>2. CASE EndMark(j)
  BY <1>0, <1>2 DEF EndMark
<1>3. CASE EndPurge(j)
  BY <1>0, <1>3 DEF EndPurge
<1>4. CASE EndBlacklist(j)
  BY <1>0, <1>4 DEF EndBlacklist
<1>5. CASE ClearCookie(j)
  BY <1>0, <1>5 DEF ClearCookie
<1>6. CASE RevokeFind(j)
  BY <1>0, <1>6 DEF RevokeFind
<1>7. CASE RevokeMark(j)
  BY <1>0, <1>7 DEF RevokeMark
<1>8. CASE RevokeBlacklist(j)
  BY <1>0, <1>8 DEF RevokeBlacklist
<1>9. CASE RevokePurge(j)
  BY <1>0, <1>9 DEF RevokePurge
<1>10. CASE RevokeSpare(j)
  BY <1>0, <1>10 DEF RevokeSpare
<1> QED BY <1>1, <1>2, <1>3, <1>4, <1>5, <1>6, <1>7, <1>8, <1>9, <1>10 DEF RevokeStep

\* So do those of changePassword.
LEMMA ChangeFits ==
  ASSUME SessionsTyped, Located, NEW j \in Jobs, ChangeStep(j)
  PROVE  Fits(pc'[j], Kind(j))
<1> USE DEF Goto, At, SessionsTyped, Fits, AuthSteps, RevokeSteps, Rehydrates,
       WithCookie, WithAccess, WithCode
<1>0. Fits(pc[j], Kind(j))
  BY DEF Located
<1>1. CASE ChangeRead(j)
  BY <1>0, <1>1 DEF ChangeRead
<1>2. CASE ChangeCommit(j)
  BY <1>0, <1>2 DEF ChangeCommit
<1>3. CASE Forget(j)
  BY <1>0, <1>3 DEF Forget
<1> QED BY <1>1, <1>2, <1>3 DEF ChangeStep

\* So do those of what rehydrates Redis.
LEMMA RehydrateFits ==
  ASSUME SessionsTyped, Located, NEW j \in Jobs, RehydrateStep(j)
  PROVE  Fits(pc'[j], Kind(j))
<1> USE DEF Goto, At, SessionsTyped, Fits, AuthSteps, RevokeSteps, Rehydrates,
       WithCookie, WithAccess, WithCode
<1>0. Fits(pc[j], Kind(j))
  BY DEF Located
<1>1. CASE RehydrateFind(j)
  BY <1>0, <1>1 DEF RehydrateFind
<1>2. CASE RehydrateBlacklist(j)
  BY <1>0, <1>2 DEF RehydrateBlacklist
<1>3. CASE RehydratePurge(j)
  BY <1>0, <1>3 DEF RehydratePurge
<1> QED BY <1>1, <1>2, <1>3 DEF RehydrateStep

\* So do those of OTPManager.
LEMMA CodeFits ==
  ASSUME SessionsTyped, Located, NEW j \in Jobs, CodeStep(j)
  PROVE  Fits(pc'[j], Kind(j))
<1> USE DEF Goto, At, SessionsTyped, Fits, AuthSteps, RevokeSteps, Rehydrates,
       WithCookie, WithAccess, WithCode
<1>0. Fits(pc[j], Kind(j))
  BY DEF Located
<1>1. CASE CodeCooldown(j)
  BY <1>0, <1>1 DEF CodeCooldown
<1>2. CASE CodeCeiling(j)
  BY <1>0, <1>2 DEF CodeCeiling
<1>3. CASE CodeReplace(j)
  BY <1>0, <1>3 DEF CodeReplace
<1>4. CASE CodeInsert(j)
  BY <1>0, <1>4 DEF CodeInsert
<1>5. CASE CodeMail(j)
  BY <1>0, <1>5 DEF CodeMail
<1>6. CASE CodeInvalidate(j) \/ CodeStuck(j)
  BY <1>0, <1>6 DEF CodeInvalidate, CodeStuck
<1>7. CASE CodeFind(j)
  BY <1>0, <1>7 DEF CodeFind
<1>8. CASE CodeMiss(j)
  BY <1>0, <1>8 DEF CodeMiss
<1>9. CASE CodeConsume(j)
  BY <1>0, <1>9 DEF CodeConsume
<1> QED BY <1>1, <1>2, <1>3, <1>4, <1>5, <1>6, <1>7, <1>8, <1>9 DEF CodeStep

\* So do those of the resets of the password.
LEMMA ResetFits ==
  ASSUME SessionsTyped, Located, NEW j \in Jobs, ResetStep(j)
  PROVE  Fits(pc'[j], Kind(j))
<1> USE DEF Goto, At, SessionsTyped, Fits, AuthSteps, RevokeSteps, Rehydrates,
       WithCookie, WithAccess, WithCode
<1>0. Fits(pc[j], Kind(j))
  BY DEF Located
<1>1. CASE EmailCommit(j)
  BY <1>0, <1>1 DEF EmailCommit
<1>2. CASE ResetUser(j)
  BY <1>0, <1>2 DEF ResetUser
<1>3. CASE ResetToken(j)
  BY <1>0, <1>3 DEF ResetToken
<1>4. CASE ResetRead(j)
  BY <1>0, <1>4 DEF ResetRead
<1>5. CASE ResetCommit(j)
  BY <1>0, <1>5 DEF ResetCommit
<1> QED BY <1>1, <1>2, <1>3, <1>4, <1>5 DEF ResetStep

\* So do those of the transaction PIN.
LEMMA PinFits ==
  ASSUME SessionsTyped, Located, NEW j \in Jobs, PinStep(j)
  PROVE  Fits(pc'[j], Kind(j))
<1> USE DEF Goto, At, SessionsTyped, Fits, AuthSteps, RevokeSteps, Rehydrates,
       WithCookie, WithAccess, WithCode
<1>0. Fits(pc[j], Kind(j))
  BY DEF Located
<1>1. CASE PinRead(j)
  BY <1>0, <1>1 DEF PinRead, Judged
<1>2. CASE PinUnlock(j)
  BY <1>0, <1>2 DEF PinUnlock, Judged
<1>3. CASE PinWrong(j)
  BY <1>0, <1>3 DEF PinWrong
<1>4. CASE PinReset(j)
  BY <1>0, <1>4 DEF PinReset
<1>5. CASE SetupRead(j)
  BY <1>0, <1>5 DEF SetupRead
<1>6. CASE PinSave(j)
  BY <1>0, <1>6 DEF PinSave
<1> QED BY <1>1, <1>2, <1>3, <1>4, <1>5, <1>6 DEF PinStep

\* Whoever works is then where its kind may be,
LEMMA WorkFits ==
  ASSUME Wellformed, NEW j \in Jobs, Works(j)
  PROVE  Fits(pc'[j], Kind(j))
<1>0. SessionsTyped /\ Located /\ Fits(pc[j], Kind(j))
  BY DEF Wellformed, Located
<1>1. CASE Send(j)
  BY <1>0, <1>1 DEF Send, Goto, SessionsTyped, Fits, AuthSteps, RevokeSteps, Rehydrates,
     WithCookie, WithAccess
<1> QED BY <1>0, <1>1, RefreshFits, LoginFits, AuthFits, RevokeFits, ChangeFits, RehydrateFits,
           CodeFits, ResetFits, PinFits
        DEF Works, SessionStep, CredentialStep

\* and so is everybody.
LEMMA LocatedStep ==
  ASSUME Wellformed, [Next]_vars
  PROVE  Located'
<1> SUFFICES ASSUME NEW k \in Jobs PROVE Fits(pc'[k], Kind(k))
  BY Given DEF Located, Kind, Job
<1>0. Fits(pc[k], Kind(k))
  BY DEF Wellformed, Located
<1>1. CASE Works(k)
  BY <1>1, WorkFits
<1>2. CASE Waits(k)
  BY <1>0, <1>2 DEF Waits, Woken, Recalled, Fits, AuthSteps, RevokeSteps, Rehydrates
<1> QED BY <1>1, <1>2, Frame

\* Only Send has a request carry anything, and sends on only what does.
LEMMA Sending ==
  ASSUME Wellformed, NEW j \in Jobs, Works(j), ~Send(j)
  PROVE  carried'[j] = carried[j] /\ pc[j] # "later"
<1> USE DEF SessionStep, CredentialStep, At, sessionData
<1>1. CASE RefreshStep(j) \/ LoginStep(j)
  BY <1>1 DEF RefreshStep, VerifyCached, VerifyMongo, VerifyStore, RefreshSession, RefreshMarker,
     RefreshUser, RefreshMark, Issue, Rotate, RefreshPublish, RefreshRetire, Respond,
     LoginStep, LoginRead, WrongPassword, LoginReset, CreateSession, LoginRespond, LoginSeed
<1>2. CASE AuthStep(j) \/ RevokeStep(j)
  BY <1>2 DEF AuthStep, AuthCache, AuthConfirm, AuthSetConfirm, AuthLookup, AuthRepair,
     RevokeStep, RevokedFind, EndMark, EndPurge, EndBlacklist, ClearCookie,
     RevokeFind, RevokeMark, RevokeBlacklist, RevokePurge, RevokeSpare
<1>3. CASE ChangeStep(j) \/ RehydrateStep(j)
  BY <1>3 DEF ChangeStep, ChangeRead, ChangeCommit, Forget,
     RehydrateStep, RehydrateFind, RehydrateBlacklist, RehydratePurge
<1>4. CASE CodeStep(j)
  BY <1>4 DEF CodeStep, CodeCooldown, CodeCeiling, CodeReplace, CodeInsert, CodeMail,
     CodeInvalidate, CodeStuck, CodeFind, CodeMiss, CodeConsume
<1>5. CASE ResetStep(j) \/ PinStep(j)
  BY <1>5 DEF ResetStep, EmailCommit, ResetUser, ResetToken, ResetRead, ResetCommit,
     PinStep, PinRead, PinUnlock, PinWrong, PinReset, SetupRead, PinSave
<1> QED BY <1>1, <1>2, <1>3, <1>4, <1>5 DEF Works

\* A step that only a request with a token comes to.
Bearing(j) ==
    \/ pc[j] \in {"verify", "verifyMongo", "verifyStore"} \cup AuthSteps
    \/ Kind(j) = "refresh" /\ pc[j] \notin {"later", "start", "400"}

\* To come to such a step is to have been at one, or to have been sent.
LEMMA Bears ==
  ASSUME Wellformed, NEW j \in Jobs, Works(j), ~Send(j),
         pc'[j] \in {"verify", "verifyMongo", "verifyStore"} \cup AuthSteps
  PROVE  Bearing(j)
<1> USE DEF Bearing, AuthSteps, At, Goto
<1>0. SessionsTyped /\ Fits(pc[j], Kind(j)) /\ Kind(j) \in Kinds
  BY JobType DEF Wellformed, Located, JobFacts, SessionsTyped
<1>1. CASE RefreshStep(j)
  BY <1>0, <1>1 DEF SessionsTyped, RefreshStep, VerifyCached, VerifyMongo, VerifyStore,
     RefreshSession, RefreshMarker, RefreshUser, RefreshMark, Issue, Rotate, RefreshPublish,
     RefreshRetire, Respond, Verified
<1>2. CASE LoginStep(j)
  BY <1>0, <1>2 DEF SessionsTyped, LoginStep, LoginRead, WrongPassword, LoginReset,
     CreateSession, LoginRespond, LoginSeed
<1>3. CASE AuthStep(j)
  BY <1>0, <1>3 DEF AuthStep, AuthCache, AuthConfirm, AuthSetConfirm, AuthLookup, AuthRepair
<1>4. CASE RevokeStep(j)
  <2>1. pc'[j] \in Replies \cup {"endMark", "endPurge", "endBlacklist", "clearCookie", "revokeMark",
                     "revokeBlacklist", "revokePurge", "revokeSpare", "forget"}
    <3>1. CASE RevokeSpare(j)
      BY <1>0, <3>1 DEF SessionsTyped, RevokeSpare, Fits, RevokeSteps, Replies
    <3> QED BY <1>0, <1>4, <3>1 DEF SessionsTyped, RevokeStep, RevokedFind, EndMark, EndPurge,
         EndBlacklist, ClearCookie, RevokeFind, RevokeMark, RevokeBlacklist, RevokePurge, Replies
  <2> QED BY <2>1 DEF Replies
<1>5. CASE ChangeStep(j) \/ RehydrateStep(j)
  BY <1>0, <1>5 DEF SessionsTyped, ChangeStep, ChangeRead, ChangeCommit, Forget,
     RehydrateStep, RehydrateFind, RehydrateBlacklist, RehydratePurge
<1>6. CASE CodeStep(j)
  <2>1. CASE CodeInvalidate(j) \/ CodeStuck(j)
    BY <1>0, <2>1 DEF SessionsTyped, CodeInvalidate, CodeStuck
  <2>2. CASE CodeConsume(j)
    BY <1>0, <2>2 DEF SessionsTyped, CodeConsume, Fits, WithCode
  <2> QED BY <1>0, <1>6, <2>1, <2>2 DEF SessionsTyped, CodeStep, CodeCooldown, CodeCeiling,
          CodeReplace, CodeInsert, CodeMail, CodeFind, CodeMiss
<1>7. CASE ResetStep(j)
  BY <1>0, <1>7 DEF SessionsTyped, ResetStep, EmailCommit, ResetUser, ResetToken, ResetRead,
     ResetCommit
<1>8. CASE PinStep(j)
  BY <1>0, <1>8 DEF SessionsTyped, PinStep, PinRead, PinUnlock, PinWrong, PinReset, SetupRead,
     PinSave, Judged
<1> QED BY <1>1, <1>2, <1>3, <1>4, <1>5, <1>6, <1>7, <1>8
        DEF Works, SessionStep, CredentialStep

\* A refresh that has started has been sent.
LEMMA RefreshSent ==
  ASSUME Wellformed, NEW j \in Jobs, Works(j), ~Send(j), Kind(j) = "refresh"
  PROVE  pc[j] \notin {"later", "start", "400"}
<1>0. Fits(pc[j], Kind(j)) /\ pc[j] # "later"
  BY Sending DEF Wellformed, Located
<1> USE DEF At
<1>1. CASE RefreshStep(j) \/ LoginStep(j)
  BY <1>1 DEF RefreshStep, VerifyCached, VerifyMongo, VerifyStore, RefreshSession, RefreshMarker,
     RefreshUser, RefreshMark, Issue, Rotate, RefreshPublish, RefreshRetire, Respond,
     LoginStep, LoginRead, WrongPassword, LoginReset, CreateSession, LoginRespond, LoginSeed
<1>2. CASE AuthStep(j) \/ RevokeStep(j)
  BY <1>2 DEF AuthStep, AuthCache, AuthConfirm, AuthSetConfirm, AuthLookup, AuthRepair,
     RevokeStep, RevokedFind, EndMark, EndPurge, EndBlacklist, ClearCookie,
     RevokeFind, RevokeMark, RevokeBlacklist, RevokePurge, RevokeSpare
<1>3. CASE ChangeStep(j) \/ RehydrateStep(j)
  BY <1>3 DEF ChangeStep, ChangeRead, ChangeCommit, Forget,
     RehydrateStep, RehydrateFind, RehydrateBlacklist, RehydratePurge
<1>4. CASE CodeStep(j)
  BY <1>4 DEF CodeStep, CodeCooldown, CodeCeiling, CodeReplace, CodeInsert, CodeMail,
     CodeInvalidate, CodeStuck, CodeFind, CodeMiss, CodeConsume, WithCode
<1>5. CASE ResetStep(j) \/ PinStep(j)
  BY <1>5 DEF ResetStep, EmailCommit, ResetUser, ResetToken, ResetRead, ResetCommit,
     PinStep, PinRead, PinUnlock, PinWrong, PinReset, SetupRead, PinSave
<1> QED BY <1>1, <1>2, <1>3, <1>4, <1>5 DEF Works, SessionStep, CredentialStep

\* Past Send a request carries a token, after every step.
LEMMA CarriesStep ==
  ASSUME Wellformed, [Next]_vars
  PROVE  Carries'
<1> SUFFICES ASSUME NEW k \in Jobs, Bearing(k)' PROVE carried'[k] \in Tokens
  BY DEF Carries, Bearing, Tokens
<1>0. /\ Bearing(k) => carried[k] \in Tokens
      /\ Kind(k)' = Kind(k) /\ SessionsTyped
  BY Given DEF Wellformed, Carries, Bearing, Kind, Job
<1>1. CASE Works(k) /\ ~Send(k)
  <2>1. carried'[k] = carried[k]
    BY <1>1, Sending
  <2>2. CASE Kind(k) = "refresh"
    BY <1>0, <1>1, <2>1, <2>2, RefreshSent DEF Bearing
  <2>3. CASE Kind(k) # "refresh"
    BY <1>0, <1>1, <2>1, <2>3, Bears DEF Bearing
  <2> QED BY <2>2, <2>3
<1>2. CASE Send(k)
  <2> DEFINE t == IF Kind(k) \in WithCookie THEN cookie[Dev(k)] ELSE access[Job(k).tab]
  <2>1. t \in Token /\ carried'[k] = t
    BY <1>0, <1>2, JobType DEF Send, SessionsTyped, JobFacts
  <2>2. t = NoToken => pc'[k] \in {"400", "ok", "401"} /\ (Kind(k) = "refresh" => pc'[k] = "400")
    BY <1>0, <1>2 DEF Send, SessionsTyped, Goto
  <2>3. t # NoToken
    BY <1>0, <2>2 DEF Bearing, AuthSteps
  <2> QED BY <2>1, <2>3 DEF Token
<1>3. CASE Waits(k)
  <2>1. pc'[k] = pc[k] \/ pc'[k] = "start" \/ (pc'[k] = "rehydrate" /\ Kind(k) = "rehydrate")
    BY <1>3 DEF Waits, Woken, Recalled
  <2> QED BY <1>0, <1>3, <2>1 DEF Waits, Bearing, AuthSteps
<1> QED BY <1>1, <1>2, <1>3, Frame

\* Nobody takes the slots of a call before the call does.
LEMMA SlotsStep ==
  ASSUME Wellformed, [Next]_vars
  PROVE  SlotsInv'
<1>0. /\ SessionsTyped /\ BrowserTyped /\ SlotsInv /\ workload' = workload
      /\ \A c \in Calls : /\ c \in Jobs /\ Refresher(c) \in Jobs /\ Retry(c) \in Jobs
                          /\ Refresher(c) # Retry(c)
                          /\ Refresher(c) \notin Calls /\ Retry(c) \notin Calls
                          /\ Kind(Refresher(c)) # "rehydrate" /\ Kind(Retry(c)) # "rehydrate"
                          /\ \A e \in Calls \ {c} :
                                /\ Refresher(e) # Refresher(c) /\ Refresher(e) # Retry(c)
                                /\ Retry(e) # Refresher(c) /\ Retry(e) # Retry(c)
  BY CallType, Given DEF Wellformed, SessionsTyped
<1>1. Calls' = Calls /\ \A c : Refresher(c)' = Refresher(c) /\ Retry(c)' = Retry(c)
  BY <1>0 DEF Calls, Refresher, Retry
<1>2. ASSUME call' = call,
             \A r \in Jobs : (pc[r] = "later" /\ Kind(r) # "rehydrate") => pc'[r] = "later"
      PROVE  SlotsInv'
  BY <1>0, <1>1, <1>2 DEF SlotsInv
<1>3. ASSUME NEW j \in Jobs, Works(j)
      PROVE  SlotsInv'
  <2>1. pc[j] # "later"
    BY <1>3, Sending DEF Send, At
  <2>2. \A r \in Jobs : pc[r] = "later" => pc'[r] = "later"
    BY <1>0, <1>3, <2>1, Alone DEF Still
  <2>3. call' = call
    BY <1>3 DEF Works, SessionStep, CredentialStep, browser
  <2> QED BY <1>2, <2>2, <2>3
<1>4. CASE Clock
  <2>1. \A r \in Jobs : (pc[r] = "later" /\ Kind(r) # "rehydrate") => pc'[r] = "later"
    BY <1>0, <1>4, ClockWaits DEF Waits, Recalled
  <2>2. call' = call
    BY <1>4 DEF Clock, browser
  <2> QED BY <1>2, <2>1, <2>2
<1>5. ASSUME NEW c \in Jobs, BrowserStep(c)
      PROVE  SlotsInv'
  <2>1. CASE Settle(c)
    BY <1>0, <1>1, <2>1 DEF Settle, SlotsInv, BrowserTyped, Outcome
  <2>2. CASE Intercept(c)
    <3>1. CASE Refreshing(Tab(c))
      BY <1>0, <1>1, <2>2, <3>1 DEF Intercept, SlotsInv, BrowserTyped
    <3>2. CASE ~Refreshing(Tab(c))
      <4>1. /\ c \in Calls /\ call[c] = "sent"
            /\ call' = [call EXCEPT ![c] = "waits", ![Refresher(c)] = "sent"]
            /\ pc' = [pc EXCEPT ![Refresher(c)] = "start"]
        BY <2>2, <3>2 DEF Intercept, Goto
      <4> QED BY <1>0, <1>1, <4>1 DEF SlotsInv, BrowserTyped, SessionsTyped
    <3> QED BY <3>1, <3>2
  <2>3. CASE ResumeRetry(c)
    <3>1. /\ c \in Calls /\ call[c] = "waits"
          /\ call' = [call EXCEPT ![c] = "resent"] /\ pc' = [pc EXCEPT ![Retry(c)] = "start"]
      BY <2>3 DEF ResumeRetry, Goto
    <3> QED BY <1>0, <1>1, <3>1 DEF SlotsInv, BrowserTyped, SessionsTyped
  <2>4. CASE ResumeReject(c)
    BY <1>0, <1>1, <2>4 DEF ResumeReject, SlotsInv, BrowserTyped
  <2>5. CASE SettleRetry(c)
    BY <1>0, <1>1, <2>5 DEF SettleRetry, SlotsInv, BrowserTyped, Outcome
  <2> QED BY <1>5, <2>1, <2>2, <2>3, <2>4, <2>5 DEF BrowserStep
<1>6. CASE UNCHANGED vars
  BY <1>2, <1>6 DEF vars, browser
<1> QED BY <1>3, <1>4, <1>5, <1>6 DEF Next, Step, Works, ClientStep

\* The types, after every step.
LEMMA TypedStep ==
  ASSUME Wellformed, [Next]_vars
  PROVE  SessionsTyped' /\ CredentialsTyped' /\ BrowserTyped'
<1>0. SessionsTyped /\ CredentialsTyped /\ BrowserTyped
  BY DEF Wellformed
<1>1. ASSUME UNCHANGED credentials PROVE CredentialsTyped'
  BY <1>0, <1>1 DEF CredentialsTyped, credentials
<1>2. ASSUME UNCHANGED browser PROVE BrowserTyped'
  BY <1>0, <1>2 DEF BrowserTyped, browser
<1>3. ASSUME NEW j \in Jobs, SessionStep(j)
      PROVE  SessionsTyped' /\ CredentialsTyped' /\ BrowserTyped'
  BY <1>1, <1>2, <1>3, SendTyped, RefreshTyped, LoginTyped, AuthTyped, RevokeTyped,
     ChangeTyped, RehydrateTyped DEF SessionStep
<1>4. ASSUME NEW j \in Jobs, CredentialStep(j)
      PROVE  SessionsTyped' /\ CredentialsTyped' /\ BrowserTyped'
  BY <1>2, <1>4, CodeTyped, ResetTyped, PinTyped, CodeStepTyped, ResetStepTyped, PinStepTyped
     DEF CredentialStep
<1>5. ASSUME NEW j \in Jobs, ClientStep(j)
      PROVE  SessionsTyped' /\ CredentialsTyped' /\ BrowserTyped'
  BY <1>1, <1>5, TabsTyped DEF ClientStep
<1>6. CASE SessionsClock /\ UNCHANGED <<credentials, browser>>
  BY <1>1, <1>2, <1>6, ClockTyped
<1>7. CASE CredentialsClock /\ UNCHANGED browser
  <2>1. UNCHANGED <<workload, pc, carried, mem, minted, user, dirty, sessions, redis, cookie,
                    access, log>>
    BY <1>7 DEF CredentialsClock, CooldownPasses, PinLockExpires, CodeExpires, sessionData, client
  <2>2. SessionsTyped'
    BY <1>0, <2>1 DEF SessionsTyped
  <2> QED BY <1>2, <1>7, <2>2, CredentialsClockTyped
<1>8. CASE UNCHANGED vars
  <2>1. SessionsTyped'
    BY <1>0, <1>8 DEF vars, SessionsTyped
  <2> QED BY <1>1, <1>2, <1>8, <2>1 DEF vars
<1> QED BY <1>3, <1>4, <1>5, <1>6, <1>7, <1>8 DEF Next, Step, Clock

\* The first part of the invariant is inductive.
LEMMA WellformedStep ==
  ASSUME Wellformed, [Next]_vars
  PROVE  Wellformed'
BY TypedStep, LocatedStep, CarriesStep, SlotsStep DEF Wellformed

\* It holds at the start.
LEMMA WellformedInit ==
  ASSUME Init
  PROVE  Wellformed
<1> USE DEF Init, SessionsInit, CredentialsInit, BrowserInit
<1>1. /\ workload.signedIn \subseteq Devices /\ workload.pin \in Nat
      /\ workload.open \in [Tabs -> Devices \cup {NoToken}]
      /\ workload.rehydrated \in BOOLEAN /\ NoToken \notin Tokens /\ MaxAttempts \in Nat
  BY WorkloadAssumption, TokenAssumption
<1>2. sessions \in [Devices -> Session] /\ \A d \in Devices :
        (sessions[d].active => sessions[d].token # NoToken) /\ sessions[d].token \in Token
  BY <1>1 DEF Session, Token, Tokens
<1>3. redis \in Keys
  BY <1>1, <1>2 DEF Keys, Token, Tokens, NoVersion
<1>4. mem \in [Jobs -> Mem] /\ minted \in [Tokens -> Nat] /\ user \in Lock
  BY DEF Mem, Lock, Locks
<1>5. carried \in [Jobs -> Token] /\ cookie \in [Devices -> Token] /\ access \in [Tabs -> Token]
  BY <1>1, <1>2 DEF Token, Tokens
<1>6. log \in Log
  BY DEF Log
<1>7. SessionsTyped
  BY <1>2, <1>3, <1>4, <1>5, <1>6 DEF SessionsTyped
<1>8. CredentialsTyped
  BY <1>1 DEF CredentialsTyped, Code, CodeStates, Lock, Locks, Acts
<1>9. BrowserTyped
  BY DEF BrowserTyped, CallStates
<1>10. \A j \in Jobs : pc[j] \in {"later", "start"}
  OBVIOUS
<1>11. Located /\ Carries
  BY <1>10 DEF Located, Carries, Fits, AuthSteps, RevokeSteps, Rehydrates
<1>12. SlotsInv
  BY <1>7, CallType DEF SlotsInv, SessionsTyped
<1> QED BY <1>7, <1>8, <1>9, <1>11, <1>12 DEF Wellformed

\* Each request is where its kind may be, with what it needs, and nobody takes
\* the slots of a call of the application before the call does.
THEOREM AccessIsWellformed == Spec => []Wellformed
<1>1. Init => Wellformed
  BY WellformedInit
<1>2. Wellformed /\ [Next]_vars => Wellformed'
  BY WellformedStep
<1> QED BY <1>1, <1>2, PTL DEF Spec

-----------------------------------------------------------------------------
(* What work leaves alone.                                                 *)

\* Four steps write session documents.
LEMMA SessionsFrame ==
  ASSUME SessionsTyped, CredentialsTyped, NEW j \in Jobs, Works(j)
  PROVE  \/ sessions' = sessions
         \/ Rotate(j) \/ CreateSession(j) \/ EndMark(j) \/ RevokeMark(j)
<1> USE DEF SessionsTyped, CredentialsTyped, db, client
<1>1. CASE RefreshStep(j)
  BY <1>1 DEF RefreshStep, VerifyCached, VerifyMongo, VerifyStore, RefreshSession,
     RefreshMarker, RefreshUser, RefreshMark, Issue, Rotate, RefreshPublish, RefreshRetire, Respond
<1>2. CASE LoginStep(j)
  BY <1>2 DEF LoginStep, LoginRead, WrongPassword, LoginReset, CreateSession, LoginRespond,
     LoginSeed
<1>3. CASE AuthStep(j)
  BY <1>3 DEF AuthStep, AuthCache, AuthConfirm, AuthSetConfirm, AuthLookup, AuthRepair
<1>4. CASE RevokeStep(j)
  BY <1>4 DEF RevokeStep, RevokedFind, EndMark, EndPurge, EndBlacklist, ClearCookie, RevokeFind,
     RevokeMark, RevokeBlacklist, RevokePurge, RevokeSpare
<1>5. CASE ChangeStep(j)
  BY <1>5 DEF ChangeStep, ChangeRead, ChangeCommit, Forget
<1>6. CASE RehydrateStep(j)
  BY <1>6 DEF RehydrateStep, RehydrateFind, RehydrateBlacklist, RehydratePurge
<1>7. CASE CodeStep(j)
  BY <1>7 DEF CodeStep, CodeCooldown, CodeCeiling, CodeReplace, CodeInsert, CodeMail,
     CodeInvalidate, CodeStuck, CodeFind, CodeMiss, CodeConsume, sessionData, credentials, pinVars
<1>8. CASE ResetStep(j)
  BY <1>8 DEF ResetStep, EmailCommit, ResetUser, ResetToken, ResetRead, ResetCommit,
     sessionData, credentials, pinVars
<1>9. CASE PinStep(j)
  BY <1>9 DEF PinStep, PinRead, PinUnlock, PinWrong, PinReset, SetupRead, PinSave, sessionData,
     credentials, pinVars
<1>10. CASE Send(j)
  BY <1>10 DEF Send
<1> QED BY <1>1, <1>2, <1>3, <1>4, <1>5, <1>6, <1>7, <1>8, <1>9, <1>10 DEF Works, SessionStep,
   CredentialStep

\* Four steps write the user, and taint what the others have read.
LEMMA UserFrame ==
  ASSUME SessionsTyped, CredentialsTyped, NEW j \in Jobs, Works(j)
  PROVE  \/ user' = user /\ dirty \ {j} \subseteq dirty'
         \/ WrongPassword(j) \/ LoginReset(j) \/ ChangeCommit(j) \/ ResetCommit(j)
<1> USE DEF SessionsTyped, CredentialsTyped, db, client
<1>1. CASE RefreshStep(j)
  BY <1>1 DEF RefreshStep, VerifyCached, VerifyMongo, VerifyStore, RefreshSession,
     RefreshMarker, RefreshUser, RefreshMark, Issue, Rotate, RefreshPublish, RefreshRetire,
     Respond, ReadsUser
<1>2. CASE LoginStep(j)
  BY <1>2 DEF LoginStep, LoginRead, WrongPassword, LoginReset, CreateSession, LoginRespond,
     LoginSeed, ReadsUser
<1>3. CASE AuthStep(j)
  BY <1>3 DEF AuthStep, AuthCache, AuthConfirm, AuthSetConfirm, AuthLookup, AuthRepair, ReadsUser
<1>4. CASE RevokeStep(j)
  BY <1>4 DEF RevokeStep, RevokedFind, EndMark, EndPurge, EndBlacklist, ClearCookie, RevokeFind,
     RevokeMark, RevokeBlacklist, RevokePurge, RevokeSpare, ReadsUser
<1>5. CASE ChangeStep(j)
  BY <1>5 DEF ChangeStep, ChangeRead, ChangeCommit, Forget, ReadsUser
<1>6. CASE RehydrateStep(j)
  BY <1>6 DEF RehydrateStep, RehydrateFind, RehydrateBlacklist, RehydratePurge, ReadsUser
<1>7. CASE CodeStep(j)
  BY <1>7 DEF CodeStep, CodeCooldown, CodeCeiling, CodeReplace, CodeInsert, CodeMail,
     CodeInvalidate, CodeStuck, CodeFind, CodeMiss, CodeConsume, sessionData, credentials, pinVars, ReadsUser
<1>8. CASE ResetStep(j)
  BY <1>8 DEF ResetStep, EmailCommit, ResetUser, ResetToken, ResetRead, ResetCommit,
     sessionData, credentials, pinVars, ReadsUser
<1>9. CASE PinStep(j)
  BY <1>9 DEF PinStep, PinRead, PinUnlock, PinWrong, PinReset, SetupRead, PinSave, sessionData,
     credentials, pinVars, ReadsUser
<1>10. CASE Send(j)
  BY <1>10 DEF Send, ReadsUser
<1> QED BY <1>1, <1>2, <1>3, <1>4, <1>5, <1>6, <1>7, <1>8, <1>9, <1>10 DEF Works, SessionStep,
   CredentialStep

\* No request ends an outage or starts one.
LEMMA OutageFrame ==
  ASSUME SessionsTyped, CredentialsTyped, NEW j \in Jobs, Works(j)
  PROVE  /\ redis'.up = redis.up /\ redis'.ready = redis.ready
         /\ redis'.outages = redis.outages
<1> USE DEF SessionsTyped, CredentialsTyped, db, client
<1>1. CASE RefreshStep(j)
  BY <1>1 DEF RefreshStep, VerifyCached, VerifyMongo, VerifyStore, RefreshSession,
     RefreshMarker, RefreshUser, RefreshMark, Issue, Rotate, RefreshPublish, RefreshRetire,
     Respond, Stored, Redis, Keys
<1>2. CASE LoginStep(j)
  BY <1>2 DEF LoginStep, LoginRead, WrongPassword, LoginReset, CreateSession, LoginRespond,
     LoginSeed, Redis, Keys
<1>3. CASE AuthStep(j)
  BY <1>3 DEF AuthStep, AuthCache, AuthConfirm, AuthSetConfirm, AuthLookup, AuthRepair, Redis, Keys
<1>4. CASE RevokeStep(j)
  BY <1>4 DEF RevokeStep, RevokedFind, EndMark, EndPurge, EndBlacklist, ClearCookie, RevokeFind,
     RevokeMark, RevokeBlacklist, RevokePurge, RevokeSpare, Purged, Blacklisted, Redis, Keys
<1>5. CASE ChangeStep(j)
  BY <1>5 DEF ChangeStep, ChangeRead, ChangeCommit, Forget, Redis, Keys
<1>6. CASE RehydrateStep(j)
  BY <1>6 DEF RehydrateStep, RehydrateFind, RehydrateBlacklist, RehydratePurge, Blacklisted,
     Redis, Keys
<1>7. CASE CodeStep(j)
  BY <1>7 DEF CodeStep, CodeCooldown, CodeCeiling, CodeReplace, CodeInsert, CodeMail,
     CodeInvalidate, CodeStuck, CodeFind, CodeMiss, CodeConsume, sessionData, credentials, pinVars, Redis,
     Keys
<1>8. CASE ResetStep(j)
  BY <1>8 DEF ResetStep, EmailCommit, ResetUser, ResetToken, ResetRead, ResetCommit,
     sessionData, credentials, pinVars, Redis, Keys
<1>9. CASE PinStep(j)
  BY <1>9 DEF PinStep, PinRead, PinUnlock, PinWrong, PinReset, SetupRead, PinSave, sessionData,
     credentials, pinVars, Redis, Keys
<1>10. CASE Send(j)
  BY <1>10 DEF Send, Redis, Keys
<1> QED BY <1>1, <1>2, <1>3, <1>4, <1>5, <1>6, <1>7, <1>8, <1>9, <1>10 DEF Works, SessionStep,
   CredentialStep

\* Four steps write the version of the password in Redis.
LEMMA PwdverFrame ==
  ASSUME SessionsTyped, CredentialsTyped, NEW j \in Jobs, Works(j)
  PROVE  \/ redis'.pwdver = redis.pwdver
         \/ LoginSeed(j) \/ AuthRepair(j) \/ Forget(j) \/ RehydratePurge(j)
<1> USE DEF SessionsTyped, CredentialsTyped, db, client
<1>1. CASE RefreshStep(j)
  BY <1>1 DEF RefreshStep, VerifyCached, VerifyMongo, VerifyStore, RefreshSession,
     RefreshMarker, RefreshUser, RefreshMark, Issue, Rotate, RefreshPublish, RefreshRetire,
     Respond, Stored, Redis, Keys
<1>2. CASE LoginStep(j)
  BY <1>2 DEF LoginStep, LoginRead, WrongPassword, LoginReset, CreateSession, LoginRespond,
     LoginSeed, Redis, Keys
<1>3. CASE AuthStep(j)
  BY <1>3 DEF AuthStep, AuthCache, AuthConfirm, AuthSetConfirm, AuthLookup, AuthRepair, Redis, Keys
<1>4. CASE RevokeStep(j)
  BY <1>4 DEF RevokeStep, RevokedFind, EndMark, EndPurge, EndBlacklist, ClearCookie, RevokeFind,
     RevokeMark, RevokeBlacklist, RevokePurge, RevokeSpare, Purged, Blacklisted, Redis, Keys
<1>5. CASE ChangeStep(j)
  BY <1>5 DEF ChangeStep, ChangeRead, ChangeCommit, Forget, Redis, Keys
<1>6. CASE RehydrateStep(j)
  BY <1>6 DEF RehydrateStep, RehydrateFind, RehydrateBlacklist, RehydratePurge, Blacklisted,
     Redis, Keys
<1>7. CASE CodeStep(j)
  BY <1>7 DEF CodeStep, CodeCooldown, CodeCeiling, CodeReplace, CodeInsert, CodeMail,
     CodeInvalidate, CodeStuck, CodeFind, CodeMiss, CodeConsume, sessionData, credentials, pinVars, Redis,
     Keys
<1>8. CASE ResetStep(j)
  BY <1>8 DEF ResetStep, EmailCommit, ResetUser, ResetToken, ResetRead, ResetCommit,
     sessionData, credentials, pinVars, Redis, Keys
<1>9. CASE PinStep(j)
  BY <1>9 DEF PinStep, PinRead, PinUnlock, PinWrong, PinReset, SetupRead, PinSave, sessionData,
     credentials, pinVars, Redis, Keys
<1>10. CASE Send(j)
  BY <1>10 DEF Send, Redis, Keys
<1> QED BY <1>1, <1>2, <1>3, <1>4, <1>5, <1>6, <1>7, <1>8, <1>9, <1>10 DEF Works, SessionStep,
   CredentialStep

\* Three steps blacklist.
LEMMA BlackFrame ==
  ASSUME SessionsTyped, CredentialsTyped, NEW j \in Jobs, Works(j)
  PROVE  \/ redis'.black = redis.black
         \/ EndBlacklist(j) \/ RevokeBlacklist(j) \/ RehydrateBlacklist(j)
<1> USE DEF SessionsTyped, CredentialsTyped, db, client
<1>1. CASE RefreshStep(j)
  BY <1>1 DEF RefreshStep, VerifyCached, VerifyMongo, VerifyStore, RefreshSession,
     RefreshMarker, RefreshUser, RefreshMark, Issue, Rotate, RefreshPublish, RefreshRetire,
     Respond, Stored, Redis, Keys
<1>2. CASE LoginStep(j)
  BY <1>2 DEF LoginStep, LoginRead, WrongPassword, LoginReset, CreateSession, LoginRespond,
     LoginSeed, Redis, Keys
<1>3. CASE AuthStep(j)
  BY <1>3 DEF AuthStep, AuthCache, AuthConfirm, AuthSetConfirm, AuthLookup, AuthRepair, Redis, Keys
<1>4. CASE RevokeStep(j)
  BY <1>4 DEF RevokeStep, RevokedFind, EndMark, EndPurge, EndBlacklist, ClearCookie, RevokeFind,
     RevokeMark, RevokeBlacklist, RevokePurge, RevokeSpare, Purged, Blacklisted, Redis, Keys
<1>5. CASE ChangeStep(j)
  BY <1>5 DEF ChangeStep, ChangeRead, ChangeCommit, Forget, Redis, Keys
<1>6. CASE RehydrateStep(j)
  BY <1>6 DEF RehydrateStep, RehydrateFind, RehydrateBlacklist, RehydratePurge, Blacklisted,
     Redis, Keys
<1>7. CASE CodeStep(j)
  BY <1>7 DEF CodeStep, CodeCooldown, CodeCeiling, CodeReplace, CodeInsert, CodeMail,
     CodeInvalidate, CodeStuck, CodeFind, CodeMiss, CodeConsume, sessionData, credentials, pinVars, Redis,
     Keys
<1>8. CASE ResetStep(j)
  BY <1>8 DEF ResetStep, EmailCommit, ResetUser, ResetToken, ResetRead, ResetCommit,
     sessionData, credentials, pinVars, Redis, Keys
<1>9. CASE PinStep(j)
  BY <1>9 DEF PinStep, PinRead, PinUnlock, PinWrong, PinReset, SetupRead, PinSave, sessionData,
     credentials, pinVars, Redis, Keys
<1>10. CASE Send(j)
  BY <1>10 DEF Send, Redis, Keys
<1> QED BY <1>1, <1>2, <1>3, <1>4, <1>5, <1>6, <1>7, <1>8, <1>9, <1>10 DEF Works, SessionStep,
   CredentialStep

\* One step marks a rotation.
LEMMA RotatedFrame ==
  ASSUME SessionsTyped, CredentialsTyped, NEW j \in Jobs, Works(j)
  PROVE  redis'.rotated = redis.rotated \/ RefreshMark(j)
<1> USE DEF SessionsTyped, CredentialsTyped, db, client
<1>1. CASE RefreshStep(j)
  BY <1>1 DEF RefreshStep, VerifyCached, VerifyMongo, VerifyStore, RefreshSession,
     RefreshMarker, RefreshUser, RefreshMark, Issue, Rotate, RefreshPublish, RefreshRetire,
     Respond, Stored, Redis, Keys
<1>2. CASE LoginStep(j)
  BY <1>2 DEF LoginStep, LoginRead, WrongPassword, LoginReset, CreateSession, LoginRespond,
     LoginSeed, Redis, Keys
<1>3. CASE AuthStep(j)
  BY <1>3 DEF AuthStep, AuthCache, AuthConfirm, AuthSetConfirm, AuthLookup, AuthRepair, Redis, Keys
<1>4. CASE RevokeStep(j)
  BY <1>4 DEF RevokeStep, RevokedFind, EndMark, EndPurge, EndBlacklist, ClearCookie, RevokeFind,
     RevokeMark, RevokeBlacklist, RevokePurge, RevokeSpare, Purged, Blacklisted, Redis, Keys
<1>5. CASE ChangeStep(j)
  BY <1>5 DEF ChangeStep, ChangeRead, ChangeCommit, Forget, Redis, Keys
<1>6. CASE RehydrateStep(j)
  BY <1>6 DEF RehydrateStep, RehydrateFind, RehydrateBlacklist, RehydratePurge, Blacklisted,
     Redis, Keys
<1>7. CASE CodeStep(j)
  BY <1>7 DEF CodeStep, CodeCooldown, CodeCeiling, CodeReplace, CodeInsert, CodeMail,
     CodeInvalidate, CodeStuck, CodeFind, CodeMiss, CodeConsume, sessionData, credentials, pinVars, Redis,
     Keys
<1>8. CASE ResetStep(j)
  BY <1>8 DEF ResetStep, EmailCommit, ResetUser, ResetToken, ResetRead, ResetCommit,
     sessionData, credentials, pinVars, Redis, Keys
<1>9. CASE PinStep(j)
  BY <1>9 DEF PinStep, PinRead, PinUnlock, PinWrong, PinReset, SetupRead, PinSave, sessionData,
     credentials, pinVars, Redis, Keys
<1>10. CASE Send(j)
  BY <1>10 DEF Send, Redis, Keys
<1> QED BY <1>1, <1>2, <1>3, <1>4, <1>5, <1>6, <1>7, <1>8, <1>9, <1>10 DEF Works, SessionStep,
   CredentialStep

\* Which steps are recorded.
LEMMA LogFrame ==
  ASSUME SessionsTyped, CredentialsTyped, NEW j \in Jobs, Works(j)
  PROVE  /\ log'.exchanged = log.exchanged \/ Rotate(j)
         /\ log'.reuse = log.reuse \/ RefreshMarker(j)
         /\ log'.unmarked = log.unmarked \/ RefreshMark(j)
         /\ log'.gone = log.gone \/ EndBlacklist(j) \/ RevokeSpare(j)
         /\ log'.replaced = log.replaced \/ CreateSession(j)
         /\ log'.late = log.late \/ Send(j)
         /\ log'.admitted = log.admitted \/ AuthCache(j) \/ AuthSetConfirm(j)
            \/ AuthLookup(j) \/ AuthRepair(j)
         /\ log'.blind = log.blind \/ LoginSeed(j) \/ AuthRepair(j)
<1> USE DEF SessionsTyped, CredentialsTyped, db, client
<1>1. CASE RefreshStep(j)
  BY <1>1 DEF RefreshStep, VerifyCached, VerifyMongo, VerifyStore, RefreshSession,
     RefreshMarker, RefreshUser, RefreshMark, Issue, Rotate, RefreshPublish, RefreshRetire,
     Respond, Log
<1>2. CASE LoginStep(j)
  BY <1>2 DEF LoginStep, LoginRead, WrongPassword, LoginReset, CreateSession, LoginRespond,
     LoginSeed, Log
<1>3. CASE AuthStep(j)
  BY <1>3 DEF AuthStep, AuthCache, AuthConfirm, AuthSetConfirm, AuthLookup, AuthRepair, Admit, Log
<1>4. CASE RevokeStep(j)
  BY <1>4 DEF RevokeStep, RevokedFind, EndMark, EndPurge, EndBlacklist, ClearCookie, RevokeFind,
     RevokeMark, RevokeBlacklist, RevokePurge, RevokeSpare, Log
<1>5. CASE ChangeStep(j)
  BY <1>5 DEF ChangeStep, ChangeRead, ChangeCommit, Forget, Log
<1>6. CASE RehydrateStep(j)
  BY <1>6 DEF RehydrateStep, RehydrateFind, RehydrateBlacklist, RehydratePurge, Log
<1>7. CASE CodeStep(j)
  BY <1>7 DEF CodeStep, CodeCooldown, CodeCeiling, CodeReplace, CodeInsert, CodeMail,
     CodeInvalidate, CodeStuck, CodeFind, CodeMiss, CodeConsume, sessionData, credentials, pinVars, Log
<1>8. CASE ResetStep(j)
  BY <1>8 DEF ResetStep, EmailCommit, ResetUser, ResetToken, ResetRead, ResetCommit,
     sessionData, credentials, pinVars, Log
<1>9. CASE PinStep(j)
  BY <1>9 DEF PinStep, PinRead, PinUnlock, PinWrong, PinReset, SetupRead, PinSave, sessionData,
     credentials, pinVars, Log
<1>10. CASE Send(j)
  BY <1>10 DEF Send, Log
<1> QED BY <1>1, <1>2, <1>3, <1>4, <1>5, <1>6, <1>7, <1>8, <1>9, <1>10 DEF Works, SessionStep,
   CredentialStep

\* What is read of the password is the user's version.
LEMMA VersionFrame ==
  ASSUME SessionsTyped, CredentialsTyped, NEW j \in Jobs, Works(j)
  PROVE  \/ mem'[j].version \in {mem[j].version, user.version}
         \/ PinRead(j)
<1> USE DEF SessionsTyped, CredentialsTyped, db, client
<1>1. CASE RefreshStep(j)
  BY <1>1 DEF RefreshStep, VerifyCached, VerifyMongo, VerifyStore, RefreshSession,
     RefreshMarker, RefreshUser, RefreshMark, Issue, Rotate, RefreshPublish, RefreshRetire,
     Respond, Mem
<1>2. CASE LoginStep(j)
  BY <1>2 DEF LoginStep, LoginRead, WrongPassword, LoginReset, CreateSession, LoginRespond,
     LoginSeed, Mem
<1>3. CASE AuthStep(j)
  BY <1>3 DEF AuthStep, AuthCache, AuthConfirm, AuthSetConfirm, AuthLookup, AuthRepair, Mem
<1>4. CASE RevokeStep(j)
  BY <1>4 DEF RevokeStep, RevokedFind, EndMark, EndPurge, EndBlacklist, ClearCookie, RevokeFind,
     RevokeMark, RevokeBlacklist, RevokePurge, RevokeSpare, Mem
<1>5. CASE ChangeStep(j)
  BY <1>5 DEF ChangeStep, ChangeRead, ChangeCommit, Forget, Mem
<1>6. CASE RehydrateStep(j)
  <2>1. CASE RehydrateFind(j)
    <3>1. PICK F : mem' = [mem EXCEPT ![j].found = F, ![j].up = redis.up,
                                      ![j].outages = redis.outages]
      BY <2>1 DEF RehydrateFind
    <3> QED BY <3>1 DEF Mem
  <2> QED BY <1>6, <2>1 DEF RehydrateStep, RehydrateBlacklist, RehydratePurge
<1>7. CASE CodeStep(j)
  BY <1>7 DEF CodeStep, CodeCooldown, CodeCeiling, CodeReplace, CodeInsert, CodeMail,
     CodeInvalidate, CodeStuck, CodeFind, CodeMiss, CodeConsume, sessionData, credentials, pinVars, Mem
<1>8. CASE ResetStep(j)
  BY <1>8 DEF ResetStep, EmailCommit, ResetUser, ResetToken, ResetRead, ResetCommit,
     sessionData, credentials, pinVars, Mem
<1>9. CASE PinStep(j)
  BY <1>9 DEF PinStep, PinRead, PinUnlock, PinWrong, PinReset, SetupRead, PinSave, sessionData,
     credentials, pinVars, Mem
<1>10. CASE Send(j)
  BY <1>10 DEF Send, Mem
<1> QED BY <1>1, <1>2, <1>3, <1>4, <1>5, <1>6, <1>7, <1>8, <1>9, <1>10 DEF Works, SessionStep,
   CredentialStep

\* The version of the user only grows, and with two commits.
LEMMA VersionGrows ==
  ASSUME SessionsTyped, CredentialsTyped, NEW j \in Jobs, Works(j)
  PROVE  /\ user'.version \in Nat /\ user'.version >= user.version
         /\ user'.version = user.version \/ ChangeCommit(j) \/ (ResetCommit(j) /\ user' # user)
<1> USE DEF SessionsTyped, Lock
<1>1. CASE WrongPassword(j)
  BY <1>1 DEF WrongPassword, WritesUser
<1>2. CASE LoginReset(j)
  BY <1>2 DEF LoginReset, WritesUser
<1>3. CASE ChangeCommit(j)
  BY <1>3 DEF ChangeCommit, WritesUser
<1>4. CASE ResetCommit(j)
  BY <1>4 DEF ResetCommit, WritesUser
<1> QED BY <1>1, <1>2, <1>3, <1>4, UserFrame

\* A job that rehydrates does nothing else.
LEMMA RehydratesOnly ==
  ASSUME Wellformed, NEW j \in Jobs, Works(j), Kind(j) = "rehydrate"
  PROVE  RehydrateStep(j)
<1>0. Fits(pc[j], Kind(j))
  BY DEF Wellformed, Located
<1> USE <1>0 DEF At, Fits, WithCookie, WithAccess, WithCode, AuthSteps, RevokeSteps, SessionStep,
        CredentialStep
<1>1. ~RefreshStep(j) /\ ~LoginStep(j) /\ ~Send(j)
  BY DEF Send, RefreshStep, VerifyCached, VerifyMongo, VerifyStore, RefreshSession, RefreshMarker,
     RefreshUser, RefreshMark, Issue, Rotate, RefreshPublish, RefreshRetire, Respond,
     LoginStep, LoginRead, WrongPassword, LoginReset, CreateSession, LoginRespond, LoginSeed
<1>2. ~AuthStep(j) /\ ~RevokeStep(j) /\ ~ChangeStep(j)
  BY DEF AuthStep, AuthCache, AuthConfirm, AuthSetConfirm, AuthLookup, AuthRepair,
     RevokeStep, RevokedFind, EndMark, EndPurge, EndBlacklist, ClearCookie,
     RevokeFind, RevokeMark, RevokeBlacklist, RevokePurge, RevokeSpare,
     ChangeStep, ChangeRead, ChangeCommit, Forget
<1>3. ~CodeStep(j)
  BY DEF CodeStep, CodeCooldown, CodeCeiling, CodeReplace, CodeInsert, CodeMail,
     CodeInvalidate, CodeStuck, CodeFind, CodeMiss, CodeConsume
<1>4. ~ResetStep(j) /\ ~PinStep(j)
  BY DEF ResetStep, EmailCommit, ResetUser, ResetToken, ResetRead, ResetCommit,
     PinStep, PinRead, PinUnlock, PinWrong, PinReset, SetupRead, PinSave
<1> QED BY <1>1, <1>2, <1>3, <1>4 DEF Works

\* What is on its way through a revocation stays on it up to its last step.
LEMMA ChangingOnly ==
  ASSUME Wellformed, NEW j \in Jobs, Works(j), Changing(j)
  PROVE  Changing(j)' \/ Forget(j)
<1>0. /\ SessionsTyped /\ Kind(j)' = Kind(j)
      /\ workload' = workload
      /\ pc[j] \in {"revokeFind", "revokeMark", "revokeBlacklist", "revokePurge",
                    "revokeSpare", "forget"}
      /\ Kind(j) \in {"changePassword", "resetPassword"}
  BY Given DEF Wellformed, Changing, Kind, Job, Next, Step, Works
<1> USE <1>0 DEF At, SessionStep, CredentialStep
<1>1. ~RefreshStep(j) /\ ~LoginStep(j) /\ ~Send(j)
  BY DEF Send, RefreshStep, VerifyCached, VerifyMongo, VerifyStore, RefreshSession, RefreshMarker,
     RefreshUser, RefreshMark, Issue, Rotate, RefreshPublish, RefreshRetire, Respond,
     LoginStep, LoginRead, WrongPassword, LoginReset, CreateSession, LoginRespond, LoginSeed
<1>2. ~AuthStep(j) /\ ~RehydrateStep(j)
  BY DEF AuthStep, AuthCache, AuthConfirm, AuthSetConfirm, AuthLookup, AuthRepair,
     RehydrateStep, RehydrateFind, RehydrateBlacklist, RehydratePurge
<1>3. ~CodeStep(j)
  BY DEF CodeStep, CodeCooldown, CodeCeiling, CodeReplace, CodeInsert, CodeMail,
     CodeInvalidate, CodeStuck, CodeFind, CodeMiss, CodeConsume
<1>4. ~ResetStep(j) /\ ~PinStep(j)
  BY DEF ResetStep, EmailCommit, ResetUser, ResetToken, ResetRead, ResetCommit,
     PinStep, PinRead, PinUnlock, PinWrong, PinReset, SetupRead, PinSave
<1>5. CASE RevokeStep(j)
  BY <1>5 DEF RevokeStep, RevokedFind, EndMark, EndPurge, EndBlacklist, ClearCookie,
     RevokeFind, RevokeMark, RevokeBlacklist, RevokePurge, RevokeSpare, Goto, SessionsTyped,
     Changing
<1>6. CASE ChangeStep(j)
  BY <1>6 DEF ChangeStep, ChangeRead, ChangeCommit
<1> QED BY <1>1, <1>2, <1>3, <1>4, <1>5, <1>6 DEF Works

\* What goes on while nobody works.
Quiet ==
    /\ \A k \in Jobs : Waits(k)
    /\ sessions' = sessions /\ mem' = mem /\ carried' = carried /\ minted' = minted
    /\ cookie' = cookie /\ dirty' = dirty /\ user'.version = user.version
    /\ user'.lock = user.lock \/ (user.lock = "locked" /\ user'.lock = "expired")
    /\ redis'.pwdver = redis.pwdver /\ redis'.black = redis.black
    /\ redis'.rotated \subseteq redis.rotated
    /\ redis.rotated \cup log.unmarked \subseteq redis'.rotated \cup log'.unmarked
    /\ log.unmarked \subseteq log'.unmarked
    /\ \/ redis'.up = redis.up /\ redis'.ready = redis.ready /\ redis'.outages = redis.outages
       \/ RedisDown \/ RedisReady \/ BreakerOpens \/ BreakerCloses
    /\ log'.exchanged = log.exchanged /\ log'.reuse = log.reuse /\ log'.gone = log.gone
    /\ log'.replaced = log.replaced /\ log'.late = log.late /\ log'.admitted = log.admitted
    /\ log'.blind = log.blind

\* A step in which nobody works is a quiet one.
LEMMA Quietly ==
  ASSUME Wellformed, [Next]_vars
  PROVE  Quiet \/ \E j \in Jobs : Works(j)
<1>0. SessionsTyped
  BY DEF Wellformed
<1>1. CASE SessionsClock /\ UNCHANGED <<credentials, browser>>
  <2>w. \A k \in Jobs : Waits(k)
    BY <1>0, <1>1, ClockWaits DEF Clock
  <2> USE <1>0 DEF SessionsTyped, Keys, Log, Lock, Expire, db, client, Quiet
  <2>1. CASE RedisDown \/ RedisReady \/ BreakerOpens \/ BreakerCloses
    BY <2>w, <2>1 DEF RedisDown, RedisReady, BreakerOpens, BreakerCloses
  <2>2. CASE LockExpires
    BY <2>w, <2>2 DEF LockExpires
  <2>3. ASSUME NEW t \in Tokens, MarkerExpires(t) PROVE Quiet
    BY <2>w, <2>3 DEF MarkerExpires
  <2>4. ASSUME NEW t \in Tokens, PayloadExpires(t) \/ ConfirmationExpires(t) PROVE Quiet
    BY <2>w, <2>4 DEF PayloadExpires, ConfirmationExpires
  <2> QED BY <1>1, <2>1, <2>2, <2>3, <2>4 DEF SessionsClock
<1>2. CASE CredentialsClock /\ UNCHANGED browser
  <2>w. \A k \in Jobs : Waits(k)
    BY <1>0, <1>2, ClockWaits DEF Clock
  <2> QED BY <1>2, <2>w DEF CredentialsClock, CooldownPasses, PinLockExpires, CodeExpires,
          sessionData, client, Quiet
<1>3. ASSUME NEW c \in Jobs, ClientStep(c) PROVE Quiet
  <2>w. \A k \in Jobs : Waits(k)
    BY <1>3, TabsWait DEF ClientStep
  <2> QED BY <1>3, <2>w DEF ClientStep, BrowserStep, Settle, Intercept, ResumeRetry,
          ResumeReject, SettleRetry, server, db, client, Quiet
<1>4. CASE UNCHANGED vars
  BY <1>4 DEF vars, Quiet, Waits
<1> QED BY <1>1, <1>2, <1>3, <1>4 DEF Next, Step, Works, Clock

-----------------------------------------------------------------------------
(* Redis and the password.                                                 *)

\* Commands stop getting through, or get through again.
Breaks ==
    ~redis'.up /\ (redis'.ready => redis.ready) /\ redis'.outages = redis.outages + 1
Mends == ~redis.up /\ redis'.ready /\ redis'.outages = redis.outages
Outage == Breaks \/ Mends

\* A quiet step changes no more of an outage than that.
LEMMA QuietOutage ==
  ASSUME Wellformed, OutageInv, Quiet
  PROVE  \/ Outage
         \/ redis'.up = redis.up /\ redis'.ready = redis.ready /\ redis'.outages = redis.outages
<1> USE DEF Wellformed, SessionsTyped, Keys, OutageInv, Outage, Breaks, Mends
<1>1. CASE RedisDown \/ BreakerOpens
  BY <1>1 DEF RedisDown, BreakerOpens
<1>2. CASE RedisReady \/ BreakerCloses
  BY <1>2 DEF RedisReady, BreakerCloses
<1> QED BY <1>1, <1>2 DEF Quiet

\* Outages are counted one by one.
LEMMA OutagesGrow ==
  ASSUME Wellformed, OutageInv, [Next]_vars
  PROVE  /\ redis.outages \in Nat /\ redis'.outages \in {redis.outages, redis.outages + 1}
         /\ redis'.outages = redis.outages /\ redis.up => redis'.up
<1>0. SessionsTyped /\ CredentialsTyped /\ redis.outages \in Nat
  BY DEF Wellformed, SessionsTyped, Keys
<1>1. CASE Quiet
  BY <1>0, <1>1, QuietOutage DEF Outage, Breaks, Mends
<1>2. ASSUME NEW j \in Jobs, Works(j)
      PROVE  redis'.outages = redis.outages /\ redis'.up = redis.up
  BY <1>0, <1>2, OutageFrame
<1> QED BY <1>0, <1>1, <1>2, Quietly

\* What is whole after a step was so before it.
LEMMA WholeThen ==
  ASSUME Wellformed, OutageInv, [Next]_vars, NEW r \in Jobs, Rehydrating(r),
         mem'[r] = mem[r], Whole(r)'
  PROVE  Whole(r) /\ redis.up
<1>1. mem[r].outages <= redis.outages /\ mem[r].outages \in Nat
  BY DEF OutageInv, Wellformed, SessionsTyped, Mem
<1>2. redis'.outages = redis.outages
  BY <1>1, OutagesGrow DEF Whole
<1>3. Whole(r)
  BY <1>2 DEF Whole
<1> QED BY <1>3 DEF OutageInv

\* Outages are counted, and none has come in since what rehydrates as a whole
\* began: inductive.
LEMMA OutageStep ==
  ASSUME Wellformed, OutageInv, [Next]_vars
  PROVE  OutageInv'
<1>0. /\ SessionsTyped /\ CredentialsTyped /\ redis.up \in BOOLEAN
      /\ redis.outages \in Nat /\ \A r \in Jobs : Kind(r)' = Kind(r)
  BY Given DEF Wellformed, SessionsTyped, Keys, Kind, Job
<1>1. (redis'.up => redis'.ready) /\ (~redis'.up => redis'.outages > 0)
  <2>1. CASE Quiet
    <3>1. CASE Outage
      BY <1>0, <3>1 DEF Outage, Breaks, Mends, OutageInv
    <3> QED BY <2>1, <3>1, QuietOutage DEF OutageInv
  <2>2. ASSUME NEW j \in Jobs, Works(j)
        PROVE  /\ redis'.up = redis.up /\ redis'.ready = redis.ready
               /\ redis'.outages = redis.outages
    BY <1>0, <2>2, OutageFrame
  <2> QED BY <2>1, <2>2, Quietly DEF OutageInv
<1>2. ASSUME NEW r \in Jobs, Rehydrating(r)'
      PROVE  mem'[r].outages <= redis'.outages /\ (Whole(r)' => redis'.up)
  <2>1. CASE RehydrateFind(r)
    <3>1. mem'[r].up = redis.up /\ mem'[r].outages = redis.outages
      BY <1>0, <2>1 DEF RehydrateFind, SessionsTyped, Mem
    <3>2. Whole(r)' => redis.up /\ redis'.outages = redis.outages
      BY <3>1 DEF Whole
    <3> QED BY <1>0, <3>1, <3>2, OutagesGrow
  <2>2. CASE ~RehydrateFind(r)
    <3>1. Rehydrating(r) /\ mem'[r] = mem[r]
      <4>1. CASE Works(r)
        BY <1>0, <1>2, <2>2, <4>1, RehydratesOnly
           DEF RehydrateStep, RehydrateBlacklist, RehydratePurge, At, Rehydrating
      <4>2. CASE Waits(r)
        BY <1>0, <1>2, <4>2 DEF Waits, Woken, Recalled, Rehydrating
      <4> QED BY <4>1, <4>2, Frame
    <3>2. mem[r].outages <= redis.outages /\ mem[r].outages \in Nat
      BY <1>0, <3>1 DEF OutageInv, SessionsTyped, Mem
    <3>3. ASSUME Whole(r)' PROVE redis'.up
      <4>1. Whole(r) /\ redis.up
        BY <3>1, <3>3, WholeThen
      <4> QED BY <3>1, <3>3, <4>1, OutagesGrow DEF Whole
    <3> QED BY <1>0, <3>1, <3>2, <3>3, OutagesGrow
  <2> QED BY <2>1, <2>2
<1> QED BY <1>1, <1>2 DEF OutageInv

\* Nobody has read a version of the password that is yet to come: inductive.
LEMMA VersionStep ==
  ASSUME Wellformed, VersionInv, [Next]_vars
  PROVE  VersionInv'
<1>0. /\ SessionsTyped /\ CredentialsTyped /\ user.version \in Nat
      /\ redis.pwdver \in {NoVersion} \cup Nat
      /\ \A k \in Jobs : mem[k].version \in Nat
  BY DEF Wellformed, SessionsTyped, Lock, Keys, Mem
<1>k. \A r \in Jobs : Kind(r)' = Kind(r)
  BY Given DEF Kind, Job
<1>1. CASE Quiet
  BY <1>1, <1>k DEF Quiet, VersionInv
<1>2. ASSUME NEW j \in Jobs, Works(j) PROVE VersionInv'
  <2>1. user'.version \in Nat /\ user'.version >= user.version
    BY <1>0, <1>2, VersionGrows
  <2>2. ASSUME NEW k \in Jobs, Kind(k) \notin {"pin", "changePin"}
        PROVE  mem'[k].version <= user'.version
    <3>1. k # j => mem'[k] = mem[k]
      BY <1>0, <1>2, Alone DEF Still
    <3>2. k = j => mem'[k].version \in {mem[k].version, user.version}
      BY <1>0, <1>2, <2>2, VersionFrame DEF PinRead
    <3>3. mem'[k].version \in {mem[k].version, user.version}
      BY <3>1, <3>2
    <3> QED BY <1>0, <2>1, <2>2, <3>3 DEF VersionInv
  <2>3. redis'.pwdver \in {redis.pwdver, NoVersion} \/
        (redis'.pwdver = mem[j].version /\ Kind(j) \notin {"pin", "changePin"})
    <3>1. CASE LoginSeed(j) \/ AuthRepair(j)
      <4>1. Kind(j) \notin {"pin", "changePin"}
        BY <3>1 DEF LoginSeed, AuthRepair, At, Wellformed, Located, Fits, AuthSteps, WithAccess
      <4> QED BY <1>0, <3>1, <4>1 DEF LoginSeed, AuthRepair, Redis, SessionsTyped, Keys
    <3>2. CASE Forget(j) \/ RehydratePurge(j)
      BY <1>0, <3>2 DEF Forget, RehydratePurge, Redis, SessionsTyped, Keys
    <3> QED BY <1>0, <1>2, <3>1, <3>2, PwdverFrame
  <2> QED BY <1>0, <1>k, <2>1, <2>2, <2>3 DEF VersionInv, NoVersion
<1> QED BY <1>1, <1>2, Quietly

\* The cached version is behind only for cause, after every step.
LEMMA FreshStep ==
  ASSUME Wellformed, OutageInv, PasswordCacheFresh, [Next]_vars
  PROVE  PasswordCacheFresh'
<1>0. /\ SessionsTyped /\ CredentialsTyped /\ redis.up \in BOOLEAN
      /\ \A r \in Jobs : Kind(r)' = Kind(r)
  BY Given DEF Wellformed, SessionsTyped, Keys, Kind, Job
<1>1. CASE Quiet
  <2>1. \A k \in Jobs : Changing(k) => Changing(k)'
    BY <1>0, <1>1 DEF Quiet, Waits, Woken, Recalled, Changing
  <2>2. Rehydrated' => Rehydrated
    <3>1. redis'.outages = 0 => redis.outages = 0
      BY OutagesGrow
    <3>2. ASSUME NEW r \in Jobs, Kind(r)' = "rehydrate", At(r, "ok")', Whole(r)'
          PROVE  Kind(r) = "rehydrate" /\ At(r, "ok") /\ Whole(r)
      <4>1. Kind(r) = "rehydrate" /\ pc[r] = "ok" /\ mem'[r] = mem[r]
        BY <1>0, <1>1, <3>2 DEF Quiet, Waits, Woken, Recalled, At
      <4> QED BY <3>2, <4>1, WholeThen DEF Rehydrating, At
    <3> QED BY <3>1, <3>2 DEF Rehydrated
  <2> QED BY <1>1, <2>1, <2>2 DEF Quiet, PasswordCacheFresh
<1>2. ASSUME NEW j \in Jobs, Works(j)
      PROVE  PasswordCacheFresh'
  <2>1. CASE Forget(j)
    <3>1. CASE redis.up
      BY <1>0, <2>1, <3>1 DEF Forget, Redis, SessionsTyped, Keys, PasswordCacheFresh
    <3>2. CASE ~redis.up
      <4>1. redis' = redis /\ mem' = mem /\ Kind(j) # "rehydrate"
        BY <1>0, <2>1, <3>2 DEF Forget, Redis, At, Wellformed, Located, Fits
      <4>2. ASSUME Rehydrated' PROVE FALSE
        <5>1. PICK r \in Jobs : Kind(r) = "rehydrate" /\ pc'[r] = "ok" /\ Whole(r)'
          BY <1>0, <3>2, <4>1, <4>2 DEF Rehydrated, OutageInv, SessionsTyped, Keys, At
        <5>2. pc[r] = "ok" /\ Whole(r)
          BY <1>0, <1>2, <4>1, <5>1, Alone DEF Still, Whole
        <5> QED BY <3>2, <5>1, <5>2 DEF OutageInv, Rehydrating
      <4> QED BY <4>2 DEF PasswordCacheFresh
    <3> QED BY <3>1, <3>2
  <2>2. CASE RehydratePurge(j) /\ redis.up
    BY <1>0, <2>2 DEF RehydratePurge, Redis, SessionsTyped, Keys, PasswordCacheFresh
  <2>3. CASE ~Forget(j) /\ ~(RehydratePurge(j) /\ redis.up)
    <3>1. \A k \in Jobs : Changing(k) => Changing(k)'
      BY <1>0, <1>2, <2>3, Alone, ChangingOnly DEF Still, Changing
    <3>2. Rehydrated' => Rehydrated
      <4>1. redis'.outages = redis.outages
        BY <1>0, <1>2, OutageFrame
      <4>2. ASSUME NEW r \in Jobs, Kind(r) = "rehydrate", pc'[r] = "ok", Whole(r)'
            PROVE  pc[r] = "ok" /\ Whole(r)
        <5>1. CASE r = j
          <6>1. RehydratePurge(j)
            BY <1>0, <1>2, <4>2, <5>1, RehydratesOnly
               DEF RehydrateStep, RehydrateFind, RehydrateBlacklist, Goto, SessionsTyped
          <6>2. Rehydrating(j) /\ mem'[j] = mem[j]
            BY <4>2, <5>1, <6>1 DEF RehydratePurge, At, Rehydrating
          <6> QED BY <2>3, <4>2, <5>1, <6>1, <6>2, WholeThen
        <5>2. CASE r # j
          BY <1>0, <1>2, <4>1, <4>2, <5>2, Alone DEF Still, Whole
        <5> QED BY <5>1, <5>2
      <4> QED BY <1>0, <4>1, <4>2 DEF Rehydrated, At
    <3>3. log.blind \subseteq log'.blind
      BY <1>0, <1>2, LogFrame DEF LoginSeed, AuthRepair, SessionsTyped, Log
    <3>4. CASE ChangeCommit(j)
      BY <1>0, <1>2, <3>4 DEF ChangeCommit, Goto, SessionsTyped, PasswordCacheFresh, Changing,
         Wellformed, Located, Fits, At
    <3>5. CASE ResetCommit(j) /\ user' # user
      BY <1>0, <1>2, <3>5 DEF ResetCommit, Goto, SessionsTyped, PasswordCacheFresh, Changing,
         Wellformed, Located, Fits, At
    <3>6. CASE user'.version = user.version
      <4>1. CASE LoginSeed(j) \/ AuthRepair(j)
        <5>1. CASE redis.up
          <6>1. redis'.pwdver = mem[j].version
            BY <1>0, <4>1, <5>1 DEF LoginSeed, AuthRepair, Redis, SessionsTyped, Keys
          <6>2. mem[j].version # user.version => j \in log'.blind
            BY <1>0, <4>1, <5>1 DEF LoginSeed, AuthRepair, BlindlyBy, SessionsTyped, Log
          <6> QED BY <3>6, <6>1, <6>2 DEF PasswordCacheFresh
        <5>2. CASE ~redis.up
          <6>1. redis' = redis
            BY <4>1, <5>2 DEF LoginSeed, AuthRepair, Redis
          <6> QED BY <3>1, <3>2, <3>3, <3>6, <6>1 DEF PasswordCacheFresh
        <5> QED BY <5>1, <5>2
      <4>2. CASE redis'.pwdver = redis.pwdver
        BY <3>1, <3>2, <3>3, <3>6, <4>2 DEF PasswordCacheFresh
      <4>3. CASE RehydratePurge(j)
        BY <2>3, <4>2, <4>3 DEF RehydratePurge, Redis
      <4> QED BY <1>0, <1>2, <2>3, <4>1, <4>2, <4>3, PwdverFrame
    <3> QED BY <1>0, <1>2, <3>4, <3>5, <3>6, VersionGrows
  <2> QED BY <2>1, <2>2, <2>3
<1> QED BY <1>1, <1>2, Quietly

\* The version of the password that requireAuth compares with falls behind the
\* user's only while a change is on its way, until the outage that hid it is
\* made good, or where a request wrote the older version it had read; and it is
\* never ahead.
THEOREM PasswordCacheIsFresh == Spec => [](PasswordCacheFresh /\ VersionInv)
<1>1. Init => Wellformed /\ CacheInv
  <2> SUFFICES ASSUME Init PROVE Wellformed /\ CacheInv
    OBVIOUS
  <2>1. /\ \A j \in Jobs : mem[j].version = 0 /\ pc[j] \in {"later", "start"}
        /\ user.version = 0 /\ redis.up /\ redis.ready /\ redis.pwdver \in {NoVersion, 0}
    BY DEF Init, SessionsInit
  <2> QED BY <2>1, WellformedInit DEF CacheInv, OutageInv, VersionInv, PasswordCacheFresh,
          NoVersion, Rehydrating
<1>2. Wellformed /\ CacheInv /\ [Next]_vars => Wellformed' /\ CacheInv'
  BY WellformedStep, OutageStep, VersionStep, FreshStep DEF CacheInv
<1>3. CacheInv => PasswordCacheFresh /\ VersionInv
  BY DEF CacheInv
<1> QED BY <1>1, <1>2, <1>3, PTL DEF Spec

\* The types hold of every reachable state.
THEOREM AccessIsTyped == Spec => []TypeOK
<1>1. Wellformed /\ VersionInv => TypeOK
  <2> SUFFICES ASSUME Wellformed, VersionInv PROVE TypeOK
    OBVIOUS
  <2>1. redis.pwdver \in {NoVersion} \cup 0..user.version
    BY DEF Wellformed, SessionsTyped, Keys, Lock, VersionInv
  <2>2. redis.black \cup redis.confirmed \cup redis.rotated \subseteq Tokens
    BY DEF Wellformed, SessionsTyped, Keys
  <2>3. user \in Lock /\ pin \in Lock
    BY DEF Wellformed, SessionsTyped, CredentialsTyped
  <2> QED BY <2>1, <2>2, <2>3 DEF Wellformed, SessionsTyped, CredentialsTyped, BrowserTyped,
          TypeOK, Session, Code
<1> QED BY <1>1, AccessIsWellformed, PasswordCacheIsFresh, PTL

-----------------------------------------------------------------------------
(* Locks.                                                                  *)

\* Who takes a PIN does nothing else.
LEMMA PinsOnly ==
  ASSUME Wellformed, NEW j \in Jobs, Works(j), Kind(j) \in {"pin", "changePin"}
  PROVE  CodeStep(j) \/ PinStep(j)
<1>0. Fits(pc[j], Kind(j))
  BY DEF Wellformed, Located
<1> USE <1>0 DEF At, Fits, WithCookie, WithAccess, WithCode, AuthSteps, RevokeSteps,
        Rehydrates, SessionStep, CredentialStep
<1>1. ~RefreshStep(j) /\ ~LoginStep(j) /\ ~Send(j)
  BY DEF Send, RefreshStep, VerifyCached, VerifyMongo, VerifyStore, RefreshSession, RefreshMarker,
     RefreshUser, RefreshMark, Issue, Rotate, RefreshPublish, RefreshRetire, Respond,
     LoginStep, LoginRead, WrongPassword, LoginReset, CreateSession, LoginRespond, LoginSeed
<1>2. ~AuthStep(j) /\ ~RevokeStep(j) /\ ~ChangeStep(j) /\ ~RehydrateStep(j)
  BY DEF AuthStep, AuthCache, AuthConfirm, AuthSetConfirm, AuthLookup, AuthRepair,
     RevokeStep, RevokedFind, EndMark, EndPurge, EndBlacklist, ClearCookie,
     RevokeFind, RevokeMark, RevokeBlacklist, RevokePurge, RevokeSpare,
     ChangeStep, ChangeRead, ChangeCommit, Forget,
     RehydrateStep, RehydrateFind, RehydrateBlacklist, RehydratePurge
<1>3. ~ResetStep(j)
  BY DEF ResetStep, EmailCommit, ResetUser, ResetToken, ResetRead, ResetCommit
<1> QED BY <1>1, <1>2, <1>3 DEF Works

\* Only a PIN that is read, or unlocked, is judged.
LEMMA PinReach ==
  ASSUME Wellformed, NEW j \in Jobs, Works(j), pc'[j] \in {"pinWrong", "pinReset", "pinUnlock"}
  PROVE  PinRead(j) \/ PinUnlock(j)
<1>0. SessionsTyped /\ Kind(j) \in {"pin", "changePin"}
  BY WorkFits DEF Wellformed, Fits
<1> USE <1>0 DEF SessionsTyped, Goto, At
<1>1. CASE CodeStep(j)
  <2>1. CASE CodeConsume(j)
    BY <2>1 DEF CodeConsume, Wellformed, Located, Fits, WithCode
  <2>2. CASE CodeInvalidate(j) \/ CodeStuck(j)
    BY <2>2 DEF CodeInvalidate, CodeStuck
  <2>3. CASE CodeFind(j)
    BY <2>3 DEF CodeFind
  <2> QED BY <1>1, <2>1, <2>2, <2>3 DEF CodeStep, CodeCooldown, CodeCeiling, CodeReplace,
          CodeInsert, CodeMail, CodeMiss
<1>2. CASE PinStep(j)
  BY <1>2 DEF PinStep, PinWrong, PinReset, SetupRead, PinSave
<1> QED BY <1>0, <1>1, <1>2, PinsOnly

\* Only those who take a PIN, and time, touch it.
LEMMA PinFrame ==
  ASSUME CredentialsTyped, NEW j \in Jobs, Works(j)
  PROVE  \/ pin' = pin /\ stale' = stale /\ acts'.wrong = acts.wrong /\ acts'.lost = acts.lost
         \/ PinStep(j)
<1> USE DEF CredentialsTyped, Acts
<1>1. CASE SessionStep(j)
  BY <1>1 DEF SessionStep, credentials
<1>2. CASE CodeStep(j)
  BY <1>2 DEF CodeStep, CodeCooldown, CodeCeiling, CodeReplace, CodeInsert, CodeMail,
     CodeInvalidate, CodeStuck, CodeFind, CodeMiss, CodeConsume, credentials, pinVars
<1>3. CASE ResetStep(j)
  BY <1>3 DEF ResetStep, EmailCommit, ResetUser, ResetToken, ResetRead, ResetCommit,
     credentials, pinVars
<1> QED BY <1>1, <1>2, <1>3 DEF Works, CredentialStep

\* While nobody works only the expiry of its lock touches the PIN.
LEMMA PinLeft ==
  ASSUME CredentialsTyped, [Next]_vars, ~\E j \in Jobs : Works(j)
  PROVE  /\ stale' = stale /\ acts' = acts
         /\ pin' = pin \/ PinLockExpires
<1>1. CASE SessionsClock /\ UNCHANGED <<credentials, browser>>
  BY <1>1 DEF credentials
<1>2. CASE CredentialsClock
  BY <1>2 DEF CredentialsClock, CooldownPasses, PinLockExpires, CodeExpires, pinVars
<1>3. ASSUME NEW c \in Jobs, ClientStep(c)
      PROVE  UNCHANGED credentials
  BY <1>3 DEF ClientStep
<1>4. CASE UNCHANGED vars
  BY <1>4 DEF vars, credentials
<1> QED BY <1>1, <1>2, <1>3, <1>4 DEF Next, Step, Works, Clock, credentials

\* Which steps come to a wrong password, or a right one.
LEMMA LockReach ==
  ASSUME Wellformed, NEW j \in Jobs, Works(j), pc'[j] \in {"loginWrong", "loginReset"}
  PROVE  LoginRead(j) \/ ChangeRead(j)
<1>0. /\ SessionsTyped /\ Kind(j) \in {"login", "changePassword"}
      /\ Fits(pc[j], Kind(j))
  BY WorkFits DEF Wellformed, Fits, Located
<1> USE <1>0 DEF SessionsTyped, Goto, At
<1>1. CASE RefreshStep(j)
  BY <1>1 DEF RefreshStep, VerifyCached, VerifyMongo, VerifyStore, RefreshSession,
     RefreshMarker, RefreshUser, RefreshMark, Issue, Rotate, RefreshPublish, RefreshRetire,
     Respond, Verified
<1>2. CASE LoginStep(j)
  BY <1>2 DEF LoginStep, WrongPassword, LoginReset, CreateSession, LoginRespond, LoginSeed
<1>3. CASE AuthStep(j)
  BY <1>3 DEF AuthStep, AuthCache, AuthConfirm, AuthSetConfirm, AuthLookup, AuthRepair, Admitted,
     Fits, AuthSteps, WithAccess
<1>4. CASE RevokeStep(j)
  <2>1. CASE RevokeSpare(j)
    BY <2>1 DEF RevokeSpare, Fits, RevokeSteps
  <2> QED BY <1>4, <2>1 DEF RevokeStep, RevokedFind, EndMark, EndPurge, EndBlacklist, ClearCookie,
          RevokeFind, RevokeMark, RevokeBlacklist, RevokePurge
<1>5. CASE ChangeStep(j)
  BY <1>5 DEF ChangeStep, ChangeCommit, Forget
<1>6. CASE RehydrateStep(j)
  BY <1>6 DEF RehydrateStep, RehydrateFind, RehydrateBlacklist, RehydratePurge
<1>7. ~CodeStep(j) /\ ~ResetStep(j) /\ ~PinStep(j)
  BY DEF Fits, WithCode, CodeStep, CodeCooldown, CodeCeiling, CodeReplace, CodeInsert, CodeMail,
     CodeInvalidate, CodeStuck, CodeFind, CodeMiss, CodeConsume, ResetStep, EmailCommit, ResetUser,
     ResetToken, ResetRead, ResetCommit, PinStep, PinRead, PinUnlock, PinWrong, PinReset,
     SetupRead, PinSave
<1>8. CASE Send(j)
  BY <1>8 DEF Send
<1> QED BY <1>1, <1>2, <1>3, <1>4, <1>5, <1>6, <1>7, <1>8 DEF Works, SessionStep, CredentialStep

\* Who is about to fail or to pass found no lock: inductive.
LEMMA LockStep ==
  ASSUME Wellformed, LockInv, [Next]_vars
  PROVE  LockInv'
<1> SUFFICES ASSUME NEW k \in Jobs, k \notin dirty', pc'[k] \in {"loginWrong", "loginReset"}
             PROVE  user'.lock # "locked"
  BY DEF LockInv
<1>0. SessionsTyped /\ CredentialsTyped /\ user \in Lock
  BY DEF Wellformed, SessionsTyped
<1>1. CASE Works(k)
  <2>1. CASE LoginRead(k)
    BY <1>0, <2>1 DEF LoginRead, Refused, Goto, SessionsTyped
  <2>2. CASE ChangeRead(k)
    BY <1>0, <2>2 DEF ChangeRead, Refused, Goto, SessionsTyped
  <2> QED BY <1>1, <2>1, <2>2, LockReach
<1>2. CASE Waits(k) /\ ~Works(k)
  <2>1. pc[k] \in {"loginWrong", "loginReset"}
    BY <1>2 DEF Waits, Woken, Recalled
  <2>2. CASE Quiet
    BY <2>1, <2>2 DEF Quiet, LockInv
  <2>3. ASSUME NEW j \in Jobs, Works(j)
        PROVE  user'.lock # "locked"
    <3>1. ~(Jobs \ {j} \subseteq dirty')
      BY <1>2, <2>3
    <3>2. user' = user /\ dirty \ {j} \subseteq dirty'
      BY <1>0, <2>3, <3>1, UserFrame DEF WrongPassword, LoginReset, ChangeCommit, ResetCommit,
         WritesUser
    <3> QED BY <1>2, <2>1, <2>3, <3>2 DEF LockInv
  <2> QED BY <2>2, <2>3, Quietly
<1> QED BY <1>1, <1>2, Frame

\* The count of wrong PINs and its lock: inductive.
LEMMA PinInvStep ==
  ASSUME Wellformed, PinInv, [Next]_vars
  PROVE  PinInv'
<1>0. /\ SessionsTyped /\ CredentialsTyped
      /\ pin \in Lock /\ acts \in Acts /\ stale \subseteq Jobs
      /\ MaxAttempts \in Nat \ {0}
      /\ \A k \in Jobs : mem[k].failed \in Nat
  BY TokenAssumption DEF Wellformed, SessionsTyped, CredentialsTyped, Mem
<1>1. ASSUME NEW k \in Jobs, ~Works(k), pc'[k] \in {"pinWrong", "pinReset", "pinUnlock"}
      PROVE  pc'[k] = pc[k] /\ mem'[k] = mem[k]
  BY <1>1, Frame DEF Waits, Woken, Recalled
<1>2. CASE ~\E j \in Jobs : Works(j)
  <2>1. CASE PinLockExpires
    BY <1>0, <1>1, <1>2, <2>1, PinLeft DEF PinInv, PinLockExpires, Lock, Locks
  <2>2. CASE pin' = pin
    BY <1>0, <1>1, <1>2, <2>2, PinLeft DEF PinInv
  <2> QED BY <1>0, <1>2, <2>1, <2>2, PinLeft
<1>3. ASSUME NEW j \in Jobs, Works(j)
      PROVE  PinInv'
  <2>1. \A k \in Jobs \ {j} : pc'[k] = pc[k] /\ mem'[k] = mem[k]
    BY <1>0, <1>3, Alone DEF Still
  <2>2. CASE PinUnlock(j)
    <3>1. /\ mem'[j].failed = 0 /\ acts'.wrong = 0
          /\ pin'.failed = 0 /\ pin'.lock = "none" /\ stale' = stale \cup (Jobs \ {j})
          /\ pc'[j] # "pinUnlock"
      BY <1>0, <2>2 DEF PinUnlock, WritesPin, Counted, Lock, Acts, SessionsTyped, Mem, Goto,
         Judged
    <3> QED BY <1>0, <3>1 DEF PinInv
  <2>3. CASE PinWrong(j)
    <3>1. /\ pin'.failed = mem[j].failed + 1
          /\ pin'.lock = (IF mem[j].failed + 1 >= MaxAttempts THEN "locked" ELSE "none")
          /\ stale' = stale \cup (Jobs \ {j})
          /\ acts'.wrong = acts.wrong + 1 /\ acts'.lost = (acts.lost \/ j \in stale)
          /\ pc[j] = "pinWrong" /\ pc'[j] = "400"
      BY <1>0, <2>3 DEF PinWrong, WritesPin, Counted, Lock, Acts, SessionsTyped, Goto, At,
         PinLockFor, LockFor
    <3> QED BY <1>0, <3>1 DEF PinInv
  <2>4. CASE PinReset(j) \/ PinSave(j)
    <3>1. /\ pin'.failed = 0 /\ pin'.lock = "none" /\ acts'.wrong = 0
          /\ stale' = stale \cup (Jobs \ {j})
          /\ pc'[j] \notin {"pinWrong", "pinReset", "pinUnlock"}
      <4>1. CASE PinReset(j)
        BY <1>0, <4>1 DEF PinReset, WritesPin, Counted, Lock, Acts, SessionsTyped, Goto
      <4>2. CASE PinSave(j)
        BY <1>0, <4>2 DEF PinSave, WritesPin, Counted, Lock, Acts, SessionsTyped, Goto
      <4> QED BY <2>4, <4>1, <4>2
    <3> QED BY <1>0, <3>1 DEF PinInv
  <2>5. CASE PinRead(j)
    <3>1. /\ pin' = pin /\ acts' = acts /\ stale' = stale \ {j}
          /\ mem'[j].failed = pin.failed
      BY <1>0, <2>5 DEF PinRead, SessionsTyped, Mem
    <3>2. /\ pc'[j] \in {"pinWrong", "pinReset"} => pin.lock # "locked"
          /\ pc'[j] = "pinUnlock" => pin.lock = "expired"
      BY <1>0, <2>5 DEF PinRead, Goto, SessionsTyped, Refused, Judged
    <3> QED BY <1>0, <2>1, <3>1, <3>2 DEF PinInv
  <2>6. CASE SetupRead(j)
    <3>1. /\ pin' = pin /\ acts' = acts /\ stale' = stale \ {j}
          /\ pc'[j] \notin {"pinWrong", "pinReset", "pinUnlock"}
      BY <1>0, <2>6 DEF SetupRead, SessionsTyped, Goto
    <3> QED BY <1>0, <2>1, <3>1 DEF PinInv
  <2>7. CASE ~PinStep(j)
    <3>1. pc'[j] \notin {"pinWrong", "pinReset", "pinUnlock"}
      BY <1>3, <2>7, PinReach DEF PinStep
    <3> QED BY <1>0, <1>3, <2>1, <2>7, <3>1, PinFrame DEF PinInv
  <2> QED BY <2>2, <2>3, <2>4, <2>5, <2>6, <2>7 DEF PinStep
<1> QED BY <1>2, <1>3

\* Both hold at the start.
LEMMA LocksInit ==
  ASSUME Init
  PROVE  LockInv /\ PinInv
<1>1. /\ \A j \in Jobs : pc[j] \in {"later", "start"}
      /\ pin.failed = 0 /\ acts.wrong = 0
  BY DEF Init, SessionsInit, CredentialsInit
<1> QED BY <1>1, TokenAssumption DEF LockInv, PinInv

\* MaxAttempts wrong PINs lock the PIN, unless two requests wrote what they
\* had read side by side (requirePin and changePin set the count, not add).
THEOREM WrongPinsLock == Spec => [](PinLockHolds /\ PinInv)
<1>1. PinInv => PinLockHolds
  BY DEF PinInv, PinLockHolds
<1>2. Wellformed /\ PinInv /\ [Next]_vars => PinInv'
  BY PinInvStep
<1>3. Init => PinInv
  BY LocksInit
<1> QED BY <1>1, <1>2, <1>3, AccessIsWellformed, PTL DEF Spec

\* A lock ends by its time, by a reset of the password or the PIN, or because
\* a request overlapped the failure that set it: never by one that found it
\* (login, changePassword, requirePin, changePin).
THEOREM LocksEndForCause == Spec => LockEndsForCause
<1>1. Wellformed /\ LockInv /\ [Next]_vars => LockInv'
  BY LockStep
<1>2. Wellformed /\ PinInv /\ [Next]_vars => PinInv'
  BY PinInvStep
<1>3. ASSUME Wellformed, LockInv, PinInv, [Next]_vars
      PROVE  /\ (user.lock = "locked" /\ user'.lock = "none") =>
                    \E j \in Jobs : Moves(j) /\ (j \in dirty \/ At(j, "resetCommit"))
             /\ (pin.lock = "locked" /\ pin'.lock = "none") =>
                    \E j \in Jobs : Moves(j) /\ (j \in stale \/ At(j, "pinSave"))
  <2>0. SessionsTyped /\ CredentialsTyped /\ user \in Lock /\ pin \in Lock
    BY <1>3 DEF Wellformed, SessionsTyped, CredentialsTyped
  <2>1. ASSUME user.lock = "locked", user'.lock = "none"
        PROVE  \E j \in Jobs : Moves(j) /\ (j \in dirty \/ At(j, "resetCommit"))
    <3>1. PICK j \in Jobs : Works(j)
      BY <1>3, <2>1, Quietly DEF Quiet
    <3>2. WrongPassword(j) \/ LoginReset(j) \/ ResetCommit(j)
      BY <2>0, <2>1, <3>1, UserFrame DEF ChangeCommit, WritesUser, Lock
    <3>3. Moves(j) /\ (pc[j] \in {"loginWrong", "loginReset"} \/ At(j, "resetCommit"))
      BY <2>0, <2>1, <3>2 DEF WrongPassword, LoginReset, ResetCommit, At, Moves, Goto,
         SessionsTyped
    <3> QED BY <1>3, <2>1, <3>3 DEF LockInv
  <2>2. ASSUME pin.lock = "locked", pin'.lock = "none"
        PROVE  \E j \in Jobs : Moves(j) /\ (j \in stale \/ At(j, "pinSave"))
    <3>1. PICK j \in Jobs : Works(j)
      BY <1>3, <2>0, <2>2, PinLeft DEF PinLockExpires, Lock
    <3>2. PinUnlock(j) \/ PinWrong(j) \/ PinReset(j) \/ PinSave(j)
      BY <2>0, <2>2, <3>1, PinFrame DEF PinStep, PinRead, SetupRead
    <3>3. Moves(j) /\ (pc[j] \in {"pinUnlock", "pinWrong", "pinReset"} \/ At(j, "pinSave"))
      BY <2>0, <3>2 DEF PinUnlock, PinWrong, PinReset, PinSave, At, Moves, Goto, SessionsTyped,
         Judged
    <3> QED BY <1>3, <2>2, <3>3 DEF PinInv
  <2> QED BY <2>1, <2>2
<1>4. Init => LockInv /\ PinInv
  BY LocksInit
<1> QED BY <1>1, <1>2, <1>3, <1>4, AccessIsWellformed, PTL DEF Spec, LockEndsForCause

-----------------------------------------------------------------------------
(* Codes and reset tokens.                                                 *)

\* A request that has been answered is over, none is started by its own work,
\* and what is written of codes and reset tokens is theirs to do.
Entered(j) ==
    /\ pc[j] \notin Replies \cup {"later"}
    /\ pc'[j] \notin {"later", "start"}
    /\ pc'[j] \in {"codeCeiling", "codeReplace", "codeInsert", "codeMail", "codeConsume"} =>
           CodeStep(j)
    /\ pc'[j] = "resetCommit" => ResetRead(j)

\* So does every step of every service.
LEMMA Entering ==
  ASSUME Wellformed, NEW j \in Jobs, Works(j)
  PROVE  Entered(j)
<1>0. SessionsTyped /\ Fits(pc[j], Kind(j))
  BY DEF Wellformed, Located
<1> USE <1>0 DEF SessionsTyped, Goto, At, Replies, Entered
<1>1. CASE RefreshStep(j)
  BY <1>1 DEF RefreshStep, VerifyCached, VerifyMongo, VerifyStore, RefreshSession,
     RefreshMarker, RefreshUser, RefreshMark, Issue, Rotate, RefreshPublish, RefreshRetire,
     Respond, Verified
<1>2. CASE LoginStep(j)
  BY <1>2 DEF LoginStep, LoginRead, WrongPassword, LoginReset, CreateSession, LoginRespond,
     LoginSeed
<1>3. CASE AuthStep(j)
  BY <1>3 DEF AuthStep, AuthCache, AuthConfirm, AuthSetConfirm, AuthLookup, AuthRepair, Admitted,
     Fits, AuthSteps, WithAccess
<1>4. CASE RevokeStep(j)
  <2>1. CASE RevokeSpare(j)
    BY <2>1 DEF RevokeSpare, Fits, RevokeSteps
  <2> QED BY <1>4, <2>1 DEF RevokeStep, RevokedFind, EndMark, EndPurge, EndBlacklist, ClearCookie,
          RevokeFind, RevokeMark, RevokeBlacklist, RevokePurge
<1>5. CASE ChangeStep(j)
  BY <1>5 DEF ChangeStep, ChangeRead, ChangeCommit, Forget
<1>6. CASE RehydrateStep(j)
  BY <1>6 DEF RehydrateStep, RehydrateFind, RehydrateBlacklist, RehydratePurge
<1>7. CASE CodeStep(j)
  <2>1. CASE CodeConsume(j)
    BY <1>7, <2>1 DEF CodeConsume, Fits, WithCode
  <2>2. CASE CodeInvalidate(j) \/ CodeStuck(j)
    BY <1>7, <2>2 DEF CodeInvalidate, CodeStuck
  <2>3. CASE CodeFind(j)
    BY <1>7, <2>3 DEF CodeFind
  <2> QED BY <1>7, <2>1, <2>2, <2>3 DEF CodeStep, CodeCooldown, CodeCeiling, CodeReplace,
          CodeInsert, CodeMail, CodeMiss
<1>8. CASE ResetStep(j)
  BY <1>8 DEF ResetStep, EmailCommit, ResetUser, ResetToken, ResetRead, ResetCommit
<1>9. CASE PinStep(j)
  BY <1>9 DEF PinStep, PinRead, PinUnlock, PinWrong, PinReset, SetupRead, PinSave, Judged
<1>10. CASE Send(j)
  BY <1>10 DEF Send
<1> QED BY <1>1, <1>2, <1>3, <1>4, <1>5, <1>6, <1>7, <1>8, <1>9, <1>10
        DEF Works, SessionStep, CredentialStep

\* Only OTPManager writes codes.
LEMMA CodesFrame ==
  ASSUME CredentialsTyped, NEW j \in Jobs, Works(j)
  PROVE  \/ /\ codes' = codes /\ mailed' = mailed
            /\ acts'.used = acts.used /\ acts'.overlap = acts.overlap
            /\ acts'.dropped = acts.dropped /\ acts'.stuck = acts.stuck
         \/ CodeStep(j)
<1> USE DEF CredentialsTyped, Acts
<1>1. CASE SessionStep(j)
  BY <1>1 DEF SessionStep, credentials
<1>2. CASE ResetStep(j)
  BY <1>2 DEF ResetStep, EmailCommit, ResetUser, ResetToken, ResetRead, ResetCommit,
     credentials, pinVars
<1>3. CASE PinStep(j)
  BY <1>3 DEF PinStep, PinRead, PinUnlock, PinWrong, PinReset, SetupRead, PinSave, Counted,
     credentials, pinVars
<1> QED BY <1>1, <1>2, <1>3 DEF Works, CredentialStep

\* Only the confirmation of a reset and its commit write reset tokens.
LEMMA ResetsFrame ==
  ASSUME CredentialsTyped, NEW j \in Jobs, Works(j)
  PROVE  \/ /\ resets' = resets /\ acts'.spent = acts.spent /\ acts'.outdated = acts.outdated
         \/ ResetToken(j) \/ (ResetCommit(j) /\ Spends(Typed(j)))
<1> USE DEF CredentialsTyped, Acts
<1>1. CASE SessionStep(j)
  BY <1>1 DEF SessionStep, credentials
<1>2. CASE ResetStep(j)
  BY <1>2 DEF ResetStep, EmailCommit, ResetUser, ResetToken, ResetRead, ResetCommit,
     credentials, pinVars
<1>3. CASE PinStep(j)
  BY <1>3 DEF PinStep, PinRead, PinUnlock, PinWrong, PinReset, SetupRead, PinSave, Counted,
     credentials, pinVars
<1>4. CASE CodeStep(j)
  BY <1>4 DEF CodeStep, CodeCooldown, CodeCeiling, CodeReplace, CodeInsert, CodeMail,
     CodeInvalidate, CodeStuck, CodeFind, CodeMiss, CodeConsume, credentials, pinVars
<1> QED BY <1>1, <1>2, <1>3, <1>4 DEF Works, CredentialStep

\* What goes on with codes while nobody works.
LEMMA CodesLeft ==
  ASSUME CredentialsTyped, [Next]_vars, ~\E j \in Jobs : Works(j)
  PROVE  /\ mailed' = mailed /\ resets' = resets /\ acts' = acts
         /\ \A c \in Jobs : \/ codes'[c].state = codes[c].state
                            \/ codes[c].state = "live" /\ codes'[c].state = "expired"
<1>1. CASE SessionsClock /\ UNCHANGED <<credentials, browser>>
  BY <1>1 DEF credentials
<1>2. CASE CredentialsClock
  BY <1>2 DEF CredentialsClock, CooldownPasses, PinLockExpires, CodeExpires, pinVars,
     CredentialsTyped, Code
<1>3. ASSUME NEW c \in Jobs, ClientStep(c)
      PROVE  UNCHANGED credentials
  BY <1>3 DEF ClientStep
<1>4. CASE UNCHANGED vars
  BY <1>4 DEF vars, credentials
<1> QED BY <1>1, <1>2, <1>3, <1>4 DEF Next, Step, Works, Clock, credentials

\* A job that waits is not brought anywhere but to its start.
LEMMA Waiting ==
  ASSUME Wellformed, [Next]_vars, NEW k \in Jobs, ~Works(k)
  PROVE  /\ mem'[k] = mem[k] /\ carried'[k] = carried[k]
         /\ \/ pc'[k] = pc[k]
            \/ pc[k] = "later" /\ pc'[k] = "start"
            \/ Kind(k) = "rehydrate" /\ pc'[k] = "rehydrate"
BY Frame DEF Waits, Woken, Recalled

\* What may become of a code in a step.
Inserted(c) == CodeInsert(c) /\ codes'[c].state = "live"
Consumed(c) ==
    /\ codes[c].state \in Unconsumed /\ codes'[c].state = "consumed"
    /\ \E j \in Jobs : CodeConsume(j) /\ Typed(j) = c
Turns(c) ==
    \/ codes'[c].state = codes[c].state
    \/ codes[c].state \in Unconsumed /\ codes'[c].state \in {"expired", "gone"}
    \/ Inserted(c) \/ Consumed(c)

\* Nothing else becomes of a code.
LEMMA CodeTurns ==
  ASSUME Wellformed, MatchedInv, [Next]_vars, NEW c \in Jobs
  PROVE  Turns(c)
<1>0. CredentialsTyped /\ \A k \in Jobs : codes[k] \in Code
  BY DEF Wellformed, CredentialsTyped
<1> USE DEF Turns
<1>1. CASE ~\E j \in Jobs : Works(j)
  BY <1>0, <1>1, CodesLeft DEF Unconsumed
<1>2. ASSUME NEW j \in Jobs, Works(j)
      PROVE  Turns(c)
  <2>d. ASSUME Deleted(Pending(j)) PROVE Turns(c)
    BY <1>0, <2>d DEF Deleted, Pending, Code
  <2>1. CASE CodeReplace(j) \/ CodeInvalidate(j)
    BY <2>1, <2>d DEF CodeReplace, CodeInvalidate
  <2>2. CASE CodeInsert(j)
    <3>1. codes' = [codes EXCEPT ![j].state = "live"]
      BY <2>2 DEF CodeInsert
    <3>2. IF c = j THEN codes'[c].state = "live" ELSE codes'[c] = codes[c]
      BY <1>0, <3>1 DEF CredentialsTyped, Code
    <3> QED BY <2>2, <3>2 DEF Inserted
  <2>3. CASE CodeMiss(j)
    BY <1>0, <2>3 DEF CodeMiss, CredentialsTyped, Code
  <2>4. CASE CodeConsume(j)
    <3>1. CASE Consumes(j)
      <4>1. /\ Typed(j) \in Jobs /\ codes[Typed(j)].state \in Unconsumed
            /\ codes' = [codes EXCEPT ![Typed(j)].state = "consumed"]
        BY <1>0, <2>4, <3>1 DEF CodeConsume, MatchedInv, Consumes, CredentialsTyped
      <4>2. c # Typed(j) => codes'[c] = codes[c]
        BY <1>0, <4>1 DEF CredentialsTyped
      <4>3. c = Typed(j) => Consumed(c)
        BY <1>0, <2>4, <4>1 DEF CredentialsTyped, Code, Consumed
      <4> QED BY <4>2, <4>3
    <3>2. CASE ~Consumes(j)
      BY <2>4, <3>2 DEF CodeConsume
    <3> QED BY <3>1, <3>2
  <2>5. CASE CodeCooldown(j) \/ CodeCeiling(j) \/ CodeMail(j) \/ CodeStuck(j) \/ CodeFind(j)
    BY <2>5 DEF CodeCooldown, CodeCeiling, CodeMail, CodeStuck, CodeFind, credentials
  <2> QED BY <1>0, <1>2, <2>1, <2>2, <2>3, <2>4, <2>5, CodesFrame DEF CodeStep
<1> QED BY <1>1, <1>2

\* Codes that were handed to the mail queue stay so.
LEMMA MailedGrows ==
  ASSUME CredentialsTyped, [Next]_vars
  PROVE  mailed \subseteq mailed'
<1>1. ASSUME NEW j \in Jobs, CodeStep(j)
      PROVE  mailed \subseteq mailed'
  BY <1>1 DEF CodeStep, CodeCooldown, CodeCeiling, CodeReplace, CodeInsert, CodeMail,
     CodeInvalidate, CodeStuck, CodeFind, CodeMiss, CodeConsume, credentials
<1> QED BY <1>1, CodesLeft, CodesFrame

\* A code exists once its job has inserted it: inductive.
LEMMA UncreatedStep ==
  ASSUME Wellformed, UncreatedInv, MatchedInv, [Next]_vars
  PROVE  UncreatedInv'
<1> SUFFICES ASSUME NEW c \in Jobs
             PROVE  /\ pc'[c] \in {"later", "start", "codeCeiling", "codeReplace", "codeInsert"}
                           => codes'[c].state = "none"
                    /\ codes'[c].state # "none" => Kind(c) = "createCode"
  BY Given DEF UncreatedInv, Kind, Job
<1>0. SessionsTyped /\ Fits(pc[c], Kind(c))
  BY DEF Wellformed, Located
<1>1. CASE CodeInsert(c)
  BY <1>0, <1>1 DEF CodeInsert, SessionsTyped, Goto, At, Fits
<1>2. CASE ~CodeInsert(c)
  <2>1. codes[c].state = "none" <=> codes'[c].state = "none"
    BY <1>2, CodeTurns DEF Turns, Inserted, Consumed, Unconsumed
  <2>2. ASSUME pc'[c] \in {"later", "start", "codeCeiling", "codeReplace", "codeInsert"}
        PROVE  pc[c] \in {"later", "start", "codeCeiling", "codeReplace", "codeInsert"}
    <3>1. CASE Works(c)
      <4>1. CodeStep(c) /\ pc'[c] \in {"codeCeiling", "codeReplace", "codeInsert"}
        BY <2>2, <3>1, Entering DEF Entered
      <4>2. CASE CodeCooldown(c) \/ CodeCeiling(c) \/ CodeReplace(c)
        BY <4>2 DEF CodeCooldown, CodeCeiling, CodeReplace, At
      <4>3. CASE CodeInvalidate(c) \/ CodeStuck(c)
        BY <1>0, <4>1, <4>3 DEF CodeInvalidate, CodeStuck, Goto, SessionsTyped
      <4>4. CASE CodeConsume(c)
        BY <1>0, <4>1, <4>4 DEF CodeConsume, Goto, SessionsTyped, Fits, WithCode, At
      <4>5. CASE CodeMail(c) \/ CodeFind(c) \/ CodeMiss(c)
        BY <1>0, <4>1, <4>5 DEF CodeMail, CodeFind, CodeMiss, Goto, SessionsTyped
      <4> QED BY <1>2, <4>1, <4>2, <4>3, <4>4, <4>5 DEF CodeStep
    <3>2. CASE ~Works(c)
      BY <2>2, <3>2, Waiting
    <3> QED BY <3>1, <3>2
  <2> QED BY <2>1, <2>2 DEF UncreatedInv
<1> QED BY <1>1, <1>2

\* What is about to be consumed is the code that was typed: inductive.
LEMMA MatchedStep ==
  ASSUME Wellformed, MatchedInv, [Next]_vars
  PROVE  MatchedInv'
<1> SUFFICES ASSUME NEW j \in Jobs, pc'[j] = "codeConsume"
             PROVE  /\ mem'[j].found = {Typed(j)} /\ Typed(j) \in mailed'
                    /\ codes'[Typed(j)].state # "none"
  BY Given DEF MatchedInv, At, Typed, Job
<1>0. SessionsTyped /\ CredentialsTyped /\ mailed \subseteq mailed' /\ mailed \subseteq Jobs
      /\ JobFacts(j)
  BY MailedGrows, JobType DEF Wellformed, CredentialsTyped, SessionsTyped
<1>1. CASE Works(j)
  <2>1. CodeStep(j)
    BY <1>1, Entering DEF Entered
  <2>2. CodeFind(j)
    <3>1. CASE CodeConsume(j)
      BY <1>0, <3>1 DEF CodeConsume, Goto, SessionsTyped, Wellformed, Located, Fits, WithCode, At
    <3>2. CASE CodeInvalidate(j) \/ CodeStuck(j)
      BY <1>0, <3>2 DEF CodeInvalidate, CodeStuck, Goto, SessionsTyped
    <3> QED BY <1>0, <2>1, <3>1, <3>2 DEF CodeStep, CodeCooldown, CodeCeiling, CodeReplace,
            CodeInsert, CodeMail, CodeMiss, Goto, SessionsTyped
  <2>3. Pending(j) # {}
    BY <1>0, <2>2 DEF CodeFind, Goto, SessionsTyped
  <2>4. PICK c \in Pending(j) : /\ mem' = [mem EXCEPT ![j].found = {c}]
                                /\ Goto(j, IF codes[c].state = "expired"
                                              \/ codes[c].tries >= MaxAttempts THEN "400"
                                           ELSE IF Typed(j) = c THEN "codeConsume"
                                           ELSE "codeMiss")
    BY <2>2, <2>3 DEF CodeFind
  <2>5. Typed(j) = c /\ c \in Jobs /\ codes[c].state \in Unconsumed
    BY <1>0, <2>4 DEF Goto, SessionsTyped, Pending, Existing
  <2>6. /\ Typed(j) \in mailed \cup {NoToken} /\ codes' = codes
    BY <2>2 DEF CodeFind, credentials
  <2>7. mem'[j].found = {c}
    BY <1>0, <2>4 DEF SessionsTyped, Mem
  <2> QED BY <1>0, <2>5, <2>6, <2>7 DEF JobFacts, Unconsumed
<1>2. CASE ~Works(j)
  <2>1. pc[j] = "codeConsume" /\ mem'[j] = mem[j]
    BY <1>2, Waiting
  <2>2. Typed(j) \in mailed /\ codes[Typed(j)].state # "none" /\ mem[j].found = {Typed(j)}
    BY <2>1 DEF MatchedInv, At
  <2> QED BY <1>0, <2>1, <2>2, CodeTurns DEF Turns, Inserted, Consumed, Unconsumed
<1> QED BY <1>1, <1>2

\* What is recorded of codes stays so.
LEMMA PastGrows ==
  ASSUME CredentialsTyped, [Next]_vars
  PROVE  acts.overlap \subseteq acts'.overlap /\ acts.stuck \subseteq acts'.stuck
<1>1. ASSUME NEW j \in Jobs, CodeStep(j)
      PROVE  acts.overlap \subseteq acts'.overlap /\ acts.stuck \subseteq acts'.stuck
  BY <1>1 DEF CodeStep, CodeCooldown, CodeCeiling, CodeReplace, CodeInsert, CodeMail,
     CodeInvalidate, CodeStuck, CodeFind, CodeMiss, CodeConsume, credentials, CredentialsTyped, Acts
<1> QED BY <1>1, CodesLeft, CodesFrame

\* A code that throttles was sent, or its job is at it or could not: inductive.
LEMMA SentStep ==
  ASSUME Wellformed, UncreatedInv, MatchedInv, SentInv, [Next]_vars
  PROVE  SentInv'
<1> SUFFICES ASSUME NEW c \in Jobs, Job(c).purpose = "password",
                    codes'[c].state \in Unconsumed \cup {"consumed"}
             PROVE  \/ c \in mailed'
                    \/ /\ pc'[c] \in {"codeMail", "invalidate"} \/ c \in acts'.stuck
                       /\ codes'[c].state # "consumed"
  BY Given DEF SentInv, Withdrawn, Job
<1>0. /\ SessionsTyped /\ CredentialsTyped /\ mailed \subseteq mailed' /\ Withdrawn(c)
      /\ acts.stuck \subseteq acts'.stuck
  BY MailedGrows, PastGrows DEF Wellformed, Withdrawn
<1>1. CASE CodeInsert(c)
  BY <1>0, <1>1, CodeTurns DEF CodeInsert, SessionsTyped, CredentialsTyped, Code, Goto, Turns
<1>2. CASE Consumed(c)
  BY <1>0, <1>2 DEF Consumed, CodeConsume, MatchedInv
<1>3. CASE ~CodeInsert(c) /\ ~Consumed(c) /\ c \notin mailed
  <2>1. /\ codes[c].state \in Unconsumed \cup {"consumed"}
        /\ codes'[c].state = "consumed" => codes[c].state = "consumed"
    BY <1>3, CodeTurns DEF Turns, Inserted, Unconsumed
  <2>5. CASE c \in acts.stuck /\ codes[c].state # "consumed"
    BY <1>0, <2>1, <2>5
  <2>6. ASSUME ~(c \in acts.stuck /\ codes[c].state # "consumed")
        PROVE  /\ pc[c] \in {"codeMail", "invalidate"} /\ codes[c].state # "consumed"
               /\ Kind(c) = "createCode"
    BY <1>0, <1>3, <2>1, <2>6 DEF SentInv, UncreatedInv, Unconsumed
  <2> SUFFICES ASSUME pc[c] \in {"codeMail", "invalidate"}, codes[c].state # "consumed",
                      Kind(c) = "createCode"
               PROVE  \/ c \in mailed'
                      \/ /\ pc'[c] \in {"codeMail", "invalidate"} \/ c \in acts'.stuck
                         /\ codes'[c].state # "consumed"
    BY <2>5, <2>6
  <2>2. /\ pc[c] \in {"codeMail", "invalidate"} /\ codes[c].state # "consumed"
        /\ Kind(c) = "createCode"
    OBVIOUS
  <2>3. CASE ~Works(c)
    BY <2>1, <2>2, <2>3, Waiting
  <2>4. CASE Works(c)
    <3>1. CodeMail(c) \/ CodeInvalidate(c) \/ CodeStuck(c)
      <4>1. ~RefreshStep(c) /\ ~LoginStep(c) /\ ~Send(c)
        BY <2>2 DEF At, Send, RefreshStep, VerifyCached, VerifyMongo, VerifyStore,
           RefreshSession, RefreshMarker,
           RefreshUser, RefreshMark, Issue, Rotate, RefreshPublish, RefreshRetire, Respond,
           LoginStep, LoginRead, WrongPassword, LoginReset, CreateSession, LoginRespond, LoginSeed
      <4>2. ~AuthStep(c) /\ ~RevokeStep(c) /\ ~ChangeStep(c) /\ ~RehydrateStep(c)
        BY <2>2 DEF At, AuthStep, AuthCache, AuthConfirm, AuthSetConfirm, AuthLookup, AuthRepair,
           RevokeStep, RevokedFind, EndMark, EndPurge, EndBlacklist, ClearCookie,
           RevokeFind, RevokeMark, RevokeBlacklist, RevokePurge, RevokeSpare,
           ChangeStep, ChangeRead, ChangeCommit, Forget,
           RehydrateStep, RehydrateFind, RehydrateBlacklist, RehydratePurge
      <4>3. ~ResetStep(c) /\ ~PinStep(c)
        BY <2>2 DEF At, ResetStep, EmailCommit, ResetUser, ResetToken, ResetRead, ResetCommit,
           PinStep, PinRead, PinUnlock, PinWrong, PinReset, SetupRead, PinSave
      <4>4. CodeStep(c)
        BY <2>4, <4>1, <4>2, <4>3 DEF Works, SessionStep, CredentialStep
      <4> QED BY <2>2, <4>4 DEF CodeStep, At, CodeCooldown, CodeCeiling, CodeReplace, CodeInsert,
              CodeFind, CodeMiss, CodeConsume
    <3>2. CASE CodeMail(c)
      BY <1>0, <2>1, <2>2, <3>2 DEF CodeMail, Goto, SessionsTyped
    <3>3. CASE CodeInvalidate(c)
      <4>1. c \in Pending(c)
        BY <2>1, <2>2 DEF Pending, Existing
      <4>2. codes'[c].state = "gone"
        BY <1>0, <3>3, <4>1 DEF CodeInvalidate, Deleted, CredentialsTyped, Code
      <4> QED BY <4>2 DEF Unconsumed
    <3>4. CASE CodeStuck(c)
      <4>1. codes' = codes /\ c \in acts'.stuck
        BY <1>0, <3>4 DEF CodeStuck, CredentialsTyped, Acts
      <4> QED BY <2>2, <4>1
    <3> QED BY <3>1, <3>2, <3>3, <3>4
  <2> QED BY <2>3, <2>4
<1> QED BY <1>0, <1>1, <1>2, <1>3

\* The codes and the past of a step, as far as the properties of codes go.
LEMMA PendingThen ==
  ASSUME [Next]_vars, NEW k \in Jobs, NEW c \in Jobs
  PROVE  /\ c \in Pending(k) <=> /\ Job(c).purpose = Job(k).purpose
                                 /\ codes[c].state \in Unconsumed
         /\ c \in Pending(k)' <=> /\ Job(c).purpose = Job(k).purpose
                                  /\ codes'[c].state \in Unconsumed
BY Given DEF Pending, Existing, Job

\* Whoever inserts a code meets those who are about to.
LEMMA Meets ==
  ASSUME CredentialsTyped, NEW c \in Jobs, NEW k \in Jobs, CodeInsert(c),
         pc[k] \in {"codeCeiling", "codeReplace", "codeInsert"}
  PROVE  {c, k} \in acts'.overlap
<1>1. acts'.overlap = acts.overlap \cup
          {{c, i} : i \in {i \in Jobs : pc[i] \in {"codeCeiling", "codeReplace", "codeInsert"}}}
  BY DEF CodeInsert, CredentialsTyped, Acts
<1> QED BY <1>1

\* Two codes to choose from were created side by side: inductive.
LEMMA OverlapStep ==
  ASSUME Wellformed, MatchedInv, OverlapInv, OneLiveCode, [Next]_vars
  PROVE  OverlapInv' /\ OneLiveCode'
<1>0. SessionsTyped /\ CredentialsTyped /\ acts.overlap \subseteq acts'.overlap
  BY PastGrows DEF Wellformed
<1>1. ASSUME NEW k \in Jobs, NEW c \in Jobs, c # k, c \in Pending(k)', ~CodeInsert(c)
      PROVE  c \in Pending(k)
  BY <1>1, CodeTurns, PendingThen DEF Turns, Inserted, Consumed, Unconsumed
<1>2. ASSUME NEW k \in Jobs, NEW c \in Jobs, pc'[k] = "codeInsert", c # k, c \in Pending(k)'
      PROVE  {c, k} \in acts'.overlap
  <2>1. CASE Works(k)
    <3>1. CodeReplace(k)
      <4>1. CodeStep(k)
        BY <1>2, <2>1, Entering DEF Entered
      <4>2. CASE CodeInvalidate(k) \/ CodeStuck(k)
        BY <1>0, <1>2, <4>2 DEF CodeInvalidate, CodeStuck, Goto, SessionsTyped
      <4>3. CASE CodeConsume(k)
        BY <1>0, <1>2, <4>3 DEF CodeConsume, Goto, SessionsTyped, Wellformed, Located, Fits,
           WithCode, At
      <4> QED BY <1>0, <1>2, <4>1, <4>2, <4>3 DEF CodeStep, CodeCooldown, CodeCeiling, CodeInsert,
              CodeMail, CodeFind, CodeMiss, Goto, SessionsTyped
    <3>2. c \in Pending(k) => codes'[c].state = "gone"
      BY <1>0, <3>1 DEF CodeReplace, Deleted, CredentialsTyped, Code
    <3>3. codes'[c].state = codes[c].state \/ c \in Pending(k)
      BY <3>1 DEF CodeReplace, Deleted
    <3> QED BY <1>2, <3>2, <3>3, PendingThen DEF Unconsumed
  <2>2. CASE ~Works(k)
    <3>1. pc[k] = "codeInsert"
      BY <1>2, <2>2, Waiting
    <3>2. CASE CodeInsert(c)
      BY <1>0, <3>1, <3>2, Meets
    <3>3. CASE ~CodeInsert(c)
      BY <1>0, <1>1, <1>2, <3>1, <3>3 DEF OverlapInv, At
    <3> QED BY <3>2, <3>3
  <2> QED BY <2>1, <2>2
<1>3. ASSUME NEW c \in Jobs, NEW k \in Jobs, c # k, k \in Pending(c)', c \in Pending(k)'
      PROVE  {c, k} \in acts'.overlap
  <2>1. ASSUME NEW i \in Jobs, NEW l \in Jobs, i # l, CodeInsert(i), l \in Pending(i)'
        PROVE  {l, i} \in acts'.overlap
    <3>1. CASE CodeInsert(l)
      BY <1>0, <2>1, <3>1, Meets DEF CodeInsert, At
    <3>2. CASE ~CodeInsert(l)
      BY <1>0, <1>1, <2>1, <3>2 DEF OverlapInv, CodeInsert, At
    <3> QED BY <3>1, <3>2
  <2>2. {c, k} = {k, c}
    OBVIOUS
  <2>3. CASE ~CodeInsert(c) /\ ~CodeInsert(k)
    BY <1>0, <1>1, <1>3, <2>3 DEF OneLiveCode
  <2> QED BY <1>3, <2>1, <2>2, <2>3
<1> QED BY <1>2, <1>3 DEF OverlapInv, OneLiveCode, At

\* A code that has let a request through is consumed: inductive.
LEMMA UsedStep ==
  ASSUME Wellformed, UncreatedInv, MatchedInv, UsedInv, CodeOnce, [Next]_vars
  PROVE  UsedInv' /\ CodeOnce'
<1>0. CredentialsTyped
  BY DEF Wellformed
<1>1. \A c \in Jobs : codes[c].state = "consumed" => codes'[c].state = "consumed"
  <2> SUFFICES ASSUME NEW c \in Jobs, codes[c].state = "consumed"
               PROVE  codes'[c].state = "consumed"
    OBVIOUS
  <2>1. ~CodeInsert(c)
    BY DEF CodeInsert, UncreatedInv, At
  <2> QED BY <2>1, CodeTurns DEF Turns, Inserted, Consumed, Unconsumed
<1>2. CASE acts'.used = acts.used
  BY <1>1, <1>2 DEF UsedInv, CodeOnce
<1>3. ASSUME NEW j \in Jobs, CodeConsume(j), acts'.used # acts.used
      PROVE  UsedInv' /\ CodeOnce'
  <2>1. /\ acts'.used = acts.used \cup {<<Typed(j), j>>} /\ Consumes(j)
        /\ codes' = [codes EXCEPT ![Typed(j)].state = "consumed"]
    BY <1>0, <1>3 DEF CodeConsume, CredentialsTyped, Acts
  <2>2. /\ Typed(j) \in Jobs /\ codes[Typed(j)].state \in Unconsumed
        /\ codes'[Typed(j)].state = "consumed"
    BY <1>0, <1>3, <2>1 DEF CodeConsume, MatchedInv, Consumes, CredentialsTyped, Code
  <2>3. \A x \in acts.used : x[1] # Typed(j)
    BY <2>2 DEF UsedInv, Unconsumed
  <2> QED BY <1>1, <2>1, <2>2, <2>3 DEF UsedInv, CodeOnce
<1>4. acts'.used = acts.used \/ \E j \in Jobs : CodeConsume(j)
  <2>1. ASSUME NEW j \in Jobs, CodeStep(j)
        PROVE  acts'.used = acts.used \/ CodeConsume(j)
    BY <1>0, <2>1 DEF CodeStep, CodeCooldown, CodeCeiling, CodeReplace, CodeInsert, CodeMail,
       CodeInvalidate, CodeStuck, CodeFind, CodeMiss, credentials, CredentialsTyped, Acts
  <2> QED BY <1>0, <2>1, CodesLeft, CodesFrame
<1> QED BY <1>2, <1>3, <1>4

\* A reset of the password is dropped only over a code that was sent or is on
\* its way, or that got stuck: inductive.
LEMMA DropsStep ==
  ASSUME Wellformed, SentInv, DropsForCause, [Next]_vars
  PROVE  DropsForCause'
<1>0. /\ CredentialsTyped /\ acts.stuck \subseteq acts'.stuck
      /\ \A j : Job(j)' = Job(j)
  BY Given, PastGrows DEF Wellformed, Job
<1>1. CASE acts'.dropped = acts.dropped
  BY <1>0, <1>1 DEF DropsForCause
<1>2. ASSUME NEW j \in Jobs, CodeCooldown(j)
      PROVE  DropsForCause'
  <2>1. \A x \in acts'.dropped :
          \/ x \in acts.dropped
          \/ x[1] = j /\ x[2] \in Existing(j) /\ ~OnItsWay(x[2])
    BY <1>0, <1>2 DEF CodeCooldown, CredentialsTyped, Acts
  <2>2. ASSUME NEW c \in Existing(j), ~OnItsWay(c), Job(j).purpose = "password"
        PROVE  c \in acts.stuck
    BY <2>2 DEF SentInv, Existing, Withdrawn, OnItsWay
  <2> QED BY <1>0, <2>1, <2>2 DEF DropsForCause
<1>3. acts'.dropped = acts.dropped \/ \E j \in Jobs : CodeCooldown(j)
  <2>1. ASSUME NEW j \in Jobs, CodeStep(j)
        PROVE  acts'.dropped = acts.dropped \/ CodeCooldown(j)
    BY <1>0, <2>1 DEF CodeStep, CodeCeiling, CodeReplace, CodeInsert, CodeMail,
       CodeInvalidate, CodeStuck, CodeFind, CodeMiss, CodeConsume, credentials, CredentialsTyped, Acts
  <2> QED BY <1>0, <2>1, CodesLeft, CodesFrame
<1> QED BY <1>1, <1>2, <1>3

\* The invariant of codes is inductive.
LEMMA CodesStep ==
  ASSUME Wellformed, CodesInv, [Next]_vars
  PROVE  CodesInv'
BY UncreatedStep, MatchedStep, SentStep, OverlapStep, UsedStep, DropsStep DEF CodesInv

\* The invariant of reset tokens is inductive.
LEMMA ResetsStep ==
  ASSUME Wellformed, ResetsInv, [Next]_vars
  PROVE  ResetsInv'
<1>0. /\ SessionsTyped /\ CredentialsTyped /\ \A j : Job(j)' = Job(j)
      /\ \A j \in Jobs : Kind(j) = "resetPassword" => Typed(j) \in Jobs
      /\ \A j \in Jobs : Kind(j)' = Kind(j) /\ Typed(j)' = Typed(j)
  BY Given, JobType DEF Wellformed, SessionsTyped, JobFacts, Job, Kind, Typed
<1>1. ASSUME NEW t \in Jobs, resets[t] # "none"
      PROVE  pc'[t] = "ok" /\ mem'[t] = mem[t]
  <2>1. pc[t] = "ok" /\ Kind(t) = "confirmReset"
    BY <1>1 DEF ResetsInv, At
  <2>2. ~Works(t)
    BY <2>1, Entering DEF Entered, Replies
  <2> QED BY <2>1, <2>2, Waiting
<1>2. \A t \in Jobs : resets'[t] # "none" => pc'[t] = "ok" /\ Kind(t) = "confirmReset"
  <2> SUFFICES ASSUME NEW t \in Jobs, resets'[t] # "none"
               PROVE  pc'[t] = "ok" /\ Kind(t) = "confirmReset"
    OBVIOUS
  <2>1. CASE resets[t] # "none"
    BY <1>1, <2>1 DEF ResetsInv
  <2>2. CASE ResetToken(t)
    BY <1>0, <2>2 DEF ResetToken, Goto, SessionsTyped, Wellformed, Located, Fits, At
  <2>3. resets'[t] = resets[t] \/ ResetToken(t) \/ resets[t] # "none"
    <3>1. ASSUME NEW j \in Jobs, ResetToken(j) PROVE resets'[t] = resets[t] \/ ResetToken(t)
      BY <1>0, <3>1 DEF ResetToken, CredentialsTyped
    <3>2. ASSUME NEW j \in Jobs, ResetCommit(j), Spends(Typed(j))
          PROVE  resets'[t] = resets[t] \/ resets[t] # "none"
      BY <1>0, <3>2 DEF ResetCommit, Spends, CredentialsTyped
    <3> QED BY <1>0, <3>1, <3>2, ResetsFrame, CodesLeft
  <2> QED BY <2>1, <2>2, <2>3
<1>3. \A t \in Jobs : resets[t] # "none" => resets'[t] # "none"
  <2>1. ASSUME NEW j \in Jobs, ResetToken(j)
        PROVE  \A t \in Jobs : resets[t] # "none" => resets'[t] # "none"
    BY <1>0, <2>1 DEF ResetToken, CredentialsTyped
  <2>2. ASSUME NEW j \in Jobs, ResetCommit(j), Spends(Typed(j))
        PROVE  \A t \in Jobs : resets[t] # "none" => resets'[t] # "none"
    BY <1>0, <2>2 DEF ResetCommit, Spends, CredentialsTyped
  <2> QED BY <1>0, <2>1, <2>2, ResetsFrame, CodesLeft
<1>4. ASSUME NEW j \in Jobs, pc'[j] = "resetCommit"
      PROVE  /\ resets'[Typed(j)] # "none"
             /\ j \notin dirty' => user'.version = mem'[Typed(j)].version
  <2>1. CASE Works(j)
    <3>1. ResetRead(j)
      BY <1>4, <2>1, Entering DEF Entered
    <3>2. /\ resets[Typed(j)] # "none" /\ Typed(j) \in Jobs /\ user' = user
          /\ user.version = mem[Typed(j)].version
      BY <1>0, <1>4, <3>1 DEF ResetRead, Goto, SessionsTyped, Current
    <3> QED BY <1>1, <1>3, <3>2
  <2>2. CASE ~Works(j)
    <3>1. pc[j] = "resetCommit"
      BY <1>4, <2>2, Waiting
    <3>2. /\ resets[Typed(j)] # "none" /\ Typed(j) \in Jobs
          /\ j \notin dirty => user.version = mem[Typed(j)].version
      BY <1>0, <3>1 DEF ResetsInv, Current, At, Wellformed, Located, Fits
    <3>3. j \notin dirty' => j \notin dirty /\ user'.version = user.version
      <4>1. CASE Quiet
        BY <4>1 DEF Quiet
      <4>2. ASSUME NEW k \in Jobs, Works(k), j \notin dirty'
            PROVE  j \notin dirty /\ user'.version = user.version
        BY <1>0, <2>2, <4>2, UserFrame DEF WrongPassword, LoginReset, ChangeCommit, ResetCommit,
           WritesUser
      <4> QED BY <4>1, <4>2, Quietly
    <3> QED BY <1>1, <1>3, <3>2, <3>3
  <2> QED BY <2>1, <2>2
<1>5. /\ \A x \in acts'.spent : resets'[x[1]] = "spent"
      /\ \A x, y \in acts'.spent : x[1] = y[1] => x[2] = y[2]
      /\ acts'.outdated = {}
  <2> DEFINE Spending ==
        /\ \A x \in acts'.spent : resets'[x[1]] = "spent"
        /\ \A x, y \in acts'.spent : x[1] = y[1] => x[2] = y[2]
        /\ acts'.outdated = {}
  <2>1. CASE resets' = resets /\ acts'.spent = acts.spent /\ acts'.outdated = acts.outdated
    BY <2>1 DEF ResetsInv, ResetsOnce
  <2>2. ASSUME NEW j \in Jobs, ResetToken(j)
        PROVE  Spending
    <3>1. resets[j] = "none"
      BY <2>2 DEF ResetToken, ResetsInv, At
    <3>2. resets' = [resets EXCEPT ![j] = "live"] /\ acts' = acts
      BY <2>2 DEF ResetToken
    <3> QED BY <1>0, <3>1, <3>2 DEF ResetsInv, ResetsOnce, CredentialsTyped, Acts
  <2>3. ASSUME NEW j \in Jobs, ResetCommit(j), Spends(Typed(j))
        PROVE  Spending
    <3>1. /\ resets[Typed(j)] = "live" /\ Typed(j) \in Jobs
          /\ j \notin dirty => user.version = mem[Typed(j)].version
      BY <1>0, <2>3 DEF ResetCommit, Spends, ResetsInv, Current, At, Wellformed, Located, Fits
    <3>2. /\ resets' = [resets EXCEPT ![Typed(j)] = "spent"]
          /\ acts'.spent = acts.spent \cup {<<Typed(j), j>>}
          /\ acts'.outdated = acts.outdated
      BY <1>0, <2>3, <3>1 DEF ResetCommit, CredentialsTyped, Acts
    <3>3. \A x \in acts.spent : x[1] # Typed(j)
      BY <3>1 DEF ResetsInv
    <3> QED BY <1>0, <3>1, <3>2, <3>3 DEF ResetsInv, ResetsOnce, CredentialsTyped, Acts
  <2> QED BY <1>0, <2>1, <2>2, <2>3, ResetsFrame, CodesLeft
<1> QED BY <1>0, <1>2, <1>4, <1>5 DEF ResetsInv, ResetsOnce, At, Current

\* Both hold at the start.
LEMMA CredentialsStart ==
  ASSUME Init
  PROVE  CodesInv /\ ResetsInv
<1>1. /\ \A j \in Jobs : /\ pc[j] \in {"later", "start"} /\ resets[j] = "none"
                         /\ codes[j].state = "none"
      /\ acts.used = {} /\ acts.dropped = {} /\ acts.spent = {} /\ acts.outdated = {}
  BY DEF Init, SessionsInit, CredentialsInit
<1>2. CodesInv
  BY <1>1 DEF CodesInv, UncreatedInv, MatchedInv, SentInv, OverlapInv, UsedInv, OneLiveCode,
     DropsForCause, CodeOnce, At, Pending, Unconsumed
<1> QED BY <1>1, <1>2 DEF ResetsInv, ResetsOnce, At

\* A user never has two codes of one purpose to choose from, unless they were
\* created side by side (OTPManager.create deletes, then inserts); what
\* throttles a reset of the password was sent or is on its way, or its
\* withdrawal failed or its consumer died (resetPasswordProcessor); and a code
\* lets one request through (OTPManager.verify under two requests).
THEOREM CodesDoHold == Spec => [](CodesHold /\ CodeOnce /\ CodesInv)
<1>1. CodesInv => CodesHold /\ CodeOnce
  BY DEF CodesInv, CodesHold
<1>2. Wellformed /\ CodesInv /\ [Next]_vars => CodesInv'
  BY CodesStep
<1>3. Init => CodesInv
  BY CredentialsStart
<1> QED BY <1>1, <1>2, <1>3, AccessIsWellformed, PTL DEF Spec

\* A reset token sets one password, and none once the password it was issued
\* for has been changed, unless the change fell between check and commit
\* (resetPassword).
THEOREM ResetsAreSpentOnce == Spec => [](ResetsOnce /\ ResetsInv)
<1>1. ResetsInv => ResetsOnce
  BY DEF ResetsInv
<1>2. Wellformed /\ ResetsInv /\ [Next]_vars => ResetsInv'
  BY ResetsStep
<1>3. Init => ResetsInv
  BY CredentialsStart
<1> QED BY <1>1, <1>2, <1>3, AccessIsWellformed, PTL DEF Spec

-----------------------------------------------------------------------------
(* Refresh tokens.                                                         *)

\* The two steps that give a session document a token, that of their job.
Installs(j) == (Rotate(j) /\ Rotates(j)) \/ CreateSession(j)

\* Three steps write a cookie.
LEMMA CookieFrame ==
  ASSUME NEW j \in Jobs, Works(j)
  PROVE  cookie' = cookie \/ Respond(j) \/ LoginRespond(j) \/ ClearCookie(j)
<1> USE DEF client, sessionData
<1>1. CASE RefreshStep(j) \/ LoginStep(j) \/ Send(j)
  BY <1>1 DEF Send, RefreshStep, VerifyCached, VerifyMongo, VerifyStore, RefreshSession,
     RefreshMarker,
     RefreshUser, RefreshMark, Issue, Rotate, RefreshPublish, RefreshRetire,
     LoginStep, LoginRead, WrongPassword, LoginReset, CreateSession, LoginSeed
<1>2. CASE AuthStep(j) \/ RevokeStep(j)
  BY <1>2 DEF AuthStep, AuthCache, AuthConfirm, AuthSetConfirm, AuthLookup, AuthRepair,
     RevokeStep, RevokedFind, EndMark, EndPurge, EndBlacklist,
     RevokeFind, RevokeMark, RevokeBlacklist, RevokePurge, RevokeSpare
<1>3. CASE ChangeStep(j) \/ RehydrateStep(j)
  BY <1>3 DEF ChangeStep, ChangeRead, ChangeCommit, Forget,
     RehydrateStep, RehydrateFind, RehydrateBlacklist, RehydratePurge
<1>4. CASE CodeStep(j)
  BY <1>4 DEF CodeStep, CodeCooldown, CodeCeiling, CodeReplace, CodeInsert, CodeMail,
     CodeInvalidate, CodeStuck, CodeFind, CodeMiss, CodeConsume
<1>5. CASE ResetStep(j) \/ PinStep(j)
  BY <1>5 DEF ResetStep, EmailCommit, ResetUser, ResetToken, ResetRead, ResetCommit,
     PinStep, PinRead, PinUnlock, PinWrong, PinReset, SetupRead, PinSave
<1> QED BY <1>1, <1>2, <1>3, <1>4, <1>5 DEF Works, SessionStep, CredentialStep

\* A token that is out stays out, and comes out with its installation.
LEMMA Issuing ==
  ASSUME Wellformed, NEW j \in Jobs, Works(j), Kind(j) \in {"refresh", "login", "verifyEmail"}
  PROVE  LET out == {"publish", "retire", "respond", "seed", "seeding", "ok", "lost"} IN
         /\ pc[j] \in out => pc'[j] \in out
         /\ pc'[j] \in out => pc[j] \in out \/ Installs(j)
<1>0. SessionsTyped /\ Fits(pc[j], Kind(j))
  BY DEF Wellformed, Located
<1> USE <1>0 DEF SessionsTyped, Goto, At, Installs
<1>1. CASE RefreshStep(j)
  <2>1. CASE Rotate(j)
    BY <1>1, <2>1 DEF Rotate
  <2>2. CASE Issue(j)
    BY <1>1, <2>2 DEF Issue
  <2> QED BY <1>1, <2>1, <2>2 DEF RefreshStep, VerifyCached, VerifyMongo, VerifyStore,
          RefreshSession, RefreshMarker, RefreshUser, RefreshMark, RefreshPublish, RefreshRetire,
          Respond, Verified
<1>2. CASE LoginStep(j)
  BY <1>2 DEF LoginStep, LoginRead, WrongPassword, LoginReset, CreateSession, LoginRespond,
     LoginSeed
<1>3. ~AuthStep(j) /\ ~ChangeStep(j) /\ ~RehydrateStep(j) /\ ~PinStep(j)
  <2>1. ~AuthStep(j)
    BY DEF Fits, AuthSteps, WithAccess, AuthStep, AuthCache, AuthConfirm, AuthSetConfirm,
       AuthLookup, AuthRepair
  <2>2. ~ChangeStep(j) /\ ~RehydrateStep(j)
    BY DEF Fits, Rehydrates, ChangeStep, ChangeRead, ChangeCommit, Forget,
       RehydrateStep, RehydrateFind, RehydrateBlacklist, RehydratePurge
  <2>3. ~PinStep(j)
    BY DEF Fits, PinStep, PinRead, PinUnlock, PinWrong, PinReset, SetupRead, PinSave
  <2> QED BY <2>1, <2>2, <2>3
<1>4. CASE RevokeStep(j)
  <2>1. Kind(j) = "refresh" /\ pc[j] \in RevokeSteps
    BY <1>4 DEF Fits, RevokeSteps, RevokeStep, RevokedFind, EndMark, EndPurge, EndBlacklist,
       ClearCookie, RevokeFind, RevokeMark, RevokeBlacklist, RevokePurge, RevokeSpare
  <2> QED BY <1>4, <2>1 DEF RevokeSteps, RevokeStep, RevokedFind, EndMark, EndPurge, EndBlacklist,
       ClearCookie, RevokeFind, RevokeMark, RevokeBlacklist, RevokePurge, RevokeSpare
<1>5. CASE CodeStep(j)
  <2>1. Kind(j) = "verifyEmail" /\ (CodeFind(j) \/ CodeMiss(j) \/ CodeConsume(j))
    BY <1>5 DEF Fits, WithCode, CodeStep, CodeCooldown, CodeCeiling, CodeReplace, CodeInsert,
       CodeMail, CodeInvalidate, CodeStuck, CodeFind, CodeMiss, CodeConsume
  <2> QED BY <2>1 DEF Fits, WithCode, CodeFind, CodeMiss, CodeConsume
<1>6. CASE ResetStep(j)
  <2>1. EmailCommit(j)
    BY <1>6 DEF Fits, ResetStep, ResetUser, ResetToken, ResetRead, ResetCommit
  <2> QED BY <2>1 DEF EmailCommit
<1>7. CASE Send(j)
  BY <1>7 DEF Send, WithCookie, WithAccess
<1> QED BY <1>1, <1>2, <1>3, <1>4, <1>5, <1>6, <1>7 DEF Works, SessionStep, CredentialStep

\* Who installs its token has it in the document, and did not before.
LEMMA Installed ==
  ASSUME Wellformed, NEW j \in Jobs, Installs(j)
  PROVE  /\ j \notin Issued /\ IssuedBy(j)'
         /\ sessions' = [sessions EXCEPT ![Dev(j)] = [active |-> TRUE, token |-> j]]
         /\ Rotate(j) => sessions[Dev(j)] = [active |-> TRUE, token |-> carried[j]]
         /\ Dev(j) \in Devices /\ Home(j) = Dev(j)
<1>0. /\ SessionsTyped /\ Fits(pc[j], Kind(j)) /\ JobFacts(j)
      /\ workload.signedIn \subseteq Devices
  BY JobType, WorkloadAssumption DEF Wellformed, Located, SessionsTyped
<1>1. pc[j] \in {"rotate", "createSession"} /\ workload' = workload
  BY DEF Installs, Rotate, CreateSession, At
<1>2. j \notin Issued
  BY <1>0, <1>1 DEF Issued, IssuedBy, JobFacts
<1>3. IssuedBy(j)'
  BY <1>0, <1>1 DEF Installs, Rotate, CreateSession, Goto, SessionsTyped, IssuedBy, Fits, Kind,
     Job, At
<1>4. CASE Rotate(j) /\ Rotates(j)
  <2>1. /\ sessions' = [sessions EXCEPT ![Dev(j)].token = j]
        /\ sessions[Dev(j)] = [active |-> TRUE, token |-> carried[j]]
    BY <1>4 DEF Rotate, Rotates
  <2> DEFINE s == [sessions[Dev(j)] EXCEPT !.token = j]
  <2>r. s \in Session /\ s.active = sessions[Dev(j)].active /\ s.token = j
    BY <1>0 DEF SessionsTyped, Session, Token, Tokens, JobFacts
  <2>2. s = [active |-> TRUE, token |-> j]
    <3>1. sessions[Dev(j)].active = TRUE
      BY <2>1
    <3>2. \A x \in Session : x.active = TRUE /\ x.token = j => x = [active |-> TRUE, token |-> j]
      BY DEF Session
    <3> HIDE DEF s
    <3> QED BY <2>r, <3>1, <3>2
  <2>3. sessions' = [sessions EXCEPT ![Dev(j)] = [active |-> TRUE, token |-> j]]
    BY <2>1, <2>2
  <2> QED BY <1>0, <1>2, <1>3, <2>1, <2>3 DEF JobFacts, Home
<1>5. CASE CreateSession(j)
  <2>1. ~Rotate(j)
    BY <1>5 DEF Rotate, CreateSession, At
  <2> QED BY <1>0, <1>2, <1>3, <1>5, <2>1 DEF CreateSession, JobFacts, Home
<1> QED BY <1>4, <1>5 DEF Installs

\* Tokens come out by being installed, and in no other way.
LEMMA IssuedThen ==
  ASSUME Wellformed, [Next]_vars
  PROVE  /\ Issued \subseteq Issued'
         /\ \A t \in Issued' : t \in Issued \/ (t \in Jobs /\ Installs(t))
         /\ \A t : Home(t)' = Home(t)
<1>0. /\ workload' = workload /\ \A t : Home(t)' = Home(t)
      /\ \A j \in Jobs : Kind(j)' = Kind(j)
  BY Given DEF Home, Dev, Kind, Job
<1>1. ASSUME NEW j \in Jobs, IssuedBy(j)
      PROVE  IssuedBy(j)'
  <2>1. CASE Works(j)
    BY <1>0, <1>1, <2>1, Issuing DEF IssuedBy
  <2>2. CASE ~Works(j)
    BY <1>0, <1>1, <2>2, Waiting DEF IssuedBy
  <2> QED BY <2>1, <2>2
<1>2. ASSUME NEW j \in Jobs, IssuedBy(j)'
      PROVE  IssuedBy(j) \/ Installs(j)
  <2>1. CASE Works(j)
    BY <1>0, <1>2, <2>1, Issuing DEF IssuedBy
  <2>2. CASE ~Works(j)
    BY <1>0, <1>2, <2>2, Waiting DEF IssuedBy
  <2> QED BY <2>1, <2>2
<1> QED BY <1>0, <1>1, <1>2 DEF Issued

\* The end of a session leaves its document its token.
LEMMA SessionsThen ==
  ASSUME Wellformed, [Next]_vars, NEW d \in Devices
  PROVE  \/ sessions'[d] = sessions[d]
         \/ \E j \in Jobs : Installs(j) /\ Dev(j) = d
                            /\ sessions'[d] = [active |-> TRUE, token |-> j]
         \/ sessions'[d] = [active |-> FALSE, token |-> sessions[d].token]
<1>0. SessionsTyped /\ CredentialsTyped
  BY DEF Wellformed
<1>1. CASE Quiet
  BY <1>1 DEF Quiet
<1>2. ASSUME NEW j \in Jobs, Works(j)
      PROVE  \/ sessions'[d] = sessions[d]
             \/ \E k \in Jobs : Installs(k) /\ Dev(k) = d
                                /\ sessions'[d] = [active |-> TRUE, token |-> k]
             \/ sessions'[d] = [active |-> FALSE, token |-> sessions[d].token]
  <2>1. CASE Installs(j)
    <3>1. sessions' = [sessions EXCEPT ![Dev(j)] = [active |-> TRUE, token |-> j]]
      BY <2>1, Installed
    <3> QED BY <1>0, <2>1, <3>1 DEF SessionsTyped
  <2>2. CASE ~Installs(j) /\ Rotate(j)
    BY <2>2 DEF Installs, Rotate
  <2>3. CASE EndMark(j)
    <3>1. sessions' = [sessions EXCEPT ![Target(j)].active = FALSE]
      BY <2>3 DEF EndMark
    <3> QED BY <1>0, <3>1 DEF SessionsTyped, Session
  <2>4. CASE RevokeMark(j)
    <3>1. sessions'[d] = [sessions[d] EXCEPT !.active = @ /\ d \in Spared(j)]
      BY <2>4 DEF RevokeMark
    <3>2. /\ sessions[d] = [active |-> sessions[d].active, token |-> sessions[d].token]
          /\ sessions[d].active \in BOOLEAN
      BY <1>0 DEF SessionsTyped, Session
    <3>3. CASE d \in Spared(j)
      BY <3>1, <3>2, <3>3
    <3>4. CASE d \notin Spared(j)
      BY <3>1, <3>2, <3>4
    <3> QED BY <3>3, <3>4
  <2> QED BY <1>0, <1>2, <2>1, <2>2, <2>3, <2>4, SessionsFrame DEF Installs
<1> QED BY <1>1, <1>2, Quietly

\* A token is seen at its own device only: inductive.
LEMMA HomesStep ==
  ASSUME Wellformed, HomesInv, [Next]_vars
  PROVE  HomesInv'
<1>0. /\ SessionsTyped /\ Issued \subseteq Issued' /\ \A t : Home(t)' = Home(t)
      /\ \A j : Dev(j)' = Dev(j) /\ Kind(j)' = Kind(j)
      /\ \A j \in Jobs : Dev(j) \in Devices /\ Home(j) = Dev(j) /\ Kind(j) \in Kinds
      /\ workload' = workload
  BY IssuedThen, Given, JobType DEF Wellformed, SessionsTyped, Dev, Kind, Job, JobFacts, Home
<1>1. \A t, d : OfDevice(t, d) => OfDevice(t, d)'
  BY <1>0 DEF OfDevice
<1>2. ASSUME NEW j \in Jobs, IssuedBy(j)'
      PROVE  OfDevice(j, Dev(j))'
  BY <1>0, <1>2 DEF OfDevice, Issued
<1>3. ASSUME NEW d \in Devices PROVE OfDevice(sessions[d].token, d)'
  <2>1. OfDevice(sessions[d].token, d)
    BY DEF HomesInv
  <2>2. ASSUME NEW j \in Jobs, Installs(j), Dev(j) = d,
               sessions'[d] = [active |-> TRUE, token |-> j]
        PROVE  OfDevice(sessions[d].token, d)'
    <3>1. sessions'[d].token = j
      BY <2>2
    <3>2. IssuedBy(j)'
      BY <2>2, Installed
    <3> QED BY <1>0, <2>2, <3>1, <3>2 DEF OfDevice, Issued
  <2>3. CASE sessions'[d].token = sessions[d].token
    BY <1>0, <2>1, <2>3 DEF OfDevice
  <2>4. sessions'[d].token = sessions[d].token
        \/ \E j \in Jobs : Installs(j) /\ Dev(j) = d
                           /\ sessions'[d] = [active |-> TRUE, token |-> j]
    <3>1. CASE sessions'[d] = [active |-> FALSE, token |-> sessions[d].token]
      BY <3>1
    <3>2. CASE sessions'[d] = sessions[d]
      BY <3>2
    <3> QED BY <3>1, <3>2, SessionsThen
  <2> QED BY <2>2, <2>3, <2>4
<1>4. ASSUME NEW d \in Devices PROVE OfDevice(cookie[d], d)'
  <2>1. OfDevice(cookie[d], d)
    BY DEF HomesInv
  <2>2. CASE cookie'[d] = cookie[d]
    BY <1>0, <2>1, <2>2 DEF OfDevice
  <2>3. ASSUME NEW j \in Jobs, Respond(j) \/ LoginRespond(j), cookie'[d] # cookie[d]
        PROVE  OfDevice(cookie[d], d)'
    <3>1. /\ cookie' = [cookie EXCEPT ![Dev(j)] = j] /\ pc'[j] \in {"ok", "seeding"}
          /\ pc[j] \in {"respond", "seed"}
      BY <1>0, <2>3 DEF Respond, LoginRespond, Goto, SessionsTyped, At, client
    <3>2. IssuedBy(j)'
      BY <1>0, <3>1 DEF IssuedBy, Wellformed, Located, Fits
    <3> QED BY <1>0, <2>3, <3>1, <3>2 DEF OfDevice, Issued, SessionsTyped
  <2>4. ASSUME NEW j \in Jobs, ClearCookie(j)
        PROVE  cookie'[d] \in {cookie[d], NoToken}
    BY <1>0, <2>4 DEF ClearCookie, SessionsTyped
  <2>5. cookie' = cookie \/ \E j \in Jobs : Respond(j) \/ LoginRespond(j) \/ ClearCookie(j)
    BY Quietly, CookieFrame DEF Quiet
  <2> QED BY <2>2, <2>3, <2>4, <2>5 DEF OfDevice
<1>5. ASSUME NEW j \in Jobs, Kind(j) \in WithCookie PROVE OfDevice(carried[j], Dev(j))'
  <2>1. CASE carried'[j] = carried[j]
    BY <1>0, <1>5, <2>1 DEF HomesInv, OfDevice
  <2>2. CASE Send(j)
    <3>1. carried'[j] = cookie[Dev(j)]
      BY <1>0, <1>5, <2>2 DEF Send, SessionsTyped
    <3>2. OfDevice(cookie[Dev(j)], Dev(j))
      BY <1>0 DEF HomesInv
    <3> QED BY <1>0, <3>1, <3>2 DEF OfDevice
  <2> QED BY <2>1, <2>2, Sending, Waiting
<1> QED BY <1>0, <1>3, <1>4, <1>5 DEF HomesInv

\* The marker of a rotation is written before the token is issued.
LEMMA MarkReach ==
  ASSUME Wellformed, NEW j \in Jobs, Works(j), Kind(j) = "refresh"
  PROVE  /\ pc'[j] \in {"issue", "rotate"} => RefreshMark(j) \/ Issue(j)
         /\ pc'[j] = "marker" => RefreshSession(j)
<1>0. SessionsTyped /\ Fits(pc[j], Kind(j))
  BY DEF Wellformed, Located
<1> USE <1>0 DEF SessionsTyped, Goto, At
<1>1. CASE RefreshStep(j)
  BY <1>1 DEF RefreshStep, VerifyCached, VerifyMongo, VerifyStore,
     RefreshSession, RefreshMarker, RefreshUser, Rotate, RefreshPublish, RefreshRetire,
     RefreshMark, Issue, Respond, Verified
<1>2. CASE LoginStep(j)
  BY <1>2 DEF Fits, LoginStep, LoginRead, WrongPassword, LoginReset, CreateSession, LoginRespond,
     LoginSeed
<1>3. CASE AuthStep(j)
  BY <1>3 DEF AuthStep, AuthCache, AuthConfirm, AuthSetConfirm, AuthLookup, AuthRepair, Admitted,
     Fits, AuthSteps, WithAccess
<1>4. CASE RevokeStep(j)
  BY <1>4 DEF RevokeStep, RevokedFind, EndMark, EndPurge, EndBlacklist, ClearCookie,
          RevokeFind, RevokeMark, RevokeBlacklist, RevokePurge, RevokeSpare
<1>5. CASE ChangeStep(j) \/ RehydrateStep(j)
  BY <1>5 DEF ChangeStep, ChangeRead, ChangeCommit, Forget,
     RehydrateStep, RehydrateFind, RehydrateBlacklist, RehydratePurge
<1>6. ~CodeStep(j) /\ ~ResetStep(j)
  BY DEF Fits, WithCode, CodeStep, CodeCooldown, CodeCeiling, CodeReplace, CodeInsert, CodeMail,
     CodeInvalidate, CodeStuck, CodeFind, CodeMiss, CodeConsume, ResetStep, EmailCommit, ResetUser,
     ResetToken, ResetRead, ResetCommit
<1>7. CASE PinStep(j)
  BY <1>7 DEF PinStep, PinRead, PinUnlock, PinWrong, PinReset, SetupRead, PinSave, Fits
<1>8. CASE Send(j)
  BY <1>8 DEF Send, WithCookie, WithAccess
<1> QED BY <1>1, <1>2, <1>3, <1>4, <1>5, <1>6, <1>7, <1>8 DEF Works, SessionStep, CredentialStep

\* What is recorded of the end of a token stays recorded.
LEMMA RecordedGrows ==
  ASSUME Wellformed, [Next]_vars
  PROVE  /\ Recorded \subseteq Recorded' /\ log.unmarked \subseteq log'.unmarked
         /\ log.replaced \subseteq log'.replaced
<1>0. SessionsTyped /\ CredentialsTyped
  BY DEF Wellformed
<1>1. CASE Quiet
  BY <1>1 DEF Quiet, Recorded
<1>2. ASSUME NEW j \in Jobs, Works(j)
      PROVE  /\ Recorded \subseteq Recorded' /\ log.unmarked \subseteq log'.unmarked
             /\ log.replaced \subseteq log'.replaced
  <2>1. redis.rotated \subseteq redis'.rotated
    BY <1>0, <1>2, RotatedFrame DEF RefreshMark, Redis, SessionsTyped, Keys
  <2>2. log.unmarked \subseteq log'.unmarked
    BY <1>0, <1>2, LogFrame DEF RefreshMark, SessionsTyped, Log
  <2>3. log.replaced \subseteq log'.replaced
    BY <1>0, <1>2, LogFrame DEF CreateSession, SessionsTyped, Log
  <2> QED BY <2>1, <2>2, <2>3 DEF Recorded
<1> QED BY <1>1, <1>2, Quietly

\* Who is about to issue has left a marker, or recorded that it could not.
LEMMA MarkedStep ==
  ASSUME Wellformed, MarkedInv, [Next]_vars
  PROVE  MarkedInv'
<1>0. /\ SessionsTyped /\ \A j : Kind(j)' = Kind(j) /\ Recorded \subseteq Recorded'
  BY Given, RecordedGrows DEF Wellformed, Kind, Job
<1> SUFFICES ASSUME NEW j \in Jobs, Kind(j) = "refresh", pc'[j] \in {"issue", "rotate"}
             PROVE  carried'[j] \in Recorded'
  BY <1>0 DEF MarkedInv
<1>1. CASE RefreshMark(j)
  BY <1>0, <1>1 DEF RefreshMark, Redis, SessionsTyped, Keys, Log, Recorded
<1>2. CASE Issue(j)
  BY <1>0, <1>2 DEF Issue, MarkedInv, At
<1>3. CASE ~Works(j)
  BY <1>0, <1>3, Waiting DEF MarkedInv
<1> QED BY <1>1, <1>2, <1>3, MarkReach

\* A token that is no longer in its document was recorded: inductive.
LEMMA SupersededStep ==
  ASSUME Wellformed, HomesInv, MarkedInv, SupersededInv, [Next]_vars
  PROVE  SupersededInv'
<1>0. /\ SessionsTyped /\ Recorded \subseteq Recorded' /\ log.replaced \subseteq log'.replaced
      /\ \A t : Home(t)' = Home(t) /\ \A j : Dev(j)' = Dev(j)
      /\ \A t \in Issued' : t \in Issued \/ (t \in Jobs /\ Installs(t))
  BY IssuedThen, RecordedGrows, Given DEF Wellformed, Dev, Job
<1> SUFFICES ASSUME NEW t \in Issued'
             PROVE  sessions'[Home(t)].token = t \/ t \in Recorded' \cup log'.replaced
  BY <1>0 DEF SupersededInv
<1>1. CASE t \in Jobs /\ Installs(t)
  <2>1. /\ sessions' = [sessions EXCEPT ![Dev(t)] = [active |-> TRUE, token |-> t]]
        /\ Dev(t) \in Devices /\ Home(t) = Dev(t)
    BY <1>1, Installed
  <2> QED BY <1>0, <2>1 DEF SessionsTyped
<1>2. CASE t \in Issued /\ Home(t) \in Devices
  <2>1. sessions[Home(t)].token = t \/ t \in Recorded \cup log.replaced
    BY <1>2 DEF SupersededInv
  <2>2. ASSUME NEW j \in Jobs, Installs(j), Dev(j) = Home(t), sessions[Home(t)].token = t
        PROVE  t \in Recorded' \cup log'.replaced
    <3>1. CASE Rotate(j)
      <4>1. sessions[Dev(j)] = [active |-> TRUE, token |-> carried[j]]
        BY <2>2, <3>1, Installed
      <4>2. carried[j] = t
        BY <2>2, <4>1
      <4>3. carried[j] \in Recorded
        BY <3>1 DEF Rotate, MarkedInv, Wellformed, Located, Fits, At
      <4> QED BY <1>0, <4>2, <4>3
    <3>2. CASE CreateSession(j)
      BY <1>0, <2>2, <3>2 DEF CreateSession, SessionsTyped, Log
    <3> QED BY <2>2, <3>1, <3>2 DEF Installs
  <2>3. sessions'[Home(t)].token = sessions[Home(t)].token
        \/ \E j \in Jobs : Installs(j) /\ Dev(j) = Home(t)
    <3>1. CASE sessions'[Home(t)] = [active |-> FALSE, token |-> sessions[Home(t)].token]
      BY <3>1
    <3>2. CASE sessions'[Home(t)] = sessions[Home(t)]
      BY <3>2
    <3> QED BY <1>2, <3>1, <3>2, SessionsThen
  <2> QED BY <1>0, <2>1, <2>2, <2>3
<1>3. t \in Issued => Home(t) \in Devices
  BY JobType, WorkloadAssumption DEF Issued, Home, JobFacts, Wellformed, SessionsTyped
<1> QED BY <1>0, <1>1, <1>2, <1>3

\* A token that is out is not put into a session document again.
LEMMA NotAgain ==
  ASSUME Wellformed, [Next]_vars, NEW d \in Devices, NEW t \in Issued, sessions[d].token # t
  PROVE  sessions'[d].token # t
<1>1. CASE sessions'[d] = [active |-> FALSE, token |-> sessions[d].token]
  BY <1>1
<1>2. CASE sessions'[d] = sessions[d]
  BY <1>2
<1>3. ASSUME NEW j \in Jobs, Installs(j), sessions'[d] = [active |-> TRUE, token |-> j]
      PROVE  sessions'[d].token # t
  <2>1. j \notin Issued
    BY <1>3, Installed
  <2>2. sessions'[d].token = j
    BY <1>3
  <2> QED BY <2>1, <2>2
<1> QED BY <1>1, <1>2, <1>3, SessionsThen

\* Who asks for the marker presents a token that was replaced: inductive.
LEMMA SuspectStep ==
  ASSUME Wellformed, HomesInv, SuspectInv, [Next]_vars
  PROVE  SuspectInv'
<1>0. /\ SessionsTyped /\ \A j : Dev(j)' = Dev(j) /\ Kind(j)' = Kind(j)
      /\ \A j \in Jobs : Dev(j) \in Devices
  BY Given, JobType DEF Wellformed, Dev, Kind, Job, SessionsTyped, JobFacts
<1> SUFFICES ASSUME NEW j \in Jobs, pc'[j] = "marker"
             PROVE  sessions'[Dev(j)].token # carried'[j]
  BY <1>0 DEF SuspectInv, At
<1>k. Kind(j) = "refresh"
  <2>1. Located'
    BY LocatedStep
  <2>2. Fits(pc'[j], Kind(j))
    BY <1>0, <2>1 DEF Located
  <2> QED BY <2>2 DEF Fits
<1>1. CASE Works(j)
  BY <1>0, <1>k, <1>1, MarkReach DEF RefreshSession, Goto, SessionsTyped, db
<1>2. CASE ~Works(j)
  <2>1. pc[j] = "marker" /\ carried'[j] = carried[j]
    BY <1>2, Waiting
  <2>2. sessions[Dev(j)].token # carried[j] /\ carried[j] \in Tokens
    BY <2>1, Carrying DEF SuspectInv, At, Wellformed
  <2>3. carried[j] \in Issued
    BY <1>k, <2>2, TokenAssumption DEF HomesInv, OfDevice, WithCookie
  <2> QED BY <1>0, <2>1, <2>2, <2>3, NotAgain
<1> QED BY <1>1, <1>2

\* Reuse is found for cause: inductive.
LEMMA ReuseStep ==
  ASSUME Wellformed, HomesInv, SupersededInv, SuspectInv, ReuseInv, [Next]_vars
  PROVE  ReuseInv'
<1>0. /\ SessionsTyped /\ CredentialsTyped /\ log.unmarked \subseteq log'.unmarked
      /\ log.replaced \subseteq log'.replaced
  BY RecordedGrows DEF Wellformed
<1>1. ASSUME NEW j \in log.reuse
      PROVE  /\ pc'[j] \notin {"later", "start"}
             /\ carried'[j] \in log'.unmarked \cup log'.replaced
  <2>1. /\ j \in Jobs /\ pc[j] \notin {"later", "start"}
        /\ carried[j] \in log.unmarked \cup log.replaced
    BY <1>0, <1>1 DEF ReuseInv, ReuseForCause, SessionsTyped, Log
  <2>2. carried'[j] = carried[j]
    BY <2>1, Sending, Waiting DEF Send, At
  <2>3. pc'[j] \notin {"later", "start"}
    BY <2>1, Entering, Waiting DEF Entered
  <2> QED BY <1>0, <2>1, <2>2, <2>3
<1>2. ASSUME NEW j \in Jobs, RefreshMarker(j), j \in log'.reuse, j \notin log.reuse
      PROVE  /\ pc'[j] \notin {"later", "start"}
             /\ carried'[j] \in log'.unmarked \cup log'.replaced
  <2>1. /\ redis.up /\ carried[j] \notin redis.rotated /\ pc[j] = "marker"
        /\ pc'[j] = "revokeFind" /\ carried' = carried
    BY <1>0, <1>2 DEF RefreshMarker, Goto, SessionsTyped, Log, At
  <2>2. carried[j] \in Tokens /\ Kind(j) = "refresh"
    BY <2>1, Carrying DEF Wellformed, Located, Fits
  <2>3. carried[j] \in Issued /\ Home(carried[j]) = Dev(j)
    BY <2>2, TokenAssumption DEF HomesInv, OfDevice, WithCookie
  <2>4. sessions[Dev(j)].token # carried[j]
    BY <2>1 DEF SuspectInv, At
  <2>5. carried[j] \in Recorded \cup log.replaced
    BY <2>3, <2>4 DEF SupersededInv
  <2> QED BY <1>0, <2>1, <2>5 DEF Recorded
<1>3. \A j \in log'.reuse : j \in log.reuse \/ (j \in Jobs /\ RefreshMarker(j))
  <2>1. ASSUME NEW j \in Jobs, Works(j)
        PROVE  \/ log'.reuse = log.reuse
               \/ RefreshMarker(j) /\ log'.reuse \subseteq log.reuse \cup {j}
    <3>1. CASE RefreshMarker(j)
      BY <1>0, <3>1 DEF RefreshMarker, SessionsTyped, Log
    <3> QED BY <1>0, <2>1, <3>1, LogFrame
  <2> QED BY <2>1, Quietly DEF Quiet
<1> QED BY <1>1, <1>2, <1>3 DEF ReuseInv, ReuseForCause

\* A token is exchanged once: inductive.
LEMMA ExchangeStep ==
  ASSUME Wellformed, HomesInv, ExchangeInv, [Next]_vars
  PROVE  ExchangeInv'
<1>0. /\ SessionsTyped /\ CredentialsTyped /\ Issued \subseteq Issued'
      /\ \A t : Home(t)' = Home(t)
  BY IssuedThen DEF Wellformed
<1>h. \A t \in Issued : Home(t) \in Devices
  BY JobType, WorkloadAssumption DEF Issued, Home, JobFacts, Wellformed, SessionsTyped
<1>1. ASSUME NEW x \in log.exchanged
      PROVE  x[1] \in Issued' /\ sessions'[Home(x[1])].token # x[1]
  <2>1. x[1] \in Issued /\ sessions[Home(x[1])].token # x[1]
    BY <1>1 DEF ExchangeInv
  <2> QED BY <1>0, <1>h, <2>1, NotAgain
<1>2. CASE log'.exchanged = log.exchanged
  BY <1>0, <1>1, <1>2 DEF ExchangeInv, ExchangedOnce
<1>3. ASSUME NEW j \in Jobs, Rotate(j), Rotates(j)
      PROVE  ExchangeInv'
  <2>1. log'.exchanged = log.exchanged \cup {<<carried[j], j>>}
    BY <1>0, <1>3 DEF Rotate, SessionsTyped, Log
  <2>2. /\ sessions[Dev(j)] = [active |-> TRUE, token |-> carried[j]]
        /\ sessions' = [sessions EXCEPT ![Dev(j)] = [active |-> TRUE, token |-> j]]
        /\ j \notin Issued /\ Dev(j) \in Devices
    BY <1>3, Installed DEF Installs
  <2>3. carried[j] \in Issued /\ Home(carried[j]) = Dev(j)
    <3>1. Kind(j) = "refresh" /\ carried[j] \in Tokens
      BY <1>3, Carrying DEF Rotate, At, Wellformed, Located, Fits
    <3> QED BY <3>1, TokenAssumption DEF HomesInv, OfDevice, WithCookie
  <2>4. sessions[Dev(j)].token = carried[j] /\ sessions'[Dev(j)].token = j
    BY <1>0, <2>2 DEF SessionsTyped
  <2>5. \A x \in log.exchanged : x[1] # carried[j]
    BY <2>3, <2>4 DEF ExchangeInv
  <2> QED BY <1>0, <1>1, <2>1, <2>2, <2>3, <2>4, <2>5 DEF ExchangeInv, ExchangedOnce
<1>4. log'.exchanged = log.exchanged \/ \E j \in Jobs : Rotate(j) /\ Rotates(j)
  <2>1. ASSUME NEW j \in Jobs, Works(j)
        PROVE  log'.exchanged = log.exchanged \/ (Rotate(j) /\ Rotates(j))
    BY <1>0, <2>1, LogFrame DEF Rotate
  <2> QED BY <2>1, Quietly DEF Quiet
<1> QED BY <1>2, <1>3, <1>4

\* The invariant of refresh tokens is inductive.
LEMMA TokensStep ==
  ASSUME Wellformed, TokensInv, [Next]_vars
  PROVE  TokensInv'
BY HomesStep, SupersededStep, MarkedStep, SuspectStep, ReuseStep, ExchangeStep DEF TokensInv

\* It holds at the start.
LEMMA TokensInit ==
  ASSUME Init
  PROVE  TokensInv
<1>0. workload.signedIn \subseteq Devices /\ NoToken \notin Tokens
  BY WorkloadAssumption, TokenAssumption DEF Init, SessionsInit
<1>1. /\ \A j \in Jobs : pc[j] \in {"later", "start"} /\ carried[j] = NoToken
      /\ \A d \in Devices : /\ sessions[d].token = (IF d \in workload.signedIn THEN d ELSE NoToken)
                            /\ cookie[d] = sessions[d].token
      /\ log.reuse = {} /\ log.exchanged = {}
  BY DEF Init, SessionsInit
<1>2. Issued = workload.signedIn
  BY <1>1 DEF Issued, IssuedBy
<1>3. HomesInv
  BY <1>0, <1>1, <1>2 DEF HomesInv, OfDevice, Home
<1>4. SupersededInv
  BY <1>0, <1>1, <1>2 DEF SupersededInv, Home
<1> QED BY <1>1, <1>3, <1>4 DEF TokensInv, MarkedInv, SuspectInv, ReuseInv, ReuseForCause,
        ExchangeInv, ExchangedOnce, At

\* What is made to be used once is: a refresh token is exchanged once however
\* many tabs present it together, a code lets one request through, a reset
\* token sets one password (refreshToken, OTPManager.verify, resetPassword).
THEOREM SecretsAreSingleUse == Spec => []SecretsSingleUse
<1>1. Wellformed /\ TokensInv /\ [Next]_vars => TokensInv'
  BY TokensStep
<1>2. Init => TokensInv
  BY TokensInit
<1>3. TokensInv /\ CodeOnce /\ ResetsOnce => SecretsSingleUse
  BY DEF TokensInv, ExchangeInv, SecretsSingleUse
<1> QED BY <1>1, <1>2, <1>3, AccessIsWellformed, CodesDoHold, ResetsAreSpentOnce, PTL DEF Spec

\* A token presented twice signs the user out everywhere only if nothing could
\* tell the harmless race: the marker of the rotation was never written or has
\* expired, or the session was replaced by a login (refreshToken, its race).
THEOREM ReuseIsForCause == Spec => [](ReuseForCause /\ TokensInv)
<1>1. Wellformed /\ TokensInv /\ [Next]_vars => TokensInv'
  BY TokensStep
<1>2. Init => TokensInv
  BY TokensInit
<1>3. TokensInv => ReuseForCause
  BY DEF TokensInv, ReuseInv
<1> QED BY <1>1, <1>2, <1>3, AccessIsWellformed, PTL DEF Spec

-----------------------------------------------------------------------------
(* Revocations.                                                            *)

\* Which steps come to where something that was found is used.
Finding(j) ==
    /\ pc'[j] = "endMark" => RevokedFind(j)
    /\ pc'[j] = "revokeMark" => RevokeFind(j)
    /\ pc'[j] = "endPurge" => EndMark(j)
    /\ pc'[j] = "endBlacklist" => EndPurge(j)
    /\ pc'[j] = "revokeBlacklist" => RevokeMark(j)
    /\ pc'[j] = "revokePurge" => RevokeBlacklist(j)
    /\ pc'[j] = "revokeSpare" => RevokePurge(j)
    /\ pc'[j] = "rehydrateBlacklist" => RehydrateFind(j)
    /\ pc'[j] = "rehydratePurge" => RehydrateBlacklist(j)

\* Every step of every service finds so.
LEMMA Finds ==
  ASSUME Wellformed, NEW j \in Jobs, Works(j)
  PROVE  Finding(j)
<1>0. SessionsTyped /\ Fits(pc[j], Kind(j))
  BY DEF Wellformed, Located
<1> USE <1>0 DEF SessionsTyped, Goto, At, Finding
<1>1. CASE RefreshStep(j)
  BY <1>1 DEF RefreshStep, VerifyCached, VerifyMongo, VerifyStore, RefreshSession,
     RefreshMarker, RefreshUser, RefreshMark, Issue, Rotate, RefreshPublish, RefreshRetire,
     Respond, Verified
<1>2. CASE LoginStep(j)
  BY <1>2 DEF LoginStep, LoginRead, WrongPassword, LoginReset, CreateSession, LoginRespond,
     LoginSeed
<1>3. CASE AuthStep(j)
  BY <1>3 DEF AuthStep, AuthCache, AuthConfirm, AuthSetConfirm, AuthLookup, AuthRepair, Admitted,
     Fits, AuthSteps, WithAccess
<1>4. CASE RevokeStep(j)
  <2>1. CASE RevokeSpare(j)
    BY <2>1 DEF RevokeSpare, Fits, RevokeSteps
  <2>2. CASE RevokedFind(j)
    BY <2>2 DEF RevokedFind
  <2> QED BY <1>4, <2>1, <2>2 DEF RevokeStep, EndMark, EndPurge, EndBlacklist, ClearCookie,
          RevokeFind, RevokeMark, RevokeBlacklist, RevokePurge
<1>5. CASE ChangeStep(j)
  BY <1>5 DEF ChangeStep, ChangeRead, ChangeCommit, Forget
<1>6. CASE RehydrateStep(j)
  BY <1>6 DEF RehydrateStep, RehydrateFind, RehydrateBlacklist, RehydratePurge
<1>7. CASE CodeStep(j)
  <2>1. CASE CodeConsume(j)
    BY <1>7, <2>1 DEF CodeConsume, Fits, WithCode
  <2>2. CASE CodeInvalidate(j) \/ CodeStuck(j)
    BY <1>7, <2>2 DEF CodeInvalidate, CodeStuck
  <2>3. CASE CodeFind(j)
    BY <1>7, <2>3 DEF CodeFind
  <2> QED BY <1>7, <2>1, <2>2, <2>3 DEF CodeStep, CodeCooldown, CodeCeiling, CodeReplace,
          CodeInsert, CodeMail, CodeMiss
<1>8. CASE ResetStep(j)
  BY <1>8 DEF ResetStep, EmailCommit, ResetUser, ResetToken, ResetRead, ResetCommit
<1>9. CASE PinStep(j)
  BY <1>9 DEF PinStep, PinRead, PinUnlock, PinWrong, PinReset, SetupRead, PinSave, Judged
<1>10. CASE Send(j)
  BY <1>10 DEF Send
<1> QED BY <1>1, <1>2, <1>3, <1>4, <1>5, <1>6, <1>7, <1>8, <1>9, <1>10
        DEF Works, SessionStep, CredentialStep

\* The dead stay dead.
LEMMA DeadStays ==
  ASSUME Wellformed, [Next]_vars, NEW t, Dead(t)
  PROVE  Dead(t)'
<1>1. t \in Issued /\ Issued \subseteq Issued'
  BY IssuedThen DEF Dead
<1>2. ASSUME NEW d \in Devices, sessions'[d] = [active |-> TRUE, token |-> t]
      PROVE  FALSE
  <2>1. sessions'[d].active = TRUE /\ sessions'[d].token = t
    BY <1>2
  <2>2. CASE sessions'[d] = sessions[d]
    BY <1>2, <2>2 DEF Dead, Active
  <2>3. CASE sessions'[d] = [active |-> FALSE, token |-> sessions[d].token]
    <3>1. sessions'[d].active = FALSE
      BY <2>3
    <3> QED BY <2>1, <3>1
  <2>4. ASSUME NEW j \in Jobs, Installs(j), sessions'[d] = [active |-> TRUE, token |-> j]
        PROVE  FALSE
    <3>1. sessions'[d].token = j
      BY <2>4
    <3> QED BY <1>1, <2>1, <2>4, <3>1, Installed
  <2> QED BY <2>2, <2>3, <2>4, SessionsThen
<1> QED BY <1>1, <1>2 DEF Dead, Active

\* A token that is not that of an active session of its device is dead.
LEMMA Dies ==
  ASSUME Wellformed, HomesInv, [Next]_vars, NEW t \in Issued, NEW d \in Devices, Home(t) = d,
         sessions'[d].active = FALSE
  PROVE  Dead(t)'
<1>1. t \in Issued' /\ Home(t)' = d /\ HomesInv' /\ t # NoToken
  <2>1. t # NoToken
    BY WorkloadAssumption, TokenAssumption DEF Issued, Wellformed, SessionsTyped, Tokens
  <2> QED BY <2>1, IssuedThen, HomesStep
<1>2. ASSUME NEW e \in Devices, sessions'[e] = [active |-> TRUE, token |-> t]
      PROVE  FALSE
  <2>1. sessions'[e].active = TRUE /\ sessions'[e].token = t
    BY <1>2
  <2>2. Home(t)' = e
    BY <1>1, <2>1 DEF HomesInv, OfDevice
  <2> QED BY <1>1, <2>1, <2>2
<1> QED BY <1>1, <1>2 DEF Dead, Active

\* Where what has been found is dead.
Gathered == {"endPurge", "endBlacklist", "revokeBlacklist", "revokePurge",
             "revokeSpare", "rehydrateBlacklist"}

\* What a revocation has found is dead once the sessions are marked:
\* inductive.
LEMMA FoundStep ==
  ASSUME Wellformed, HomesInv, FoundInv, [Next]_vars
  PROVE  FoundInv'
<1>0. /\ SessionsTyped /\ Issued \subseteq Issued' /\ \A t : Home(t)' = Home(t)
      /\ \A j : Target(j)' = Target(j) /\ Spared(j)' = Spared(j)
      /\ \A j \in Jobs : Target(j) \in Devices
      /\ \A t \in Issued : Home(t) \in Devices
  BY IssuedThen, Given, JobType, WorkloadAssumption
     DEF Wellformed, SessionsTyped, Target, Spared, Kind, Dev, Job, JobFacts, Issued, Home
<1>1. ASSUME NEW j \in Jobs, pc'[j] \in {"endMark", "revokeMark"}, NEW t \in mem'[j].found
      PROVE  t \in Issued' /\ (Dead(t)' \/ Marking(j, Home(t))')
  <2>1. CASE Works(j) /\ pc'[j] = "endMark"
    <3>1. RevokedFind(j)
      BY <2>1, Finds DEF Finding
    <3>2. /\ sessions[Target(j)].active /\ t = sessions[Target(j)].token
      BY <1>0, <1>1, <3>1 DEF RevokedFind, SessionsTyped, Mem
    <3>3. t \in Issued /\ Home(t) = Target(j)
      BY <1>0, <3>2 DEF HomesInv, OfDevice, SessionsTyped
    <3> QED BY <1>0, <2>1, <3>3 DEF Marking, At
  <2>2. CASE Works(j) /\ pc'[j] = "revokeMark"
    <3>1. RevokeFind(j)
      BY <2>2, Finds DEF Finding
    <3>2. mem'[j].found = {sessions[d].token : d \in Found(j)}
      BY <1>0, <3>1 DEF RevokeFind, SessionsTyped, Mem
    <3>3. PICK d \in Devices \ Spared(j) : sessions[d].active /\ t = sessions[d].token
      BY <1>1, <3>2 DEF Found
    <3>4. t \in Issued /\ Home(t) = d
      BY <1>0, <3>3 DEF HomesInv, OfDevice, SessionsTyped
    <3> QED BY <1>0, <2>2, <3>3, <3>4 DEF Marking, At
  <2>3. CASE ~Works(j)
    <3>1. pc'[j] = pc[j] /\ mem'[j] = mem[j]
      BY <1>1, <2>3, Waiting
    <3>2. t \in Issued /\ (Dead(t) \/ Marking(j, Home(t)))
      BY <1>1, <3>1 DEF FoundInv
    <3>3. Marking(j, Home(t)) => Marking(j, Home(t))'
      BY <1>0, <3>1 DEF Marking, At
    <3> QED BY <1>0, <3>2, <3>3, DeadStays
  <2> QED BY <1>1, <2>1, <2>2, <2>3
<1>2. ASSUME NEW j \in Jobs, pc'[j] \in Gathered, NEW t \in mem'[j].found
      PROVE  Dead(t)'
  <2>1. CASE EndMark(j)
    <3>1. /\ pc[j] = "endMark" /\ mem' = mem
          /\ sessions' = [sessions EXCEPT ![Target(j)].active = FALSE]
      BY <2>1 DEF EndMark, At
    <3>2. t \in Issued /\ (Dead(t) \/ Marking(j, Home(t)))
      BY <1>2, <3>1 DEF FoundInv
    <3>3. Marking(j, Home(t)) => Home(t) = Target(j)
      BY <3>1 DEF Marking, At
    <3>4. sessions'[Target(j)].active = FALSE
      BY <1>0, <3>1 DEF SessionsTyped, Session
    <3> QED BY <1>0, <3>2, <3>3, <3>4, DeadStays, Dies
  <2>2. CASE RevokeMark(j)
    <3>1. /\ pc[j] = "revokeMark" /\ mem' = mem
          /\ \A d \in Devices : sessions'[d] = [sessions[d] EXCEPT !.active = @ /\ d \in Spared(j)]
      BY <2>2 DEF RevokeMark, At
    <3>2. t \in Issued /\ (Dead(t) \/ Marking(j, Home(t)))
      BY <1>2, <3>1 DEF FoundInv
    <3>3. Marking(j, Home(t)) => Home(t) \notin Spared(j)
      BY <3>1 DEF Marking, At
    <3>4. \A d \in Devices \ Spared(j) : sessions'[d].active = FALSE
      BY <1>0, <3>1 DEF SessionsTyped, Session
    <3> QED BY <1>0, <3>2, <3>3, <3>4, DeadStays, Dies
  <2>3. CASE RehydrateFind(j)
    <3>1. mem'[j].found = {sessions[d].token : d \in {e \in Devices : ~sessions[e].active}}
                             \ {NoToken}
      BY <1>0, <2>3 DEF RehydrateFind, SessionsTyped, Mem
    <3>2. PICK d \in Devices : ~sessions[d].active /\ t = sessions[d].token /\ t # NoToken
      BY <1>2, <3>1
    <3>3. t \in Issued /\ Home(t) = d
      BY <3>2 DEF HomesInv, OfDevice
    <3>4. sessions'[d].active = FALSE
      BY <1>0, <2>3, <3>2 DEF RehydrateFind, SessionsTyped, Session, db
    <3> QED BY <3>3, <3>4, Dies
  <2>4. CASE EndPurge(j) \/ RevokeBlacklist(j) \/ RevokePurge(j)
    <3>1. pc[j] \in Gathered /\ mem' = mem
      BY <2>4 DEF EndPurge, RevokeBlacklist, RevokePurge, At, Gathered
    <3> QED BY <1>2, <3>1, DeadStays DEF FoundInv, Gathered
  <2>5. CASE ~Works(j)
    <3>1. pc'[j] = pc[j] /\ mem'[j] = mem[j]
      BY <1>2, <2>5, Waiting DEF Gathered
    <3> QED BY <1>2, <3>1, DeadStays DEF FoundInv, Gathered
  <2> QED BY <1>2, <2>1, <2>2, <2>3, <2>4, <2>5, Finds DEF Finding, Gathered
<1> QED BY <1>1, <1>2 DEF FoundInv, Gathered

\* What a step adds to the blacklist, and to what is recorded as gone.
LEMMA BlackGrows ==
  ASSUME Wellformed, [Next]_vars
  PROVE  /\ redis.black \subseteq redis'.black /\ log.gone \subseteq log'.gone
         /\ \A t \in redis'.black : t \in redis.black \/
               \E j \in Jobs : pc[j] \in Gathered /\ t \in mem[j].found
         /\ \A t \in log'.gone : t \in log.gone \/
               \E j \in Jobs : pc[j] \in Gathered /\ t \in mem[j].found
<1>0. SessionsTyped /\ CredentialsTyped
  BY DEF Wellformed
<1>1. CASE Quiet
  BY <1>1 DEF Quiet
<1>2. ASSUME NEW j \in Jobs, Works(j)
      PROVE  /\ redis'.black = redis.black
                \/ (redis'.black = redis.black \cup mem[j].found /\ pc[j] \in Gathered)
             /\ log'.gone = log.gone
                \/ (log'.gone = log.gone \cup mem[j].found /\ pc[j] \in Gathered)
  <2>1. redis'.black = redis.black
        \/ (redis'.black = redis.black \cup mem[j].found /\ pc[j] \in Gathered)
    BY <1>0, <1>2, BlackFrame DEF EndBlacklist, RevokeBlacklist, RehydrateBlacklist, Blacklisted,
       Redis, SessionsTyped, Keys, At, Gathered
  <2>2. log'.gone = log.gone
        \/ (log'.gone = log.gone \cup mem[j].found /\ pc[j] \in Gathered)
    BY <1>0, <1>2, LogFrame DEF EndBlacklist, RevokeSpare, SessionsTyped, Log, At, Gathered
  <2> QED BY <2>1, <2>2
<1> QED BY <1>1, <1>2, Quietly

\* What is blacklisted is dead: inductive.
LEMMA DeadStep ==
  ASSUME Wellformed, FoundInv, DeadInv, [Next]_vars
  PROVE  DeadInv'
<1>1. \A j \in Jobs : pc[j] \in Gathered => \A t \in mem[j].found : Dead(t)
  BY DEF FoundInv, Gathered
<1>2. \A t \in redis'.black \cup log'.gone : Dead(t)
  BY <1>1, BlackGrows DEF DeadInv
<1> QED BY <1>2, DeadStays DEF DeadInv

\* What is newly told is told by one who blacklists it.
LEMMA ToldThen ==
  ASSUME Wellformed, [Next]_vars, NEW t, Told(t)', ~Told(t)
  PROVE  \E j \in Jobs : /\ EndBlacklist(j) \/ RevokeBlacklist(j)
                         /\ Works(j) /\ t \in mem[j].found
<1>0. SessionsTyped /\ CredentialsTyped
  BY DEF Wellformed
<1>1. CASE t \in log'.gone
  <2>1. t \notin log.gone
    BY DEF Told
  <2>2. PICK j \in Jobs : Works(j)
    BY <1>1, <2>1, Quietly DEF Quiet
  <2>3. EndBlacklist(j) \/ RevokeSpare(j)
    BY <1>0, <1>1, <2>1, <2>2, LogFrame
  <2>4. t \in mem[j].found
    BY <1>0, <1>1, <2>1, <2>3 DEF EndBlacklist, RevokeSpare, SessionsTyped, Log
  <2>5. ~RevokeSpare(j)
    BY <2>4 DEF Told, Tells, RevokeSpare, At
  <2> QED BY <2>2, <2>3, <2>4, <2>5
<1>2. ASSUME NEW j \in Jobs, pc'[j] \in {"revokePurge", "revokeSpare"}, t \in mem'[j].found
      PROVE  RevokeBlacklist(j) /\ Works(j) /\ t \in mem[j].found
  <2>1. Works(j)
    BY <1>2, Waiting DEF Told, Tells
  <2>2. RevokeBlacklist(j) \/ RevokePurge(j)
    BY <1>2, <2>1, Finds DEF Finding
  <2>3. mem' = mem
    BY <2>2 DEF RevokeBlacklist, RevokePurge
  <2>4. ~RevokePurge(j)
    BY <1>2, <2>3 DEF RevokePurge, At, Told, Tells
  <2> QED BY <1>2, <2>1, <2>2, <2>3, <2>4
<1> QED BY <1>1, <1>2 DEF Told, Tells

\* Who tells a Redis that is there is heard.
LEMMA Heard ==
  ASSUME Wellformed, NEW j \in Jobs, redis.up,
         EndBlacklist(j) \/ RevokeBlacklist(j) \/ RehydrateBlacklist(j)
  PROVE  redis.black \cup mem[j].found \subseteq redis'.black
BY DEF EndBlacklist, RevokeBlacklist, RehydrateBlacklist, Blacklisted, Redis, Wellformed,
   SessionsTyped, Keys

\* Before the outage, what Redis was told is on the blacklist: inductive.
LEMMA ToldStep ==
  ASSUME Wellformed, OutageInv, ToldInv, [Next]_vars
  PROVE  ToldInv'
<1>0. SessionsTyped /\ CredentialsTyped
  BY DEF Wellformed
<1>1. redis'.outages = 0 => redis.outages = 0 /\ redis.up
  <2>1. redis'.outages = 0 => redis.outages = 0
    BY OutagesGrow
  <2> QED BY <2>1 DEF OutageInv
<1> SUFFICES ASSUME redis'.outages = 0, NEW t \in Tokens, Told(t)'
             PROVE  t \in redis'.black
  BY DEF ToldInv
<1>2. CASE Told(t)
  BY <1>1, <1>2, BlackGrows DEF ToldInv
<1>3. CASE ~Told(t)
  BY <1>1, <1>3, ToldThen, Heard
<1> QED BY <1>2, <1>3

\* After it, what is told and still in its document is rebuilt: inductive.
LEMMA RebuiltStep ==
  ASSUME Wellformed, OutageInv, FoundInv, DeadInv, RebuiltInv, [Next]_vars
  PROVE  RebuiltInv'
<1>0. /\ SessionsTyped /\ CredentialsTyped /\ OutageInv' /\ \A r : Kind(r)' = Kind(r)
      /\ redis.black \subseteq redis'.black
  BY Given, OutageStep, BlackGrows DEF Wellformed, Kind, Job
<1> SUFFICES ASSUME NEW r \in Jobs, NEW d \in Devices, Kind(r) = "rehydrate",
                    ~sessions'[d].active, NEW t, t = sessions'[d].token, Told(t)',
                    pc'[r] \in {"rehydrateBlacklist", "rehydratePurge", "ok"}, Whole(r)'
             PROVE  \/ t \in redis'.black
                    \/ pc'[r] = "rehydrateBlacklist" /\ t \in mem'[r].found
  BY <1>0 DEF RebuiltInv
<1>u. redis'.up
  BY <1>0 DEF OutageInv, Rehydrating
<1>1. CASE ~Told(t)
  <2>1. PICK j \in Jobs : /\ EndBlacklist(j) \/ RevokeBlacklist(j)
                          /\ Works(j) /\ t \in mem[j].found
    BY <1>1, ToldThen
  <2>2. redis.up
    BY <1>0, <1>u, <2>1, OutageFrame
  <2> QED BY <2>1, <2>2, Heard
<1>2. CASE Told(t)
  <2>1. Dead(t) /\ t \in Tokens
    <3>1. Dead(t)
      BY <1>2 DEF Told, Tells, FoundInv, DeadInv
    <3> QED BY <1>0, <1>2, <3>1 DEF Told, SessionsTyped, Log, Mem
  <2>2. sessions[d].token = t /\ sessions[d].active = FALSE
    <3>1. CASE sessions'[d] = sessions[d]
      BY <1>0, <3>1 DEF SessionsTyped, Session
    <3>2. CASE sessions'[d] = [active |-> FALSE, token |-> sessions[d].token]
      <4>1. sessions[d].token = t
        BY <3>2
      <4>2. sessions[d].active => sessions[d] = [active |-> TRUE, token |-> t]
        BY <1>0, <4>1 DEF SessionsTyped, Session
      <4>3. sessions[d].active \in BOOLEAN
        BY <1>0 DEF SessionsTyped, Session
      <4> QED BY <2>1, <4>1, <4>2, <4>3 DEF Dead, Active
    <3>3. ASSUME NEW j \in Jobs, sessions'[d] = [active |-> TRUE, token |-> j] PROVE FALSE
      <4>1. sessions'[d].active = TRUE
        BY <3>3
      <4> QED BY <4>1
    <3> QED BY <3>1, <3>2, <3>3, SessionsThen
  <2>3. CASE ~Works(r)
    <3>1. pc[r] = pc'[r] /\ mem'[r] = mem[r]
      BY <1>0, <2>3, Waiting
    <3>2. Whole(r)
      BY <3>1, WholeThen DEF Rehydrating
    <3> QED BY <1>0, <1>2, <2>2, <3>1, <3>2 DEF RebuiltInv
  <2>4. CASE RehydrateFind(r)
    <3>1. /\ pc'[r] = "rehydrateBlacklist"
          /\ mem'[r].found = {sessions[e].token : e \in {e \in Devices : ~sessions[e].active}}
                                \ {NoToken}
      BY <1>0, <2>4 DEF RehydrateFind, Goto, SessionsTyped, Mem
    <3> QED BY <2>1, <2>2, <3>1, TokenAssumption
  <2>5. CASE RehydrateBlacklist(r)
    <3>0. pc[r] = "rehydrateBlacklist" /\ mem' = mem
      BY <2>5 DEF RehydrateBlacklist, At
    <3>2. Whole(r) /\ redis.up
      BY <3>0, WholeThen DEF Rehydrating
    <3>1. pc[r] = "rehydrateBlacklist" /\ t \in redis.black \cup mem[r].found
      BY <1>2, <2>2, <3>0, <3>2 DEF RebuiltInv
    <3> QED BY <2>5, <3>1, <3>2, Heard
  <2>6. CASE RehydratePurge(r)
    <3>1. pc[r] = "rehydratePurge" /\ mem' = mem
      BY <2>6 DEF RehydratePurge, At
    <3>2. Whole(r)
      BY <3>1, WholeThen DEF Rehydrating
    <3> QED BY <1>0, <1>2, <2>2, <3>1, <3>2 DEF RebuiltInv
  <2> QED BY <2>3, <2>4, <2>5, <2>6, RehydratesOnly DEF RehydrateStep
<1> QED BY <1>1, <1>2

\* What requireAuth does not admit it answers, and what it has admitted it
\* does not ask again.
Passing(j) ==
    /\ pc[j] = "cache" => AuthCache(j)
    /\ pc[j] = "lookup" => AuthLookup(j)
    /\ (Kind(j) \in WithAccess /\ pc[j] \notin AuthSteps \cup {"start"}) =>
           pc'[j] \notin AuthSteps \cup {"401"}

\* Every step of every service passes so.
LEMMA Passes ==
  ASSUME Wellformed, NEW j \in Jobs, Works(j)
  PROVE  Passing(j)
<1>0. SessionsTyped /\ Fits(pc[j], Kind(j))
  BY DEF Wellformed, Located
<1> USE <1>0 DEF SessionsTyped, Goto, At, Passing, AuthSteps, WithAccess
<1>1. CASE RefreshStep(j)
  <2>1. Kind(j) = "logout" \/ Kind(j) \notin WithAccess
    BY <1>1 DEF RefreshStep, VerifyCached, VerifyMongo, VerifyStore, RefreshSession,
     RefreshMarker, RefreshUser, RefreshMark, Issue, Rotate, RefreshPublish, RefreshRetire,
     Respond, Fits, WithCookie
  <2> QED BY <1>1, <2>1 DEF RefreshStep, VerifyCached, VerifyMongo, VerifyStore, RefreshSession,
     RefreshMarker, RefreshUser, RefreshMark, Issue, Rotate, RefreshPublish, RefreshRetire,
     Respond, Fits, WithCookie
<1>2. CASE LoginStep(j)
  BY <1>2 DEF LoginStep, LoginRead, WrongPassword, LoginReset, CreateSession, LoginRespond,
     LoginSeed
<1>3. CASE AuthStep(j)
  BY <1>3 DEF AuthStep, AuthCache, AuthConfirm, AuthSetConfirm, AuthLookup, AuthRepair, Admitted,
     Fits
<1>4. CASE RevokeStep(j)
  <2>1. CASE RevokeSpare(j)
    BY <2>1 DEF RevokeSpare, Fits, RevokeSteps
  <2>2. CASE RevokedFind(j)
    BY <2>2 DEF RevokedFind
  <2> QED BY <1>4, <2>1, <2>2 DEF RevokeStep, EndMark, EndPurge, EndBlacklist, ClearCookie,
          RevokeFind, RevokeMark, RevokeBlacklist, RevokePurge
<1>5. CASE ChangeStep(j)
  BY <1>5 DEF ChangeStep, ChangeRead, ChangeCommit, Forget
<1>6. CASE RehydrateStep(j)
  BY <1>6 DEF RehydrateStep, RehydrateFind, RehydrateBlacklist, RehydratePurge
<1>7. CASE CodeStep(j)
  <2>1. CASE CodeConsume(j)
    BY <1>7, <2>1 DEF CodeConsume, Fits, WithCode
  <2>2. CASE CodeInvalidate(j) \/ CodeStuck(j)
    BY <1>7, <2>2 DEF CodeInvalidate, CodeStuck
  <2>3. CASE CodeFind(j)
    BY <1>7, <2>3 DEF CodeFind
  <2> QED BY <1>7, <2>1, <2>2, <2>3 DEF CodeStep, CodeCooldown, CodeCeiling, CodeReplace,
          CodeInsert, CodeMail, CodeMiss
<1>8. CASE ResetStep(j)
  BY <1>8 DEF ResetStep, EmailCommit, ResetUser, ResetToken, ResetRead, ResetCommit
<1>9. CASE PinStep(j)
  BY <1>9 DEF PinStep, PinRead, PinUnlock, PinWrong, PinReset, SetupRead, PinSave, Judged
<1>10. CASE Send(j)
  BY <1>10 DEF Send
<1> QED BY <1>1, <1>2, <1>3, <1>4, <1>5, <1>6, <1>7, <1>8, <1>9, <1>10
        DEF Works, SessionStep, CredentialStep

\* A token the blacklist should know of is on it.
LEMMA DueIsBlack ==
  ASSUME Wellformed, ToldInv, RebuiltInv, NEW t, BlacklistDue(t)
  PROVE  t \in redis.black
<1>1. Told(t) /\ t \in Tokens
  BY DEF BlacklistDue, Told, Wellformed, SessionsTyped, Log
<1>2. CASE redis.outages = 0
  BY <1>1, <1>2 DEF ToldInv
<1>3. CASE redis.outages # 0
  <2>1. PICK d \in Devices : sessions[d] = [active |-> FALSE, token |-> t]
    BY <1>3 DEF BlacklistDue
  <2>2. PICK r \in Jobs : Kind(r) = "rehydrate" /\ pc[r] = "ok" /\ Whole(r)
    BY <1>3 DEF BlacklistDue, Rehydrated, At
  <2>3. ~sessions[d].active /\ sessions[d].token = t
    BY <2>1
  <2> QED BY <1>1, <2>2, <2>3 DEF RebuiltInv
<1> QED BY <1>2, <1>3

\* Who was sent with a blacklisted token carries it, and is turned away:
\* inductive.
LEMMA LateStep ==
  ASSUME Wellformed, DeadInv, ToldInv, RebuiltInv, LateInv, [Next]_vars
  PROVE  LateInv'
<1>0. /\ SessionsTyped /\ CredentialsTyped /\ redis.black \subseteq redis'.black
      /\ \A j : Kind(j)' = Kind(j)
      /\ redis.black \subseteq Tokens /\ NoToken \notin Tokens
  BY BlackGrows, Given, TokenAssumption DEF Wellformed, SessionsTyped, Keys, Kind, Job
<1>1. ASSUME NEW j \in log.late
      PROVE  /\ carried'[j] \in redis'.black /\ pc'[j] \notin {"later", "start"}
             /\ Kind(j) \in WithAccess => pc'[j] \in {"cache", "lookup", "401"}
  <2>1. /\ j \in Jobs /\ pc[j] \notin {"later", "start"} /\ carried[j] \in redis.black
        /\ Kind(j) \in WithAccess => pc[j] \in {"cache", "lookup", "401"}
    BY <1>0, <1>1 DEF LateInv, SessionsTyped, Log
  <2>2. carried'[j] = carried[j] /\ pc'[j] \notin {"later", "start"}
    BY <2>1, Sending, Waiting, Entering DEF Send, At, Entered
  <2>3. ASSUME Kind(j) \in WithAccess PROVE pc'[j] \in {"cache", "lookup", "401"}
    <3>1. CASE ~Works(j)
      BY <2>1, <2>2, <2>3, <3>1, Waiting DEF WithAccess
    <3>2. CASE AuthCache(j)
      BY <1>0, <2>1, <3>2 DEF AuthCache, Goto, SessionsTyped
    <3>3. CASE AuthLookup(j)
      <4>1. ~Active(carried[j])
        BY <2>1 DEF DeadInv, Dead
      <4>2. Goto(j, "401")
        BY <3>3, <4>1 DEF AuthLookup
      <4> QED BY <1>0, <2>1, <4>2 DEF Goto, SessionsTyped
    <3> QED BY <2>1, <2>3, <3>1, <3>2, <3>3, Passes, Entering DEF Passing, Entered, Replies
  <2> QED BY <1>0, <2>1, <2>2, <2>3
<1>2. ASSUME NEW j \in Jobs, Send(j), j \in log'.late, j \notin log.late
      PROVE  /\ carried'[j] \in redis'.black /\ pc'[j] \notin {"later", "start"}
             /\ Kind(j) \in WithAccess => pc'[j] \in {"cache", "lookup", "401"}
  <2> DEFINE t == IF Kind(j) \in WithCookie THEN cookie[Dev(j)] ELSE access[Job(j).tab]
  <2>1. BlacklistDue(t) /\ carried'[j] = t
    BY <1>0, <1>2 DEF Send, SessionsTyped, Log
  <2>2. t \in redis.black /\ t # NoToken
    BY <1>0, <2>1, DueIsBlack
  <2>3. pc'[j] = (IF Kind(j) \in WithCookie THEN "verify" ELSE "cache")
    BY <1>0, <1>2, <2>2 DEF Send, Goto, SessionsTyped
  <2> QED BY <1>0, <2>1, <2>2, <2>3 DEF WithCookie, WithAccess
<1>3. \A j \in log'.late : j \in log.late \/ (j \in Jobs /\ Send(j))
  <2>1. ASSUME NEW j \in Jobs, Works(j)
        PROVE  log'.late = log.late \/ (Send(j) /\ log'.late \subseteq log.late \cup {j})
    <3>1. CASE Send(j)
      BY <1>0, <3>1 DEF Send, SessionsTyped, Log
    <3> QED BY <1>0, <2>1, <3>1, LogFrame
  <2> QED BY <2>1, Quietly DEF Quiet
<1> QED BY <1>0, <1>1, <1>2, <1>3 DEF LateInv

\* Who is let in is past requireAuth: inductive.
LEMMA AdmittedStep ==
  ASSUME Wellformed, AdmittedInv, [Next]_vars
  PROVE  AdmittedInv'
<1>0. /\ SessionsTyped /\ CredentialsTyped /\ \A j : Kind(j)' = Kind(j)
  BY Given DEF Wellformed, Kind, Job
<1>1. ASSUME NEW j \in log.admitted
      PROVE  Kind(j) \in WithAccess /\ pc'[j] \notin AuthSteps \cup {"later", "start", "401"}
  <2>1. /\ j \in Jobs /\ Kind(j) \in WithAccess
        /\ pc[j] \notin AuthSteps \cup {"later", "start", "401"}
    BY <1>0, <1>1 DEF AdmittedInv, SessionsTyped, Log
  <2>2. CASE Works(j)
    BY <2>1, <2>2, Passes, Entering DEF Passing, Entered
  <2>3. CASE ~Works(j)
    BY <2>1, <2>3, Waiting DEF WithAccess
  <2> QED BY <2>1, <2>2, <2>3
<1>2. ASSUME NEW j \in Jobs,
             AuthCache(j) \/ AuthSetConfirm(j) \/ AuthLookup(j) \/ AuthRepair(j)
      PROVE  \/ log'.admitted = log.admitted
             \/ /\ log'.admitted = log.admitted \cup {j} /\ Kind(j) \in WithAccess
                /\ pc'[j] \notin AuthSteps \cup {"later", "start", "401"}
  <2>1. Kind(j) \in WithAccess
    BY <1>2 DEF AuthCache, AuthSetConfirm, AuthLookup, AuthRepair, At, Wellformed, Located, Fits,
       AuthSteps
  <2>2. Admitted(j) \notin AuthSteps \cup {"later", "start", "401"}
    BY <2>1 DEF Admitted, WithAccess, AuthSteps
  <2>3. \/ log'.admitted = log.admitted
        \/ log'.admitted = log.admitted \cup {j} /\ pc'[j] = Admitted(j)
    BY <1>0, <1>2 DEF AuthCache, AuthSetConfirm, AuthLookup, AuthRepair, Admit, Goto,
       SessionsTyped, Log
  <2> QED BY <2>1, <2>2, <2>3
<1>3. \/ log'.admitted = log.admitted
      \/ \E j \in Jobs : AuthCache(j) \/ AuthSetConfirm(j) \/ AuthLookup(j) \/ AuthRepair(j)
  <2>1. ASSUME NEW j \in Jobs, Works(j)
        PROVE  log'.admitted = log.admitted \/ AuthCache(j) \/ AuthSetConfirm(j)
               \/ AuthLookup(j) \/ AuthRepair(j)
    BY <1>0, <2>1, LogFrame
  <2> QED BY <2>1, Quietly DEF Quiet
<1> QED BY <1>0, <1>1, <1>2, <1>3 DEF AdmittedInv

\* The invariant of revocations is inductive.
LEMMA RevokedStep ==
  ASSUME Wellformed, OutageInv, TokensInv, RevokedInv, [Next]_vars
  PROVE  RevokedInv'
<1>1. HomesInv
  BY DEF TokensInv
<1>2. FoundInv' /\ DeadInv' /\ ToldInv' /\ RebuiltInv' /\ LateInv' /\ AdmittedInv'
  BY <1>1, FoundStep, DeadStep, ToldStep, RebuiltStep, LateStep, AdmittedStep DEF RevokedInv
<1>3. RevokedRefused'
  BY <1>2, WellformedStep DEF RevokedRefused, LateInv, AdmittedInv, AuthSteps
<1>4. BlacklistedIsDead'
  BY <1>2 DEF BlacklistedIsDead, DeadInv, Dead
<1> QED BY <1>2, <1>3, <1>4 DEF RevokedInv, RevocationsHold

\* It holds at the start.
LEMMA RevokedInit ==
  ASSUME Init
  PROVE  RevokedInv
<1>1. /\ \A j \in Jobs : pc[j] \in {"later", "start"}
      /\ log.gone = {} /\ log.late = {} /\ log.admitted = {} /\ redis.black = {}
  BY DEF Init, SessionsInit
<1> QED BY <1>1 DEF RevokedInv, FoundInv, DeadInv, ToldInv, RebuiltInv, LateInv, AdmittedInv,
        RevocationsHold, RevokedRefused, BlacklistedIsDead, Told, Tells

\* A request sent once a revocation had told every copy of the token it found
\* is not let in, and after an outage not once the blacklist is rebuilt, unless
\* a login has replaced the document it is rebuilt from; and no token of a
\* session that is in use is blacklisted (requireAuth's fast path,
\* revokeSessionFull, revokeAllSessionsFull, rehydrate...).
THEOREM RevocationsDoHold == Spec => [](RevocationsHold /\ RevokedInv)
<1>1. Wellformed /\ OutageInv /\ [Next]_vars => OutageInv'
  BY OutageStep
<1>2. Wellformed /\ TokensInv /\ [Next]_vars => TokensInv'
  BY TokensStep
<1>3. Wellformed /\ OutageInv /\ TokensInv /\ RevokedInv /\ [Next]_vars => RevokedInv'
  BY RevokedStep
<1>4. Init => OutageInv /\ TokensInv /\ RevokedInv
  <2> SUFFICES ASSUME Init PROVE OutageInv
    BY TokensInit, RevokedInit
  <2>1. redis.up /\ redis.ready /\ \A j \in Jobs : pc[j] \in {"later", "start"}
    BY DEF Init, SessionsInit
  <2> QED BY <2>1 DEF OutageInv, Rehydrating
<1>5. RevokedInv => RevocationsHold
  BY DEF RevokedInv
<1> QED BY <1>1, <1>2, <1>3, <1>4, <1>5, AccessIsWellformed, PTL DEF Spec

=============================================================================
