--------------------------- MODULE AccessInvariant ---------------------------
(***************************************************************************)
(* The inductive invariant of Access, part by part: what each property of  *)
(* the sessions, the credentials and the tabs rests on.                    *)
(***************************************************************************)
EXTENDS Access

-----------------------------------------------------------------------------
(* What is where.                                                          *)

Mem == [version : Nat, failed : Nat, found : SUBSET Tokens, up : BOOLEAN,
        outages : Nat]
Keys == [up : BOOLEAN, ready : BOOLEAN, outages : Nat, payloads : SUBSET Tokens,
         latest : [Devices -> Token], jti : [Devices -> Token],
         devices : SUBSET Devices, pwdver : {NoVersion} \cup Nat,
         confirmed : SUBSET Tokens, black : SUBSET Tokens,
         rotated : SUBSET Tokens, retiring : SUBSET Tokens]
Log == [exchanged : SUBSET (Tokens \X Jobs), reuse : SUBSET Jobs,
        unmarked : SUBSET Tokens, gone : SUBSET Tokens, replaced : SUBSET Token,
        late : SUBSET Jobs, admitted : SUBSET Jobs, blind : SUBSET Jobs]
Acts == [used : SUBSET (Token \X Jobs), overlap : SUBSET (SUBSET Jobs),
         dropped : SUBSET (Jobs \X Jobs), stuck : SUBSET Jobs, spent : SUBSET (Jobs \X Jobs),
         outdated : SUBSET Jobs, wrong : Nat, lost : BOOLEAN]
Session == [active : BOOLEAN, token : Token]
Code == [state : CodeStates, tries : 0..MaxAttempts]

SessionsTyped ==
    /\ workload \in Workloads
    /\ pc = [j \in Jobs |-> pc[j]]
    /\ carried \in [Jobs -> Token]
    /\ mem \in [Jobs -> Mem]
    /\ minted \in [Tokens -> Nat]
    /\ user \in Lock /\ dirty \subseteq Jobs
    /\ sessions \in [Devices -> Session]
    /\ \A d \in Devices : sessions[d].active => sessions[d].token # NoToken
    /\ redis \in Keys
    /\ cookie \in [Devices -> Token] /\ access \in [Tabs -> Token]
    /\ log \in Log
CredentialsTyped ==
    /\ codes \in [Jobs -> Code]
    /\ recent \subseteq Jobs /\ mailed \subseteq Jobs
    /\ resets \in [Jobs -> {"none", "live", "spent"}]
    /\ pin \in Lock /\ stale \subseteq Jobs
    /\ acts \in Acts
BrowserTyped ==
    /\ call \in [Jobs -> CallStates]
    /\ waits \in [Jobs -> Jobs \cup {NoToken}]
    /\ promise \in [Tabs -> Jobs \cup {NoToken}]

\* The requests that may be at a step.
AuthSteps == {"cache", "confirm", "setConfirm", "lookup", "repair"}
RevokeSteps == {"revokeFind", "revokeMark", "revokeBlacklist", "revokePurge",
                "revokeSpare"}
Rehydrates == {"rehydrate", "rehydrateBlacklist", "rehydratePurge"}
Fits(l, k) ==
    /\ l \in {"verify", "verifyMongo", "verifyStore"} => k \in WithCookie
    /\ l \in {"session", "marker", "user", "mark", "rotate", "publish", "retire"} =>
           k = "refresh"
    /\ l = "issue" => k \in {"refresh", "login", "verifyEmail"}
    /\ l = "createSession" => k \in {"login", "verifyEmail"}
    /\ l = "respond" => k \in {"refresh", "verifyEmail"}
    /\ l \in {"seed", "seeding"} => k = "login"
    /\ l \in {"loginWrong", "loginReset"} => k \in {"login", "changePassword"}
    /\ l \in AuthSteps => k \in WithAccess
    /\ l = "logoutFind" => k = "logout"
    /\ l = "killFind" => k = "kill"
    /\ l \in {"endMark", "endPurge", "endBlacklist"} => k \in {"logout", "kill"}
    /\ l = "clearCookie" => k \in {"logout", "logoutAll"}
    /\ l \in RevokeSteps =>
           k \in {"refresh", "logoutAll", "killOthers", "changePassword", "resetPassword"}
    /\ l \in {"changeRead", "changeCommit"} => k = "changePassword"
    /\ l = "forget" => k \in {"changePassword", "resetPassword"}
    /\ l \in Rehydrates => k = "rehydrate"
    /\ l \in {"codeCeiling", "codeReplace", "codeInsert", "codeMail"} => k = "createCode"
    /\ l = "codeFind" => k = "changePin"
    /\ l \in {"codeMiss", "codeConsume"} => k \in WithCode \cup {"changePin"}
    /\ l = "invalidate" => k \in {"createCode", "resetPassword", "changePin", "resetPin"}
    /\ l = "emailCommit" => k = "verifyEmail"
    /\ l \in {"resetUser", "resetToken"} => k = "confirmReset"
    /\ l = "resetCommit" => k = "resetPassword"
    /\ l = "pinWrong" => k \in {"pin", "changePin"}
    /\ l \in {"pinUnlock", "pinReset"} => k = "pin"
    /\ l = "pinSave" => k \in {"setupPin", "changePin", "resetPin"}
Located == \A j \in Jobs : Fits(pc[j], Kind(j))

\* Past Send a request carries a token.
Carries ==
    \A j \in Jobs :
        (\/ pc[j] \in {"verify", "verifyMongo", "verifyStore"} \cup AuthSteps
         \/ Kind(j) = "refresh" /\ pc[j] \notin {"later", "start", "400"})
            => carried[j] \in Tokens

\* The slots of a call wait until the call needs them.
SlotsInv ==
    /\ \A c \in Calls :
           /\ call[c] = "sent" => pc[Refresher(c)] = "later"
           /\ call[c] \in {"sent", "waits"} => pc[Retry(c)] = "later"
    /\ \A c \in Jobs : call[c] = "resent" => c \in Calls

Wellformed ==
    /\ SessionsTyped /\ CredentialsTyped /\ BrowserTyped
    /\ Located /\ Carries /\ SlotsInv

-----------------------------------------------------------------------------
(* Redis and the password.                                                 *)

\* Whatever keeps commands from getting through is counted, and nothing has
\* since a rehydration began that is whole.
Rehydrating(r) ==
    Kind(r) = "rehydrate" /\ pc[r] \in {"rehydrateBlacklist", "rehydratePurge", "ok"}
OutageInv ==
    /\ redis.up => redis.ready
    /\ ~redis.up => redis.outages > 0
    /\ \A r \in Jobs : Rehydrating(r) => /\ mem[r].outages <= redis.outages
                                         /\ Whole(r) => redis.up

\* What was read of the password is not ahead of the user.
VersionInv ==
    /\ \A j \in Jobs : Kind(j) \notin {"pin", "changePin"} => mem[j].version <= user.version
    /\ redis.pwdver <= user.version

CacheInv == OutageInv /\ VersionInv /\ PasswordCacheFresh

\* Who is about to fail or to pass has found no lock, unless the user has changed.
LockInv ==
    \A j \in Jobs \ dirty : pc[j] \in {"loginWrong", "loginReset"} => user.lock # "locked"

-----------------------------------------------------------------------------
(* The transaction PIN.                                                    *)

PinInv ==
    /\ ~acts.lost => acts.wrong = pin.failed
    /\ pin.failed >= MaxAttempts => pin.lock # "none"
    /\ \A j \in Jobs \ stale :
           /\ pc[j] = "pinWrong" => mem[j].failed = pin.failed
           /\ pc[j] \in {"pinWrong", "pinReset"} => pin.lock # "locked"
           /\ pc[j] = "pinUnlock" => pin.lock = "expired"

-----------------------------------------------------------------------------
(* Codes and reset tokens.                                                 *)

\* A code exists once its job has inserted it.
UncreatedInv ==
    \A c \in Jobs :
        /\ pc[c] \in {"later", "start", "codeCeiling", "codeReplace", "codeInsert"} =>
               codes[c].state = "none"
        /\ codes[c].state # "none" => Kind(c) = "createCode"

\* What is about to be consumed is the code that was typed, and was sent.
MatchedInv ==
    \A j \in Jobs : At(j, "codeConsume") =>
        /\ mem[j].found = {Typed(j)}
        /\ Typed(j) \in mailed /\ codes[Typed(j)].state # "none"

\* A code that is to be withdrawn if it is not sent was sent, or its job is at
\* it, or could not.
SentInv ==
    \A c \in Jobs :
        (Withdrawn(c) /\ codes[c].state \in Unconsumed \cup {"consumed"}) =>
            \/ c \in mailed
            \/ pc[c] \in {"codeMail", "invalidate"} /\ codes[c].state # "consumed"
            \/ c \in acts.stuck /\ codes[c].state # "consumed"

\* What whoever is about to insert a code has not deleted came in between.
OverlapInv ==
    \A k, c \in Jobs :
        (At(k, "codeInsert") /\ c # k /\ c \in Pending(k)) => {c, k} \in acts.overlap

UsedInv == \A x \in acts.used : x[1] \in Jobs /\ codes[x[1]].state = "consumed"

CodesInv ==
    /\ UncreatedInv /\ MatchedInv /\ SentInv /\ OverlapInv /\ UsedInv
    /\ OneLiveCode /\ DropsForCause /\ CodeOnce

\* A reset token is of the version its job has read, and its job is done; who
\* is about to spend it has compared that version.
ResetsInv ==
    /\ \A t \in Jobs : resets[t] # "none" => At(t, "ok") /\ Kind(t) = "confirmReset"
    /\ \A j \in Jobs : At(j, "resetCommit") =>
           resets[Typed(j)] # "none" /\ (j \notin dirty => Current(Typed(j)))
    /\ \A x \in acts.spent : resets[x[1]] = "spent"
    /\ ResetsOnce

-----------------------------------------------------------------------------
(* Refresh tokens.                                                         *)

Home(t) == IF t \in Devices THEN t ELSE Dev(t)

\* The token of a job is out once the session document has it.
IssuedBy(j) ==
    /\ Kind(j) \in {"refresh", "login", "verifyEmail"}
    /\ pc[j] \in {"publish", "retire", "respond", "seed", "seeding", "ok", "lost"}
Issued == workload.signedIn \cup {j \in Jobs : IssuedBy(j)}
OfDevice(t, d) == t # NoToken => t \in Issued /\ Home(t) = d

HomesInv ==
    /\ \A d \in Devices : OfDevice(sessions[d].token, d) /\ OfDevice(cookie[d], d)
    /\ \A j \in Jobs : Kind(j) \in WithCookie => OfDevice(carried[j], Dev(j))

\* An issued token is that of its session, or its end was recorded.
Recorded == redis.rotated \cup log.unmarked
SupersededInv ==
    \A t \in Issued : \/ sessions[Home(t)].token = t
                      \/ t \in Recorded \cup log.replaced
MarkedInv ==
    \A j \in Jobs : (Kind(j) = "refresh" /\ pc[j] \in {"issue", "rotate"}) =>
        carried[j] \in Recorded
SuspectInv == \A j \in Jobs : At(j, "marker") => sessions[Dev(j)].token # carried[j]
ReuseInv ==
    /\ \A j \in log.reuse : pc[j] \notin {"later", "start"}
    /\ ReuseForCause
ExchangeInv ==
    /\ \A x \in log.exchanged : x[1] \in Issued /\ sessions[Home(x[1])].token # x[1]
    /\ ExchangedOnce

TokensInv ==
    HomesInv /\ SupersededInv /\ MarkedInv /\ SuspectInv /\ ReuseInv /\ ExchangeInv

-----------------------------------------------------------------------------
(* Revocations.                                                            *)

Dead(t) == t \in Issued /\ ~Active(t)

\* What a revocation has found is dead once it has marked the sessions.
Marking(j, d) ==
    \/ At(j, "endMark") /\ d = Target(j)
    \/ At(j, "revokeMark") /\ d \notin Spared(j)
FoundInv ==
    \A j \in Jobs :
        /\ pc[j] \in {"endMark", "revokeMark"} =>
               \A t \in mem[j].found : t \in Issued /\ (Dead(t) \/ Marking(j, Home(t)))
        /\ pc[j] \in {"endPurge", "endBlacklist", "revokeBlacklist", "revokePurge",
                      "revokeSpare", "rehydrateBlacklist"} =>
               \A t \in mem[j].found : Dead(t)
DeadInv == \A t \in redis.black \cup log.gone : Dead(t)

\* What a revocation has told Redis of, or has tried to.
Tells(j) == pc[j] \in {"revokePurge", "revokeSpare"}
Told(t) == t \in log.gone \/ \E j \in Jobs : Tells(j) /\ t \in mem[j].found
ToldInv == redis.outages = 0 => \A t \in Tokens : Told(t) => t \in redis.black

\* A document that is there when the blacklist is rebuilt as a whole is in it.
RebuiltInv ==
    \A r \in Jobs, d \in Devices :
        LET t == sessions[d].token IN
        (Kind(r) = "rehydrate" /\ Whole(r) /\ ~sessions[d].active /\ Told(t)) =>
            /\ pc[r] = "rehydrateBlacklist" => t \in redis.black \cup mem[r].found
            /\ pc[r] \in {"rehydratePurge", "ok"} => t \in redis.black

LateInv ==
    \A j \in log.late :
        /\ carried[j] \in redis.black /\ pc[j] \notin {"later", "start"}
        /\ Kind(j) \in WithAccess => pc[j] \in {"cache", "lookup", "401"}
AdmittedInv ==
    \A j \in log.admitted :
        Kind(j) \in WithAccess /\ pc[j] \notin AuthSteps \cup {"later", "start", "401"}

RevokedInv ==
    /\ FoundInv /\ DeadInv /\ ToldInv /\ RebuiltInv /\ LateInv /\ AdmittedInv
    /\ RevocationsHold
=============================================================================
