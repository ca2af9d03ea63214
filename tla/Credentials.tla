----------------------------- MODULE Credentials -----------------------------
(***************************************************************************)
(* Codes sent by mail, the reset of a forgotten password, the verification *)
(* of an address, and the transaction PIN.  A code is a document named for *)
(* the job that created it, a reset token for the job that confirmed one.  *)
(***************************************************************************)
EXTENDS Revocations

VARIABLES
    codes,   \* of each code: what has become of it, and the wrong tries
    recent,  \* codes younger than the cooldown
    mailed,  \* codes handed to the mail queue
    resets,  \* what has become of each reset token
    pin,     \* transactionPin of the user: version, failures, lock
    stale,   \* jobs for which transactionPin has changed since read
    acts     \* what the properties remember of the past

credentials == <<codes, recent, mailed, resets, pin, stale, acts>>
pinVars == <<pin, stale>>
sessionData == <<workload, carried, minted, sessions, redis, client, log>>

CodeStates == {"none", "live", "expired", "consumed", "gone"}
Unconsumed == {"live", "expired"}

CredentialsInit ==
    /\ codes = [j \in Jobs |-> [state |-> "none", tries |-> 0]]
    /\ recent = {} /\ mailed = {}
    /\ resets = [j \in Jobs |-> "none"]
    /\ pin = [version |-> workload.pin, failed |-> 0, lock |-> "none"]
    /\ stale = {}
    /\ acts = [used |-> {}, overlap |-> {}, dropped |-> {}, stuck |-> {},
               spent |-> {}, outdated |-> {}, wrong |-> 0, lost |-> FALSE]

Existing(j) == {c \in Jobs : /\ Job(c).purpose = Job(j).purpose
                             /\ codes[c].state \in Unconsumed \cup {"consumed"}}
Pending(j) == {c \in Existing(j) : codes[c].state \in Unconsumed}

-----------------------------------------------------------------------------
(* OTPManager.create, for an event of a topic or a request of the user.    *)

\* The code was sent, or its job is about to send or to withdraw it.
OnItsWay(c) == c \in mailed \/ pc[c] \in {"codeMail", "invalidate"}

\* A drop is harmless where the code it finds is on its way.
CodeCooldown(j) ==
    LET young == Existing(j) \cap recent IN
    /\ At(j, "start") /\ Kind(j) = "createCode"
    /\ Goto(j, IF young # {} THEN "429" ELSE "codeCeiling")
    /\ acts' = [acts EXCEPT !.dropped =
                  @ \cup {<<j, c>> : c \in {k \in young : ~OnItsWay(k)}}]
    /\ UNCHANGED <<sessionData, mem, user, dirty, codes, recent, mailed, resets,
                   pinVars>>

CodeCeiling(j) ==
    /\ At(j, "codeCeiling")
    /\ Goto(j, IF Cardinality(Existing(j)) >= MaxPerHour THEN "429" ELSE "codeReplace")
    /\ UNCHANGED <<sessionData, mem, user, dirty, credentials>>

\* mutant: the codes there are stay
CodeReplace_Not(j) ==
    /\ At(j, "codeReplace")
    /\ Goto(j, "codeInsert")
    /\ UNCHANGED <<sessionData, mem, user, dirty, credentials>>

Deleted(cs) ==
    codes' = [c \in Jobs |-> IF c \in cs THEN [codes[c] EXCEPT !.state = "gone"]
                             ELSE codes[c]]

CodeReplace(j) ==
    /\ At(j, "codeReplace")
    /\ Deleted(Pending(j))
    /\ Goto(j, "codeInsert")
    /\ UNCHANGED <<sessionData, mem, user, dirty, recent, mailed, resets, pinVars,
                   acts>>

CodeInsert(j) ==
    /\ At(j, "codeInsert")
    /\ codes' = [codes EXCEPT ![j].state = "live"]
    /\ recent' = recent \cup {j}
    /\ acts' = [acts EXCEPT !.overlap = @ \cup
                  {{j, k} : k \in {i \in Jobs : pc[i] \in {"codeCeiling", "codeReplace",
                                                           "codeInsert"}}}]
    /\ Goto(j, "codeMail")
    /\ UNCHANGED <<sessionData, mem, user, dirty, mailed, resets, pinVars>>

\* mutant: a code that could not be sent stays, as it does for a PIN
Withdrawn_Never(j) == FALSE

\* Only the reset of a password takes its code back when the queue refuses it.
Withdrawn(j) == Job(j).purpose = "password"

\* What the queue refuses it may have taken nevertheless.
CodeMail(j) ==
    /\ At(j, "codeMail")
    /\ \/ mailed' = mailed \cup {j} /\ Goto(j, "ok")
       \/ /\ May("mail")
          /\ Goto(j, IF Withdrawn(j) THEN "invalidate" ELSE "500")
          /\ mailed' \in {mailed, mailed \cup {j}}
    /\ UNCHANGED <<sessionData, mem, user, dirty, codes, recent, resets, pinVars, acts>>

\* invalidate: what is not consumed is deleted, whoever created it.  A new PIN
\* is then refused if it is the old one.
CodeInvalidate(j) ==
    /\ At(j, "invalidate")
    /\ Deleted(Pending(j))
    /\ \E l \in CASE Kind(j) = "createCode" -> {"500"}
                  [] Kind(j) = "changePin" -> {"pinSave", "400"}
                  [] OTHER -> {"ok"} : Goto(j, l)
    /\ UNCHANGED <<sessionData, mem, user, dirty, recent, mailed, resets, pinVars,
                   acts>>

\* The code stays: its withdrawal fails, which is only logged, or the consumer
\* dies before it has handed the mail over.
CodeStuck(j) ==
    /\ May("mail")
    /\ Kind(j) = "createCode" /\ pc[j] \in {"codeMail", "invalidate"}
    /\ \E l \in IF At(j, "invalidate") THEN {"500", "lost"} ELSE {"lost"} : Goto(j, l)
    /\ acts' = [acts EXCEPT !.stuck = @ \cup {j}]
    /\ UNCHANGED <<sessionData, mem, user, dirty, codes, recent, mailed, resets,
                   pinVars>>

-----------------------------------------------------------------------------
(* OTPManager.verify.  What is typed is a code that was received, or none. *)

Typed(j) == Job(j).code
WithCode == {"confirmReset", "verifyEmail", "resetPin"}

CodeFind(j) ==
    /\ At(j, "codeFind") \/ (At(j, "start") /\ Kind(j) \in WithCode)
    /\ Typed(j) \in mailed \cup {NoToken}
    /\ IF Pending(j) = {} THEN Goto(j, "400") /\ UNCHANGED mem
       ELSE \E c \in Pending(j) :
            /\ mem' = [mem EXCEPT ![j].found = {c}]
            /\ Goto(j, IF codes[c].state = "expired" \/ codes[c].tries >= MaxAttempts
                       THEN "400"
                       ELSE IF Typed(j) = c THEN "codeConsume" ELSE "codeMiss")
    /\ UNCHANGED <<sessionData, user, dirty, credentials>>

\* mutant: a miss is counted whatever the count has become
Counts_Any(c) == codes[c].state # "gone"

\* The filter of the update: the document is there and has tries left.
Counts(c) == codes[c].state # "gone" /\ codes[c].tries < MaxAttempts

CodeMiss(j) ==
    /\ At(j, "codeMiss")
    /\ codes' = [c \in Jobs |->
                   IF c \in mem[j].found /\ Counts(c)
                   THEN [codes[c] EXCEPT !.tries = @ + 1] ELSE codes[c]]
    /\ Goto(j, "400")
    /\ UNCHANGED <<sessionData, mem, user, dirty, recent, mailed, resets, pinVars,
                   acts>>

\* mutant: found is as good as consumed
Consumes_Any(j) == TRUE

\* The filter of the update: nobody has consumed it in the meantime.
Consumes(j) == \A c \in mem[j].found : codes[c].state \in Unconsumed

CodeConsume(j) ==
    /\ At(j, "codeConsume")
    /\ IF Consumes(j)
       THEN /\ codes' = [codes EXCEPT ![Typed(j)].state = "consumed"]
            /\ acts' = [acts EXCEPT !.used = @ \cup {<<Typed(j), j>>}]
            /\ Goto(j, CASE Kind(j) = "confirmReset" -> "resetUser"
                         [] Kind(j) = "verifyEmail" -> "emailCommit"
                         [] Kind(j) = "changePin" -> "invalidate"
                         [] Kind(j) = "resetPin" -> "pinSave")
       ELSE Goto(j, "400") /\ UNCHANGED <<codes, acts>>
    /\ UNCHANGED <<sessionData, mem, user, dirty, recent, mailed, resets, pinVars>>

CodeStep(j) ==
    \/ CodeCooldown(j) \/ CodeCeiling(j) \/ CodeReplace(j) \/ CodeInsert(j)
    \/ CodeMail(j) \/ CodeInvalidate(j) \/ CodeStuck(j)
    \/ CodeFind(j) \/ CodeMiss(j) \/ CodeConsume(j)

-----------------------------------------------------------------------------
(* verifyEmail, and the two halves of a password reset.                    *)

EmailCommit(j) ==
    /\ At(j, "emailCommit")
    /\ mem' = [mem EXCEPT ![j].version = user.version]
    /\ ReadsUser(j)
    /\ Goto(j, "issue")
    /\ UNCHANGED <<sessionData, user, credentials>>

ResetUser(j) ==
    /\ At(j, "resetUser")
    /\ mem' = [mem EXCEPT ![j].version = user.version]
    /\ Goto(j, "resetToken")
    /\ UNCHANGED <<sessionData, user, dirty, credentials>>

ResetToken(j) ==
    /\ At(j, "resetToken")
    /\ resets' = [resets EXCEPT ![j] = "live"]
    /\ Goto(j, "ok")
    /\ UNCHANGED <<sessionData, mem, user, dirty, codes, recent, mailed, pinVars, acts>>

\* mutant: the version the token is bound to is not looked at
Current_Any(t) == TRUE

Current(t) == user.version = mem[t].version

\* The new password may turn out to be an old one.
ResetRead(j) ==
    /\ At(j, "start") /\ Kind(j) = "resetPassword"
    /\ resets[Typed(j)] # "none"
    /\ ReadsUser(j)
    /\ \E l \in IF Current(Typed(j)) THEN {"resetCommit", "400"} ELSE {"400"} : Goto(j, l)
    /\ UNCHANGED <<sessionData, mem, user, credentials>>

\* mutant: a token that is spent is taken again
Spends_Any(t) == TRUE

Spends(t) == resets[t] = "live"

\* One transaction: the token is consumed and the password set.
ResetCommit(j) ==
    LET t == Typed(j) IN
    /\ At(j, "resetCommit")
    /\ IF Spends(t)
       THEN /\ resets' = [resets EXCEPT ![t] = "spent"]
            /\ WritesUser(j, [version |-> user.version + 1, failed |-> 0,
                              lock |-> "none"])
            /\ acts' = [acts EXCEPT !.spent = @ \cup {<<t, j>>},
                          !.outdated = IF user.version # mem[t].version /\ j \notin dirty
                                       THEN @ \cup {j} ELSE @]
            /\ Goto(j, "revokeFind")
       ELSE Goto(j, "400") /\ UNCHANGED <<resets, user, dirty, acts>>
    /\ UNCHANGED <<sessionData, mem, codes, recent, mailed, pinVars>>

ResetStep(j) ==
    \/ EmailCommit(j) \/ ResetUser(j) \/ ResetToken(j) \/ ResetRead(j) \/ ResetCommit(j)

-----------------------------------------------------------------------------
(* The transaction PIN: requirePin, setupPin, changePin, resetPin.  The    *)
(* count and the lock are set from what was read.                          *)

WritesPin(j, p) ==
    /\ pin' = p
    /\ stale' = stale \cup (Jobs \ {j})

\* Where a PIN leads that was typed when failures had been counted.
Judged(j, version, failures) ==
    IF Job(j).knows # version THEN {"pinWrong"}
    ELSE IF Kind(j) = "changePin"
         THEN IF Typed(j) = NoToken THEN {"pinSave", "400"} ELSE {"codeFind"}
         ELSE IF failures > 0 THEN {"pinReset"} ELSE {"ok"}

PinRead(j) ==
    /\ At(j, "start") /\ Kind(j) \in {"pin", "changePin"}
    /\ mem' = [mem EXCEPT ![j].failed = pin.failed, ![j].version = pin.version]
    /\ stale' = stale \ {j}
    /\ \E l \in IF pin.version = 0 \/ Refused(pin.lock) THEN {"400"}
                ELSE IF Kind(j) = "pin" /\ pin.lock = "expired" THEN {"pinUnlock"}
                ELSE Judged(j, pin.version, pin.failed) : Goto(j, l)
    /\ UNCHANGED <<sessionData, user, dirty, codes, recent, mailed, resets, pin, acts>>

\* What the writes of j say of the failures counted so far.
Counted(j, n) == acts' = [acts EXCEPT !.wrong = n, !.lost = @ \/ j \in stale]

PinUnlock(j) ==
    /\ At(j, "pinUnlock")
    /\ mem' = [mem EXCEPT ![j].failed = 0]
    /\ WritesPin(j, [pin EXCEPT !.failed = 0, !.lock = "none"])
    /\ Counted(j, 0)
    /\ \E l \in Judged(j, mem[j].version, 0) : Goto(j, l)
    /\ UNCHANGED <<sessionData, user, dirty, codes, recent, mailed, resets>>

\* mutant: one failure too many is allowed
PinLockFor_Late(failures) == IF failures > MaxAttempts THEN "locked" ELSE "none"

PinLockFor(failures) == LockFor(failures)

PinWrong(j) ==
    /\ At(j, "pinWrong")
    /\ WritesPin(j, [pin EXCEPT !.failed = mem[j].failed + 1,
                                !.lock = PinLockFor(mem[j].failed + 1)])
    /\ Counted(j, acts.wrong + 1)
    /\ Goto(j, "400")
    /\ UNCHANGED <<sessionData, mem, user, dirty, codes, recent, mailed, resets>>

PinReset(j) ==
    /\ At(j, "pinReset")
    /\ WritesPin(j, [pin EXCEPT !.failed = 0, !.lock = "none"])
    /\ Counted(j, 0)
    /\ Goto(j, "ok")
    /\ UNCHANGED <<sessionData, mem, user, dirty, codes, recent, mailed, resets>>

SetupRead(j) ==
    /\ At(j, "start") /\ Kind(j) = "setupPin"
    /\ stale' = stale \ {j}
    /\ Goto(j, IF pin.version # 0 THEN "400" ELSE "pinSave")
    /\ UNCHANGED <<sessionData, mem, user, dirty, codes, recent, mailed, resets, pin,
                   acts>>

PinSave(j) ==
    /\ At(j, "pinSave")
    /\ WritesPin(j, [version |-> pin.version + 1, failed |-> 0, lock |-> "none"])
    /\ Counted(j, 0)
    /\ Goto(j, IF Kind(j) = "resetPin" THEN "invalidate" ELSE "ok")
    /\ UNCHANGED <<sessionData, mem, user, dirty, codes, recent, mailed, resets>>

PinStep(j) ==
    \/ PinRead(j) \/ PinUnlock(j) \/ PinWrong(j) \/ PinReset(j)
    \/ SetupRead(j) \/ PinSave(j)

-----------------------------------------------------------------------------
(* Time: the cooldown of a minute, the life of a code, the lock of a PIN.  *)

CooldownPasses ==
    /\ May("clock") /\ recent # {}
    /\ recent' = {}
    /\ UNCHANGED <<sessionData, pc, mem, user, dirty, codes, mailed, resets, pinVars,
                   acts>>

CodeExpires(c) ==
    /\ May("clock") /\ codes[c].state = "live"
    /\ codes' = [codes EXCEPT ![c].state = "expired"]
    /\ UNCHANGED <<sessionData, pc, mem, user, dirty, recent, mailed, resets, pinVars,
                   acts>>

PinLockExpires ==
    /\ May("clock") /\ pin.lock = "locked"
    /\ pin' = [pin EXCEPT !.lock = "expired"]
    /\ UNCHANGED <<sessionData, pc, mem, user, dirty, codes, recent, mailed, resets,
                   stale, acts>>

CredentialsClock ==
    CooldownPasses \/ PinLockExpires \/ \E c \in Jobs : CodeExpires(c)
=============================================================================
