------------------------------- MODULE Browser -------------------------------
(***************************************************************************)
(* The tabs of the browser application: axiosPrivate, whose interceptor    *)
(* answers a 401 with a refresh and a retry, and AuthProvider, which       *)
(* restores the session when the page loads.                               *)
(*                                                                         *)
(* workload.calls gives each call of the application the two jobs it may   *)
(* need besides its own: <<refresh, retry>>.  The post of the refresh goes *)
(* through the interceptor like any other.                                 *)
(***************************************************************************)
EXTENDS Sessions

VARIABLES
    call,     \* where each call is, that of a refresh included
    waits,    \* the refresh a call awaits
    promise   \* refreshPromise of each tab

browser == <<call, waits, promise>>
server == <<workload, carried, mem, minted, db, redis, log>>

Calls == DOMAIN workload.calls
Refresher(c) == workload.calls[c][1]
Retry(c) == workload.calls[c][2]
Tab(c) == Job(c).tab
Settled == {"done", "failed", "gone"}
CallStates == Settled \cup {"idle", "sent", "waits", "resent"}

BrowserInit ==
    /\ call = [j \in Jobs |-> IF j \in Calls THEN "sent" ELSE "idle"]
    /\ waits = [j \in Jobs |-> NoToken]
    /\ promise = [t \in Tabs |-> NoToken]

Outcome(c) == IF pc[c] = "ok" THEN "done" ELSE "failed"

\* What the tab holds once call c has the answer of its job j: a refresh
\* brings a token or, restoring, clears it; a logout clears it whatever it is.
AccessAfter(c, j) ==
    CASE Kind(c) = "refresh" /\ Outcome(j) = "done" -> Holding(Tab(c), j)
      [] (Kind(c) = "refresh" /\ c \in Calls) \/ Kind(c) = "logout" ->
             Holding(Tab(c), NoToken)
      [] OTHER -> access

\* Any answer but a 401 settles the call; a refresh is nobody's promise then.
Settle(c) ==
    /\ call[c] = "sent"
    /\ pc[c] \in Replies \ {"401"}
    /\ call' = [call EXCEPT ![c] = Outcome(c)]
    /\ promise' = [promise EXCEPT ![Tab(c)] = IF @ = c THEN NoToken ELSE @]
    /\ access' = AccessAfter(c, c)
    /\ UNCHANGED <<server, pc, cookie, waits>>

Refreshing(t) == promise[t] # NoToken

\* The refresh that is under way is awaited, or else one is started.
Intercept(c) ==
    /\ call[c] = "sent"
    /\ pc[c] = "401"
    /\ IF Refreshing(Tab(c))
       THEN /\ waits' = [waits EXCEPT ![c] = promise[Tab(c)]]
            /\ call' = [call EXCEPT ![c] = "waits"]
            /\ UNCHANGED <<pc, promise>>
       ELSE /\ c \in Calls
            /\ promise' = [promise EXCEPT ![Tab(c)] = Refresher(c)]
            /\ waits' = [waits EXCEPT ![c] = Refresher(c)]
            /\ call' = [call EXCEPT ![c] = "waits", ![Refresher(c)] = "sent"]
            /\ Goto(Refresher(c), "start")
    /\ UNCHANGED <<server, client>>

\* mutant: the rejection of the refresh is not caught
Rejected_Never(c) == FALSE

Rejected(c) == call[c] = "waits" /\ call[waits[c]] = "failed"

ResumeRetry(c) ==
    /\ c \in Calls /\ call[c] = "waits" /\ call[waits[c]] = "done"
    /\ call' = [call EXCEPT ![c] = "resent"]
    /\ Goto(Retry(c), "start")
    /\ UNCHANGED <<server, client, waits, promise>>

\* The page is left for /login, and the calls of its tab with it.
ResumeReject(c) ==
    /\ Rejected(c)
    /\ call' = [k \in Jobs |-> IF k = c THEN "failed"
                               ELSE IF Tab(k) = Tab(c) /\ call[k] \notin Settled \cup {"idle"}
                                    THEN "gone" ELSE call[k]]
    /\ promise' = [promise EXCEPT ![Tab(c)] = NoToken]
    /\ access' = Holding(Tab(c), NoToken)
    /\ UNCHANGED <<server, pc, cookie, waits>>

\* A call is retried once: a second 401 is the answer.
SettleRetry(c) ==
    /\ call[c] = "resent"
    /\ pc[Retry(c)] \in Replies
    /\ call' = [call EXCEPT ![c] = Outcome(Retry(c))]
    /\ access' = AccessAfter(c, Retry(c))
    /\ UNCHANGED <<server, pc, cookie, waits, promise>>

BrowserStep(c) ==
    \/ Settle(c) \/ Intercept(c) \/ ResumeRetry(c) \/ ResumeReject(c) \/ SettleRetry(c)
=============================================================================
