------------------------------- MODULE MCAccess -------------------------------
(* Two browsers of one user, the first with two tabs.                       *)
EXTENDS Access, Sequences, TLC

MCDevices == {"d1", "d2"}
MCTabs == {"t1", "t2", "t3"}
Name == <<"j1", "j2", "j3", "j4", "j5", "j6">>
MCJobs == {Name[i] : i \in 1..6}

Plain == [kind |-> "idle", tab |-> "t1", device |-> "d1", target |-> "d2",
          knows |-> 0, code |-> "none", purpose |-> "password"]
Other == [Plain EXCEPT !.tab = "t3", !.device = "d2", !.target = "d1"]

RequestTable ==
    "idle"      :> Plain @@
    "api"       :> [Plain EXCEPT !.kind = "api"] @@
    "api2"      :> [Other EXCEPT !.kind = "api"] @@
    "refresh"   :> [Plain EXCEPT !.kind = "refresh"] @@
    "refreshT2" :> [Plain EXCEPT !.kind = "refresh", !.tab = "t2"] @@
    "refresh2"  :> [Other EXCEPT !.kind = "refresh"] @@
    "login"     :> [Plain EXCEPT !.kind = "login"] @@
    "loginNew"  :> [Plain EXCEPT !.kind = "login", !.knows = 1] @@
    "login2"    :> [Other EXCEPT !.kind = "login"] @@
    "guess"     :> [Plain EXCEPT !.kind = "login", !.knows = 9] @@
    "logout"    :> [Plain EXCEPT !.kind = "logout"] @@
    "logoutAll" :> [Plain EXCEPT !.kind = "logoutAll"] @@
    "others"    :> [Plain EXCEPT !.kind = "killOthers"] @@
    "kill2"     :> [Plain EXCEPT !.kind = "kill"] @@
    "killSelf"  :> [Plain EXCEPT !.kind = "kill", !.target = "d1"] @@
    "change"    :> [Plain EXCEPT !.kind = "changePassword"] @@
    "rehydrate" :> [Plain EXCEPT !.kind = "rehydrate"] @@
    "code"      :> [Plain EXCEPT !.kind = "createCode"] @@
    "codeMail"  :> [Plain EXCEPT !.kind = "createCode", !.purpose = "email"] @@
    "codePin"   :> [Plain EXCEPT !.kind = "createCode", !.purpose = "pinReset"] @@
    "codeChange" :> [Plain EXCEPT !.kind = "createCode", !.purpose = "pinChange"] @@
    "confirm"   :> [Plain EXCEPT !.kind = "confirmReset", !.code = "j1"] @@
    "confirm2"  :> [Plain EXCEPT !.kind = "confirmReset", !.code = "j2"] @@
    "misread"   :> [Plain EXCEPT !.kind = "confirmReset"] @@
    "reset"     :> [Plain EXCEPT !.kind = "resetPassword", !.code = "j2"] @@
    "verify"    :> [Plain EXCEPT !.kind = "verifyEmail", !.code = "j1",
                                 !.purpose = "email"] @@
    "setup"     :> [Plain EXCEPT !.kind = "setupPin"] @@
    "pin"       :> [Plain EXCEPT !.kind = "pin", !.knows = 1] @@
    "pinWrong"  :> [Plain EXCEPT !.kind = "pin", !.knows = 9] @@
    "changePin" :> [Plain EXCEPT !.kind = "changePin", !.knows = 1] @@
    "changePinCode" :> [Plain EXCEPT !.kind = "changePin", !.knows = 1, !.code = "j1",
                                     !.purpose = "pinChange"] @@
    "changePinWrong" :> [Plain EXCEPT !.kind = "changePin", !.knows = 9] @@
    "resetPin"  :> [Plain EXCEPT !.kind = "resetPin", !.code = "j1",
                                 !.purpose = "pinReset"]
MCRequests == DOMAIN RequestTable
MCRequest == RequestTable

Both == "t1" :> "d1" @@ "t2" :> "d1" @@ "t3" :> "d2"
Closed == [t \in MCTabs |-> "none"]
NoCalls == [c \in {} |-> <<>>]

Work(asks, later, open, calls, faults) ==
    [asks |-> [j \in MCJobs |->
                 IF \E i \in DOMAIN asks : Name[i] = j
                 THEN asks[CHOOSE i \in DOMAIN asks : Name[i] = j] ELSE "idle"],
     later |-> later, signedIn |-> MCDevices, open |-> open, calls |-> calls,
     pin |-> IF \E i \in DOMAIN asks : asks[i] = "setup" THEN 0 ELSE 1,
     rehydrated |-> FALSE, faults |-> faults]
Plainly(asks, faults) == Work(asks, {}, Both, NoCalls, faults)
Afterwards(w) == [w EXCEPT !.rehydrated = TRUE]
WithRehydrate(asks) ==
    Work(asks \o <<"rehydrate">>, {Name[Len(asks) + 1]}, Both, NoCalls, {"redis"})

SessionWorkloads == {
    Plainly(<<"refresh", "refreshT2">>, {"clock", "lost"}),
    Plainly(<<"refresh", "refreshT2">>, {"redis"}),
    Plainly(<<"refresh", "logout", "api">>, {"clock", "lost"}),
    Plainly(<<"change", "api2", "refresh2">>, {}),
    Plainly(<<"change", "login2", "api">>, {}),
    Plainly(<<"login", "refresh", "api">>, {"clock"}),
    Plainly(<<"others", "refresh2", "api2">>, {"clock"}),
    Plainly(<<"kill2", "login2", "api2">>, {"clock"}),
    Plainly(<<"killSelf", "logoutAll", "refresh2">>, {}),
    WithRehydrate(<<"logoutAll", "api2">>),
    WithRehydrate(<<"change", "api2">>),
    WithRehydrate(<<"logout", "api">>),
    Afterwards(Plainly(<<"api", "logout", "api">>, {"lost"})),
    Afterwards(Plainly(<<"api2", "others", "api2">>, {})),
    Afterwards(Plainly(<<"change", "api", "api2">>, {})),
    Plainly(<<"guess", "guess", "login">>, {"clock"}) }

CredentialWorkloads == {
    Plainly(<<"code", "code", "confirm">>, {"clock", "mail"}),
    Plainly(<<"code", "confirm", "confirm", "reset">>, {"clock"}),
    Plainly(<<"code", "confirm", "reset", "reset">>, {}),
    Plainly(<<"code", "confirm", "reset", "change">>, {}),
    Plainly(<<"code", "misread", "misread", "misread">>, {"clock"}),
    Plainly(<<"code", "code", "code">>, {"clock"}),
    Plainly(<<"codePin", "resetPin", "pin", "codePin">>, {"mail"}),
    Plainly(<<"codeChange", "changePinCode", "pinWrong">>, {"clock"}),
    Plainly(<<"changePin", "pinWrong", "pin">>, {"clock"}),
    Plainly(<<"pinWrong", "pinWrong", "pin", "changePinWrong">>, {"clock"}),
    Plainly(<<"setup", "setup", "pin">>, {}),
    Plainly(<<"codeMail", "verify", "verify", "codeMail">>, {"clock"}) }

OneCall == "j1" :> <<"j2", "j3">>
TwoCalls == OneCall @@ "j4" :> <<"j5", "j6">>
BrowserWorkloads == {
    Work(<<"api", "refresh", "api", "api", "refresh", "api">>,
         {"j2", "j3", "j5", "j6"}, Closed, TwoCalls, {"lost"}),
    Work(<<"refresh", "refresh", "refresh", "refreshT2", "refreshT2", "refreshT2">>,
         {"j2", "j3", "j5", "j6"}, Closed, TwoCalls, {}),
    Work(<<"logoutAll", "refresh", "logoutAll", "api2">>,
         {"j2", "j3"}, Both, OneCall, {}),
    Work(<<"logout", "refresh", "logout", "refreshT2">>,
         {"j2", "j3"}, Both, OneCall, {"lost"}) }

MCWorkloads == SessionWorkloads \cup CredentialWorkloads \cup BrowserWorkloads
=============================================================================
