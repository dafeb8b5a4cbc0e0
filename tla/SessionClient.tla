--------------------------- MODULE SessionClient ---------------------------
(***************************************************************************)
(* The session of the web client: the store of the user and the two        *)
(* tokens, what signs a user in and out, and the interceptors of apiClient *)
(* that renew an expired access token.  The first call refused with 401    *)
(* renews it; those refused meanwhile wait in a queue.  Code runs alone    *)
(* between two answers of the server, and the user may act at any time.    *)
(***************************************************************************)
EXTENDS Naturals

CONSTANTS
    People,     \* who may sign in
    Calls,      \* calls through apiClient
    Nobody, NoToken,
    MaxTokens,  \* bound: access tokens the server issues
    MaxChoices  \* bound: sign-ins and sign-outs of the user

ASSUME SessionAssumption ==
    /\ Nobody \notin People
    /\ MaxTokens \in Nat /\ MaxChoices \in Nat

VARIABLES
    session,    \* useAuthStore: user and tokens
    refreshing, \* isRefreshing
    call,       \* call -> its request
    good,       \* the access tokens that the server takes
    issued,     \* how many it has issued
    choices,    \* how often the user signed in or out
    chosen,     \* history: who the user signed in as last, Nobody after signing out
    undone,     \* history: the user signed in or out while a token was being renewed
    mixed       \* history: a session began while refreshToken of useAuth was under way for another user

sessionVars == <<session, refreshing, call, good, issued, choices, chosen, undone, mixed>>

\* An access or a refresh token of its owner.  The pages for login and registration only
\* simulate the call, and make tokens that no server takes: their number is 0.
Token == [owner : People, no : Nat]
Made(u, n) == [owner |-> u, no |-> n]

SignedOut == [user |-> Nobody, access |-> NoToken, refresh |-> NoToken]
NewCall == [pc |-> "new", kind |-> "read", as |-> Nobody, token |-> NoToken, retry |-> FALSE, user |-> Nobody]

SessionInit ==
    /\ session = SignedOut
    /\ refreshing = FALSE
    /\ call = [c \in Calls |-> NewCall]
    /\ good = {} /\ issued = 0 /\ choices = 0
    /\ chosen = Nobody
    /\ undone = FALSE /\ mixed = FALSE

\* The tokens of u's session; refresh is NoToken when there is none.
SetSession(u, access, refresh) == session' = [user |-> u, access |-> access, refresh |-> refresh]
ClearSession == session' = SignedOut

\* The server makes an access and a refresh token for u.
Issues(u) ==
    /\ issued < MaxTokens
    /\ issued' = issued + 1
    /\ good' = good \cup {Made(u, issued + 1)}

\* refreshToken of useAuth is under way for a user who is not u.
RefreshingFor(c, u) ==
    call[c].kind = "refresh" /\ call[c].pc \notin {"new", "ok", "failed"} /\ call[c].as \notin {u, Nobody}

\* A session of u begins.
Begins(u) == mixed' = (mixed \/ \E c \in Calls : RefreshingFor(c, u))

\* The user signs in as u, or out.
Chooses(u) ==
    /\ choices < MaxChoices
    /\ choices' = choices + 1
    /\ chosen' = u
    /\ undone' = (undone \/ refreshing)
-----------------------------------------------------------------------------
(* What the user does. *)

\* onSubmit and handleDemoLogin of the login page, onSubmit of the registration page.
PageSignIn(u) ==
    /\ Chooses(u)
    /\ SetSession(u, Made(u, 0), Made(u, 0)) /\ Begins(u)
    /\ UNCHANGED <<refreshing, call, good, issued>>

SignOut ==
    /\ session.user # Nobody
    /\ Chooses(Nobody)
    /\ ClearSession
    /\ UNCHANGED <<refreshing, call, good, issued, mixed>>

\* The request interceptor gives the call the access token of the store.
Sent(kind, u) ==
    [pc |-> "sent", kind |-> kind, as |-> u, token |-> session'.access, retry |-> FALSE, user |-> Nobody]

\* A query or a mutation of a page.
SendRead(c) ==
    /\ call[c].pc = "new"
    /\ UNCHANGED <<session, refreshing, good, issued, choices, chosen, undone, mixed>>
    /\ call' = [call EXCEPT ![c] = Sent("read", session.user)]

\* login, register and startDemo of useAuth post first and set the session afterwards.
SendLogin(c, u) ==
    /\ call[c].pc = "new"
    /\ UNCHANGED <<session, refreshing, good, issued, choices, chosen, undone, mixed>>
    /\ call' = [call EXCEPT ![c] = Sent("login", u)]

\* refreshToken of useAuth posts the refresh token of the store; one that no server takes
\* is nobody's.
SendRefresh(c) ==
    /\ call[c].pc = "new"
    /\ session.refresh # NoToken
    /\ UNCHANGED <<session, refreshing, good, issued, choices, chosen, undone, mixed>>
    /\ call' = [call EXCEPT ![c] = Sent("refresh", IF session.refresh.no > 0 THEN session.refresh.owner
                                                    ELSE Nobody)]
-----------------------------------------------------------------------------
(* What the server answers. *)

ReadAnswered(c) ==
    /\ call[c].pc = "sent" /\ call[c].kind = "read"
    /\ call[c].token \in good
    /\ call' = [call EXCEPT ![c].pc = "ok"]
    /\ UNCHANGED <<session, refreshing, good, issued, choices, chosen, undone, mixed>>

\* The session of the demo account has no refresh token, that of a login or a registration has.
LoginAnswered(c) ==
    /\ call[c].pc = "sent" /\ call[c].kind = "login"
    /\ Issues(call[c].as)
    /\ LET t == Made(call[c].as, issued + 1) IN \E refresh \in {t, NoToken} : SetSession(call[c].as, t, refresh)
    /\ Begins(call[c].as)
    /\ Chooses(call[c].as)
    /\ call' = [call EXCEPT ![c].pc = "ok"]
    /\ UNCHANGED refreshing

\* Mutant of RefreshedUser: the user of the token, without a look at the store.
RefreshedUser_Sent(c) == call[c].as

\* Whose session the answer of refreshToken becomes: that of the store's user of now.
RefreshedUser(c) == session.user

RefreshAnswered(c) ==
    /\ call[c].pc = "sent" /\ call[c].kind = "refresh" /\ call[c].as # Nobody
    /\ Issues(call[c].as)
    /\ IF RefreshedUser(c) = Nobody THEN UNCHANGED session
       ELSE LET t == Made(call[c].as, issued + 1) IN SetSession(RefreshedUser(c), t, t)
    /\ call' = [call EXCEPT ![c].pc = "ok"]
    /\ UNCHANGED <<refreshing, choices, chosen, undone, mixed>>

\* No answer, or another error than 401.
CallFails(c) ==
    /\ call[c].pc = "sent"
    /\ call' = [call EXCEPT ![c].pc = "failed"]
    /\ UNCHANGED <<session, refreshing, good, issued, choices, chosen, undone, mixed>>

\* 401 to a token that is not taken, a wrong password, or a refresh token of nobody.
Refused(c) ==
    /\ call[c].pc = "sent"
    /\ call[c].kind = "read" => call[c].token \notin good

\* The call had its second chance already.
RefusedAgain(c) ==
    /\ Refused(c) /\ call[c].retry
    /\ call' = [call EXCEPT ![c].pc = "failed"]
    /\ UNCHANGED <<session, refreshing, good, issued, choices, chosen, undone, mixed>>

\* There is nothing to renew.
RefusedSignedOut(c) ==
    /\ Refused(c) /\ ~call[c].retry
    /\ session.refresh = NoToken
    /\ ClearSession
    /\ call' = [call EXCEPT ![c].pc = "failed"]
    /\ UNCHANGED <<refreshing, good, issued, choices, chosen, undone, mixed>>

\* Another call is renewing: this one waits, and keeps its second chance.
Queued(c) ==
    /\ Refused(c) /\ ~call[c].retry
    /\ session.refresh # NoToken /\ refreshing
    /\ call' = [call EXCEPT ![c].pc = "queued"]
    /\ UNCHANGED <<session, refreshing, good, issued, choices, chosen, undone, mixed>>

\* The call renews; it keeps the user and the refresh token it took from the store.
StartRefresh(c) ==
    /\ Refused(c) /\ ~call[c].retry
    /\ session.refresh # NoToken /\ ~refreshing
    /\ refreshing' = TRUE
    /\ call' = [call EXCEPT ![c].pc = "refreshing", ![c].retry = TRUE,
                            ![c].token = session.refresh, ![c].user = session.user]
    /\ UNCHANGED <<session, good, issued, choices, chosen, undone, mixed>>

\* Mutant of Flushed: after a failure nobody tells those that wait.
Flushed_Lost == {c \in Calls : call[c].pc = "queued" /\ session'.user # Nobody}

\* flushQueue: every call that waits is sent again, or rejected with its own error.
Flushed == {c \in Calls : call[c].pc = "queued"}

\* Mutant of RenewedUser: the store's user of now.
RenewedUser_Now(c) == session.user

\* Whose session a renewal brings back: the user it took from the store when it began.
RenewedUser(c) == call[c].user

RefreshSucceeds(c) ==
    /\ call[c].pc = "refreshing"
    /\ call[c].token.no > 0
    /\ Issues(call[c].token.owner)
    /\ LET t == Made(call[c].token.owner, issued + 1) IN SetSession(RenewedUser(c), t, t)
    /\ Begins(RenewedUser(c))
    /\ refreshing' = FALSE
    /\ call' = [k \in Calls |-> IF k \in Flushed \cup {c} THEN [call[k] EXCEPT !.pc = "sent", !.token = session'.access]
                                ELSE call[k]]
    /\ UNCHANGED <<choices, chosen, undone>>

\* refreshSessionToken catches every error: expired or invalid token, no connection, the
\* limit of three renewals a minute.
RefreshFails(c) ==
    /\ call[c].pc = "refreshing"
    /\ ClearSession
    /\ refreshing' = FALSE
    /\ call' = [k \in Calls |-> IF k \in Flushed \cup {c} THEN [call[k] EXCEPT !.pc = "failed"] ELSE call[k]]
    /\ UNCHANGED <<good, issued, choices, chosen, undone, mixed>>

AccessExpires ==
    /\ \E t \in good : good' = good \ {t}
    /\ UNCHANGED <<session, refreshing, call, issued, choices, chosen, undone, mixed>>

\* What the server, the network or a timer does for a call that was sent.
Settle(c) ==
    \/ ReadAnswered(c) \/ LoginAnswered(c) \/ RefreshAnswered(c) \/ CallFails(c)
    \/ RefusedAgain(c) \/ RefusedSignedOut(c) \/ Queued(c) \/ StartRefresh(c)
    \/ RefreshSucceeds(c) \/ RefreshFails(c)

SessionNext ==
    \/ \E u \in People : PageSignIn(u) \/ \E c \in Calls : SendLogin(c, u)
    \/ SignOut
    \/ \E c \in Calls : SendRead(c) \/ SendRefresh(c) \/ Settle(c)
    \/ AccessExpires

SessionSpec == SessionInit /\ [][SessionNext]_sessionVars

\* Every request is answered, or ends with an error.  The calls through apiClient have a timeout;
\* the request of refreshSessionToken has none, and that it ends is assumed of the network.
SessionFairness == \A c \in Calls : WF_sessionVars(Settle(c))

FairSessionSpec == SessionSpec /\ SessionFairness
-----------------------------------------------------------------------------
(* Types: the store, the interceptors' flag and the requests. *)
SessionTypeOK ==
    /\ session \in [user : People \cup {Nobody}, access : Token \cup {NoToken}, refresh : Token \cup {NoToken}]
    /\ refreshing \in BOOLEAN
    /\ call \in [Calls -> [pc : {"new", "sent", "queued", "refreshing", "ok", "failed"},
                           kind : {"read", "login", "refresh"}, as : People \cup {Nobody},
                           token : Token \cup {NoToken}, retry : BOOLEAN,
                           user : People \cup {Nobody}]]
    /\ good \subseteq Token

\* setSession: the tokens of the store are those of its user, whichever answers come after
\* one another, unless another user's session began, by signing in or by the answer to a
\* renewal, while useAuth's refreshToken was under way.
SessionCoherent ==
    mixed \/ \A t \in {session.access, session.refresh} : t # NoToken => t.owner = session.user

\* clearSession, setSession: the store has the user who signed in last, or nobody, and
\* nobody once that user signed out, unless they did so while a renewal was on its way,
\* which then takes the session back.
SessionIsChosen == undone \/ session.user \in {chosen, Nobody}

\* The session of the web client, between the tokens of the store, the cookie and the calls: it is
\* one user's, the one who signed in last or nobody.
SessionIsUsers == SessionCoherent /\ SessionIsChosen

\* The interceptors: every call comes to an end, also those that wait for another's renewal,
\* provided that the request which renews ends.
EveryCallSettles == \A c \in Calls : (call[c].pc = "sent") ~> (call[c].pc \in {"ok", "failed"})
=============================================================================
