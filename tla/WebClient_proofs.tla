--------------------------- MODULE WebClient_proofs ---------------------------
(***************************************************************************)
(* Proofs about the session and the forms of the web client, for every     *)
(* number of users, calls, tokens, rows and submissions: whose session the *)
(* store holds, and what the forms do with what was written.               *)
(***************************************************************************)
EXTENDS MCAccounts, TLAPS

-----------------------------------------------------------------------------
(* The session. *)

CallPc == {"new", "sent", "queued", "refreshing", "ok", "failed"}
CallFields == [pc : CallPc, kind : {"read", "login", "refresh"}, as : People \cup {Nobody},
               token : Token \cup {NoToken}, retry : BOOLEAN, user : People \cup {Nobody}]
CallRec == {h \in CallFields : h.kind = "login" => h.as \in People}
Store == [user : People \cup {Nobody}, access : Token \cup {NoToken}, refresh : Token \cup {NoToken}]

\* One call renews at a time, and what it will bring back is what the store had when it began:
\* of the user who was chosen, with that user's token.
RenewalInv ==
    \A c \in Calls : call[c].pc = "refreshing" =>
        /\ refreshing
        /\ \A k \in Calls : call[k].pc = "refreshing" => k = c
        /\ call[c].user \in People /\ call[c].token \in Token
        /\ mixed \/ call[c].token.owner = call[c].user
        /\ undone \/ call[c].user = chosen

\* refreshToken of useAuth was sent by the user the store has, if it has one.
OwnRefresh == \A c \in Calls : mixed \/ session.user = Nobody \/ ~RefreshingFor(c, session.user)

SessionInv ==
    /\ SessionTypeOK /\ call \in [Calls -> CallRec]
    /\ issued \in Nat /\ mixed \in BOOLEAN /\ undone \in BOOLEAN
    /\ session.user = Nobody => session.access = NoToken /\ session.refresh = NoToken
    /\ RenewalInv /\ OwnRefresh
    /\ SessionCoherent /\ SessionIsChosen

LEMMA MadeType ==
  ASSUME NEW u \in People, NEW n \in Nat
  PROVE  Made(u, n) \in Token /\ Made(u, n).owner = u
  BY DEF Made, Token

LEMMA TokenOwner == \A t \in Token : t.owner \in People
  BY DEF Token

LEMMA SessionInvInit == SessionInit => SessionInv
<1> SUFFICES ASSUME SessionInit PROVE SessionInv
  OBVIOUS
<1>1. SessionTypeOK
  BY DEF SessionInit, SessionTypeOK, SignedOut, NewCall
<1>2. \A c \in Calls : call[c].pc = "new"
  BY DEF SessionInit, NewCall
<1>3. RenewalInv /\ OwnRefresh
  BY <1>2 DEF RenewalInv, OwnRefresh, RefreshingFor
<1>4. session.user = Nobody /\ session.access = NoToken /\ session.refresh = NoToken
  BY DEF SessionInit, SignedOut
<1>5. NewCall \in CallRec
  BY DEF NewCall, CallRec, CallFields, CallPc
<1> QED
  BY <1>1, <1>3, <1>4, <1>5 DEF SessionInit, SessionInv, SessionCoherent, SessionIsChosen

\* What a step makes of one call.
LEMMA CallMove ==
  ASSUME call \in [Calls -> CallRec], NEW c \in Calls, NEW h \in CallRec, call' = [call EXCEPT ![c] = h]
  PROVE  /\ call' \in [Calls -> CallRec]
         /\ call'[c] = h
         /\ \A k \in Calls \ {c} : call'[k] = call[k]
  OBVIOUS

LEMMA CallPcSet ==
  ASSUME NEW h \in CallRec, NEW pc \in CallPc
  PROVE  /\ [h EXCEPT !.pc = pc] \in CallRec
         /\ [h EXCEPT !.pc = pc].pc = pc
         /\ [h EXCEPT !.pc = pc].kind = h.kind
         /\ [h EXCEPT !.pc = pc].as = h.as
  BY DEF CallRec, CallFields

\* A call that is sent, or comes to an end, or waits.
LEMMA CallPasses ==
  ASSUME SessionInv, NEW c \in Calls, call[c].pc = "sent", NEW pc \in {"ok", "failed", "queued"},
         call' = [call EXCEPT ![c].pc = pc]
  PROVE  /\ call' \in [Calls -> CallRec]
         /\ call'[c].pc = pc
         /\ \A k \in Calls \ {c} : call'[k] = call[k]
         /\ \A u : \A k \in Calls : RefreshingFor(k, u)' => RefreshingFor(k, u)
<1>1. call[c] \in CallRec /\ pc \in CallPc
  BY DEF SessionInv, SessionTypeOK, CallRec, CallFields, CallPc
<1> DEFINE h == [call[c] EXCEPT !.pc = pc]
<1>2. h \in CallRec /\ h.pc = pc /\ h.kind = call[c].kind /\ h.as = call[c].as
  BY <1>1, CallPcSet
<1>3. call' = [call EXCEPT ![c] = h]
  OBVIOUS
<1> HIDE DEF h
<1>4. call' \in [Calls -> CallRec] /\ call'[c] = h /\ \A k \in Calls \ {c} : call'[k] = call[k]
  BY <1>2, <1>3, CallMove DEF SessionInv
<1> QED
  BY <1>2, <1>4 DEF RefreshingFor

\* The session and the renewal stay as they are, and no call becomes a renewal.
LEMMA SessionStays ==
  ASSUME SessionInv, UNCHANGED <<session, refreshing, chosen, undone, mixed>>,
         call' \in [Calls -> CallRec], good' \subseteq Token, issued' \in Nat,
         \A k \in Calls : call'[k].pc = "refreshing" => call'[k] = call[k],
         \A k \in Calls : RefreshingFor(k, session.user)' => mixed \/ session.user = Nobody \/ RefreshingFor(k, session.user)
  PROVE  SessionInv'
<1>1. SessionTypeOK'
  BY DEF SessionInv, SessionTypeOK, CallRec, CallFields, CallPc
<1>2. RenewalInv'
  BY DEF SessionInv, RenewalInv
<1>3. OwnRefresh'
  BY DEF SessionInv, OwnRefresh
<1> QED
  BY <1>1, <1>2, <1>3 DEF SessionInv, SessionCoherent, SessionIsChosen

\* A session of u begins, with u's token; every renewal under way is on record.
LEMMA SessionBegins ==
  ASSUME SessionInv, NEW u \in People, NEW n \in Nat,
         NEW r \in {Made(u, n), NoToken}, SetSession(u, Made(u, n), r), Begins(u), chosen' = u, undone' = (undone \/ refreshing),
         UNCHANGED refreshing,
         call' \in [Calls -> CallRec], good' \subseteq Token, issued' \in Nat,
         \A k \in Calls : call'[k].pc = "refreshing" => call'[k] = call[k],
         \A k \in Calls : RefreshingFor(k, u)' => RefreshingFor(k, u)
  PROVE  SessionInv'
<1>1. Made(u, n) \in Token /\ Made(u, n).owner = u
  BY MadeType
<1>2. session'.user = u /\ session'.access = Made(u, n) /\ session'.refresh = r
  BY DEF SetSession
<1>3. SessionTypeOK'
  BY <1>1 DEF SessionInv, SessionTypeOK, CallRec, CallFields, CallPc, SetSession
<1>4. mixed' \in BOOLEAN /\ (mixed => mixed') /\ undone' \in BOOLEAN /\ (undone \/ refreshing => undone')
  BY DEF SessionInv, SessionTypeOK, Begins
<1>5. RenewalInv'
  BY <1>4 DEF SessionInv, RenewalInv
<1>6. \A k \in Calls : RefreshingFor(k, u) => mixed'
  BY DEF Begins
<1>7. OwnRefresh'
  BY <1>2, <1>6 DEF OwnRefresh
<1>8. SessionCoherent' /\ SessionIsChosen' /\ u # Nobody
  BY <1>1, <1>2, SessionAssumption DEF SessionCoherent, SessionIsChosen
<1> QED
  BY <1>2, <1>3, <1>4, <1>5, <1>7, <1>8 DEF SessionInv

\* The store has nobody any more, and no renewal begins.
LEMMA SessionEnds ==
  ASSUME SessionInv, ClearSession, UNCHANGED mixed, undone' \in BOOLEAN, refreshing' \in BOOLEAN,
         call' \in [Calls -> CallRec], good' \subseteq Token, issued' \in Nat,
         RenewalInv', chosen' \in {chosen, Nobody}
  PROVE  SessionInv'
<1>1. session'.user = Nobody /\ session'.access = NoToken /\ session'.refresh = NoToken
  BY DEF ClearSession, SignedOut
<1>2. SessionTypeOK'
  BY <1>1 DEF SessionInv, SessionTypeOK, CallRec, CallFields, CallPc, ClearSession, SignedOut
<1>3. OwnRefresh' /\ SessionCoherent' /\ SessionIsChosen'
  BY <1>1 DEF OwnRefresh, SessionCoherent, SessionIsChosen
<1> QED
  BY <1>1, <1>2, <1>3 DEF SessionInv

LEMMA SessionSends ==
  ASSUME SessionInv, NEW c \in Calls, SendRead(c) \/ SendRefresh(c) \/ \E u \in People : SendLogin(c, u)
  PROVE  SessionInv'
<1>1. PICK kind \in {"read", "login", "refresh"}, u \in People \cup {Nobody} :
         /\ call' = [call EXCEPT ![c] = Sent(kind, u)]
         /\ kind = "login" => u \in People
         /\ kind = "refresh" => u = Nobody \/ (session.refresh # NoToken /\ u = session.refresh.owner)
  <2>1. session.user \in People \cup {Nobody} /\ (session.refresh # NoToken => session.refresh.owner \in People)
    BY TokenOwner DEF SessionInv, SessionTypeOK
  <2>2. CASE SendRead(c)
    BY <2>1, <2>2 DEF SendRead
  <2>3. CASE SendRefresh(c)
    <3> DEFINE u == IF session.refresh.no > 0 THEN session.refresh.owner ELSE Nobody
    <3>1. call' = [call EXCEPT ![c] = Sent("refresh", u)] /\ session.refresh # NoToken
      BY <2>3 DEF SendRefresh
    <3>2. u \in People \cup {Nobody} /\ (u = Nobody \/ u = session.refresh.owner)
      BY <2>1, <3>1
    <3> HIDE DEF u
    <3> QED
      BY <3>1, <3>2
  <2>4. ASSUME NEW u \in People, SendLogin(c, u)
        PROVE  call' = [call EXCEPT ![c] = Sent("login", u)]
    BY <2>4 DEF SendLogin
  <2> QED
    BY <2>2, <2>3, <2>4
<1>2. UNCHANGED <<session, refreshing, good, issued, chosen, undone, mixed>>
  BY DEF SendRead, SendRefresh, SendLogin
<1> DEFINE h == Sent(kind, u)
<1>3. h \in CallRec /\ h.pc = "sent" /\ h.kind = kind /\ h.as = u
  BY <1>1, <1>2 DEF Sent, CallRec, CallFields, CallPc, SessionInv, SessionTypeOK
<1> HIDE DEF h
<1>4. call' \in [Calls -> CallRec] /\ call'[c] = h /\ \A k \in Calls \ {c} : call'[k] = call[k]
  BY <1>1, <1>3, CallMove DEF SessionInv, h
<1>5. \A k \in Calls : call'[k].pc = "refreshing" => call'[k] = call[k]
  BY <1>3, <1>4
<1>6. RefreshingFor(c, session.user)' => mixed
  BY <1>1, <1>2, <1>3, <1>4 DEF RefreshingFor, SessionInv, SessionCoherent
<1>7. \A k \in Calls : RefreshingFor(k, session.user)' => mixed \/ session.user = Nobody \/ RefreshingFor(k, session.user)
  BY <1>2, <1>4, <1>6 DEF RefreshingFor
<1> QED
  BY <1>2, <1>4, <1>5, <1>7, SessionStays DEF SessionInv, SessionTypeOK

LEMMA IssuesType ==
  ASSUME SessionInv, NEW u \in People, Issues(u)
  PROVE  issued' \in Nat /\ issued' = issued + 1 /\ good' \subseteq Token
  BY MadeType DEF SessionInv, SessionTypeOK, Issues

LEMMA SessionAnswers ==
  ASSUME SessionInv, NEW c \in Calls, LoginAnswered(c) \/ RefreshAnswered(c)
  PROVE  SessionInv'
<1>1. /\ call[c].pc = "sent" /\ call' = [call EXCEPT ![c].pc = "ok"]
      /\ Issues(call[c].as) /\ UNCHANGED refreshing
  BY DEF LoginAnswered, RefreshAnswered
<1>2. /\ call' \in [Calls -> CallRec] /\ call'[c].pc = "ok"
      /\ \A k \in Calls \ {c} : call'[k] = call[k]
      /\ \A u : \A k \in Calls : RefreshingFor(k, u)' => RefreshingFor(k, u)
  BY <1>1, CallPasses
<1>3. \A k \in Calls : call'[k].pc = "refreshing" => call'[k] = call[k]
  BY <1>2
<1>4. call[c].as \in People \cup {Nobody} /\ session.user \in People \cup {Nobody} /\ issued \in Nat
  BY DEF SessionInv, SessionTypeOK
<1>5. CASE LoginAnswered(c)
  <2>1. call[c].as \in People
    BY <1>5 DEF LoginAnswered, SessionInv, CallRec
  <2>2. /\ Begins(call[c].as) /\ chosen' = call[c].as /\ undone' = (undone \/ refreshing)
        /\ \E r \in {Made(call[c].as, issued + 1), NoToken} : SetSession(call[c].as, Made(call[c].as, issued + 1), r)
    BY <1>5 DEF LoginAnswered, Chooses
  <2> QED
    BY <1>1, <1>2, <1>3, <1>4, <2>1, <2>2, IssuesType, SessionBegins
<1>6. CASE RefreshAnswered(c)
  <2>1. UNCHANGED <<refreshing, chosen, undone, mixed>> /\ call[c].kind = "refresh" /\ call[c].as \in People
    BY <1>4, <1>6 DEF RefreshAnswered
  <2>2. issued' \in Nat /\ good' \subseteq Token
    BY <1>1, <2>1, IssuesType
  <2>3. CASE UNCHANGED session
    BY <1>2, <1>3, <2>1, <2>2, <2>3, SessionStays
  <2>4. CASE session.user # Nobody /\ SetSession(session.user, Made(call[c].as, issued + 1), Made(call[c].as, issued + 1))
    <3> DEFINE t == Made(call[c].as, issued + 1)
    <3>1. t \in Token /\ t.owner = call[c].as
      BY <1>4, <2>1, MadeType
    <3>2. session'.user = session.user /\ session'.access = t /\ session'.refresh = t
      BY <2>4 DEF SetSession
    <3>3. session' \in Store
      BY <1>4, <2>4, <3>1 DEF SetSession, Store
    <3> HIDE DEF t
    <3>4. mixed \/ call[c].as = session.user
      BY <1>1, <2>1, <2>4, SessionAssumption DEF SessionInv, OwnRefresh, RefreshingFor
    <3>5. SessionTypeOK'
      BY <1>2, <2>1, <2>2, <3>3 DEF SessionInv, SessionTypeOK, CallRec, CallFields, CallPc, Store
    <3>6. RenewalInv'
      BY <1>3, <2>1 DEF SessionInv, RenewalInv
    <3>7. OwnRefresh'
      BY <1>2, <2>1, <3>2 DEF SessionInv, OwnRefresh
    <3>8. SessionCoherent' /\ SessionIsChosen'
      BY <2>1, <3>1, <3>2, <3>4 DEF SessionInv, SessionCoherent, SessionIsChosen
    <3> QED
      BY <1>2, <2>1, <2>2, <2>4, <3>2, <3>5, <3>6, <3>7, <3>8 DEF SessionInv
  <2> QED
    BY <1>6, <2>3, <2>4 DEF RefreshAnswered, RefreshedUser
<1> QED
  BY <1>5, <1>6

LEMMA SessionRenewalBegins ==
  ASSUME SessionInv, NEW c \in Calls, StartRefresh(c)
  PROVE  SessionInv'
<1>1. /\ call[c].pc = "sent" /\ session.refresh # NoToken /\ ~refreshing /\ refreshing' = TRUE
      /\ UNCHANGED <<session, good, issued, chosen, undone, mixed>>
  BY DEF StartRefresh, Refused
<1> DEFINE h == [call[c] EXCEPT !.pc = "refreshing", !.retry = TRUE, !.token = session.refresh, !.user = session.user]
<1>2. /\ session.refresh \in Token /\ session.user \in People /\ call[c] \in CallRec
  BY <1>1 DEF SessionInv, SessionTypeOK
<1>3. /\ h \in CallRec /\ h.pc = "refreshing" /\ h.kind = call[c].kind /\ h.as = call[c].as
      /\ h.token = session.refresh /\ h.user = session.user
  BY <1>2 DEF CallRec, CallFields, CallPc
<1>4. call' = [call EXCEPT ![c] = h]
  BY DEF StartRefresh
<1> HIDE DEF h
<1>5. call' \in [Calls -> CallRec] /\ call'[c] = h /\ \A k \in Calls \ {c} : call'[k] = call[k]
  BY <1>3, <1>4, CallMove DEF SessionInv
<1>6. SessionTypeOK'
  BY <1>1, <1>5 DEF SessionInv, SessionTypeOK, CallRec, CallFields, CallPc
<1>7. \A k \in Calls : call'[k].pc = "refreshing" => k = c
  BY <1>1, <1>5 DEF SessionInv, RenewalInv
<1>8. (mixed \/ session.refresh.owner = session.user) /\ (undone \/ session.user = chosen)
  BY <1>1, <1>2, SessionAssumption DEF SessionInv, SessionCoherent, SessionIsChosen
<1>9. RenewalInv'
  BY <1>1, <1>2, <1>3, <1>5, <1>7, <1>8 DEF RenewalInv
<1>10. OwnRefresh'
  BY <1>1, <1>3, <1>5 DEF SessionInv, OwnRefresh, RefreshingFor
<1> QED
  BY <1>1, <1>5, <1>6, <1>9, <1>10 DEF SessionInv, SessionCoherent, SessionIsChosen

LEMMA SessionRenewalEnds ==
  ASSUME SessionInv, NEW c \in Calls, RefreshSucceeds(c) \/ RefreshFails(c)
  PROVE  SessionInv'
<1>1. call[c].pc = "refreshing" /\ refreshing' = FALSE /\ UNCHANGED <<chosen, undone>>
  BY DEF RefreshSucceeds, RefreshFails
<1>2. \A k \in Calls : call[k].pc = "refreshing" => k = c
  BY <1>1 DEF SessionInv, RenewalInv
<1>3. /\ call[c].user \in People /\ call[c].token \in Token /\ call[c].token.owner \in People
      /\ mixed \/ call[c].token.owner = call[c].user
      /\ undone \/ call[c].user = chosen
  BY <1>1, TokenOwner DEF SessionInv, RenewalInv
<1>4. CASE RefreshFails(c)
  <2>1. call' = [k \in Calls |-> IF k \in Flushed \cup {c} THEN [call[k] EXCEPT !.pc = "failed"] ELSE call[k]]
    BY <1>4 DEF RefreshFails
  <2>2. \A k \in Calls : call'[k] \in CallRec /\ call'[k].pc # "refreshing"
    BY <1>2, <2>1, CallPcSet DEF SessionInv, CallPc
  <2>3. call' \in [Calls -> CallRec] /\ RenewalInv'
    BY <2>1, <2>2 DEF RenewalInv
  <2> QED
    BY <1>1, <1>4, <2>3, SessionEnds DEF RefreshFails, SessionInv, SessionTypeOK
<1>5. CASE RefreshSucceeds(c)
  <2> DEFINE t == Made(call[c].token.owner, issued + 1)
  <2>1. /\ Issues(call[c].token.owner) /\ SetSession(call[c].user, t, t) /\ Begins(call[c].user)
        /\ call' = [k \in Calls |-> IF k \in Flushed \cup {c} THEN [call[k] EXCEPT !.pc = "sent", !.token = session'.access]
                                    ELSE call[k]]
    BY <1>5 DEF RefreshSucceeds, RenewedUser
  <2>2. issued' \in Nat /\ good' \subseteq Token /\ t \in Token /\ t.owner = call[c].token.owner
    BY <1>3, <2>1, IssuesType, MadeType DEF SessionInv
  <2> HIDE DEF t
  <2>3. session'.user = call[c].user /\ session'.access = t /\ session'.refresh = t /\ session' \in Store
    BY <1>3, <2>1, <2>2 DEF SetSession, Store
  <2>4. \A k \in Calls : /\ call'[k] \in CallRec /\ call'[k].pc # "refreshing"
                         /\ call'[k].kind = call[k].kind /\ call'[k].as = call[k].as
                         /\ call'[k].pc \notin {"new", "ok", "failed"} => call[k].pc \notin {"new", "ok", "failed"}
    <3> SUFFICES ASSUME NEW k \in Calls
                 PROVE  /\ call'[k] \in CallRec /\ call'[k].pc # "refreshing"
                        /\ call'[k].kind = call[k].kind /\ call'[k].as = call[k].as
                        /\ call'[k].pc \notin {"new", "ok", "failed"} => call[k].pc \notin {"new", "ok", "failed"}
      OBVIOUS
    <3>1. call[k] \in CallRec
      BY DEF SessionInv
    <3>2. CASE k \in Flushed \cup {c}
      <4>1. call'[k] = [call[k] EXCEPT !.pc = "sent", !.token = t]
        BY <2>1, <2>3, <3>2
      <4>2. call[k].pc \in {"queued", "refreshing"}
        BY <1>1, <3>2 DEF Flushed
      <4> QED
        BY <2>2, <3>1, <4>1, <4>2 DEF CallRec, CallFields, CallPc
    <3>3. CASE k \notin Flushed \cup {c}
      BY <1>2, <2>1, <3>1, <3>3
    <3> QED
      BY <3>2, <3>3
  <2>5. call' \in [Calls -> CallRec] /\ RenewalInv'
    BY <2>1, <2>4 DEF RenewalInv
  <2>6. mixed' \in BOOLEAN /\ (mixed => mixed') /\ \A k \in Calls : RefreshingFor(k, call[c].user) => mixed'
    BY <2>1 DEF SessionInv, Begins
  <2>7. OwnRefresh'
    BY <2>3, <2>4, <2>6 DEF OwnRefresh, RefreshingFor
  <2>8. SessionTypeOK'
    BY <1>1, <2>2, <2>3, <2>5 DEF SessionTypeOK, Store, CallRec, CallFields, CallPc
  <2>9. SessionCoherent' /\ SessionIsChosen'
    BY <1>1, <1>3, <2>2, <2>3, <2>6 DEF SessionCoherent, SessionIsChosen
  <2> QED
    BY <1>1, <1>3, <2>2, <2>3, <2>5, <2>6, <2>7, <2>8, <2>9, SessionAssumption DEF SessionInv
<1> QED
  BY <1>4, <1>5

LEMMA SessionInvNext == SessionInv /\ [SessionNext]_sessionVars => SessionInv'
<1> SUFFICES ASSUME SessionInv, [SessionNext]_sessionVars PROVE SessionInv'
  OBVIOUS
<1>1. ASSUME NEW u \in People, PageSignIn(u) PROVE SessionInv'
  <2>1. /\ SetSession(u, Made(u, 0), Made(u, 0)) /\ Begins(u) /\ chosen' = u /\ undone' = (undone \/ refreshing)
        /\ UNCHANGED <<refreshing, call, good, issued>>
    BY <1>1 DEF PageSignIn, Chooses
  <2>2. \A k \in Calls : call'[k] = call[k] /\ (RefreshingFor(k, u)' => RefreshingFor(k, u))
    BY <2>1 DEF RefreshingFor
  <2> QED
    BY <2>1, <2>2, SessionBegins DEF SessionInv, SessionTypeOK
<1>2. CASE SignOut
  <2>1. /\ ClearSession /\ chosen' = Nobody /\ undone' = (undone \/ refreshing)
        /\ UNCHANGED <<refreshing, call, good, issued, mixed>>
    BY <1>2 DEF SignOut, Chooses
  <2>2. RenewalInv'
    BY <2>1 DEF SessionInv, RenewalInv
  <2> QED
    BY <2>1, <2>2, SessionEnds DEF SessionInv, SessionTypeOK
<1>3. ASSUME NEW c \in Calls, NEW pc \in {"ok", "failed", "queued"}, call[c].pc = "sent",
             call' = [call EXCEPT ![c].pc = pc],
             UNCHANGED <<session, refreshing, good, issued, chosen, undone, mixed>>
      PROVE  SessionInv'
  <2>1. \A k \in Calls : call'[k].pc = "refreshing" => call'[k] = call[k]
    BY <1>3, CallPasses
  <2> QED
    BY <1>3, <2>1, CallPasses, SessionStays DEF SessionInv, SessionTypeOK
<1>4. ASSUME NEW c \in Calls, ReadAnswered(c) \/ CallFails(c) \/ RefusedAgain(c) \/ Queued(c) PROVE SessionInv'
  BY <1>3, <1>4 DEF ReadAnswered, CallFails, RefusedAgain, Queued, Refused
<1>5. ASSUME NEW c \in Calls, RefusedSignedOut(c) PROVE SessionInv'
  <2>1. /\ call[c].pc = "sent" /\ call' = [call EXCEPT ![c].pc = "failed"] /\ ClearSession
        /\ UNCHANGED <<refreshing, good, issued, chosen, undone, mixed>>
    BY <1>5 DEF RefusedSignedOut, Refused
  <2>2. call' \in [Calls -> CallRec] /\ \A k \in Calls : call'[k].pc = "refreshing" => call'[k] = call[k]
    BY <2>1, CallPasses
  <2>3. RenewalInv'
    BY <2>1, <2>2 DEF SessionInv, RenewalInv
  <2> QED
    BY <2>1, <2>2, <2>3, SessionEnds DEF SessionInv, SessionTypeOK
<1>6. CASE AccessExpires \/ UNCHANGED sessionVars
  <2>1. UNCHANGED <<session, refreshing, call, issued, chosen, undone, mixed>> /\ good' \subseteq Token
    BY <1>6 DEF AccessExpires, sessionVars, SessionInv, SessionTypeOK
  <2> QED
    BY <2>1, SessionStays DEF SessionInv, RefreshingFor
<1> QED
  BY <1>1, <1>2, <1>4, <1>5, <1>6, SessionSends, SessionAnswers, SessionRenewalBegins, SessionRenewalEnds
     DEF SessionNext, Settle

\* useAuth, the auth store and the interceptors of apiClient, for any users, calls and tokens:
\* the store's tokens are those of its user, who is the one who signed in last, or it has
\* nobody; unless a session began, or was ended, while a renewal for another was under way.
THEOREM SessionKept == SessionSpec => []SessionIsUsers
<1>1. SessionInv => SessionIsUsers
  BY DEF SessionInv, SessionIsUsers
<1> QED
  BY SessionInvInit, SessionInvNext, <1>1, PTL DEF SessionSpec

-----------------------------------------------------------------------------
(* The forms that wait for the server: trades, portfolios, tickers. *)

Pending(s) == submit[s].pc \in {"sent", "stored"}

\* A form holds what was written in it last, or nothing; what is on its way from a form that
\* was not written in since is that, too.
EntryInv ==
    /\ EntryTypeOK
    /\ \A f \in Forms : entry[f] \in {wrote[f], Empty}
    /\ \A s \in Submits : submit[s].pc = "stored" => HasRow(s)
    /\ \A s \in recorded : submit[s].pc \notin {"new", "sent"}
    /\ \A s \in Submits : Pending(s) => submit[s].form \in overtaken \/ submit[s].text = wrote[submit[s].form]
    /\ WrittenStays

LEMMA EntryInvInit == EntryInit => EntryInv
  BY DEF EntryInit, EntryInv, EntryTypeOK, WrittenStays, Pending, NotSent, Forms

\* A press that goes from one step to the next keeps its form and its text.
LEMMA SubmitMoves ==
  ASSUME EntryInv, NEW s \in Submits, NEW pc \in {"stored", "ok", "failed"},
         submit' = [submit EXCEPT ![s].pc = pc]
  PROVE  /\ submit' \in [Submits -> [pc : {"new", "sent", "stored", "ok", "failed"}, form : Forms,
                                     text : Texts \cup {Empty}]]
         /\ submit'[s].pc = pc
         /\ \A r \in Submits \ {s} : submit'[r] = submit[r]
         /\ \A r \in Submits : submit'[r].form = submit[r].form /\ submit'[r].text = submit[r].text
  BY DEF EntryInv, EntryTypeOK

LEMMA EntryWrites ==
  ASSUME EntryInv, NEW f \in Forms, NEW t \in Texts, Write(f, t)
  PROVE  EntryInv'
<1>1. /\ entry' = [entry EXCEPT ![f] = t] /\ wrote' = [wrote EXCEPT ![f] = t]
      /\ UNCHANGED <<shown, submit, recorded, views, told, busy>>
      /\ overtaken' = IF OnItsWay(f) THEN overtaken \cup {f} ELSE overtaken
  BY DEF Write, pretendedVars
<1>2. EntryTypeOK'
  BY <1>1 DEF EntryInv, EntryTypeOK
<1>3. \A g \in Forms : entry'[g] \in {wrote'[g], Empty} /\ (g # f => entry'[g] = entry[g] /\ wrote'[g] = wrote[g])
  BY <1>1 DEF EntryInv, EntryTypeOK
<1>4. entry'[f] = wrote'[f]
  BY <1>1 DEF EntryInv, EntryTypeOK
<1>5. ASSUME NEW s \in Submits, Pending(s)'
      PROVE  submit'[s].form \in overtaken' \/ submit'[s].text = wrote'[submit'[s].form]
  <2>1. Pending(s) /\ submit'[s] = submit[s] /\ submit[s].form \in Forms
    BY <1>1, <1>5 DEF Pending, EntryInv, EntryTypeOK
  <2>2. CASE submit[s].form = f
    BY <1>1, <2>1, <2>2 DEF OnItsWay, Pending
  <2>3. CASE submit[s].form # f
    BY <1>1, <1>3, <2>1, <2>3 DEF EntryInv
  <2> QED
    BY <2>2, <2>3
<1>6. WrittenStays'
  BY <1>1, <1>3, <1>4 DEF EntryInv, WrittenStays
<1>7. \A s \in Submits : submit'[s].pc = "stored" => HasRow(s)'
  BY <1>1 DEF EntryInv, HasRow
<1>8. \A s \in recorded' : submit'[s].pc \notin {"new", "sent"}
  BY <1>1 DEF EntryInv
<1> QED
  BY <1>2, <1>3, <1>5, <1>6, <1>7, <1>8 DEF EntryInv

\* Whoever presses has something in the form, and that is what was written last.
LEMMA EntryPresses ==
  ASSUME EntryInv, NEW s \in Submits, NEW f \in Forms, Press(s, f)
  PROVE  EntryInv'
<1> DEFINE h == [pc |-> "sent", form |-> f, text |-> entry[f]]
<1>1. /\ submit[s].pc = "new" /\ submit' = [submit EXCEPT ![s] = h] /\ entry[f] # Empty
      /\ UNCHANGED <<entry, shown, recorded, views, wrote, overtaken, told, busy>>
  BY DEF Press, pretendedVars
<1>2. entry[f] = wrote[f] /\ s \notin recorded
  BY <1>1 DEF EntryInv
<1>3. EntryTypeOK' /\ submit'[s] = h /\ \A r \in Submits \ {s} : submit'[r] = submit[r]
  BY <1>1 DEF EntryInv, EntryTypeOK
<1>4. \A r \in recorded : submit'[r] = submit[r]
  BY <1>2, <1>3 DEF EntryInv, EntryTypeOK
<1>5. \A r \in Submits : submit'[r].pc = "stored" => HasRow(r)'
  BY <1>1, <1>3, <1>4 DEF EntryInv, HasRow
<1>6. \A r \in Submits : Pending(r)' => submit'[r].form \in overtaken \/ submit'[r].text = wrote[submit'[r].form]
  BY <1>2, <1>3 DEF EntryInv, Pending
<1>7. WrittenStays'
  BY <1>1, <1>4 DEF EntryInv, WrittenStays
<1> QED
  BY <1>1, <1>3, <1>4, <1>5, <1>6, <1>7 DEF EntryInv

LEMMA EntryRecorded ==
  ASSUME EntryInv, NEW s \in Submits, Recorded(s)
  PROVE  EntryInv'
<1>1. /\ submit[s].pc = "sent" /\ submit' = [submit EXCEPT ![s].pc = "stored"]
      /\ recorded' = recorded \cup {s} \/ (recorded' = recorded /\ HasRow(s))
      /\ UNCHANGED <<entry, shown, views, wrote, overtaken, told, busy>>
  BY DEF Recorded, pretendedVars
<1>2. /\ submit' \in [Submits -> [pc : {"new", "sent", "stored", "ok", "failed"}, form : Forms, text : Texts \cup {Empty}]]
      /\ submit'[s].pc = "stored"
      /\ \A r \in Submits \ {s} : submit'[r] = submit[r]
      /\ \A r \in Submits : submit'[r].form = submit[r].form /\ submit'[r].text = submit[r].text
  BY <1>1, SubmitMoves
<1>3. \A r \in Submits : Pending(r)' => Pending(r)
  BY <1>1, <1>2 DEF Pending
<1>4. recorded \subseteq recorded' /\ recorded' \subseteq recorded \cup {s} /\ recorded \subseteq Submits
  BY <1>1 DEF EntryInv, EntryTypeOK
<1>5. EntryTypeOK' /\ WrittenStays'
  BY <1>1, <1>2, <1>4 DEF EntryInv, EntryTypeOK, WrittenStays
<1>6. HasRow(s)' /\ \A r \in Submits : HasRow(r) => HasRow(r)'
  BY <1>1, <1>2, <1>4 DEF HasRow
<1>7. \A r \in Submits : submit'[r].pc = "stored" => HasRow(r)'
  BY <1>2, <1>6 DEF EntryInv
<1>8. \A r \in recorded' : submit'[r].pc \notin {"new", "sent"}
  BY <1>2, <1>4 DEF EntryInv
<1> QED
  BY <1>1, <1>2, <1>3, <1>5, <1>7, <1>8 DEF EntryInv

\* The success empties the form of a press that the server has on record.
LEMMA EntrySucceeds ==
  ASSUME EntryInv, NEW s \in Submits, Succeeds(s), shown' \in [Forms -> BOOLEAN]
  PROVE  EntryInv'
<1> DEFINE f == submit[s].form
<1>1. /\ submit[s].pc = "stored" /\ submit' = [submit EXCEPT ![s].pc = "ok"] /\ entry' = [entry EXCEPT ![f] = Empty]
      /\ UNCHANGED <<recorded, views, wrote, overtaken, told, busy>>
  BY DEF Succeeds, pretendedVars
<1>2. /\ submit' \in [Submits -> [pc : {"new", "sent", "stored", "ok", "failed"}, form : Forms, text : Texts \cup {Empty}]]
      /\ submit'[s].pc = "ok"
      /\ \A r \in Submits \ {s} : submit'[r] = submit[r]
      /\ \A r \in Submits : submit'[r].form = submit[r].form /\ submit'[r].text = submit[r].text
  BY <1>1, SubmitMoves
<1>3. f \in Forms /\ HasRow(s) /\ (f \in overtaken \/ submit[s].text = wrote[f])
  BY <1>1 DEF EntryInv, EntryTypeOK, Pending
<1>4. entry' \in [Forms -> Texts \cup {Empty}] /\ entry'[f] = Empty /\ \A g \in Forms \ {f} : entry'[g] = entry[g]
  BY <1>1, <1>3 DEF EntryInv, EntryTypeOK
<1>5. \A r \in Submits : Pending(r)' => Pending(r)
  BY <1>2 DEF Pending
<1>6. EntryTypeOK'
  BY <1>1, <1>2, <1>4 DEF EntryInv, EntryTypeOK
<1>7. recorded \subseteq Submits
  BY DEF EntryInv, EntryTypeOK
<1> HIDE DEF f
<1>8. WrittenStays'
  BY <1>1, <1>2, <1>3, <1>4, <1>7 DEF EntryInv, WrittenStays, HasRow, f
<1>9. \A g \in Forms : entry'[g] \in {wrote'[g], Empty}
  BY <1>1, <1>4 DEF EntryInv
<1>10. \A r \in Submits : submit'[r].pc = "stored" => HasRow(r)'
  BY <1>1, <1>2, <1>7 DEF EntryInv, HasRow
<1>11. \A r \in recorded' : submit'[r].pc \notin {"new", "sent"}
  BY <1>1, <1>2, <1>7 DEF EntryInv
<1>12. \A r \in Submits : Pending(r)' => submit'[r].form \in overtaken' \/ submit'[r].text = wrote'[submit'[r].form]
  BY <1>1, <1>2, <1>5 DEF EntryInv
<1> QED
  BY <1>6, <1>8, <1>9, <1>10, <1>11, <1>12 DEF EntryInv

LEMMA EntryFails ==
  ASSUME EntryInv, NEW s \in Submits, Fails(s)
  PROVE  EntryInv'
<1>1. /\ submit[s].pc \in {"sent", "stored"} /\ submit' = [submit EXCEPT ![s].pc = "failed"]
      /\ UNCHANGED <<entry, shown, recorded, views, wrote, overtaken, told, busy>>
  BY DEF Fails, AfterFailure, pretendedVars
<1>2. /\ submit' \in [Submits -> [pc : {"new", "sent", "stored", "ok", "failed"}, form : Forms, text : Texts \cup {Empty}]]
      /\ submit'[s].pc = "failed"
      /\ \A r \in Submits \ {s} : submit'[r] = submit[r]
      /\ \A r \in Submits : submit'[r].form = submit[r].form /\ submit'[r].text = submit[r].text
  BY <1>1, SubmitMoves
<1>3. \A r \in Submits : Pending(r)' => Pending(r)
  BY <1>2 DEF Pending
<1>4. EntryTypeOK' /\ WrittenStays'
  BY <1>1, <1>2 DEF EntryInv, EntryTypeOK, WrittenStays
<1>5. \A r \in Submits : submit'[r].pc = "stored" => HasRow(r)'
  BY <1>1, <1>2 DEF EntryInv, EntryTypeOK, HasRow
<1> QED
  BY <1>1, <1>2, <1>3, <1>4, <1>5 DEF EntryInv, EntryTypeOK

LEMMA EntryInvNext == EntryInv /\ [EntryNext]_entryVars => EntryInv'
<1> SUFFICES ASSUME EntryInv, [EntryNext]_entryVars PROVE EntryInv'
  OBVIOUS
<1>1. ASSUME /\ UNCHANGED <<entry, submit, recorded, wrote, overtaken>>
             /\ shown' \in [Forms -> BOOLEAN] /\ told' \subseteq Pretended /\ busy' \subseteq Pretended
      PROVE  EntryInv'
  BY <1>1 DEF EntryInv, EntryTypeOK, WrittenStays, Pending, HasRow
<1>2. shown \in [Forms -> BOOLEAN] /\ told \subseteq Pretended /\ busy \subseteq Pretended
  BY DEF EntryInv, EntryTypeOK
<1>3. ASSUME NEW f \in Forms, OpenOrClose(f) PROVE EntryInv'
  BY <1>1, <1>2, <1>3 DEF OpenOrClose, pretendedVars
<1>4. ASSUME NEW s \in Submits, PressTrade(s) \/ PressPortfolio(s) \/ PressTicker(s) PROVE EntryInv'
  BY <1>4, EntryPresses DEF PressTrade, PressPortfolio, PressTicker, Forms
<1>5. ASSUME NEW s \in Submits, TradeRecorded(s) \/ PortfolioCreated(s) \/ TickerAdded(s) PROVE EntryInv'
  <2>1. Succeeds(s) /\ shown' \in [Forms -> BOOLEAN]
    BY <1>2, <1>5 DEF TradeRecorded, PortfolioCreated, TickerAdded
  <2> QED
    BY <2>1, EntrySucceeds
<1>6. ASSUME NEW x \in Pretended, Pretend(x) \/ Pretends(x) PROVE EntryInv'
  BY <1>1, <1>2, <1>6 DEF Pretend, Pretends
<1>7. CASE PretendWatchlist \/ PretendAlert
  BY <1>1, <1>2, <1>7 DEF PretendWatchlist, PretendAlert, Pretended
<1>8. CASE UNCHANGED entryVars
  BY <1>1, <1>2, <1>8 DEF entryVars
<1> QED
  BY <1>3, <1>4, <1>5, <1>6, <1>7, <1>8, EntryWrites, EntryRecorded, EntryFails DEF EntryNext

-----------------------------------------------------------------------------
(* The form of the alerts. *)

DialogRec == [open : BOOLEAN, target : Alerts \cup {NewAlert}, held : Form, begun : Form,
              type : AlertTypes, condition : Conditions, sent : BOOLEAN]
PressRec == [pc : {"new", "sent", "stored", "ok", "failed"}, target : Alerts \cup {NewAlert}, body : Form]

\* An id that the dialog or a request names has been an alert, and is never made again.
NamesKnown ==
    /\ \A a \in Rows : shownAs[a] # NoRow
    /\ dialog.target # NewAlert => shownAs[dialog.target] # NoRow
    /\ \A p \in Presses : press[p].target # NewAlert => shownAs[press[p].target] # NoRow /\ press[p].pc # "new"

\* Until a save resets the form, its menus show what it holds.
MenusAgree == dialog.sent \/ (dialog.held.type = dialog.type /\ dialog.held.condition = dialog.condition)

\* One edit of an alert is on its way at a time, and it has what the form showed; when none is,
\* and none was lost, the row is what the form showed.
EditInv ==
    \A a \in Alerts \ reset :
        /\ \A p \in Presses : (press[p].pc = "sent" /\ press[p].target = a) =>
              /\ press[p].body = shownAs[a]
              /\ \A q \in Presses : press[q].pc = "sent" /\ press[q].target = a => q = p
        /\ (a \in Rows /\ \A p \in Presses : press[p].target = a => press[p].pc \in {"stored", "ok"})
              => saved[a] = shownAs[a]

FormInv ==
    /\ FormTypeOK /\ shownAs \in [Alerts -> Form \cup {NoRow}]
    /\ NamesKnown /\ MenusAgree /\ EditInv

LEMMA FormTypes ==
  FormTypeOK <=> /\ saved \in [Alerts -> Form \cup {NoRow}] /\ dialog \in DialogRec
                 /\ press \in [Presses -> PressRec] /\ reset \subseteq Alerts
  BY DEF FormTypeOK, DialogRec, PressRec

LEMMA DefaultsFit == Defaults \in Form
  BY FormAssumption DEF Defaults, Form, AssetTexts, Thresholds3

LEMMA FormInvInit == FormInit => FormInv
<1> SUFFICES ASSUME FormInit PROVE FormInv
  OBVIOUS
<1>1. saved \in [Alerts -> Form \cup {NoRow}]
  BY DEF FormInit
<1>2. dialog \in DialogRec /\ press \in [Presses -> PressRec]
  BY DefaultsFit, FormAssumption DEF FormInit, Closed, NotPressed, DialogRec, PressRec, Form, Defaults
<1>3. NamesKnown
  BY <1>1 DEF FormInit, NamesKnown, Rows, Closed, NotPressed
<1>4. MenusAgree /\ EditInv
  BY DEF FormInit, MenusAgree, EditInv, Closed, NotPressed, Defaults
<1> QED
  BY <1>1, <1>2, <1>3, <1>4, FormTypes DEF FormInit, FormInv

\* What happens in the dialog alone.
LEMMA DialogMoves ==
  ASSUME FormInv, dialog' \in DialogRec, dialog'.target = NewAlert \/ shownAs[dialog'.target] # NoRow, MenusAgree',
         UNCHANGED <<saved, press, shownAs, reset>>
  PROVE  FormInv'
<1>1. FormTypeOK' <=> /\ saved' \in [Alerts -> Form \cup {NoRow}] /\ dialog' \in DialogRec
                      /\ press' \in [Presses -> PressRec] /\ reset' \subseteq Alerts
  BY DEF FormTypeOK, DialogRec, PressRec
<1>2. FormTypeOK'
  BY <1>1, FormTypes DEF FormInv
<1> QED
  BY <1>2 DEF FormInv, NamesKnown, EditInv, Rows

LEMMA DialogBegins ==
  ASSUME FormInv, NEW target \in Rows \cup {NewAlert}, Begin(target), UNCHANGED <<saved, press, shownAs, reset>>
  PROVE  FormInv'
<1> DEFINE f == Filled(target)
<1>1. f \in Form
  BY DefaultsFit, FormTypes, FormAssumption DEF Filled, Rows, FormInv
<1>2. dialog' = [open |-> TRUE, target |-> target, held |-> f, begun |-> f, type |-> f.type, condition |-> f.condition,
                 sent |-> FALSE]
  BY DEF Begin
<1> HIDE DEF f
<1>3. dialog' \in DialogRec
  BY <1>1, <1>2 DEF DialogRec, Form, Rows
<1>4. MenusAgree' /\ (dialog'.target = NewAlert \/ shownAs[dialog'.target] # NoRow)
  BY <1>2 DEF MenusAgree, FormInv, NamesKnown
<1> QED
  BY <1>3, <1>4, DialogMoves

LEMMA DialogWritten ==
  ASSUME FormInv, \/ \E t \in AlertTypes : PickType(t)
                  \/ \E c \in Conditions : PickCondition(c)
                  \/ \E x \in AssetTexts : WriteAsset(x)
                  \/ \E v \in Thresholds3 : WriteThreshold(v)
  PROVE  FormInv'
<1>0. dialog \in DialogRec /\ MenusAgree /\ UNCHANGED <<saved, press, shownAs, reset>>
  BY FormTypes DEF FormInv, PickType, PickCondition, WriteAsset, WriteThreshold, Picks
<1>1. \/ \E t \in AlertTypes : dialog' = [dialog EXCEPT !.held = [dialog.held EXCEPT !.type = t], !.type = t]
      \/ \E c \in Conditions : dialog' = [dialog EXCEPT !.held = [dialog.held EXCEPT !.condition = c], !.condition = c]
      \/ \E x \in AssetTexts : dialog' = [dialog EXCEPT !.held = [dialog.held EXCEPT !.asset = x]]
      \/ \E v \in Thresholds3 : dialog' = [dialog EXCEPT !.held = [dialog.held EXCEPT !.threshold = v]]
  BY <1>0 DEF PickType, PickCondition, WriteAsset, WriteThreshold, DialogRec, Form
<1> DEFINE Is(f, t, c) == /\ dialog' = [dialog EXCEPT !.held = f, !.type = t, !.condition = c]
                          /\ dialog.sent \/ (f.type = t /\ f.condition = c)
<1>2. dialog.held \in Form /\ dialog.type \in AlertTypes /\ dialog.condition \in Conditions
  BY <1>0 DEF DialogRec
<1>3. dialog.sent \/ (dialog.held.type = dialog.type /\ dialog.held.condition = dialog.condition)
  BY <1>0 DEF MenusAgree
<1>4. ASSUME NEW t \in AlertTypes, dialog' = [dialog EXCEPT !.held = [dialog.held EXCEPT !.type = t], !.type = t]
      PROVE  \E f \in Form, t1 \in AlertTypes, c1 \in Conditions : Is(f, t1, c1)
  <2> DEFINE f == [dialog.held EXCEPT !.type = t]
  <2>1. f \in Form /\ f.type = t /\ f.condition = dialog.held.condition
    BY <1>2 DEF Form
  <2> HIDE DEF f
  <2>2. Is(f, t, dialog.condition)
    BY <1>0, <1>3, <1>4, <2>1 DEF DialogRec, f
  <2> HIDE DEF Is
  <2> QED
    BY <1>2, <2>1, <2>2
<1>5. ASSUME NEW c \in Conditions,
             dialog' = [dialog EXCEPT !.held = [dialog.held EXCEPT !.condition = c], !.condition = c]
      PROVE  \E f \in Form, t1 \in AlertTypes, c1 \in Conditions : Is(f, t1, c1)
  <2> DEFINE f == [dialog.held EXCEPT !.condition = c]
  <2>1. f \in Form /\ f.condition = c /\ f.type = dialog.held.type
    BY <1>2 DEF Form
  <2> HIDE DEF f
  <2>2. Is(f, dialog.type, c)
    BY <1>0, <1>3, <1>5, <2>1 DEF DialogRec, f
  <2> HIDE DEF Is
  <2> QED
    BY <1>2, <2>1, <2>2
<1>6. ASSUME NEW f \in Form, dialog' = [dialog EXCEPT !.held = f],
             f.type = dialog.held.type, f.condition = dialog.held.condition
      PROVE  \E g \in Form, t1 \in AlertTypes, c1 \in Conditions : Is(g, t1, c1)
  <2>1. Is(f, dialog.type, dialog.condition)
    BY <1>0, <1>3, <1>6 DEF DialogRec
  <2> HIDE DEF Is
  <2> QED
    BY <1>2, <2>1
<1>7. ASSUME NEW x \in AssetTexts, dialog' = [dialog EXCEPT !.held = [dialog.held EXCEPT !.asset = x]]
      PROVE  \E f \in Form, t1 \in AlertTypes, c1 \in Conditions : Is(f, t1, c1)
  <2> DEFINE f == [dialog.held EXCEPT !.asset = x]
  <2>1. f \in Form /\ f.type = dialog.held.type /\ f.condition = dialog.held.condition
    BY <1>2 DEF Form
  <2>2. dialog' = [dialog EXCEPT !.held = f]
    BY <1>7
  <2> HIDE DEF f, Is
  <2> QED
    BY <1>6, <2>1, <2>2
<1>8. ASSUME NEW v \in Thresholds3, dialog' = [dialog EXCEPT !.held = [dialog.held EXCEPT !.threshold = v]]
      PROVE  \E f \in Form, t1 \in AlertTypes, c1 \in Conditions : Is(f, t1, c1)
  <2> DEFINE f == [dialog.held EXCEPT !.threshold = v]
  <2>1. f \in Form /\ f.type = dialog.held.type /\ f.condition = dialog.held.condition
    BY <1>2 DEF Form
  <2>2. dialog' = [dialog EXCEPT !.held = f]
    BY <1>8
  <2> HIDE DEF f, Is
  <2> QED
    BY <1>6, <2>1, <2>2
<1> HIDE DEF Is
<1>9. PICK f \in Form, t \in AlertTypes, c \in Conditions : Is(f, t, c)
  BY <1>1, <1>4, <1>5, <1>7, <1>8
<1>10. dialog' \in DialogRec /\ dialog'.target = dialog.target /\ MenusAgree'
  BY <1>0, <1>9 DEF Is, DialogRec, MenusAgree
<1> QED
  BY <1>0, <1>10, DialogMoves DEF FormInv, NamesKnown

\* A request goes a step further.
LEMMA PressMoves ==
  ASSUME FormInv, NEW p \in Presses, press[p].pc # "new", NEW pc \in {"stored", "ok", "failed"},
         press' = [press EXCEPT ![p].pc = pc]
  PROVE  /\ press' \in [Presses -> PressRec]
         /\ press'[p].pc = pc
         /\ \A q \in Presses \ {p} : press'[q] = press[q]
         /\ \A q \in Presses : press'[q].target = press[q].target /\ press'[q].body = press[q].body
         /\ \A q \in Presses : press'[q].pc = "sent" => press[q].pc = "sent"
  BY FormTypes DEF FormInv, PressRec

\* The save of an edit: what is sent is what the form shows.
LEMMA FormSaves ==
  ASSUME FormInv, NEW p \in Presses, Save(p)
  PROVE  FormInv'
<1> DEFINE h == [pc |-> "sent", target |-> dialog.target, body |-> dialog.held]
<1>1. /\ press[p].pc = "new" /\ press' = [press EXCEPT ![p] = h]
      /\ dialog' = [dialog EXCEPT !.held = dialog.begun, !.sent = TRUE]
      /\ UNCHANGED saved
  BY DEF Save
<1>2. /\ saved \in [Alerts -> Form \cup {NoRow}] /\ dialog \in DialogRec /\ press \in [Presses -> PressRec]
      /\ reset \subseteq Alerts /\ shownAs \in [Alerts -> Form \cup {NoRow}]
      /\ press[p].target = NewAlert
  BY <1>1, FormTypes DEF FormInv, NamesKnown
<1>3. /\ press' \in [Presses -> PressRec] /\ press'[p] = h
      /\ \A q \in Presses \ {p} : press'[q] = press[q]
  BY <1>1, <1>2 DEF PressRec, DialogRec
<1> HIDE DEF h
<1>4. dialog' \in DialogRec /\ dialog'.target = dialog.target /\ dialog'.sent
  BY <1>1, <1>2 DEF DialogRec
<1>5. \/ dialog.target = NewAlert /\ UNCHANGED <<shownAs, reset>>
      \/ /\ dialog.target \in Alerts
         /\ shownAs' = [shownAs EXCEPT ![dialog.target] = Shown]
         /\ reset' = IF dialog.sent \/ \E q \in Presses : press[q].pc = "sent" /\ press[q].target = dialog.target
                     THEN reset \cup {dialog.target} ELSE reset
  BY <1>2 DEF Save, DialogRec
<1>6. Shown \in Form /\ (dialog.sent \/ Shown = dialog.held)
  BY <1>2 DEF Shown, DialogRec, Form, FormInv, MenusAgree
<1>7. shownAs' \in [Alerts -> Form \cup {NoRow}] /\ reset' \subseteq Alerts /\ reset \subseteq reset'
  BY <1>2, <1>5, <1>6
<1>8. \A a \in Alerts : (a # dialog.target => shownAs'[a] = shownAs[a]) /\ (shownAs[a] # NoRow => shownAs'[a] # NoRow)
  BY <1>2, <1>5, <1>6, NoRowAssumption
<1>9. FormTypeOK' <=> /\ saved' \in [Alerts -> Form \cup {NoRow}] /\ dialog' \in DialogRec
                      /\ press' \in [Presses -> PressRec] /\ reset' \subseteq Alerts
  BY DEF FormTypeOK, DialogRec, PressRec
<1>10. FormTypeOK' /\ MenusAgree'
  BY <1>1, <1>2, <1>3, <1>4, <1>7, <1>9 DEF MenusAgree
<1>11. NamesKnown'
  <2>1. \A a \in Rows' : shownAs'[a] # NoRow
    BY <1>1, <1>8 DEF FormInv, NamesKnown, Rows
  <2>2. dialog'.target # NewAlert => shownAs'[dialog'.target] # NoRow
    BY <1>2, <1>4, <1>8 DEF FormInv, NamesKnown, DialogRec
  <2>3. \A q \in Presses : press'[q].target # NewAlert => shownAs'[press'[q].target] # NoRow /\ press'[q].pc # "new"
    BY <1>2, <1>3, <1>4, <1>8, <2>2 DEF FormInv, NamesKnown, PressRec, h
  <2> QED
    BY <2>1, <2>2, <2>3 DEF NamesKnown
<1>12. ASSUME NEW a \in Alerts \ reset'
       PROVE  /\ \A q \in Presses : (press'[q].pc = "sent" /\ press'[q].target = a) =>
                    /\ press'[q].body = shownAs'[a]
                    /\ \A r \in Presses : press'[r].pc = "sent" /\ press'[r].target = a => r = q
              /\ (a \in Rows' /\ \A q \in Presses : press'[q].target = a => press'[q].pc \in {"stored", "ok"})
                    => saved'[a] = shownAs'[a]
  <2>1. a \in Alerts \ reset
    BY <1>7, <1>12
  <2>2. CASE a = dialog.target
    <3>1. a # NewAlert
      BY <2>1, FormAssumption
    <3>2. ~dialog.sent /\ (\A q \in Presses : ~(press[q].pc = "sent" /\ press[q].target = a)) /\ shownAs'[a] = Shown
      BY <1>2, <1>5, <1>12, <2>2, <3>1
    <3>3. \A q \in Presses : (press'[q].pc = "sent" /\ press'[q].target = a) => q = p
      BY <1>3, <3>2
    <3> QED
      BY <1>3, <1>6, <2>2, <3>2, <3>3 DEF h
  <2>3. CASE a # dialog.target
    <3>1. \A q \in Presses : press'[q].target = a <=> press[q].target = a
      BY <1>2, <1>3, <2>1, <2>3, FormAssumption DEF h
    <3>2. \A q \in Presses : press'[q].target = a => press'[q] = press[q]
      BY <1>3, <2>3 DEF h
    <3>3. shownAs'[a] = shownAs[a] /\ saved'[a] = saved[a] /\ (a \in Rows' <=> a \in Rows)
      BY <1>1, <1>8, <2>1, <2>3 DEF Rows
    <3> QED
      BY <2>1, <3>1, <3>2, <3>3 DEF FormInv, EditInv
  <2> QED
    BY <2>2, <2>3
<1> QED
  BY <1>7, <1>10, <1>11, <1>12 DEF FormInv, EditInv

\* createAlert: the new row has an id that no press and no dialog names.
LEMMA FormCreated ==
  ASSUME FormInv, NEW p \in Presses, Created(p)
  PROVE  FormInv'
<1>1. PICK a \in Alerts : /\ shownAs[a] = NoRow
                          /\ saved' = [saved EXCEPT ![a] = press[p].body]
                          /\ shownAs' = [shownAs EXCEPT ![a] = press[p].body]
  BY DEF Created
<1>2. /\ press[p].pc = "sent" /\ press[p].target = NewAlert /\ press' = [press EXCEPT ![p].pc = "stored"]
      /\ UNCHANGED <<dialog, reset>>
  BY DEF Created
<1>3. /\ saved \in [Alerts -> Form \cup {NoRow}] /\ dialog \in DialogRec /\ press \in [Presses -> PressRec]
      /\ reset \subseteq Alerts /\ shownAs \in [Alerts -> Form \cup {NoRow}]
  BY FormTypes DEF FormInv
<1>4. /\ press' \in [Presses -> PressRec] /\ press'[p].pc = "stored"
      /\ \A q \in Presses \ {p} : press'[q] = press[q]
      /\ \A q \in Presses : press'[q].target = press[q].target /\ press'[q].body = press[q].body
      /\ \A q \in Presses : press'[q].pc = "sent" => press[q].pc = "sent"
  BY <1>2, PressMoves
<1>5. press[p].body \in Form /\ press[p].body # NoRow
  BY <1>3, NoRowAssumption DEF PressRec
<1>6. /\ saved' \in [Alerts -> Form \cup {NoRow}] /\ shownAs' \in [Alerts -> Form \cup {NoRow}]
      /\ saved'[a] = shownAs'[a] /\ shownAs'[a] # NoRow
      /\ \A b \in Alerts \ {a} : saved'[b] = saved[b] /\ shownAs'[b] = shownAs[b]
  BY <1>1, <1>3, <1>5
<1>7. FormTypeOK' <=> /\ saved' \in [Alerts -> Form \cup {NoRow}] /\ dialog' \in DialogRec
                      /\ press' \in [Presses -> PressRec] /\ reset' \subseteq Alerts
  BY DEF FormTypeOK, DialogRec, PressRec
<1>8. FormTypeOK' /\ MenusAgree'
  BY <1>2, <1>3, <1>4, <1>6, <1>7 DEF FormInv, MenusAgree
<1>9. \A q \in Presses : press[q].target # a
  BY <1>1, FormAssumption DEF FormInv, NamesKnown
<1>10. NamesKnown'
  <2>1. \A b \in Rows' : shownAs'[b] # NoRow
    BY <1>6 DEF FormInv, NamesKnown, Rows
  <2>2. dialog'.target # NewAlert => shownAs'[dialog'.target] # NoRow
    BY <1>2, <1>3, <1>6 DEF FormInv, NamesKnown, DialogRec
  <2>3. \A q \in Presses : press[q].target # NewAlert => press[q].target \in Alerts /\ shownAs'[press[q].target] # NoRow
    BY <1>3, <1>6 DEF FormInv, NamesKnown, PressRec
  <2>4. \A q \in Presses : press'[q].pc = "new" => press[q].pc = "new"
    BY <1>4
  <2> QED
    BY <1>4, <2>1, <2>2, <2>3, <2>4 DEF FormInv, NamesKnown
<1>11. ASSUME NEW b \in Alerts \ reset
       PROVE  /\ \A q \in Presses : (press'[q].pc = "sent" /\ press'[q].target = b) =>
                    /\ press'[q].body = shownAs'[b]
                    /\ \A r \in Presses : press'[r].pc = "sent" /\ press'[r].target = b => r = q
              /\ (b \in Rows' /\ \A q \in Presses : press'[q].target = b => press'[q].pc \in {"stored", "ok"})
                    => saved'[b] = shownAs'[b]
  <2>1. CASE b = a
    BY <1>4, <1>6, <1>9, <2>1
  <2>2. CASE b # a
    <3>1. saved'[b] = saved[b] /\ shownAs'[b] = shownAs[b] /\ (b \in Rows' <=> b \in Rows)
      BY <1>6, <2>2 DEF Rows
    <3>2. \A q \in Presses : press'[q].target = b => press'[q] = press[q]
      BY <1>2, <1>4, FormAssumption
    <3> QED
      BY <1>4, <3>1, <3>2 DEF FormInv, EditInv
  <2> QED
    BY <2>1, <2>2
<1> QED
  BY <1>2, <1>6, <1>8, <1>10, <1>11 DEF FormInv, EditInv

\* updateAlert: the row becomes the body of the only edit that is on its way.
LEMMA FormUpdated ==
  ASSUME FormInv, NEW p \in Presses, Updated(p)
  PROVE  FormInv'
<1> DEFINE a == press[p].target
<1>1. /\ press[p].pc = "sent" /\ a \in Rows /\ saved' = [saved EXCEPT ![a] = press[p].body]
      /\ press' = [press EXCEPT ![p].pc = "stored"] /\ UNCHANGED <<dialog, shownAs, reset>>
  BY DEF Updated, Merged
<1>2. /\ saved \in [Alerts -> Form \cup {NoRow}] /\ dialog \in DialogRec /\ press \in [Presses -> PressRec]
      /\ reset \subseteq Alerts /\ shownAs \in [Alerts -> Form \cup {NoRow}]
  BY FormTypes DEF FormInv
<1>3. /\ press' \in [Presses -> PressRec] /\ press'[p].pc = "stored"
      /\ \A q \in Presses \ {p} : press'[q] = press[q]
      /\ \A q \in Presses : press'[q].target = press[q].target /\ press'[q].body = press[q].body
      /\ \A q \in Presses : press'[q].pc = "sent" => press[q].pc = "sent"
  BY <1>1, PressMoves
<1>4. press[p].body \in Form /\ a \in Alerts /\ a \in Rows /\ (a \notin reset => press[p].body = shownAs[a])
  BY <1>1, <1>2 DEF PressRec, FormInv, EditInv, Rows
<1>5. press'[p].target = a
  BY <1>3
<1> HIDE DEF a
<1>6. /\ saved' \in [Alerts -> Form \cup {NoRow}] /\ saved'[a] = press[p].body
      /\ \A b \in Alerts \ {a} : saved'[b] = saved[b]
  BY <1>1, <1>2, <1>4
<1>7. FormTypeOK' <=> /\ saved' \in [Alerts -> Form \cup {NoRow}] /\ dialog' \in DialogRec
                      /\ press' \in [Presses -> PressRec] /\ reset' \subseteq Alerts
  BY DEF FormTypeOK, DialogRec, PressRec
<1>8. FormTypeOK' /\ MenusAgree'
  BY <1>1, <1>2, <1>3, <1>6, <1>7 DEF FormInv, MenusAgree
<1>9. Rows' \subseteq Rows
  BY <1>4, <1>6 DEF Rows
<1>10. NamesKnown'
  BY <1>1, <1>3, <1>9 DEF FormInv, NamesKnown
<1>11. ASSUME NEW b \in Alerts \ reset
       PROVE  /\ \A q \in Presses : (press'[q].pc = "sent" /\ press'[q].target = b) =>
                    /\ press'[q].body = shownAs'[b]
                    /\ \A r \in Presses : press'[r].pc = "sent" /\ press'[r].target = b => r = q
              /\ (b \in Rows' /\ \A q \in Presses : press'[q].target = b => press'[q].pc \in {"stored", "ok"})
                    => saved'[b] = shownAs'[b]
  <2>1. CASE b = a
    BY <1>1, <1>3, <1>4, <1>6, <2>1 DEF FormInv, EditInv
  <2>2. CASE b # a
    <3>1. saved'[b] = saved[b] /\ shownAs'[b] = shownAs[b]
      BY <1>1, <1>6, <2>2
    <3>2. \A q \in Presses : press'[q].target = b => press'[q] = press[q]
      BY <1>3, <1>5, <2>2
    <3> QED
      BY <1>3, <1>9, <3>1, <3>2 DEF FormInv, EditInv
  <2> QED
    BY <2>1, <2>2
<1> QED
  BY <1>1, <1>2, <1>8, <1>10, <1>11 DEF FormInv, EditInv

\* The answer that closes the dialog, and the failure.
LEMMA FormAnswers ==
  ASSUME FormInv, NEW p \in Presses, SaveSucceeds(p) \/ SaveFails(p)
  PROVE  FormInv'
<1>1. PICK pc \in {"ok", "failed"} :
         /\ press[p].pc # "new" /\ (pc = "ok" => press[p].pc = "stored")
         /\ press' = [press EXCEPT ![p].pc = pc]
  BY DEF SaveSucceeds, SaveFails
<1>2. UNCHANGED <<saved, shownAs, reset>> /\ dialog' \in {dialog, [dialog EXCEPT !.open = FALSE]}
  BY DEF SaveSucceeds, SaveFails
<1>3. /\ press' \in [Presses -> PressRec] /\ press'[p].pc = pc
      /\ \A q \in Presses \ {p} : press'[q] = press[q]
      /\ \A q \in Presses : press'[q].target = press[q].target /\ press'[q].body = press[q].body
      /\ \A q \in Presses : press'[q].pc = "sent" => press[q].pc = "sent"
  BY <1>1, PressMoves
<1>4. dialog' \in DialogRec /\ dialog'.target = dialog.target /\ MenusAgree'
  BY <1>2, FormTypes DEF FormInv, DialogRec, MenusAgree
<1>5. FormTypeOK' <=> /\ saved' \in [Alerts -> Form \cup {NoRow}] /\ dialog' \in DialogRec
                      /\ press' \in [Presses -> PressRec] /\ reset' \subseteq Alerts
  BY DEF FormTypeOK, DialogRec, PressRec
<1>6. FormTypeOK'
  BY <1>2, <1>3, <1>4, <1>5, FormTypes DEF FormInv
<1>7. \A q \in Presses : press'[q].pc = "new" => press[q].pc = "new"
  BY <1>1, <1>3
<1>8. NamesKnown'
  BY <1>2, <1>3, <1>4, <1>7 DEF FormInv, NamesKnown, Rows
<1>9. \A q \in Presses : press'[q].pc \in {"stored", "ok"} => press[q].pc \in {"stored", "ok"}
  BY <1>1, <1>3
<1>10. EditInv'
  BY <1>2, <1>3, <1>9 DEF FormInv, EditInv, Rows
<1> QED
  BY <1>2, <1>4, <1>6, <1>8, <1>10 DEF FormInv

LEMMA FormInvNext == FormInv /\ [FormNext]_formVars => FormInv'
<1> SUFFICES ASSUME FormInv, [FormNext]_formVars PROVE FormInv'
  OBVIOUS
<1>1. CASE OpenToCreate
  BY <1>1, DialogBegins DEF OpenToCreate
<1>2. ASSUME NEW a \in Alerts, OpenToEdit(a) PROVE FormInv'
  BY <1>2, DialogBegins DEF OpenToEdit
<1>3. CASE Cancel
  <2>1. dialog' \in DialogRec /\ dialog'.target = dialog.target /\ MenusAgree'
    BY <1>3, FormTypes DEF Cancel, FormInv, DialogRec, MenusAgree
  <2> QED
    BY <1>3, <2>1, DialogMoves DEF Cancel, FormInv, NamesKnown
<1>4. ASSUME NEW a \in Alerts, DeleteAlert(a) PROVE FormInv'
  <2>1. saved' \in [Alerts -> Form \cup {NoRow}] /\ \A b \in Rows' : b \in Rows /\ saved'[b] = saved[b]
    BY <1>4, FormTypes DEF DeleteAlert, FormInv, Rows
  <2>2. UNCHANGED <<dialog, press, shownAs, reset>>
    BY <1>4 DEF DeleteAlert
  <2> QED
    BY <2>1, <2>2 DEF FormInv, FormTypeOK, NamesKnown, MenusAgree, EditInv
<1>5. CASE UNCHANGED formVars
  BY <1>5 DEF formVars, FormInv, FormTypeOK, NamesKnown, MenusAgree, EditInv, Rows
<1> QED
  BY <1>1, <1>2, <1>3, <1>4, <1>5, DialogWritten, FormSaves, FormCreated, FormUpdated, FormAnswers DEF FormNext

\* onSubmit of the dialogs: for any rows, forms, presses and texts, an edit that the page says is
\* saved has the row be what the form showed, and what was written is not lost before the server
\* has it.  The dialog of the alerts and the other forms share no state.
THEOREM FormsKept == FormSpec /\ EntrySpec => []FormsKeepWord
<1>1. FormInv => EditsAreShown
  BY DEF FormInv, EditInv, EditsAreShown, Rows
<1>2. EntryInv => WrittenStays
  BY DEF EntryInv
<1>3. FormInv /\ EntryInv => FormsKeepWord
  BY <1>1, <1>2 DEF FormsKeepWord
<1> QED
  BY FormInvInit, FormInvNext, EntryInvInit, EntryInvNext, <1>3, PTL DEF FormSpec, EntrySpec
=============================================================================
