--------------------------- MODULE SessionsProofs ---------------------------
(***************************************************************************)
(* What accounts and sessions keep for any number of browsers, calls,       *)
(* accounts and tokens: their types, one account per address, that a        *)
(* session which was removed stays removed, and that the app shows whom its *)
(* cookie belongs to.                                                       *)
(***************************************************************************)
EXTENDS Sessions, TLAPS

(* A call about to create a session knows for whom.                          *)
UserKnown == \A c \in Calls : At(c, "createSession") => call[c].user \in Users

IInv == TypeOK /\ UserKnown /\ OneAccountPerEmail

LEMMA DrawIsMember == \A S : S # {} => Draw(S) \in S
BY DEF Draw

LEMMA CallType ==
  ASSUME TypeOK, NEW c \in Calls, NEW r \in Call, call' = [call EXCEPT ![c] = r]
  PROVE  call' \in [Calls -> Call]
BY DEF TypeOK

LEMMA AnswerType ==
  ASSUME TypeOK, NEW c \in Calls, NEW h \in {"keep", "set", "clear"},
         NEW s \in {"ok", "unauthorized", "failed"}, Answer(c, h, s)
  PROVE  call' \in [Calls -> Call]
<1>1. call[c] \in Call
  BY DEF TypeOK
<1>2. [call[c] EXCEPT !.pc = "reply", !.header = h, !.status = s, !.email = NoEmail,
                      !.token = NoToken, !.user = NoUser] \in Call
  <2> DEFINE r == [call[c] EXCEPT !.pc = "reply", !.header = h, !.status = s]
             q == [r EXCEPT !.email = NoEmail, !.token = NoToken, !.user = NoUser]
  <2>1. r \in Call
    BY <1>1, ZenonT(60) DEF Call
  <2>2. q = [call[c] EXCEPT !.pc = "reply", !.header = h, !.status = s, !.email = NoEmail,
                            !.token = NoToken, !.user = NoUser]
    BY <1>1 DEF Call
  <2> HIDE DEF r
  <2>3. q \in Call
    BY <2>1, ZenonT(60) DEF Call
  <2> QED
    BY <2>2, <2>3
<1> QED BY <1>2, CallType DEF Answer, Become

LEMMA IdleType == Idle \in Call
BY DEF Idle, Call, AtServer

LEMMA LostType == ASSUME TypeOK, NEW c \in Calls PROVE Lost(c) \in Call
BY IdleType DEF TypeOK, Lost, Idle, Call, AtServer

LEMMA InitType == Init => TypeOK
BY IdleType, ConstantAssumption DEF Init, TypeOK

------------------------------------------------------------------------------
(* The steps of the app.                                                     *)
LEMMA SendType ==
  ASSUME TypeOK, NEW c \in Calls, NEW b \in Browsers,
         NEW kind \in {"register", "login", "logout", "ask"},
         NEW e \in Emails \cup {NoEmail}, NEW first \in AtServer,
         Send(c, b, kind, e, first)
  PROVE  TypeOK'
<1>1. PICK t \in {cookie[b]} \cup
              {x \in {NoToken} : cookie[b] # NoToken /\ Expired(cookie[b])} :
        /\ Become(c, [Idle EXCEPT !.pc = first, !.browser = b, !.kind = kind,
                                  !.email = e, !.token = t])
        /\ left' = IF kind = "logout" THEN left \cup ({t} \ {NoToken}) ELSE left
  BY DEF Send
<1>2. t \in Tokens \cup {NoToken}
  BY DEF TypeOK
<1>3. [Idle EXCEPT !.pc = first, !.browser = b, !.kind = kind, !.email = e, !.token = t] \in Call
  BY <1>2 DEF Idle, Call
<1>4. call' \in [Calls -> Call]
  BY <1>1, <1>3, CallType DEF Become
<1>5. UNCHANGED <<clock, users, session, live, touches, cookie, shown, crossed>>
  BY DEF Send, database
<1> QED BY <1>1, <1>2, <1>4, <1>5 DEF TypeOK

LEMMA ClientType ==
  ASSUME TypeOK, NEW c \in Calls, NEW b \in Browsers, Client(c, b)
  PROVE  TypeOK'
<1>1. CASE SignIn(c, b)
  <2>1. PICK e \in Emails : \/ Send(c, b, "register", e, "checkEmail")
                            \/ Send(c, b, "login", e, "lookup")
    BY <1>1 DEF SignIn
  <2> QED BY <2>1, SendType DEF AtServer
<1>2. CASE UseApp(c, b)
  BY <1>2, SendType DEF UseApp, AtServer
<1>3. CASE Reload(c, b)
  <2>1. [Idle EXCEPT !.pc = "getSession", !.kind = "me", !.browser = b, !.token = cookie[b]] \in Call
    BY DEF Idle, Call, AtServer, TypeOK
  <2>2. \A d \in Calls : [call[d] EXCEPT !.browser = NoBrowser] \in Call
    BY DEF Call, TypeOK
  <2>3. call' \in [Calls -> Call]
    BY <1>3, <2>1, <2>2, IdleType DEF Reload, TypeOK
  <2> QED BY <1>3, <2>3 DEF Reload, database, TypeOK
<1> QED BY <1>1, <1>2, <1>3 DEF Client

------------------------------------------------------------------------------
(* The steps of the server.                                                  *)
LEMMA ServerType ==
  ASSUME TypeOK, UserKnown, NEW c \in Calls, Server(c)
  PROVE  TypeOK'
<1>0. call[c] \in Call
  BY DEF TypeOK
<1>1. CASE CheckEmail(c)
  <2>1. [call[c] EXCEPT !.pc = "insertUser"] \in Call
    BY <1>0 DEF Call, AtServer
  <2>2. call' \in [Calls -> Call]
    BY <1>1, <2>1, CallType, AnswerType DEF CheckEmail, Goto, Become
  <2> QED BY <1>1, <2>2 DEF CheckEmail, database, page, TypeOK
<1>2. CASE InsertUser(c)
  <2>1. CASE Taken(call[c].email)
    <3>1. Answer(c, "keep", "failed") /\ UNCHANGED users
      BY <1>2, <2>1 DEF InsertUser
    <3>2. call' \in [Calls -> Call]
      BY <3>1, AnswerType
    <3> QED BY <1>2, <3>1, <3>2 DEF InsertUser, page, TypeOK
  <2>2. CASE ~Taken(call[c].email)
    <3> DEFINE u == Draw(FreeIds)
    <3>1. /\ FreeIds # {}
          /\ users' = [users EXCEPT ![u] = call[c].email]
          /\ call' = [call EXCEPT ![c] = [call[c] EXCEPT !.pc = "createSession", !.user = u]]
      BY <1>2, <2>2 DEF InsertUser, Become
    <3>2. u \in Users
      BY <3>1, DrawIsMember DEF FreeIds
    <3> HIDE DEF u
    <3>3. [call[c] EXCEPT !.pc = "createSession", !.user = u] \in Call
      BY <1>0, <3>2 DEF Call, AtServer
    <3>4. call' \in [Calls -> Call]
      BY <3>1, <3>3, CallType
    <3>5. users' \in [Users -> Emails \cup {NoEmail}]
      BY <1>0, <3>1 DEF TypeOK, Call
    <3> QED BY <1>2, <3>4, <3>5 DEF InsertUser, page, TypeOK
  <2> QED BY <2>1, <2>2
<1>3. CASE Lookup(c)
  <2>1. \A u \in Users : [call[c] EXCEPT !.pc = "createSession", !.user = u] \in Call
    BY <1>0 DEF Call, AtServer
  <2>2. call' \in [Calls -> Call]
    BY <1>3, <2>1, CallType, AnswerType DEF Lookup, Become
  <2> QED BY <1>3, <2>2 DEF Lookup, database, page, TypeOK
<1>4. CASE CreateSession(c)
  <2> DEFINE t == Draw(Undrawn)
             row == [user |-> call[c].user, expires |-> clock + Lifetime]
  <2>1. /\ Undrawn # {}
        /\ session' = [session EXCEPT ![t] = row]
        /\ live' = live \cup {t}
        /\ call' = [call EXCEPT ![c] = [call[c] EXCEPT !.pc = "reply", !.email = NoEmail,
                                                       !.header = "set", !.token = t]]
    BY <1>4 DEF CreateSession, Become
  <2>2. t \in Tokens
    BY <2>1, DrawIsMember DEF Undrawn
  <2>3. row \in Session /\ row # NoSession
    <3>1. call[c].user \in Users
      BY <1>4 DEF UserKnown, CreateSession
    <3>2. clock + Lifetime \in 0..(MaxClock + Lifetime)
      BY ConstantAssumption DEF TypeOK
    <3> QED BY <3>1, <3>2, NoSessionAssumption DEF Session
  <2> HIDE DEF t, row
  <2>4. [call[c] EXCEPT !.pc = "reply", !.email = NoEmail, !.header = "set", !.token = t] \in Call
    BY <1>0, <2>2 DEF Call
  <2>5. call' \in [Calls -> Call]
    BY <2>1, <2>4, CallType
  <2>6. session' \in [Tokens -> Session \cup {NoSession}]
    BY <2>1, <2>3 DEF TypeOK
  <2>7. live' \subseteq {x \in Tokens : session'[x] # NoSession}
    BY <2>1, <2>2, <2>3 DEF TypeOK
  <2> QED BY <1>4, <2>5, <2>6, <2>7 DEF CreateSession, page, TypeOK
<1>5. CASE DeleteSession(c)
  <2>1. call' \in [Calls -> Call]
    BY <1>5, AnswerType DEF DeleteSession
  <2>2. live' \subseteq live
    BY <1>5 DEF DeleteSession
  <2> QED BY <1>5, <2>1, <2>2 DEF DeleteSession, page, TypeOK
<1>6. CASE GetSession(c)
  <2> DEFINE t == call[c].token
  <2>1. CASE Answer(c, "keep", "unauthorized") /\ UNCHANGED touches
    <3>1. call' \in [Calls -> Call]
      BY <2>1, AnswerType
    <3> QED BY <1>6, <2>1, <3>1 DEF GetSession, database, page, TypeOK
  <2>2. CASE Answer(c, "clear", "unauthorized") /\ UNCHANGED touches
    <3>1. call' \in [Calls -> Call]
      BY <2>2, AnswerType
    <3> QED BY <1>6, <2>2, <3>1 DEF GetSession, database, page, TypeOK
  <2>3. CASE /\ t \in live
             /\ touches' = touches \cup {t}
             /\ Become(c, [call[c] EXCEPT !.pc = "reply", !.token = NoToken,
                                          !.user = session[t].user])
    <3>1. t \in Tokens /\ session[t] \in Session
      BY <2>3 DEF TypeOK
    <3>2. session[t].user \in Users
      BY <3>1 DEF Session
    <3> HIDE DEF t
    <3>3. [call[c] EXCEPT !.pc = "reply", !.token = NoToken, !.user = session[t].user] \in Call
      BY <1>0, <3>2 DEF Call
    <3>4. call' \in [Calls -> Call]
      BY <2>3, <3>3, CallType DEF Become
    <3> QED BY <1>6, <2>3, <3>1, <3>4 DEF GetSession, database, page, TypeOK
  <2> QED BY <1>6, <2>1, <2>2, <2>3 DEF GetSession
<1>7. CASE Fail(c)
  <2>1. call' \in [Calls -> Call]
    BY <1>7, AnswerType DEF Fail
  <2> QED BY <1>7, <2>1 DEF Fail, database, page, TypeOK
<1> QED BY <1>1, <1>2, <1>3, <1>4, <1>5, <1>6, <1>7 DEF Server

(* The other steps.                                                          *)
LEMMA DeliveryType ==
  ASSUME TypeOK, NEW c \in Calls, LoseReply(c) \/ Header(c) \/ Callback(c)
  PROVE  TypeOK'
<1>0. call[c] \in Call
  BY DEF TypeOK
<1>1. CASE LoseReply(c)
  <2>1. call' \in [Calls -> Call]
    BY <1>1, LostType, CallType DEF LoseReply, Become
  <2> QED BY <1>1, <2>1 DEF LoseReply, database, page, TypeOK
<1>2. CASE Header(c)
  <2>1. [call[c] EXCEPT !.pc = "callback"] \in Call
    BY <1>0 DEF Call
  <2>2. call' \in [Calls -> Call]
    BY <1>2, <2>1, CallType DEF Header, Goto, Become
  <2>3. call[c].browser \in Browsers
    BY <1>0, <1>2 DEF Header, Call
  <2>4. cookie' \in [Browsers -> Tokens \cup {NoToken}]
    BY <1>0, <1>2, <2>3 DEF Header, TypeOK, Call
  <2>5. crossed' \subseteq Browsers
    BY <1>2, <2>3 DEF Header, TypeOK
  <2> QED BY <1>2, <2>2, <2>4, <2>5 DEF Header, database, TypeOK
<1>3. CASE Callback(c)
  <2> DEFINE b == call[c].browser
  <2>1. call' \in [Calls -> Call]
    BY <1>3, IdleType, CallType DEF Callback, Become
  <2>2. ASSUME NEW now \in Users \cup {NoUser} PROVE Shows(call[c], now) \in Users \cup {NoUser}
    BY <1>0, <2>2 DEF Shows, Call
  <2>3. shown' \in [Browsers -> Users \cup {NoUser}]
    BY <1>3, <2>2 DEF Callback, TypeOK
  <2> QED BY <1>3, <2>1, <2>3 DEF Callback, database, TypeOK
<1> QED BY <1>1, <1>2, <1>3

LEMMA OtherType ==
  ASSUME TypeOK, (\E t \in Tokens : Touch(t)) \/ CleanExpired \/ Restart \/ Tick
  PROVE  TypeOK'
<1>1. ASSUME NEW t \in Tokens, Touch(t) PROVE TypeOK'
  BY <1>1 DEF Touch, database, page, TypeOK
<1>2. CASE CleanExpired
  BY <1>2 DEF CleanExpired, page, TypeOK
<1>3. CASE Restart
  <2>1. call' \in [Calls -> Call]
    BY <1>3, LostType DEF Restart, TypeOK
  <2> QED BY <1>3, <2>1 DEF Restart, database, page, TypeOK
<1>4. CASE Tick
  BY <1>4, ConstantAssumption DEF Tick, database, page, TypeOK
<1> QED BY <1>1, <1>2, <1>3, <1>4

------------------------------------------------------------------------------
LEMMA KnownChange ==
  ASSUME TypeOK, UserKnown, NEW c \in Calls, NEW r, call' = [call EXCEPT ![c] = r],
         r.pc = "createSession" => r.user \in Users
  PROVE  UserKnown'
BY DEF TypeOK, UserKnown, At

LEMMA KnownAnswer ==
  ASSUME TypeOK, UserKnown, NEW c \in Calls, NEW h, NEW s, Answer(c, h, s)
  PROVE  UserKnown'
<1>1. [call[c] EXCEPT !.pc = "reply", !.header = h, !.status = s, !.email = NoEmail,
                      !.token = NoToken, !.user = NoUser].pc = "reply"
  BY DEF TypeOK, Call
<1> QED BY <1>1, KnownChange DEF Answer, Become

LEMMA LostPc == \A c \in Calls : Lost(c).pc # "createSession"
BY DEF Lost, Idle

LEMMA KnownStep == ASSUME TypeOK, UserKnown, Next PROVE UserKnown'
<1>1. ASSUME NEW c \in Calls, Server(c) PROVE UserKnown'
  <2>0. call[c] \in Call
    BY DEF TypeOK
  <2>1. CASE CheckEmail(c)
    <3>1. [call[c] EXCEPT !.pc = "insertUser"].pc # "createSession"
      BY <2>0 DEF Call
    <3> QED BY <2>1, <3>1, KnownChange, KnownAnswer DEF CheckEmail, Goto, Become
  <2>2. CASE InsertUser(c)
    <3>1. CASE Answer(c, "keep", "failed")
      BY <3>1, KnownAnswer
    <3>2. CASE /\ FreeIds # {}
               /\ Become(c, [call[c] EXCEPT !.pc = "createSession", !.user = Draw(FreeIds)])
      <4>1. Draw(FreeIds) \in Users
        BY <3>2, DrawIsMember DEF FreeIds
      <4>2. [call[c] EXCEPT !.pc = "createSession", !.user = Draw(FreeIds)].user = Draw(FreeIds)
        BY <2>0 DEF Call
      <4> QED BY <3>2, <4>1, <4>2, KnownChange DEF Become
    <3> QED BY <2>2, <3>1, <3>2 DEF InsertUser
  <2>3. CASE Lookup(c)
    <3>1. ASSUME NEW u \in Users,
                 Become(c, [call[c] EXCEPT !.pc = "createSession", !.user = u])
          PROVE  UserKnown'
      <4>1. [call[c] EXCEPT !.pc = "createSession", !.user = u].user = u
        BY <2>0 DEF Call
      <4> QED BY <3>1, <4>1, KnownChange DEF Become
    <3> QED BY <2>3, <3>1, KnownAnswer DEF Lookup
  <2>4. CASE CreateSession(c)
    <3>1. [call[c] EXCEPT !.pc = "reply", !.email = NoEmail, !.header = "set",
                          !.token = Draw(Undrawn)].pc = "reply"
      BY <2>0 DEF Call
    <3> QED BY <2>4, <3>1, KnownChange DEF CreateSession, Become
  <2>5. CASE DeleteSession(c)
    BY <2>5, KnownAnswer DEF DeleteSession
  <2>6. CASE GetSession(c)
    <3>1. [call[c] EXCEPT !.pc = "reply", !.token = NoToken,
                          !.user = session[call[c].token].user].pc = "reply"
      BY <2>0 DEF Call
    <3> QED BY <2>6, <3>1, KnownChange, KnownAnswer DEF GetSession, Become
  <2>7. CASE Fail(c)
    BY <2>7, KnownAnswer DEF Fail
  <2> QED BY <1>1, <2>1, <2>2, <2>3, <2>4, <2>5, <2>6, <2>7 DEF Server
<1>2. ASSUME NEW c \in Calls, LoseReply(c) \/ Header(c) \/ Callback(c) PROVE UserKnown'
  <2>1. [call[c] EXCEPT !.pc = "callback"].pc # "createSession" /\ Idle.pc # "createSession"
    BY DEF TypeOK, Call, Idle
  <2> QED BY <1>2, <2>1, LostPc, KnownChange DEF LoseReply, Header, Callback, Goto, Become
<1>3. ASSUME NEW c \in Calls, NEW b \in Browsers, Client(c, b) PROVE UserKnown'
  <2>1. ASSUME NEW kind, NEW e, NEW first \in {"checkEmail", "lookup", "getSession", "deleteSession"},
               Send(c, b, kind, e, first)
        PROVE  UserKnown'
    <3>1. PICK t : call' = [call EXCEPT ![c] = [Idle EXCEPT !.pc = first, !.browser = b,
                                                 !.kind = kind, !.email = e, !.token = t]]
      BY <2>1 DEF Send, Become
    <3>2. [Idle EXCEPT !.pc = first, !.browser = b, !.kind = kind, !.email = e, !.token = t].pc = first
      BY DEF Idle
    <3> QED BY <3>1, <3>2, KnownChange
  <2>2. CASE SignIn(c, b) \/ UseApp(c, b)
    BY <2>1, <2>2 DEF SignIn, UseApp
  <2>3. CASE Reload(c, b)
    <3>1. \A d \in Calls :
            \/ call'[d] = call[d]
            \/ call'[d] = [call[d] EXCEPT !.browser = NoBrowser]
            \/ call'[d].pc # "createSession"
      BY <2>3 DEF Reload, Idle
    <3>2. \A d \in Calls : /\ [call[d] EXCEPT !.browser = NoBrowser].pc = call[d].pc
                           /\ [call[d] EXCEPT !.browser = NoBrowser].user = call[d].user
      BY DEF TypeOK, Call
    <3> QED BY <3>1, <3>2 DEF UserKnown, At
  <2> QED BY <1>3, <2>2, <2>3 DEF Client
<1>4. CASE Restart
  BY <1>4, LostPc DEF Restart, UserKnown, At
<1>5. CASE (\E t \in Tokens : Touch(t)) \/ CleanExpired \/ Tick
  BY <1>5 DEF Touch, CleanExpired, Tick, UserKnown, At
<1> QED BY <1>1, <1>2, <1>3, <1>4, <1>5 DEF Next

(* Only the INSERT writes users; only CreateSession adds to the sessions.    *)
LEMMA Writers ==
  ASSUME Next
  PROVE  /\ users' = users \/ \E c \in Calls : InsertUser(c)
         /\ live' \subseteq live \/ \E c \in Calls : CreateSession(c)
<1>1. ASSUME NEW c \in Calls, NEW b \in Browsers, Client(c, b)
      PROVE  users' = users /\ live' = live
  BY <1>1 DEF Client, SignIn, UseApp, Reload, Send, database
<1>2. ASSUME NEW c \in Calls, Server(c), ~InsertUser(c), ~CreateSession(c)
      PROVE  users' = users /\ live' \subseteq live
  <2>1. CASE CheckEmail(c) \/ Lookup(c) \/ GetSession(c) \/ Fail(c)
    BY <2>1 DEF CheckEmail, Lookup, GetSession, Fail, database
  <2>2. CASE DeleteSession(c)
    BY <2>2 DEF DeleteSession
  <2> QED
    BY <1>2, <2>1, <2>2 DEF Server
<1>3. ASSUME NEW c \in Calls, InsertUser(c) PROVE live' \subseteq live
  BY <1>3 DEF InsertUser
<1>4. ASSUME NEW c \in Calls, LoseReply(c) \/ Header(c) \/ Callback(c)
      PROVE  users' = users /\ live' = live
  BY <1>4 DEF LoseReply, Header, Callback, database
<1>5. CASE (\E t \in Tokens : Touch(t)) \/ Restart \/ Tick
  BY <1>5 DEF Touch, Restart, Tick, database
<1>6. CASE CleanExpired
  BY <1>6 DEF CleanExpired
<1>7. ASSUME NEW c \in Calls, Server(c)
      PROVE  /\ users' = users \/ InsertUser(c)
             /\ live' \subseteq live \/ CreateSession(c)
  <2>1. CASE InsertUser(c)
    BY <1>3, <2>1
  <2>2. CASE CreateSession(c)
    BY <2>2 DEF CreateSession
  <2>3. CASE ~InsertUser(c) /\ ~CreateSession(c)
    BY <1>2, <1>7, <2>3
  <2> QED
    BY <2>1, <2>2, <2>3
<1> QED
  BY <1>1, <1>4, <1>5, <1>6, <1>7 DEF Next

(* Two accounts of one address would need two INSERTs of it, and the UNIQUE  *)
(* constraint guards the INSERT.                                             *)
LEMMA OneAccountStep == ASSUME TypeOK, OneAccountPerEmail, Next PROVE OneAccountPerEmail'
<1>1. CASE UNCHANGED users
  BY <1>1 DEF OneAccountPerEmail
<1>2. ASSUME NEW c \in Calls, InsertUser(c), ~UNCHANGED users PROVE OneAccountPerEmail'
  <2>1. PICK u : ~Taken(call[c].email) /\ users' = [users EXCEPT ![u] = call[c].email]
    BY <1>2 DEF InsertUser
  <2> QED BY <2>1 DEF OneAccountPerEmail, Taken, TypeOK
<1> QED BY <1>1, <1>2, Writers

LEMMA StepKeeps == IInv /\ [Next]_vars => IInv'
<1> SUFFICES ASSUME IInv, [Next]_vars PROVE IInv' OBVIOUS
<1>1. CASE Next
  <2>1. TypeOK'
    BY <1>1, ClientType, ServerType, DeliveryType, OtherType DEF IInv, Next
  <2> QED BY <1>1, <2>1, KnownStep, OneAccountStep DEF IInv
<1>2. CASE UNCHANGED vars
  BY <1>2 DEF vars, IInv, TypeOK, UserKnown, OneAccountPerEmail, At
<1> QED BY <1>1, <1>2

------------------------------------------------------------------------------
THEOREM Inductive == Spec => []IInv
<1>1. Init => IInv
  BY InitType, IdleType DEF Init, IInv, UserKnown, OneAccountPerEmail, At, Idle
<1> QED BY <1>1, StepKeeps, PTL DEF Spec

(* The types hold; a token has a row only if it was issued.                  *)
THEOREM TypeCorrect == Spec => []TypeOK
<1>1. IInv => TypeOK
  BY DEF IInv
<1> QED BY <1>1, Inductive, PTL

(* However many registrations of one address run at once, it has one account.*)
THEOREM OneAccountCorrect == Spec => []OneAccountPerEmail
<1>1. IInv => OneAccountPerEmail
  BY DEF IInv
<1> QED BY <1>1, Inductive, PTL

(* A session that was removed stays removed: only CreateSession adds a row,  *)
(* and it draws a token never issued before.                                 *)
THEOREM RevokedCorrect == Spec => RevokedForGood
<1>1. [Next]_vars =>
        [\A t \in Tokens : session[t] # NoSession /\ t \notin live => t \notin live']_vars
  <2> SUFFICES ASSUME Next, NEW t \in Tokens, session[t] # NoSession, t \notin live
               PROVE  t \notin live'
    OBVIOUS
  <2>1. ASSUME NEW c \in Calls, CreateSession(c) PROVE t \notin live'
    <3>1. Undrawn # {} /\ live' = live \cup {Draw(Undrawn)}
      BY <2>1 DEF CreateSession
    <3>2. Draw(Undrawn) # t
      BY <3>1, DrawIsMember DEF Undrawn
    <3> QED BY <3>1, <3>2
  <2> QED BY <2>1, Writers
<1> QED BY <1>1, PTL DEF Spec, RevokedForGood

(* A session that has expired stays expired until its row is gone: neither   *)
(* its use (Touch) nor a sign-in extends it, and the next CleanExpired       *)
(* removes it.  ExpiredAreRemoved needs beyond this that the cleanup runs.   *)
THEOREM ExpiredUntilRemoved ==
  Spec => [][\A t \in Tokens : t \in live /\ Expired(t) =>
                \/ t \notin live'
                \/ ~CleanExpired /\ Expired(t)']_vars
<1>1. TypeOK /\ [Next]_vars =>
        [\A t \in Tokens : t \in live /\ Expired(t) =>
                \/ t \notin live'
                \/ ~CleanExpired /\ Expired(t)']_vars
  <2> SUFFICES ASSUME TypeOK, Next, NEW t \in Tokens, t \in live, Expired(t)
               PROVE  t \notin live' \/ (~CleanExpired /\ Expired(t)')
    OBVIOUS
  <2>1. session[t] # NoSession
    BY DEF TypeOK
  <2>2. CleanExpired => t \notin live'
    BY DEF CleanExpired
  <2>3. ASSUME NEW c \in Calls, CreateSession(c) PROVE Expired(t)'
    <3>1. Draw(Undrawn) # t
      BY <2>1, <2>3, DrawIsMember DEF CreateSession, Undrawn
    <3> QED BY <2>3, <3>1 DEF CreateSession, page, Expired, TypeOK
  <2>4. ASSUME Tick PROVE Expired(t)'
    <3>1. session[t].expires \in Nat /\ clock \in Nat /\ clock' = clock + 1
      BY <2>1, <2>4, ConstantAssumption DEF Tick, TypeOK, Session
    <3> QED BY <2>4, <3>1 DEF Tick, database, page, Expired
  <2>5. ASSUME NEW c \in Calls, NEW b \in Browsers, Client(c, b) PROVE Expired(t)'
    BY <2>5 DEF Client, SignIn, UseApp, Reload, Send, database, Expired
  <2>6. ASSUME NEW c \in Calls,
               \/ CheckEmail(c) \/ InsertUser(c) \/ Lookup(c) \/ GetSession(c)
               \/ DeleteSession(c) \/ Fail(c)
        PROVE  Expired(t)'
    BY <2>6 DEF CheckEmail, InsertUser, Lookup, GetSession, DeleteSession, Fail, database, page, Expired
  <2>7. ASSUME NEW c \in Calls, LoseReply(c) \/ Header(c) \/ Callback(c) PROVE Expired(t)'
    BY <2>7 DEF LoseReply, Header, Callback, database, page, Expired
  <2>8. CASE CleanExpired \/ (\E x \in Tokens : Touch(x)) \/ Restart
    BY <2>2, <2>8 DEF CleanExpired, Touch, Restart, database, page, Expired
  <2> QED BY <2>2, <2>3, <2>4, <2>5, <2>6, <2>7, <2>8 DEF Next, Server
<1> QED BY <1>1, TypeCorrect, PTL DEF Spec

------------------------------------------------------------------------------
(* What makes the app and its cookie agree.  A token signs a user in as long *)
(* as its session is that user's, until it ends.                             *)
Signed(t, u) ==
  /\ t \in Tokens /\ session[t] # NoSession /\ session[t].user = u
  /\ t \in live \/ t \in left \/ Expired(t)

Answered(r) == r.pc \in {"reply", "callback"}
SignsIn(r)  == r.kind \in {"login", "register"}

(* A call r at the server, and the token a logout brought.                   *)
Asks(r) ==
  /\ r.pc \in {"checkEmail", "insertUser", "lookup", "createSession"} => SignsIn(r)
  /\ r.pc = "deleteSession" => r.kind = "logout" /\ r.token \in left \cup {NoToken}
  /\ r.pc = "getSession" => r.kind \in {"ask", "me"}
  /\ r.pc \in AtServer => r.header = "keep" /\ r.status = "ok"

(* An answer that clears the cookie has a callback that signs out.           *)
Clears(r) ==
  Answered(r) /\ r.header = "clear" =>
    r.kind = "logout" \/ (r.kind \in {"ask", "me"} /\ r.status = "unauthorized")

(* An answer that sets it belongs to a sign-in, and names the token's user;  *)
(* its cookie is still there when its callback runs, unless answers crossed. *)
Sets(r) ==
  /\ Answered(r) /\ r.header = "set" => SignsIn(r) /\ Signed(r.token, r.user)
  /\ Answered(r) /\ SignsIn(r) /\ r.status = "ok" => r.header = "set"
  /\ /\ r.pc = "callback" /\ r.header = "set"
     /\ r.browser # NoBrowser /\ r.browser \notin crossed
     => cookie[r.browser] = r.token

(* An answer of /me names the user of the browser's own cookie.              *)
Checks(r) ==
  r.kind = "me" /\ r.browser # NoBrowser =>
    /\ r.pc = "getSession" => r.token = cookie[r.browser]
    /\ Answered(r) /\ r.status = "ok" =>
         r.header = "keep" /\ Signed(cookie[r.browser], r.user)

CallOK(r) == Asks(r) /\ Clears(r) /\ Sets(r) /\ Checks(r)
CallsOK   == \A c \in Calls : CallOK(call[c])

(* /me is its page's only call, and one sign-in runs while no one is shown.  *)
AloneAt(b) ==
  \A c \in Open(b) :
    /\ call[c].kind = "me" => Open(b) = {c}
    /\ SignsIn(call[c]) =>
         shown[b] = NoUser /\ \A d \in Open(b) : SignsIn(call[d]) => d = c

SignedInAt(b) ==
  shown[b] # NoUser /\ b \notin crossed /\ "me" \notin Kinds(b) =>
    \/ Signed(cookie[b], shown[b])
    \/ \E c \in Open(b) : At(c, "callback") /\ call[c].header = "clear"

PagesOK == \A b \in Browsers : AloneAt(b) /\ SignedInAt(b)

SInv == IInv /\ CallsOK /\ PagesOK

------------------------------------------------------------------------------
(* A token that signs a user in goes on doing so: sessions are only deleted  *)
(* by a logout that was sent with their token, and when they have expired.   *)
LEMMA SignedStays ==
  ASSUME TypeOK, CallsOK, Next, NEW t, NEW u, Signed(t, u)
  PROVE  Signed(t, u)'
<1> USE DEF Signed, Expired
<1>1. ASSUME NEW c \in Calls, CreateSession(c) PROVE Signed(t, u)'
  <2>1. Draw(Undrawn) # t
    BY <1>1, DrawIsMember DEF CreateSession, Undrawn
  <2> QED BY <1>1, <2>1 DEF CreateSession, page, TypeOK
<1>2. ASSUME NEW c \in Calls, DeleteSession(c) PROVE Signed(t, u)'
  <2>1. call[c].token \in left \cup {NoToken}
    BY <1>2 DEF DeleteSession, At, CallsOK, CallOK, Asks
  <2> QED BY <1>2, <2>1, ConstantAssumption DEF DeleteSession, page
<1>3. CASE CleanExpired
  BY <1>3 DEF CleanExpired, page
<1>4. CASE Tick
  <2>1. session[t].expires \in Nat /\ clock \in Nat /\ clock' = clock + 1
    BY <1>4, ConstantAssumption DEF Tick, TypeOK, Session
  <2> QED BY <1>4, <2>1 DEF Tick, database, page
<1>5. ASSUME NEW c \in Calls, NEW b \in Browsers, Client(c, b) PROVE Signed(t, u)'
  BY <1>5 DEF Client, SignIn, UseApp, Reload, Send, database
<1>6. ASSUME NEW c \in Calls, CheckEmail(c) \/ InsertUser(c) \/ Lookup(c) \/ GetSession(c) \/ Fail(c)
      PROVE  Signed(t, u)'
  BY <1>6 DEF CheckEmail, InsertUser, Lookup, GetSession, Fail, database, page
<1>7. ASSUME NEW c \in Calls, LoseReply(c) \/ Header(c) \/ Callback(c) PROVE Signed(t, u)'
  BY <1>7 DEF LoseReply, Header, Callback, database, page
<1>8. CASE (\E x \in Tokens : Touch(x)) \/ Restart
  BY <1>8 DEF Touch, Restart, database, page
<1> QED BY <1>1, <1>2, <1>3, <1>4, <1>5, <1>6, <1>7, <1>8 DEF Next, Server

(* What a call knows stays true while its browser's cookie does.             *)
LEMMA CallStays ==
  ASSUME TypeOK, CallsOK, Next, NEW r, CallOK(r), left \subseteq left',
         r.browser # NoBrowser =>
           /\ cookie'[r.browser] = cookie[r.browser]
           /\ r.browser \in crossed => r.browser \in crossed'
  PROVE  CallOK(r)'
<1>1. Asks(r)'
  BY DEF CallOK, Asks, SignsIn
<1>2. Clears(r)'
  BY DEF CallOK, Clears, Answered
<1>3. Sets(r)'
  BY SignedStays DEF CallOK, Sets, Answered, SignsIn
<1>4. Checks(r)'
  <2>1. CASE r.kind = "me" /\ r.browser # NoBrowser
    <3>1. PICK t : t = cookie[r.browser] /\ t = cookie'[r.browser]
      BY <2>1
    <3>2. Signed(t, r.user) => Signed(t, r.user)'
      BY SignedStays
    <3>3. Signed(cookie[r.browser], r.user) => Signed(cookie[r.browser], r.user)'
      BY <3>1, <3>2 DEF Signed
    <3> QED BY <2>1, <3>1, <3>3 DEF CallOK, Checks, Answered
  <2>2. CASE ~(r.kind = "me" /\ r.browser # NoBrowser)
    BY <2>2 DEF Checks
  <2> QED BY <2>1, <2>2
<1> QED BY <1>1, <1>2, <1>3, <1>4 DEF CallOK

LEMMA CallsPrime ==
  ASSUME \A d \in Calls : \A r : r = call'[d] => CallOK(r)'
  PROVE  CallsOK'
BY DEF CallsOK, CallOK, Asks, Clears, Sets, Checks, Signed, SignsIn, Answered, Expired

------------------------------------------------------------------------------
(* A statement of the server moves one call on, at the same page.            *)
Moves(c) ==
  /\ \A d \in Calls \ {c} : call'[d] = call[d]
  /\ call'[c].browser = call[c].browser /\ call'[c].kind = call[c].kind
  /\ call'[c].pc # "idle"

LEMMA AnswerOK ==
  ASSUME TypeOK, NEW c \in Calls, CallOK(call[c]), NEW h, NEW s, Answer(c, h, s),
         \/ h = "keep" /\ s # "ok"
         \/ h = "clear" /\ call[c].kind = "logout"
         \/ h = "clear" /\ s = "unauthorized" /\ call[c].kind \in {"ask", "me"}
  PROVE  Moves(c) /\ \A r : r = call'[c] => CallOK(r)'
<1>1. call[c] \in Call
  BY DEF TypeOK
<1>2. call' = [call EXCEPT ![c] = [call[c] EXCEPT !.pc = "reply", !.header = h, !.status = s,
                                      !.email = NoEmail, !.token = NoToken, !.user = NoUser]]
  BY DEF Answer, Become
<1>3. /\ call'[c].pc = "reply" /\ call'[c].header = h /\ call'[c].status = s
      /\ call'[c].kind = call[c].kind /\ call'[c].browser = call[c].browser
      /\ \A d \in Calls \ {c} : call'[d] = call[d]
  BY <1>1, <1>2 DEF TypeOK, Call
<1>4. ASSUME NEW r, r = call'[c] PROVE CallOK(r)'
  <2>1. r.pc = "reply" /\ r.header = h /\ r.status = s /\ r.kind = call[c].kind
    BY <1>3, <1>4
  <2>2. Asks(r)' /\ Clears(r)'
    BY <2>1 DEF Asks, Clears, Answered, AtServer
  <2>3. Sets(r)' /\ Checks(r)'
    BY <2>1 DEF Sets, Checks, Answered, SignsIn
  <2> QED BY <2>2, <2>3 DEF CallOK
<1> QED BY <1>3, <1>4 DEF Moves

(* A call that goes on to its next statement.                                *)
LEMMA NextStatementOK ==
  ASSUME TypeOK, NEW c \in Calls, CallOK(call[c]), call[c].pc \in AtServer, NEW new,
         call' = [call EXCEPT ![c] = new],
         new.browser = call[c].browser, new.kind = call[c].kind,
         new.header = call[c].header, new.status = call[c].status,
         new.pc \in {"insertUser", "createSession"}, SignsIn(call[c])
  PROVE  Moves(c) /\ \A r : r = call'[c] => CallOK(r)'
<1>1. call'[c] = new /\ \A d \in Calls \ {c} : call'[d] = call[d]
  BY DEF TypeOK
<1>2. CallOK(new)'
  BY DEF CallOK, Asks, Clears, Sets, Checks, Answered, SignsIn, AtServer
<1> QED BY <1>1, <1>2 DEF Moves

LEMMA ServerCall ==
  ASSUME TypeOK, UserKnown, CallsOK, NEW c \in Calls, Server(c)
  PROVE  Moves(c) /\ \A r : r = call'[c] => CallOK(r)'
<1> DEFINE f == call[c]
<1>1. f \in Call /\ CallOK(f) /\ call \in [Calls -> Call]
  BY DEF TypeOK, CallsOK
<1>2. CASE CheckEmail(c) \/ Lookup(c) \/ Fail(c) \/ InsertUser(c)
  <2>1. f.pc \in {"checkEmail", "insertUser", "lookup", "createSession"}
    BY <1>2 DEF CheckEmail, Lookup, Fail, InsertUser, At
  <2>2. SignsIn(f) /\ f.pc \in AtServer
    BY <1>1, <2>1 DEF CallOK, Asks, AtServer
  <2>3. CASE Answer(c, "keep", "failed") \/ Answer(c, "keep", "unauthorized")
    BY <1>1, <2>3, AnswerOK
  <2>4. CASE Goto(c, "insertUser")
    <3> DEFINE new == [f EXCEPT !.pc = "insertUser"]
    <3>1. /\ new.pc = "insertUser" /\ new.browser = f.browser /\ new.kind = f.kind
          /\ new.header = f.header /\ new.status = f.status
      BY <1>1 DEF Call
    <3>2. call' = [call EXCEPT ![c] = new]
      BY <2>4 DEF Goto, Become
    <3> HIDE DEF new
    <3> QED BY <1>1, <2>2, <3>1, <3>2, NextStatementOK
  <2>5. ASSUME NEW u, Become(c, [f EXCEPT !.pc = "createSession", !.user = u])
        PROVE  Moves(c) /\ \A r : r = call'[c] => CallOK(r)'
    <3> DEFINE new == [f EXCEPT !.pc = "createSession", !.user = u]
    <3>1. /\ new.pc = "createSession" /\ new.browser = f.browser /\ new.kind = f.kind
          /\ new.header = f.header /\ new.status = f.status
      BY <1>1 DEF Call
    <3>2. call' = [call EXCEPT ![c] = new]
      BY <2>5 DEF Become
    <3> HIDE DEF new
    <3> QED BY <1>1, <2>2, <3>1, <3>2, NextStatementOK
  <2> QED BY <1>2, <2>3, <2>4, <2>5 DEF CheckEmail, Lookup, Fail, InsertUser
<1>3. CASE CreateSession(c)
  <2> DEFINE t == Draw(Undrawn)
             new == [f EXCEPT !.pc = "reply", !.email = NoEmail, !.header = "set", !.token = t]
  <2>1. SignsIn(f)
    BY <1>1, <1>3 DEF CreateSession, At, CallOK, Asks
  <2>2. /\ new.pc = "reply" /\ new.browser = f.browser /\ new.kind = f.kind
        /\ new.header = "set" /\ new.token = t /\ new.user = f.user
    BY <1>1 DEF Call
  <2>3. call'[c] = new /\ \A d \in Calls \ {c} : call'[d] = call[d]
    BY <1>1, <1>3 DEF CreateSession, Become
  <2>4. t \in Tokens /\ t \in live' /\ session'[t].user = f.user
    <3>1. t \in Tokens
      BY <1>3, DrawIsMember DEF CreateSession, Undrawn
    <3> QED BY <1>3, <3>1 DEF CreateSession, TypeOK
  <2>5. session'[t] # NoSession
    BY <2>4, ServerType DEF TypeOK
  <2> HIDE DEF t, new
  <2>6. ASSUME NEW r, r = call'[c] PROVE CallOK(r)'
    <3>1. r.pc = "reply" /\ r.kind = f.kind /\ r.header = "set" /\ r.token = t /\ r.user = f.user
      BY <2>2, <2>3, <2>6
    <3>2. Asks(r)' /\ Clears(r)' /\ Checks(r)'
      BY <2>1, <3>1 DEF Asks, Clears, Checks, Answered, SignsIn, AtServer
    <3>3. Signed(r.token, r.user)'
      BY <2>4, <2>5, <3>1 DEF Signed
    <3>4. Sets(r)'
      BY <2>1, <3>1, <3>3 DEF Sets, Answered, SignsIn
    <3> QED BY <3>2, <3>4 DEF CallOK
  <2> QED BY <2>2, <2>3, <2>6 DEF Moves
<1>4. CASE DeleteSession(c)
  BY <1>1, <1>4, AnswerOK DEF DeleteSession, At, CallOK, Asks
<1>5. CASE GetSession(c)
  <2> DEFINE t == f.token
             new == [f EXCEPT !.pc = "reply", !.token = NoToken, !.user = session[t].user]
  <2>1. f.kind \in {"ask", "me"} /\ f.pc = "getSession" /\ f.header = "keep"
    BY <1>1, <1>5 DEF GetSession, At, CallOK, Asks, AtServer
  <2>2. CASE Answer(c, "keep", "unauthorized") \/ Answer(c, "clear", "unauthorized")
    BY <1>1, <2>1, <2>2, AnswerOK
  <2>3. CASE t \in live /\ Become(c, new)
    <3>1. /\ new.pc = "reply" /\ new.browser = f.browser /\ new.kind = f.kind
          /\ new.header = f.header /\ new.user = session[t].user
      BY <1>1 DEF Call
    <3>2. call'[c] = new /\ \A d \in Calls \ {c} : call'[d] = call[d]
      BY <1>1, <2>3 DEF Become
    <3>3. session' = session /\ live' = live /\ left' = left /\ cookie' = cookie
      BY <1>5 DEF GetSession, database, page
    <3>4. t \in Tokens /\ session[t] # NoSession
      BY <2>3 DEF TypeOK
    <3>5. f.kind = "me" /\ f.browser # NoBrowser => t = cookie[f.browser]
      BY <1>1, <2>1 DEF CallOK, Checks
    <3> HIDE DEF new
    <3>6. ASSUME NEW r, r = call'[c] PROVE CallOK(r)'
      <4>1. /\ r.pc = "reply" /\ r.kind = f.kind /\ r.header = "keep"
            /\ r.user = session[t].user /\ r.browser = f.browser
        BY <2>1, <3>1, <3>2, <3>6
      <4>2. Asks(r)' /\ Clears(r)' /\ Sets(r)'
        BY <2>1, <4>1 DEF Asks, Clears, Sets, Answered, SignsIn, AtServer
      <4>3. Signed(t, r.user) /\ \A x, u : Signed(x, u) => Signed(x, u)'
        BY <2>3, <3>3, <3>4, <4>1, SignedStays DEF Signed, Next
      <4>4. PICK x : x = t
        OBVIOUS
      <4>5. r.kind = "me" /\ r.browser # NoBrowser => x = cookie'[r.browser] /\ Signed(x, r.user)'
        BY <3>3, <3>5, <4>1, <4>3, <4>4
      <4>6. Checks(r)'
        BY <4>1, <4>5 DEF Checks, Answered, Signed
      <4> QED BY <4>2, <4>6 DEF CallOK
    <3> QED BY <3>1, <3>2, <3>6 DEF Moves
  <2> QED BY <1>5, <2>2, <2>3 DEF GetSession
<1> QED BY <1>2, <1>3, <1>4, <1>5 DEF Server

(* An answer that was lost names no one.                                     *)
LEMMA LostOK ==
  ASSUME TypeOK, NEW c \in Calls, NEW r, r = Lost(c)
  PROVE  /\ CallOK(r)'
         /\ r.browser = call[c].browser
         /\ call[c].browser # NoBrowser => r.kind = call[c].kind /\ r.pc # "idle"
<1>1. /\ Idle.pc = "idle" /\ Idle.kind = "ask" /\ Idle.browser = NoBrowser
      /\ Idle.header = "keep" /\ Idle.status = "ok"
  BY DEF Idle
<1>2. CASE call[c].browser = NoBrowser
  <2>1. r = Idle
    BY <1>2 DEF Lost
  <2> QED BY <1>1, <1>2, <2>1 DEF CallOK, Asks, Clears, Sets, Checks, Answered, AtServer
<1>3. CASE call[c].browser # NoBrowser
  <2>1. r = [Idle EXCEPT !.pc = "callback", !.kind = call[c].kind,
                         !.browser = call[c].browser, !.status = "failed"]
    BY <1>3 DEF Lost
  <2>2. /\ r.pc = "callback" /\ r.kind = call[c].kind /\ r.browser = call[c].browser
        /\ r.header = "keep" /\ r.status = "failed"
    BY <2>1 DEF Idle
  <2>3. Asks(r)' /\ Clears(r)'
    BY <2>2 DEF Asks, Clears, Answered, AtServer
  <2>4. Sets(r)' /\ Checks(r)'
    BY <2>2 DEF Sets, Checks, Answered
  <2> QED BY <2>2, <2>3, <2>4 DEF CallOK
<1> QED BY <1>2, <1>3

(* A step that no page notices: calls go on, none reaches a callback except  *)
(* as a network error, and cookies and what is shown stay.                   *)
Unnoticed ==
  /\ UNCHANGED page
  /\ \A d \in Calls :
       \/ call'[d] = call[d]
       \/ /\ call[d].pc \notin {"idle", "callback"}
          /\ call'[d].browser = call[d].browser
          /\ call[d].browser # NoBrowser =>
               call'[d].kind = call[d].kind /\ call'[d].pc # "idle"

LEMMA UnnoticedPages ==
  ASSUME TypeOK, CallsOK, PagesOK, Next, Unnoticed
  PROVE  PagesOK'
<1> SUFFICES ASSUME NEW b \in Browsers PROVE AloneAt(b)' /\ SignedInAt(b)'
  BY DEF PagesOK
<1>1. b # NoBrowser /\ AloneAt(b) /\ SignedInAt(b)
  BY ConstantAssumption DEF PagesOK
<1>2. Open(b)' = Open(b) /\ \A d \in Open(b) : call'[d].kind = call[d].kind
  BY <1>1 DEF Unnoticed, Open, At
<1>3. \A d \in Open(b) : At(d, "callback") => call'[d] = call[d]
  BY DEF Unnoticed, Open, At
<1>4. cookie' = cookie /\ shown' = shown /\ crossed' = crossed
  BY DEF Unnoticed, page
<1>5. AloneAt(b)'
  BY <1>1, <1>2, <1>4 DEF AloneAt, SignsIn
<1>6. Kinds(b)' = Kinds(b)
  BY <1>2 DEF Kinds
<1>7. Signed(cookie[b], shown[b]) => Signed(cookie[b], shown[b])'
  <2>1. PICK t, u : t = cookie[b] /\ u = shown[b]
    OBVIOUS
  <2>2. Signed(t, u) => Signed(t, u)'
    BY SignedStays
  <2> QED BY <1>4, <2>1, <2>2 DEF Signed
<1>8. SignedInAt(b)'
  BY <1>1, <1>2, <1>3, <1>4, <1>6, <1>7 DEF SignedInAt, At
<1> QED BY <1>5, <1>8

LEMMA UnnoticedCalls ==
  ASSUME TypeOK, CallsOK, Next, UNCHANGED page,
         \A d \in Calls : call'[d] = call[d] \/ \A r : r = call'[d] => CallOK(r)'
  PROVE  CallsOK'
<1>1. ASSUME NEW d \in Calls, NEW r, r = call'[d] PROVE CallOK(r)'
  <2>1. CASE call'[d] = call[d]
    <3>1. CallOK(r)
      BY <1>1, <2>1 DEF CallsOK
    <3> QED BY <3>1, CallStays DEF page
  <2> QED BY <1>1, <2>1
<1> QED BY <1>1, CallsPrime

LEMMA UnnoticedStep ==
  ASSUME IInv, CallsOK, PagesOK, Next,
         \/ \E c \in Calls : Server(c) \/ LoseReply(c)
         \/ \E t \in Tokens : Touch(t)
         \/ CleanExpired \/ Restart \/ Tick
  PROVE  CallsOK' /\ PagesOK'
<1> USE DEF IInv
<1>1. ASSUME NEW c \in Calls, Server(c) PROVE CallsOK' /\ PagesOK'
  <2>1. UNCHANGED page /\ call[c].pc \notin {"idle", "callback"}
    BY <1>1 DEF Server, CheckEmail, InsertUser, Lookup, CreateSession, DeleteSession,
       GetSession, Fail, At
  <2>2. Moves(c) /\ \A r : r = call'[c] => CallOK(r)'
    BY <1>1, ServerCall
  <2>3. Unnoticed
    BY <2>1, <2>2 DEF Unnoticed, Moves
  <2>4. CallsOK'
    BY <2>1, <2>2, UnnoticedCalls DEF Moves
  <2> QED BY <2>3, <2>4, UnnoticedPages
<1>2. ASSUME NEW c \in Calls, LoseReply(c) PROVE CallsOK' /\ PagesOK'
  <2>1. /\ UNCHANGED page /\ call[c].pc = "reply"
        /\ call'[c] = Lost(c) /\ \A d \in Calls \ {c} : call'[d] = call[d]
    BY <1>2 DEF LoseReply, Become, At, TypeOK
  <2>2. Unnoticed
    BY <2>1, LostOK DEF Unnoticed
  <2>3. CallsOK'
    BY <2>1, LostOK, UnnoticedCalls
  <2> QED BY <2>2, <2>3, UnnoticedPages
<1>3. CASE Restart
  <2>1. /\ UNCHANGED page
        /\ \A d \in Calls : \/ call'[d] = call[d]
                            \/ call[d].pc \in AtServer /\ call'[d] = Lost(d)
    BY <1>3 DEF Restart
  <2>2. Unnoticed
    BY <2>1, LostOK DEF Unnoticed, AtServer
  <2>3. CallsOK'
    BY <2>1, LostOK, UnnoticedCalls
  <2> QED BY <2>2, <2>3, UnnoticedPages
<1>4. CASE (\E t \in Tokens : Touch(t)) \/ CleanExpired \/ Tick
  <2>1. UNCHANGED page /\ call' = call
    BY <1>4 DEF Touch, CleanExpired, Tick
  <2> QED BY <2>1, UnnoticedCalls, UnnoticedPages DEF Unnoticed
<1> QED BY <1>1, <1>2, <1>3, <1>4

------------------------------------------------------------------------------
(* The steps of the browser.  A call that is sent knows its cookie.          *)
LEMMA SendCalls ==
  ASSUME TypeOK, CallsOK, Next, NEW c \in Calls, NEW b \in Browsers, NEW e,
         NEW kind \in {"register", "login", "logout", "ask"}, NEW first,
         Send(c, b, kind, e, first),
         \/ kind \in {"register", "login"} /\ first \in {"checkEmail", "lookup"}
         \/ kind = "ask" /\ first = "getSession"
         \/ kind = "logout" /\ first = "deleteSession"
  PROVE  /\ CallsOK'
         /\ call[c].pc = "idle" /\ call'[c].pc = first /\ call'[c].kind = kind
         /\ call'[c].browser = b /\ \A d \in Calls \ {c} : call'[d] = call[d]
<1>1. PICK t : /\ Become(c, [Idle EXCEPT !.pc = first, !.browser = b, !.kind = kind,
                                         !.email = e, !.token = t])
               /\ left' = IF kind = "logout" THEN left \cup ({t} \ {NoToken}) ELSE left
  BY DEF Send
<1>2. /\ call'[c] = [Idle EXCEPT !.pc = first, !.browser = b, !.kind = kind,
                                 !.email = e, !.token = t]
      /\ \A d \in Calls \ {c} : call'[d] = call[d]
  BY <1>1 DEF Become, TypeOK
<1>3. cookie' = cookie /\ crossed' = crossed /\ left \subseteq left'
  BY <1>1 DEF Send
<1>4. /\ call'[c].pc = first /\ call'[c].kind = kind /\ call'[c].browser = b
      /\ call'[c].token = t /\ call'[c].header = "keep" /\ call'[c].status = "ok"
  BY <1>2 DEF Idle
<1>5. ASSUME NEW d \in Calls, NEW r, r = call'[d] PROVE CallOK(r)'
  <2>1. CASE d = c
    <3>1. /\ r.pc = first /\ r.kind = kind /\ r.token = t /\ r.header = "keep"
          /\ r.status = "ok"
      BY <1>4, <1>5, <2>1
    <3>2. Clears(r)' /\ Sets(r)' /\ Checks(r)'
      BY <3>1 DEF Clears, Sets, Checks, Answered
    <3>3. kind = "logout" => t \in left' \cup {NoToken}
      BY <1>1
    <3>4. Asks(r)'
      BY <3>1, <3>3 DEF Asks, SignsIn
    <3> QED BY <3>2, <3>4 DEF CallOK
  <2>2. CASE d # c
    <3>1. CallOK(r)
      BY <1>2, <1>5, <2>2 DEF CallsOK
    <3> QED BY <1>3, <3>1, CallStays
  <2> QED BY <2>1, <2>2
<1>6. CallsOK'
  BY <1>5, CallsPrime
<1>7. call[c].pc = "idle"
  BY DEF Send, At
<1> QED BY <1>2, <1>4, <1>6, <1>7

LEMMA SendPages ==
  ASSUME IInv, CallsOK, PagesOK, Next, NEW c \in Calls, NEW b \in Browsers,
         SignIn(c, b) \/ UseApp(c, b)
  PROVE  CallsOK' /\ PagesOK'
<1> USE DEF IInv
<1>1. /\ CallsOK' /\ call[c].pc = "idle" /\ call'[c].pc \notin {"idle", "callback"}
      /\ call'[c].kind # "me" /\ call'[c].browser = b
      /\ \A d \in Calls \ {c} : call'[d] = call[d]
      /\ SignIn(c, b) \/ ~SignsIn(call'[c])
  <2>1. CASE SignIn(c, b)
    <3>1. PICK e : Send(c, b, "register", e, "checkEmail") \/ Send(c, b, "login", e, "lookup")
      BY <2>1 DEF SignIn
    <3> QED BY <2>1, <3>1, SendCalls
  <2>2. CASE UseApp(c, b)
    <3>1. \/ Send(c, b, "ask", NoEmail, "getSession")
          \/ Send(c, b, "logout", NoEmail, "deleteSession")
      BY <2>2 DEF UseApp
    <3> QED BY <3>1, SendCalls DEF SignsIn
  <2> QED BY <2>1, <2>2
<1>2. cookie' = cookie /\ shown' = shown /\ crossed' = crossed
  BY DEF SignIn, UseApp, Send
<1>3. /\ "me" \notin Kinds(b)
      /\ SignIn(c, b) => shown[b] = NoUser /\ \A d \in Open(b) : ~SignsIn(call[d])
  BY DEF SignIn, UseApp, Kinds, SignsIn
<1>4. /\ Open(b)' = Open(b) \cup {c} /\ c \notin Open(b)
      /\ \A a \in Browsers \ {b} : Open(a)' = Open(a)
      /\ \A a \in Browsers : \A d \in Open(a) : d # c /\ call'[d] = call[d]
  BY <1>1 DEF Open, At
<1>5. ASSUME NEW a \in Browsers PROVE AloneAt(a)'
  <2>1. AloneAt(a)
    BY DEF PagesOK
  <2>2. CASE a # b
    BY <1>2, <1>4, <2>1, <2>2 DEF AloneAt, SignsIn
  <2>3. CASE a = b
    <3>1. ASSUME NEW d \in Open(b)', call'[d].kind = "me" PROVE FALSE
      BY <1>1, <1>3, <1>4, <3>1 DEF Kinds
    <3>2. ASSUME NEW d \in Open(b)', SignsIn(call'[d])
          PROVE  shown'[b] = NoUser /\ \A x \in Open(b)' : SignsIn(call'[x]) => x = d
      BY <1>1, <1>2, <1>3, <1>4, <2>1, <2>3, <3>2 DEF AloneAt, SignsIn
    <3> QED BY <2>3, <3>1, <3>2 DEF AloneAt, SignsIn
  <2> QED BY <2>2, <2>3
<1>6. ASSUME NEW a \in Browsers PROVE SignedInAt(a)'
  <2>1. SignedInAt(a)
    BY DEF PagesOK
  <2>2. Kinds(a) \subseteq Kinds(a)'
    BY <1>4 DEF Kinds
  <2>3. Signed(cookie[a], shown[a]) => Signed(cookie[a], shown[a])'
    <3>1. PICK t, u : t = cookie[a] /\ u = shown[a]
      OBVIOUS
    <3>2. Signed(t, u) => Signed(t, u)'
      BY SignedStays
    <3> QED BY <1>2, <3>1, <3>2 DEF Signed
  <2>4. \A d \in Open(a) : d \in Open(a)' /\ call'[d] = call[d]
    BY <1>4
  <2> QED BY <1>2, <2>1, <2>2, <2>3, <2>4 DEF SignedInAt, At
<1> QED BY <1>1, <1>5, <1>6 DEF PagesOK

------------------------------------------------------------------------------
(* A page that is loaded again has one call, and no other page is touched.   *)
LEMMA ReloadPages ==
  ASSUME IInv, CallsOK, PagesOK, Next, NEW c \in Calls, NEW b \in Browsers, Reload(c, b)
  PROVE  CallsOK' /\ PagesOK'
<1> USE DEF IInv
<1>0. b # NoBrowser /\ call \in [Calls -> Call]
  BY ConstantAssumption DEF TypeOK
<1>1. cookie' = cookie /\ shown' = shown /\ left' = left /\ crossed' = crossed \ {b}
  BY DEF Reload
<1>2. /\ call[c].pc = "idle" /\ call'[c].pc = "getSession" /\ call'[c].kind = "me"
      /\ call'[c].browser = b /\ call'[c].token = cookie[b]
      /\ call'[c].header = "keep" /\ call'[c].status = "ok"
  BY DEF Reload, At, Idle
<1>3. \A d \in Calls \ {c} :
        \/ d \notin Open(b) /\ call'[d] = call[d]
        \/ d \in Open(b) /\ call'[d] = Idle
        \/ /\ d \in Open(b) /\ call[d].pc \in AtServer
           /\ call'[d] = [call[d] EXCEPT !.browser = NoBrowser]
  BY DEF Reload
<1>3a. \A d \in Calls \ {c} :
         call'[d].browser = NoBrowser \/ (d \notin Open(b) /\ call'[d] = call[d])
  <2>1. Idle.browser = NoBrowser
    BY DEF Idle
  <2>2. \A d \in Calls : [call[d] EXCEPT !.browser = NoBrowser].browser = NoBrowser
    BY <1>0 DEF Call
  <2> QED BY <1>3, <2>1, <2>2
<1>4. Open(b)' = {c}
  BY <1>0, <1>2, <1>3a DEF Open, At
<1>5. \A a \in Browsers \ {b} :
        Open(a)' = Open(a) /\ \A d \in Open(a) : call'[d] = call[d]
  <2>1. \A d \in Calls : d \in Open(b) => call'[d].browser \in {b, NoBrowser}
    BY <1>2, <1>3a
  <2>2. \A a \in Browsers : a # NoBrowser
    BY ConstantAssumption
  <2>3. c \notin Open(b)
    BY <1>2 DEF Open, At
  <2> QED BY <1>2, <1>3, <2>1, <2>2, <2>3 DEF Open, At
<1>6. ASSUME NEW d \in Calls, NEW r, r = call'[d] PROVE CallOK(r)'
  <2>1. CASE d = c
    <3>1. /\ r.pc = "getSession" /\ r.kind = "me" /\ r.browser = b /\ r.token = cookie'[b]
          /\ r.header = "keep" /\ r.status = "ok"
      BY <1>1, <1>2, <1>6, <2>1
    <3> QED BY <3>1 DEF CallOK, Asks, Clears, Sets, Checks, Answered
  <2>2. CASE d # c /\ d \notin Open(b)
    <3>1. r = call[d] /\ CallOK(r)
      BY <1>3, <1>6, <2>2 DEF CallsOK
    <3>2. r.browser # b \/ r.pc = "idle"
      BY <2>2, <3>1 DEF Open, At
    <3>3. CASE r.browser # b
      BY <1>1, <3>1, <3>3, CallStays
    <3>4. CASE r.pc = "idle"
      BY <3>4 DEF CallOK, Asks, Clears, Sets, Checks, Answered, AtServer
    <3> QED BY <3>2, <3>3, <3>4
  <2>3. CASE d # c /\ r = Idle
    <3>1. r.pc = "idle"
      BY <2>3 DEF Idle
    <3> QED BY <3>1 DEF CallOK, Asks, Clears, Sets, Checks, Answered, AtServer
  <2>4. CASE d # c /\ call[d].pc \in AtServer /\ r = [call[d] EXCEPT !.browser = NoBrowser]
    <3>1. /\ r.pc = call[d].pc /\ r.kind = call[d].kind /\ r.token = call[d].token
          /\ r.header = call[d].header /\ r.status = call[d].status /\ r.browser = NoBrowser
      BY <1>0, <2>4 DEF Call
    <3>2. Asks(call[d])
      BY DEF CallsOK, CallOK
    <3>3. Asks(r)'
      BY <1>1, <3>1, <3>2 DEF Asks, SignsIn
    <3>4. Clears(r)' /\ Sets(r)' /\ Checks(r)'
      BY <2>4, <3>1 DEF Clears, Sets, Checks, Answered, AtServer
    <3> QED BY <3>3, <3>4 DEF CallOK
  <2> QED BY <1>3, <1>6, <2>1, <2>2, <2>3, <2>4
<1>7. CallsOK'
  BY <1>6, CallsPrime
<1>8. ASSUME NEW a \in Browsers PROVE AloneAt(a)' /\ SignedInAt(a)'
  <2>1. CASE a = b
    BY <1>2, <1>4, <2>1 DEF AloneAt, SignedInAt, SignsIn, Kinds
  <2>2. CASE a # b
    <3>1. AloneAt(a) /\ SignedInAt(a)
      BY DEF PagesOK
    <3>2. AloneAt(a)' /\ Kinds(a)' = Kinds(a)
      BY <1>1, <1>5, <2>2, <3>1 DEF AloneAt, SignsIn, Kinds
    <3>3. PICK t, u : t = cookie[a] /\ u = shown[a]
      OBVIOUS
    <3>4. Signed(t, u) => Signed(t, u)'
      BY SignedStays
    <3>5. Signed(cookie[a], shown[a]) => Signed(cookie[a], shown[a])'
      BY <1>1, <3>3, <3>4 DEF Signed
    <3> QED BY <1>1, <1>5, <2>2, <3>1, <3>2, <3>5 DEF SignedInAt, At
  <2> QED BY <2>1, <2>2
<1> QED BY <1>7, <1>8 DEF PagesOK

------------------------------------------------------------------------------
(* The header of an answer: the cookie changes before anything is shown.     *)
LEMMA HeaderFacts ==
  ASSUME TypeOK, NEW c \in Calls, Header(c)
  PROVE  /\ call[c].pc = "reply" /\ call[c].browser \in Browsers
         /\ call'[c].pc = "callback" /\ call'[c].browser = call[c].browser
         /\ call'[c].kind = call[c].kind /\ call'[c].header = call[c].header
         /\ call'[c].status = call[c].status /\ call'[c].token = call[c].token
         /\ call'[c].user = call[c].user
         /\ \A d \in Calls \ {c} : call'[d] = call[d]
         /\ \A a \in Browsers \ {call[c].browser} : cookie'[a] = cookie[a]
         /\ call[c].header = "keep" => cookie'[call[c].browser] = cookie[call[c].browser]
         /\ call[c].header = "set" => cookie'[call[c].browser] = call[c].token
         /\ shown' = shown /\ left' = left /\ crossed \subseteq crossed'
         /\ call[c].header # "keep" /\ (\E d \in Open(call[c].browser) : At(d, "callback"))
              => call[c].browser \in crossed'
<1> DEFINE f == call[c]
<1>1. f \in Call /\ call \in [Calls -> Call] /\ cookie \in [Browsers -> Tokens \cup {NoToken}]
  BY DEF TypeOK
<1>2. f.pc = "reply" /\ f.browser \in Browsers
  BY <1>1 DEF Header, At, Call
<1>3. /\ call'[c].pc = "callback" /\ call'[c].browser = f.browser
      /\ call'[c].kind = f.kind /\ call'[c].header = f.header
      /\ call'[c].status = f.status /\ call'[c].token = f.token /\ call'[c].user = f.user
      /\ \A d \in Calls \ {c} : call'[d] = call[d]
  BY <1>1 DEF Header, Goto, Become, Call
<1>4. cookie' = [cookie EXCEPT ![f.browser] = CASE f.header = "set"   -> f.token
                                                [] f.header = "clear" -> NoToken
                                                [] f.header = "keep"  -> @]
  BY DEF Header
<1> HIDE DEF f
<1>5. /\ \A a \in Browsers \ {f.browser} : cookie'[a] = cookie[a]
      /\ f.header = "keep" => cookie'[f.browser] = cookie[f.browser]
      /\ f.header = "set" => cookie'[f.browser] = f.token
  BY <1>1, <1>2, <1>4
<1>6. /\ shown' = shown /\ left' = left /\ crossed \subseteq crossed'
      /\ f.header # "keep" /\ (\E d \in Open(f.browser) : At(d, "callback"))
           => f.browser \in crossed'
  BY DEF Header, f
<1> QED BY <1>2, <1>3, <1>5, <1>6 DEF f

LEMMA HeaderCalls ==
  ASSUME TypeOK, CallsOK, PagesOK, Next, NEW c \in Calls, Header(c)
  PROVE  CallsOK'
<1>1. PICK b : b = call[c].browser /\ b \in Browsers
  BY HeaderFacts
<1>2. b # NoBrowser /\ c \in Open(b)
  BY <1>1, HeaderFacts, ConstantAssumption DEF Open, At
<1>3. ASSUME NEW d \in Calls, NEW r, r = call'[d] PROVE CallOK(r)'
  <2>1. CASE d = c
    <3> DEFINE f == call[c]
    <3>1. /\ r.pc = "callback" /\ r.browser = b /\ r.kind = f.kind /\ r.header = f.header
          /\ r.status = f.status /\ r.token = f.token /\ r.user = f.user
          /\ f.header = "set" => cookie'[b] = f.token
          /\ f.header = "keep" => cookie'[b] = cookie[b]
      BY <1>1, <1>3, <2>1, HeaderFacts
    <3>2. CallOK(f) /\ f.pc = "reply" /\ f.browser = b
      BY <1>1, HeaderFacts DEF CallsOK
    <3> HIDE DEF f
    <3>3. Asks(r)' /\ Clears(r)'
      BY <3>1, <3>2 DEF CallOK, Asks, Clears, Answered, AtServer
    <3>4. Sets(r)'
      <4>1. Signed(f.token, f.user) <=> Signed(r.token, r.user)
        BY <3>1
      <4>2. Signed(r.token, r.user) => Signed(r.token, r.user)'
        BY SignedStays
      <4> QED BY <3>1, <3>2, <4>1, <4>2 DEF CallOK, Sets, Answered, SignsIn
    <3>5. Checks(r)'
      <4>1. PICK t : t = cookie[b]
        OBVIOUS
      <4>2. Signed(t, r.user) => Signed(t, r.user)'
        BY SignedStays
      <4>3. f.header = "keep" /\ Signed(cookie[b], f.user) => Signed(cookie[b], r.user)'
        BY <3>1, <4>1, <4>2 DEF Signed
      <4> QED BY <1>2, <3>1, <3>2, <4>3 DEF CallOK, Checks, Answered
    <3> QED BY <3>3, <3>4, <3>5 DEF CallOK
  <2>2. CASE d # c
    <3>1. r = call[d] /\ CallOK(r) /\ r \in Call
      BY <1>3, <2>2, HeaderFacts DEF CallsOK, TypeOK
    <3>2. CASE r.browser # b \/ call[c].header = "keep"
      <4>1. r.browser # NoBrowser => r.browser \in Browsers
        BY <3>1 DEF Call
      <4>2. r.browser # NoBrowser => cookie'[r.browser] = cookie[r.browser]
        BY <1>1, <3>2, <4>1, HeaderFacts
      <4>3. left \subseteq left' /\ crossed \subseteq crossed'
        BY HeaderFacts
      <4> QED BY <3>1, <4>2, <4>3, CallStays
    <3>3. CASE r.pc = "idle"
      BY <3>3 DEF CallOK, Asks, Clears, Sets, Checks, Answered, AtServer
    <3>4. CASE r.browser = b /\ call[c].header # "keep" /\ r.pc # "idle"
      <4>1. d \in Open(b)
        BY <1>2, <3>1, <3>4 DEF Open, At
      <4>2. r.kind # "me"
        BY <1>1, <1>2, <2>2, <3>1, <4>1 DEF PagesOK, AloneAt
      <4>3. r.pc = "callback" => b \in crossed'
        BY <1>1, <3>1, <3>4, <4>1, HeaderFacts DEF At
      <4>4. left' = left
        BY HeaderFacts
      <4>5. Asks(r)' /\ Clears(r)' /\ Checks(r)'
        BY <3>1, <4>2, <4>4 DEF CallOK, Asks, Clears, Checks, Answered, SignsIn
      <4>6. Signed(r.token, r.user) => Signed(r.token, r.user)'
        BY SignedStays
      <4>7. Sets(r)'
        BY <3>1, <3>4, <4>3, <4>6 DEF CallOK, Sets, Answered, SignsIn
      <4> QED BY <4>5, <4>7 DEF CallOK
    <3> QED BY <3>2, <3>3, <3>4
  <2> QED BY <2>1, <2>2
<1> QED BY <1>3, CallsPrime

LEMMA HeaderPages ==
  ASSUME TypeOK, CallsOK, PagesOK, Next, NEW c \in Calls, Header(c)
  PROVE  PagesOK'
<1>1. PICK b : b = call[c].browser /\ b \in Browsers
  BY HeaderFacts
<1>2. b # NoBrowser /\ c \in Open(b) /\ call'[c].pc = "callback" /\ call[c].pc = "reply"
  BY <1>1, HeaderFacts, ConstantAssumption DEF Open, At
<1>3. /\ \A a \in Browsers : Open(a)' = Open(a) /\ Open(a) \subseteq Calls
      /\ \A d \in Calls : call'[d].kind = call[d].kind
  BY HeaderFacts DEF Open, At
<1>4. shown' = shown /\ crossed \subseteq crossed'
  BY HeaderFacts
<1>5. ASSUME NEW a \in Browsers PROVE AloneAt(a)' /\ SignedInAt(a)'
  <2>1. AloneAt(a) /\ SignedInAt(a)
    BY DEF PagesOK
  <2>2. AloneAt(a)' /\ Kinds(a)' = Kinds(a)
    BY <1>3, <1>4, <2>1 DEF AloneAt, SignsIn, Kinds
  <2>3. \A d \in Open(a) : At(d, "callback") => call'[d] = call[d]
    BY <1>2, HeaderFacts DEF At, Open
  <2>4. CASE a # b \/ call[c].header = "keep"
    <3>1. cookie'[a] = cookie[a]
      BY <1>1, <2>4, HeaderFacts
    <3>2. PICK t, u : t = cookie[a] /\ u = shown[a]
      OBVIOUS
    <3>3. Signed(t, u) => Signed(t, u)'
      BY SignedStays
    <3>4. Signed(cookie[a], shown[a]) => Signed(cookie[a], shown[a])'
      BY <1>4, <3>1, <3>2, <3>3 DEF Signed
    <3> QED BY <1>3, <1>4, <2>1, <2>2, <2>3, <3>4 DEF SignedInAt, At
  <2>5. CASE a = b /\ call[c].header = "clear"
    <3>1. call'[c].header = "clear"
      BY <2>5, HeaderFacts
    <3> QED BY <1>2, <1>3, <2>2, <2>5, <3>1 DEF SignedInAt, At
  <2>6. CASE a = b /\ call[c].header = "set"
    <3>1. SignsIn(call[c])
      BY <1>2, <2>6 DEF CallsOK, CallOK, Sets, Answered
    <3>2. shown'[b] = NoUser
      BY <1>2, <1>4, <2>1, <2>6, <3>1 DEF AloneAt
    <3> QED BY <2>2, <2>6, <3>2 DEF SignedInAt
  <2> QED BY <2>4, <2>5, <2>6 DEF TypeOK, Call
<1> QED BY <1>5 DEF PagesOK

------------------------------------------------------------------------------
(* The callback of an answer: what the app shows follows.                    *)
LEMMA CallbackFacts ==
  ASSUME TypeOK, NEW c \in Calls, Callback(c)
  PROVE  /\ call[c].pc = "callback" /\ call'[c].pc = "idle"
         /\ \A d \in Calls \ {c} : call'[d] = call[d]
         /\ cookie' = cookie /\ left' = left /\ crossed' = crossed
         /\ \A a \in Browsers : shown'[a] = IF a = call[c].browser THEN Shows(call[c], shown[a])
                                            ELSE shown[a]
BY DEF Callback, At, Become, Idle, TypeOK

LEMMA CallbackCalls ==
  ASSUME TypeOK, CallsOK, Next, NEW c \in Calls, Callback(c)
  PROVE  CallsOK'
<1>1. ASSUME NEW d \in Calls, NEW r, r = call'[d] PROVE CallOK(r)'
  <2>1. CASE d = c
    <3>1. r.pc = "idle"
      BY <1>1, <2>1, CallbackFacts
    <3> QED BY <3>1 DEF CallOK, Asks, Clears, Sets, Checks, Answered, AtServer
  <2>2. CASE d # c
    <3>1. CallOK(r)
      BY <1>1, <2>2, CallbackFacts DEF CallsOK
    <3> QED BY <3>1, CallbackFacts, CallStays
  <2> QED BY <2>1, <2>2
<1> QED BY <1>1, CallsPrime

LEMMA CallbackOwn ==
  ASSUME TypeOK, CallsOK, PagesOK, Next, NEW c \in Calls, Callback(c), NEW b \in Browsers,
         b = call[c].browser
  PROVE  AloneAt(b)' /\ SignedInAt(b)'
<1> DEFINE f == call[c]
<1>1. f \in Call /\ CallOK(f) /\ f.pc = "callback" /\ f.browser = b /\ b # NoBrowser
  BY CallbackFacts, ConstantAssumption DEF TypeOK, CallsOK
<1>2. AloneAt(b) /\ SignedInAt(b) /\ c \in Open(b)
  BY <1>1 DEF PagesOK, Open, At
<1>3. Open(b)' = Open(b) \ {c} /\ \A d \in Open(b) \ {c} : call'[d] = call[d]
  BY CallbackFacts DEF Open, At
<1>4. cookie' = cookie /\ crossed' = crossed /\ shown'[b] = Shows(f, shown[b])
  BY CallbackFacts
<1>5. \A t, u : Signed(t, u) => Signed(t, u)'
  BY SignedStays
<1> HIDE DEF f
<1>6. AloneAt(b)'
  <2>1. ASSUME NEW d \in Open(b) \ {c} PROVE call[d].kind # "me"
    BY <1>2, <2>1 DEF AloneAt
  <2>2. ASSUME NEW d \in Open(b) \ {c}, SignsIn(call[d])
        PROVE  shown'[b] = NoUser /\ \A x \in Open(b) \ {c} : SignsIn(call[x]) => x = d
    <3>1. f.kind # "me" /\ ~SignsIn(f) /\ shown[b] = NoUser
      BY <1>2, <2>2 DEF AloneAt, f
    <3>2. f.kind \in {"logout", "ask"}
      BY <1>1, <3>1 DEF Call, SignsIn
    <3> QED BY <1>2, <1>4, <2>2, <3>1, <3>2 DEF AloneAt, Shows
  <2> QED BY <1>3, <2>1, <2>2 DEF AloneAt, SignsIn
<1>7. SignedInAt(b)'
  <2> SUFFICES ASSUME shown'[b] # NoUser, b \notin crossed, "me" \notin Kinds(b)'
               PROVE  \/ Signed(cookie[b], shown[b])'
                      \/ \E d \in Open(b)' : call'[d].pc = "callback" /\ call'[d].header = "clear"
    BY <1>4 DEF SignedInAt, At
  <2>1. CASE SignsIn(f)
    <3>1. f.status = "ok" /\ shown'[b] = f.user
      BY <1>1, <1>2, <1>4, <2>1 DEF Shows, SignsIn, AloneAt, f
    <3>2. Signed(f.token, f.user) /\ cookie[b] = f.token
      BY <1>1, <2>1, <3>1 DEF CallOK, Sets, Answered
    <3>3. PICK t, u : t = f.token /\ u = f.user
      OBVIOUS
    <3> QED BY <1>4, <1>5, <3>1, <3>2, <3>3 DEF Signed
  <2>2. CASE f.kind = "me"
    <3>1. f.status = "ok" /\ shown'[b] = f.user
      BY <1>4, <2>2 DEF Shows
    <3>2. Signed(cookie[b], f.user)
      BY <1>1, <2>2, <3>1 DEF CallOK, Checks, Answered
    <3>3. PICK t, u : t = cookie[b] /\ u = f.user
      OBVIOUS
    <3> QED BY <1>4, <1>5, <3>1, <3>2, <3>3 DEF Signed
  <2>3. CASE f.kind = "ask"
    <3>1. f.status # "unauthorized" /\ shown'[b] = shown[b]
      BY <1>4, <2>3 DEF Shows
    <3>2. "me" \notin Kinds(b)
      BY <1>3, <2>3 DEF Kinds, f
    <3>3. f.header # "clear"
      BY <1>1, <2>3, <3>1 DEF CallOK, Clears, Answered
    <3>4. CASE Signed(cookie[b], shown[b])
      <4>1. PICK t, u : t = cookie[b] /\ u = shown[b]
        OBVIOUS
      <4> QED BY <1>4, <1>5, <3>1, <3>4, <4>1 DEF Signed
    <3>5. CASE \E d \in Open(b) : At(d, "callback") /\ call[d].header = "clear"
      BY <1>3, <3>3, <3>5 DEF At, f
    <3> QED BY <1>2, <3>1, <3>2, <3>4, <3>5 DEF SignedInAt
  <2>4. f.kind # "logout"
    BY <1>4 DEF Shows
  <2> QED BY <1>1, <2>1, <2>2, <2>3, <2>4 DEF Call, SignsIn
<1> QED BY <1>6, <1>7

LEMMA CallbackPages ==
  ASSUME TypeOK, CallsOK, PagesOK, Next, NEW c \in Calls, Callback(c)
  PROVE  PagesOK'
<1> SUFFICES ASSUME NEW a \in Browsers PROVE AloneAt(a)' /\ SignedInAt(a)'
  BY DEF PagesOK
<1>1. CASE a = call[c].browser
  BY <1>1, CallbackOwn
<1>2. CASE a # call[c].browser
  <2>1. AloneAt(a) /\ SignedInAt(a)
    BY DEF PagesOK
  <2>2. Open(a)' = Open(a) /\ \A d \in Open(a) : call'[d] = call[d]
    BY <1>2, CallbackFacts DEF Open, At
  <2>3. cookie' = cookie /\ crossed' = crossed /\ shown'[a] = shown[a]
    BY <1>2, CallbackFacts
  <2>4. AloneAt(a)' /\ Kinds(a)' = Kinds(a)
    BY <2>1, <2>2, <2>3 DEF AloneAt, SignsIn, Kinds
  <2>5. PICK t, u : t = cookie[a] /\ u = shown[a]
    OBVIOUS
  <2>6. Signed(t, u) => Signed(t, u)'
    BY SignedStays
  <2>7. Signed(cookie[a], shown[a]) => Signed(cookie[a], shown[a])'
    BY <2>3, <2>5, <2>6 DEF Signed
  <2> QED BY <2>1, <2>2, <2>3, <2>4, <2>7 DEF SignedInAt, At
<1> QED BY <1>1, <1>2

------------------------------------------------------------------------------
LEMMA SignedInStep == SInv /\ [Next]_vars => SInv'
<1> SUFFICES ASSUME SInv, [Next]_vars PROVE SInv'
  OBVIOUS
<1> USE DEF SInv
<1>1. IInv'
  BY StepKeeps
<1>2. CASE Next
  <2>1. TypeOK
    BY DEF IInv
  <2>2. ASSUME NEW c \in Calls, Header(c) \/ Callback(c) PROVE CallsOK' /\ PagesOK'
    BY <1>2, <2>1, <2>2, HeaderCalls, HeaderPages, CallbackCalls, CallbackPages
  <2>3. ASSUME NEW c \in Calls, NEW b \in Browsers, Client(c, b) PROVE CallsOK' /\ PagesOK'
    BY <1>2, <2>3, SendPages, ReloadPages DEF Client
  <2>4. CASE \/ \E c \in Calls : Server(c) \/ LoseReply(c)
             \/ \E t \in Tokens : Touch(t)
             \/ CleanExpired \/ Restart \/ Tick
    BY <1>1, <1>2, <2>4, UnnoticedStep
  <2> QED BY <1>1, <1>2, <2>2, <2>3, <2>4 DEF Next
<1>3. CASE UNCHANGED vars
  <2>1. CallsOK'
    BY <1>1, <1>3 DEF vars, CallsOK, CallOK, Asks, Clears, Sets, Checks, Answered, SignsIn,
       Signed, Expired, At
  <2>2. PagesOK'
    BY <1>1, <1>3 DEF vars, PagesOK, AloneAt, SignedInAt, Signed, Expired, Open, Kinds, At
  <2> QED BY <1>1, <2>1, <2>2
<1> QED BY <1>2, <1>3

LEMMA InitSignedIn == Init => CallsOK /\ PagesOK
<1> SUFFICES ASSUME Init PROVE CallsOK /\ PagesOK
  OBVIOUS
<1>1. \A c \in Calls : call[c] = Idle
  BY DEF Init
<1>2. \A c \in Calls : call[c].pc = "idle"
  BY <1>1 DEF Idle
<1>3. CallsOK
  BY <1>2 DEF CallsOK, CallOK, Asks, Clears, Sets, Checks, Answered, AtServer
<1>4. \A b \in Browsers : Open(b) = {} /\ shown[b] = NoUser
  BY <1>2 DEF Open, At, Init
<1> QED BY <1>3, <1>4 DEF PagesOK, AloneAt, SignedInAt

(* AuthContext shows a user only while the browser's cookie is a session of  *)
(* that user, or an answer that signs out has begun to arrive: each answer   *)
(* is followed through its header and its callback.                          *)
THEOREM SignedInCorrect == Spec => []ShownIsSignedIn
<1>1. Init => SInv
  BY InitType, IdleType, InitSignedIn
     DEF Init, SInv, IInv, UserKnown, OneAccountPerEmail, At, Idle
<1>2. SInv => ShownIsSignedIn
  <2> SUFFICES ASSUME SInv, NEW b \in Browsers, shown[b] # NoUser, b \notin crossed,
                      "me" \notin Kinds(b)
               PROVE  \/ /\ cookie[b] # NoToken
                         /\ session[cookie[b]].user = shown[b]
                         /\ cookie[b] \in live \/ cookie[b] \in left \/ Expired(cookie[b])
                      \/ \E c \in Open(b) : At(c, "callback") /\ call[c].header = "clear"
    BY DEF ShownIsSignedIn
  <2> QED BY ConstantAssumption DEF SInv, PagesOK, SignedInAt, Signed
<1> QED BY <1>1, <1>2, SignedInStep, PTL DEF Spec
=============================================================================
