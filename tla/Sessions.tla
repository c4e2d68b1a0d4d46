------------------------------ MODULE Sessions ------------------------------
(***************************************************************************)
(* Accounts, sessions and who is signed in.  A browser runs one page of the *)
(* app and keeps one cookie; its calls run side by side at the server, one  *)
(* SQL statement after the other, and their answers arrive in any order or  *)
(* not at all.  An answer acts twice on the browser: its header on the      *)
(* cookie, then its callback on what the app shows.  The server also stamps *)
(* a session's activity off the request's path and removes expired ones.    *)
(***************************************************************************)
EXTENDS Naturals

CONSTANTS Browsers, Calls, Emails,
          Users,     \* ids of accounts; which one is next does not matter
          Tokens,    \* the random tokens; nor does it matter of them
          Lifetime,  \* SessionDuration
          MaxClock,  \* bound on the time that passes
          NoBrowser, NoUser, NoEmail, NoToken, NoSession

ASSUME ConstantAssumption ==
  /\ NoBrowser \notin Browsers
  /\ Lifetime \in Nat \ {0} /\ MaxClock \in Nat
  /\ NoUser \notin Users /\ NoEmail \notin Emails /\ NoToken \notin Tokens

Session == [user : Users, expires : 0..(MaxClock + Lifetime)]

ASSUME NoSessionAssumption == NoSession \notin Session

VARIABLES
  clock,
  users,    \* the users table: [Users -> Emails \cup {NoEmail}]
  session,  \* each token's row, kept as history when the row is deleted
  live,     \* tokens with a row in the sessions table
  touches,  \* activity updates started and not yet run
  cookie,   \* [Browsers -> Tokens \cup {NoToken}]
  shown,    \* the user the app shows as signed in: [Browsers -> Users \cup {NoUser}]
  call,     \* [Calls -> Call]
  crossed,  \* history: browsers where one answer changed the cookie between
            \* the header and the callback of another, until a reload
  left      \* history: tokens sent with a logout

vars == <<clock, users, session, live, touches, cookie, shown, call, crossed, left>>

AtServer == {"checkEmail", "insertUser", "lookup", "createSession",
             "deleteSession", "getSession"}

Call ==
  [pc      : AtServer \cup {"idle", "reply", "callback"},
   kind    : {"register", "login", "logout", "me", "ask"},
   browser : Browsers \cup {NoBrowser},
   email   : Emails \cup {NoEmail},
   token   : Tokens \cup {NoToken},   \* the cookie sent, then the one answered
   user    : Users \cup {NoUser},
   header  : {"keep", "set", "clear"},
   status  : {"ok", "unauthorized", "failed"}]

Idle == [pc |-> "idle", kind |-> "ask", browser |-> NoBrowser, email |-> NoEmail,
         token |-> NoToken, user |-> NoUser, header |-> "keep", status |-> "ok"]

At(c, pc)        == call[c].pc = pc
Become(c, r)     == call' = [call EXCEPT ![c] = r]
Goto(c, pc)      == Become(c, [call[c] EXCEPT !.pc = pc])
Answer(c, header, status) ==
  Become(c, [call[c] EXCEPT !.pc = "reply", !.header = header, !.status = status,
                            !.email = NoEmail, !.token = NoToken, !.user = NoUser])

(* A call that ends in a network error, at a page that still waits for it.   *)
Lost(c) == IF call[c].browser = NoBrowser THEN Idle
           ELSE [Idle EXCEPT !.pc = "callback", !.kind = call[c].kind,
                             !.browser = call[c].browser, !.status = "failed"]

Open(b)    == {c \in Calls : ~At(c, "idle") /\ call[c].browser = b}
Kinds(b)   == {call[c].kind : c \in Open(b)}
Expired(t) == session[t].expires <= clock
Draw(S)    == CHOOSE x \in S : TRUE
FreeIds    == {u \in Users : users[u] = NoEmail}
Undrawn    == {t \in Tokens : session[t] = NoSession}
Taken(e)   == \E u \in Users : users[u] = e

database == <<users, session, live>>
page     == <<cookie, shown, crossed, left>>

------------------------------------------------------------------------------
(* The app sends a call, with the cookie the browser has.  The cookie's own  *)
(* age ends about when the session does.                                     *)
Send(c, b, kind, e, first) ==
  /\ At(c, "idle")
  /\ \E t \in {cookie[b]} \cup
              {x \in {NoToken} : cookie[b] # NoToken /\ Expired(cookie[b])} :
       /\ Become(c, [Idle EXCEPT !.pc = first, !.browser = b, !.kind = kind,
                                 !.email = e, !.token = t])
       /\ left' = IF kind = "logout" THEN left \cup ({t} \ {NoToken}) ELSE left
  /\ UNCHANGED <<clock, database, touches, cookie, shown, crossed>>

(* The login and register pages: only while no one is signed in, and their   *)
(* button is off while a call runs.                                          *)
SignIn(c, b) ==
  /\ shown[b] = NoUser
  /\ Kinds(b) \cap {"login", "register", "me"} = {}
  /\ \E e \in Emails :
       Send(c, b, "register", e, "checkEmail") \/ Send(c, b, "login", e, "lookup")

UseApp(c, b) ==
  /\ shown[b] # NoUser
  /\ "me" \notin Kinds(b)
  /\ \/ Send(c, b, "ask", NoEmail, "getSession")
     \/ Send(c, b, "logout", NoEmail, "deleteSession")

(* The page is loaded again and shows nothing until /me is answered.  Calls  *)
(* of the page that was left run on at the server, unheard.                  *)
Reload(c, b) ==
  /\ At(c, "idle")
  /\ call' = [d \in Calls |->
       IF d = c THEN [Idle EXCEPT !.pc = "getSession", !.kind = "me",
                                  !.browser = b, !.token = cookie[b]]
       ELSE IF d \notin Open(b) THEN call[d]
       ELSE IF call[d].pc \in AtServer THEN [call[d] EXCEPT !.browser = NoBrowser]
       ELSE Idle]
  /\ crossed' = crossed \ {b}
  /\ UNCHANGED <<clock, database, touches, cookie, shown, left>>

------------------------------------------------------------------------------
(* The server, statement by statement.                                       *)

(* An error of this query is taken as "no such user".                        *)
CheckEmail(c) ==
  /\ At(c, "checkEmail")
  /\ Goto(c, "insertUser") \/ (Taken(call[c].email) /\ Answer(c, "keep", "failed"))
  /\ UNCHANGED <<clock, database, touches, page>>

(* variant: users.email is not UNIQUE                                        *)
InsertUserTwice(c) ==
  /\ At(c, "insertUser")
  /\ FreeIds # {}
  /\ LET u == Draw(FreeIds) IN
       /\ users' = [users EXCEPT ![u] = call[c].email]
       /\ Become(c, [call[c] EXCEPT !.pc = "createSession", !.user = u])
  /\ UNCHANGED <<clock, session, live, touches, page>>

InsertUser(c) ==
  /\ At(c, "insertUser")
  /\ \/ /\ Taken(call[c].email)
        /\ Answer(c, "keep", "failed")
        /\ UNCHANGED users
     \/ /\ ~Taken(call[c].email) /\ FreeIds # {}
        /\ LET u == Draw(FreeIds) IN
             /\ users' = [users EXCEPT ![u] = call[c].email]
             /\ Become(c, [call[c] EXCEPT !.pc = "createSession", !.user = u])
  /\ UNCHANGED <<clock, session, live, touches, page>>

(* variant: an address without an account is not refused                     *)
LookupAnyone(c) ==
  /\ At(c, "lookup")
  /\ \/ \E u \in Users :
          /\ users[u] = call[c].email
          /\ Become(c, [call[c] EXCEPT !.pc = "createSession", !.user = u])
     \/ ~Taken(call[c].email) /\ Goto(c, "createSession")
  /\ UNCHANGED <<clock, database, touches, page>>

(* GetUserByEmail and the password.                                          *)
Lookup(c) ==
  /\ At(c, "lookup")
  /\ \/ \E u \in Users :
          /\ users[u] = call[c].email
          /\ Become(c, [call[c] EXCEPT !.pc = "createSession", !.user = u])
     \/ Answer(c, "keep", "unauthorized")
  /\ UNCHANGED <<clock, database, touches, page>>

CreateSession(c) ==
  /\ At(c, "createSession")
  /\ Undrawn # {}
  /\ LET t == Draw(Undrawn) IN
       /\ session' = [session EXCEPT ![t] =
                        [user |-> call[c].user, expires |-> clock + Lifetime]]
       /\ live' = live \cup {t}
       /\ Become(c, [call[c] EXCEPT !.pc = "reply", !.email = NoEmail,
                                    !.header = "set", !.token = t])
  /\ UNCHANGED <<clock, users, touches, page>>

(* PostLogout ignores an error of the DELETE.                                *)
DeleteSession(c) ==
  /\ At(c, "deleteSession")
  /\ live' \in {live, live \ {call[c].token}}
  /\ Answer(c, "clear", "ok")
  /\ UNCHANGED <<clock, users, session, touches, page>>

(* RequireAuth: any failure to find the session, an error of the query too,  *)
(* is answered 401 and clears the cookie.                                    *)
GetSession(c) ==
  LET t == call[c].token IN
  /\ At(c, "getSession")
  /\ \/ t = NoToken /\ Answer(c, "keep", "unauthorized") /\ UNCHANGED touches
     \/ t # NoToken /\ Answer(c, "clear", "unauthorized") /\ UNCHANGED touches
     \/ /\ t \in live /\ ~Expired(t)
        /\ touches' = touches \cup {t}
        /\ Become(c, [call[c] EXCEPT !.pc = "reply", !.token = NoToken,
                                     !.user = session[t].user])
  /\ UNCHANGED <<clock, database, page>>

(* variant: the activity update inserts the row when it is missing           *)
TouchUpsert(t) ==
  /\ t \in touches
  /\ touches' = touches \ {t}
  /\ live' = live \cup {t}
  /\ UNCHANGED <<clock, users, session, page, call>>

(* UpdateSessionActivity; last_active_at itself is read nowhere.             *)
Touch(t) ==
  /\ t \in touches
  /\ touches' = touches \ {t}
  /\ UNCHANGED <<clock, database, page, call>>

Fail(c) ==
  /\ call[c].pc \in {"insertUser", "lookup", "createSession"}
  /\ Answer(c, "keep", "failed")
  /\ UNCHANGED <<clock, database, touches, page>>

(* variant: the cleanup goes by the wrong bound                              *)
CleanExpiredEarly ==
  /\ \E t \in live : session[t].expires <= clock + 1
  /\ live' = {t \in live : session[t].expires > clock + 1}
  /\ UNCHANGED <<clock, users, session, touches, page, call>>

(* variant: the cleanup leaves the sessions that expire this moment          *)
CleanExpiredLate ==
  /\ \E t \in live : session[t].expires < clock
  /\ live' = {t \in live : session[t].expires >= clock}
  /\ UNCHANGED <<clock, users, session, touches, page, call>>

(* The cleanup worker, at start and every hour.                              *)
CleanExpired ==
  /\ \E t \in live : Expired(t)
  /\ live' = {t \in live : ~Expired(t)}
  /\ UNCHANGED <<clock, users, session, touches, page, call>>

(* The process stops and starts again: calls under way are network errors,   *)
(* activity updates are gone.                                                *)
Restart ==
  /\ touches # {} \/ \E c \in Calls : call[c].pc \in AtServer
  /\ touches' = {}
  /\ call' = [c \in Calls |-> IF call[c].pc \in AtServer
                THEN Lost(c) ELSE call[c]]
  /\ UNCHANGED <<clock, database, page>>

------------------------------------------------------------------------------
(* The browser.                                                              *)

LoseReply(c) ==
  /\ At(c, "reply")
  /\ Become(c, Lost(c))
  /\ UNCHANGED <<clock, database, touches, page>>

(* The answer's Set-Cookie header.                                           *)
Header(c) ==
  LET b == call[c].browser IN
  /\ At(c, "reply") /\ b # NoBrowser
  /\ cookie' = [cookie EXCEPT ![b] = CASE call[c].header = "set"   -> call[c].token
                                       [] call[c].header = "clear" -> NoToken
                                       [] call[c].header = "keep"  -> @]
  /\ crossed' = IF call[c].header # "keep" /\ \E d \in Open(b) : At(d, "callback")
                THEN crossed \cup {b} ELSE crossed
  /\ Goto(c, "callback")
  /\ UNCHANGED <<clock, database, touches, shown, left>>

(* What the app shows after a call.                                          *)
Shows(r, now) ==
  CASE r.kind \in {"login", "register"} -> IF r.status = "ok" THEN r.user ELSE now
    [] r.kind = "logout"                -> NoUser
    [] r.kind = "me"                    -> IF r.status = "ok" THEN r.user ELSE NoUser
    [] r.kind = "ask"                   -> IF r.status = "unauthorized" THEN NoUser ELSE now

Callback(c) ==
  LET b == call[c].browser IN
  /\ At(c, "callback")
  /\ shown' = [shown EXCEPT ![b] = Shows(call[c], @)]
  /\ Become(c, Idle)
  /\ UNCHANGED <<clock, database, touches, cookie, crossed, left>>

Tick ==
  /\ clock < MaxClock
  /\ clock' = clock + 1
  /\ UNCHANGED <<database, touches, page, call>>

Init ==
  /\ clock = 0
  /\ users = [u \in Users |-> NoEmail]
  /\ session = [t \in Tokens |-> NoSession]
  /\ live = {} /\ touches = {} /\ crossed = {} /\ left = {}
  /\ cookie = [b \in Browsers |-> NoToken]
  /\ shown = [b \in Browsers |-> NoUser]
  /\ call = [c \in Calls |-> Idle]

Client(c, b) == SignIn(c, b) \/ UseApp(c, b) \/ Reload(c, b)

Server(c) == CheckEmail(c) \/ InsertUser(c) \/ Lookup(c) \/ CreateSession(c)
             \/ DeleteSession(c) \/ GetSession(c) \/ Fail(c)

Next ==
  \/ \E c \in Calls : Server(c) \/ LoseReply(c) \/ Header(c) \/ Callback(c)
  \/ \E c \in Calls, b \in Browsers : Client(c, b)
  \/ \E t \in Tokens : Touch(t)
  \/ CleanExpired \/ Restart \/ Tick

(* The cleanup worker runs at every start of the server and every hour while *)
(* it is up; a run that fails is repeated an hour later.                     *)
Spec == Init /\ [][Next]_vars /\ WF_vars(CleanExpired)

------------------------------------------------------------------------------
(* The types of the variables; only a token that was issued has a row.       *)
TypeOK ==
  /\ clock \in 0..MaxClock
  /\ users \in [Users -> Emails \cup {NoEmail}]
  /\ session \in [Tokens -> Session \cup {NoSession}]
  /\ live \subseteq {t \in Tokens : session[t] # NoSession}
  /\ touches \subseteq Tokens
  /\ cookie \in [Browsers -> Tokens \cup {NoToken}]
  /\ shown \in [Browsers -> Users \cup {NoUser}]
  /\ call \in [Calls -> Call]
  /\ crossed \subseteq Browsers /\ left \subseteq Tokens

(* Two registrations of one address at the same moment make one account,     *)
(* although both may find the address free.                                  *)
OneAccountPerEmail ==
  \A u, v \in Users : u # v /\ users[u] = users[v] => users[u] = NoEmail

(* A session that was logged out or has been removed never comes back, not   *)
(* by an activity update that was still under way.                           *)
RevokedForGood ==
  [][\A t \in Tokens : session[t] # NoSession /\ t \notin live => t \notin live']_vars

(* When the app shows a user as signed in, the browser's cookie is a token   *)
(* of that user, and its session works until it expires or the user logs     *)
(* out of it, unless two answers crossed on the way into the browser.           *)
ShownIsSignedIn ==
  \A b \in Browsers : shown[b] # NoUser /\ b \notin crossed /\ "me" \notin Kinds(b) =>
    \/ /\ cookie[b] # NoToken
       /\ session[cookie[b]].user = shown[b]
       /\ cookie[b] \in live \/ cookie[b] \in left \/ Expired(cookie[b])
    \/ \E c \in Open(b) : At(c, "callback") /\ call[c].header = "clear"

(* Every expired session is removed from the database in the end.            *)
ExpiredAreRemoved ==
  \A t \in Tokens : (t \in live /\ Expired(t)) ~> (t \notin live)
==============================================================================
