------------------------------ MODULE Sessions ------------------------------
(***************************************************************************)
(* Administrator sessions: internal/auth and the session handlers of       *)
(* internal/adminapi on the server, and useSession.ts with App.vue in the  *)
(* tabs of one browser, which share the cookie while each keeps the CSRF   *)
(* token it was given in memory.                                           *)
(*                                                                         *)
(* A token and the CSRF token made with it are named by the session they   *)
(* belong to.  Every statement is a step of its own, so that requests      *)
(* overlap; time passes between any two steps.                             *)
(***************************************************************************)
EXTENDS Integers, FiniteSets

CONSTANTS
  Tab,          \* the tabs; each waits for one request at a time
  IdleTimeout, AbsoluteTimeout,
  MaxSession,   \* bound: rows of admin_sessions
  MaxLogin,     \* bound: a login makes a row up to this, a reauthentication any
  MaxTime       \* bound: the clock stops here

ASSUME ConstantsAssumption ==
  /\ IdleTimeout \in Nat \ {0} /\ AbsoluteTimeout \in Nat \ {0}
  /\ MaxSession \in Nat /\ MaxLogin \in Nat /\ MaxTime \in Nat

Session == 1 .. MaxSession
None == 0

VARIABLES
  now,        \* the clock
  sessions,   \* the table admin_sessions
  cookie,     \* the browser: the session its cookie names
  tab,        \* the tabs
  request,    \* the request of each tab
  used,       \* history: the last time each session was used
  over,       \* history: sessions a logout or a reauthentication has ended
  rotated     \* history: the sessions handed out in exchange for each

vars == <<now, sessions, cookie, tab, request, used, over, rotated>>
history == <<used, over, rotated>>

Kind == {"open", "login", "save", "logout", "reauth"}
Code == {"ok", "session_expired", "authentication_required", "csrf_failed"}

Row == [state : {"none", "live", "revoked"}, seen : Nat, ends : Nat]

Page == [page : {"login", "admin"}, csrf : Session \cup {None}, dialog : BOOLEAN]

(* at is the time a request took from the clock, given the session whose    *)
(* tokens are to be answered.  A page waits for its request, so the CSRF   *)
(* token sent is the one it holds.                                         *)
Request == [step : {"idle", "read", "touch", "reread", "password", "revoke", "answer"},
            kind : Kind, token : Session \cup {None}, at : Nat,
            given : Session \cup {None}, code : Code]

LoginPage == [page |-> "login", csrf |-> None, dialog |-> FALSE]

NoRequest == [step |-> "idle", kind |-> "open", token |-> None,
              at |-> 0, given |-> None, code |-> "ok"]

TypeOK ==
  /\ now \in Nat
  /\ sessions \in [Session -> Row]
  /\ cookie \in Session \cup {None}
  /\ tab \in [Tab -> Page]
  /\ request \in [Tab -> Request]
  /\ used \in [Session -> Nat]
  /\ over \subseteq Session
  /\ rotated \in [Session -> SUBSET Session]
  /\ \A t \in Tab :
       request[t].step \in {"touch", "reread", "revoke"} => request[t].token # None

Init ==
  /\ now = 0
  /\ sessions = [s \in Session |-> [state |-> "none", seen |-> 0, ends |-> 0]]
  /\ cookie = None
  /\ tab = [t \in Tab |-> LoginPage]
  /\ request = [t \in Tab |-> NoRequest]
  /\ used = [s \in Session |-> 0]
  /\ over = {}
  /\ rotated = [s \in Session |-> {}]

----------------------------------------------------------------------------
At(t, step) == request[t].step = step
Token(t) == request[t].token

Live(s) == s # None /\ sessions[s].state = "live"

IsIdle(s, time) == time >= sessions[s].seen + IdleTimeout
IsOver(s, time) == time >= sessions[s].ends

(* The cookie expires with its session, and is then not sent.              *)
SentCookie == IF cookie # None /\ ~ IsOver(cookie, now) THEN cookie ELSE None

Goes(t, step) == request' = [request EXCEPT ![t].step = step]

Answers(t, code, given) ==
  request' = [request EXCEPT ![t] =
    [NoRequest EXCEPT !.step = "answer", !.kind = request[t].kind,
                      !.code = code, !.given = given]]

Refuses(t, code) == Answers(t, code, None)

(* What the page shows decides what it can ask for.                        *)
Offers(t, kind) ==
  CASE kind = "open" -> TRUE
    [] kind = "login" -> tab[t].page = "login"
    [] kind = "reauth" -> tab[t].page = "admin" /\ tab[t].dialog
    [] OTHER -> tab[t].page = "admin" /\ ~ tab[t].dialog

(* "open" loads the page anew: what it held is gone.                       *)
Send(t, kind) ==
  /\ At(t, "idle")
  /\ Offers(t, kind)
  /\ request' = [request EXCEPT ![t] =
       [NoRequest EXCEPT !.step = IF kind = "login" THEN "password" ELSE "read",
                         !.kind = kind, !.token = SentCookie]]
  /\ tab' = IF kind = "open" THEN [tab EXCEPT ![t] = LoginPage] ELSE tab
  /\ UNCHANGED <<now, sessions, cookie, history>>

----------------------------------------------------------------------------
(* authenticateWithAuthenticator with Authenticate or AuthenticateForReauth *)

NeedsCSRF(t) == request[t].kind # "open"

(* A wrong Timely: the timeouts of reauthentication for every request.     *)
TimelyUntilEnd(t) == ~ IsOver(Token(t), now)

Timely(t) ==
  /\ ~ IsOver(Token(t), now)
  /\ request[t].kind # "reauth" => ~ IsIdle(Token(t), now)

(* What follows when the session holds.                                    *)
Proceed(t) ==
  IF NeedsCSRF(t) /\ tab[t].csrf # Token(t) THEN Refuses(t, "csrf_failed")
  ELSE CASE request[t].kind = "logout" -> Goes(t, "revoke")
         [] request[t].kind = "reauth" -> Goes(t, "password")
         [] request[t].kind = "open" -> Answers(t, "ok", Token(t))
         [] request[t].kind = "save" -> Answers(t, "ok", None)

(* Only a row that is not revoked is found, and an expired one is not used. *)
Read(t) ==
  /\ At(t, "read")
  /\ CASE ~ Live(Token(t)) -> Refuses(t, "authentication_required")
       [] Live(Token(t)) /\ ~ Timely(t) -> Refuses(t, "session_expired")
       [] OTHER ->
            IF request[t].kind = "reauth" THEN Proceed(t)
            ELSE request' = [request EXCEPT ![t].step = "touch", ![t].at = now]
  /\ UNCHANGED <<now, sessions, cookie, tab, history>>

Uses(t) ==
  used' = [used EXCEPT ![Token(t)] = IF request[t].at > @ THEN request[t].at ELSE @]

(* A wrong Touch: the row is written whatever its state.                   *)
TouchBlindly(t) ==
  /\ At(t, "touch")
  /\ sessions' = [sessions EXCEPT ![Token(t)].seen = request[t].at]
  /\ Proceed(t) /\ Uses(t)
  /\ UNCHANGED <<now, cookie, tab, over, rotated>>

(* The UPDATE of a live row; a row that already has the time counts as     *)
(* unchanged, as a revoked one does, and is read again.                    *)
Touch(t) ==
  /\ At(t, "touch")
  /\ IF Live(Token(t)) /\ sessions[Token(t)].seen # request[t].at
     THEN /\ sessions' = [sessions EXCEPT ![Token(t)].seen = request[t].at]
          /\ Proceed(t) /\ Uses(t)
     ELSE Goes(t, "reread") /\ UNCHANGED <<sessions, used>>
  /\ UNCHANGED <<now, cookie, tab, over, rotated>>

Reread(t) ==
  /\ At(t, "reread")
  /\ CASE ~ Live(Token(t)) ->
            Refuses(t, "authentication_required") /\ UNCHANGED used
       [] Live(Token(t)) /\ (IsOver(Token(t), request[t].at) \/ IsIdle(Token(t), request[t].at)) ->
            Refuses(t, "session_expired") /\ UNCHANGED used
       [] OTHER -> Proceed(t) /\ Uses(t)
  /\ UNCHANGED <<now, sessions, cookie, tab, over, rotated>>

----------------------------------------------------------------------------
(* Login, Reauthenticate, Logout.                                          *)

WrongPassword(t) ==
  /\ At(t, "password")
  /\ Refuses(t, "authentication_required")
  /\ UNCHANGED <<now, sessions, cookie, tab, history>>

(* The password is right: a session is made.  A login answers with it, a   *)
(* reauthentication still has to end the old one.                          *)
CreateSession(t, n) ==
  /\ At(t, "password")
  /\ sessions[n].state = "none" /\ \A m \in Session : m < n => sessions[m].state # "none"
  /\ request[t].kind = "login" => n <= MaxLogin
  /\ sessions' = [sessions EXCEPT ![n] =
                    [state |-> "live", seen |-> now, ends |-> now + AbsoluteTimeout]]
  /\ used' = [used EXCEPT ![n] = now]
  /\ IF request[t].kind = "reauth"
     THEN request' = [request EXCEPT ![t].step = "revoke", ![t].given = n]
     ELSE Answers(t, "ok", n)
  /\ UNCHANGED <<now, cookie, tab, over, rotated>>

Revoked(s) ==
  [sessions EXCEPT ![s].state = IF @ = "live" THEN "revoked" ELSE @]

(* A wrong Revoke: nobody looks whether a row was revoked.                 *)
RevokeUncounted(t) ==
  /\ At(t, "revoke")
  /\ sessions' = Revoked(Token(t))
  /\ Answers(t, "ok", request[t].given)
  /\ over' = over \cup {Token(t)}
  /\ rotated' = IF request[t].kind = "reauth"
                THEN [rotated EXCEPT ![Token(t)] = @ \cup {request[t].given}] ELSE rotated
  /\ UNCHANGED <<now, cookie, tab, used>>

(* RevokeAdminSession.  A logout takes a session already revoked for done, *)
(* a reauthentication does not: its new session is then known to nobody.   *)
Revoke(t) ==
  /\ At(t, "revoke")
  /\ sessions' = Revoked(Token(t))
  /\ IF request[t].kind = "reauth" /\ ~ Live(Token(t))
     THEN Refuses(t, "authentication_required") /\ UNCHANGED <<over, rotated>>
     ELSE /\ Answers(t, "ok", request[t].given)
          /\ over' = over \cup {Token(t)}
          /\ rotated' = IF request[t].kind = "reauth"
                        THEN [rotated EXCEPT ![Token(t)] = @ \cup {request[t].given}]
                        ELSE rotated
  /\ UNCHANGED <<now, cookie, tab, used>>

(* The request is cut short or fails in a statement, the limiter refuses   *)
(* the password, or the answer is lost: the page goes on with what it has. *)
Fails(t) ==
  /\ ~ At(t, "idle")
  /\ request' = [request EXCEPT ![t] = NoRequest]
  /\ UNCHANGED <<now, sessions, cookie, tab, history>>

----------------------------------------------------------------------------
(* The answer reaches the browser, which keeps or drops the cookie, and    *)
(* the page.                                                               *)

NewCookie(t) ==
  CASE request[t].code # "ok" -> cookie
    [] request[t].kind \in {"login", "reauth"} -> request[t].given
    [] request[t].kind = "logout" -> None
    [] OTHER -> cookie

Terminated(t) == request[t].code \in {"session_expired", "authentication_required"}

(* The page after the answer; only handleApiError tells an expired session *)
(* from one that is not known.                                             *)
NewPage(t) ==
  LET page == tab[t]  q == request[t] IN
  CASE q.kind \in {"open", "login", "reauth"} /\ q.code = "ok" ->
         [page |-> "admin", csrf |-> q.given, dialog |-> FALSE]
    [] q.kind = "logout" /\ (q.code = "ok" \/ Terminated(t)) -> LoginPage
    [] q.kind = "save" /\ q.code = "session_expired" -> [page EXCEPT !.dialog = TRUE]
    [] q.kind = "save" /\ q.code = "authentication_required" -> [page EXCEPT !.csrf = None]
    [] OTHER -> page

Deliver(t) ==
  /\ At(t, "answer")
  /\ cookie' = NewCookie(t)
  /\ tab' = [tab EXCEPT ![t] = NewPage(t)]
  /\ request' = [request EXCEPT ![t] = NoRequest]
  /\ UNCHANGED <<now, sessions, history>>

CloseReauth(t) ==
  /\ At(t, "idle") /\ tab[t].dialog
  /\ tab' = [tab EXCEPT ![t].dialog = FALSE]
  /\ UNCHANGED <<now, sessions, cookie, request, history>>

Tick ==
  /\ now < MaxTime
  /\ now' = now + 1
  /\ UNCHANGED <<sessions, cookie, tab, request, history>>

Next ==
  \/ \E t \in Tab :
       \/ \E kind \in Kind : Send(t, kind)
       \/ Read(t) \/ Touch(t) \/ Reread(t)
       \/ WrongPassword(t) \/ Revoke(t) \/ Fails(t)
       \/ \E n \in Session : CreateSession(t, n)
       \/ Deliver(t) \/ CloseReauth(t)
  \/ Tick

Spec == Init /\ [][Next]_vars

----------------------------------------------------------------------------
(* The session of a request is accepted in this step.                      *)
Admits(t) ==
  /\ request[t].step \in {"touch", "reread"}
  /\ \/ request'[t].step = "revoke"
     \/ request'[t].step = "answer" /\ request'[t].code = "ok"

(* Once a logout or a reauthentication that ended a session has been       *)
(* answered, no request is accepted with it any more, not even one that    *)
(* was read and found valid before.                                        *)
EndedIsOver ==
  [][\A t \in Tab : Admits(t) => Token(t) \notin over]_vars

(* No session is accepted past its end, nor once it has lain unused for    *)
(* the idle timeout; attempts to reauthenticate are no use of it.          *)
TimeoutsAreEnforced ==
  [][\A t \in Tab :
       Admits(t) => /\ request[t].at < sessions[Token(t)].ends
                    /\ request[t].at < used[Token(t)] + IdleTimeout]_vars

(* Several tabs may reauthenticate with the same session at once; one of   *)
(* them at most is given a new one, and the old one has ended by then.     *)
RotationIsUnique ==
  \A s \in Session :
    /\ Cardinality(rotated[s]) <= 1
    /\ rotated[s] # {} => sessions[s].state = "revoked"
=============================================================================
