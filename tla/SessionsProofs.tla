--------------------------- MODULE SessionsProofs ---------------------------
(***************************************************************************)
(* Proofs about Sessions, for any number of tabs and sessions and any      *)
(* timeouts: what is decided about a session when its row is read still    *)
(* holds when the request goes on, or is looked at again.                  *)
(***************************************************************************)
EXTENDS Sessions, FiniteSetTheorems, TLAPS

(* The session a request goes on with was found in the table.              *)
Found(s) == s # None /\ sessions[s].state # "none"

(* What a request under way relies on.  Its time is before the end of its  *)
(* session and within the idle timeout of a use of it.                     *)
RequestIInv(t) ==
  /\ request[t].step \in {"read", "touch", "reread"} => request[t].kind # "login"
  /\ request[t].step \in {"touch", "reread", "revoke"} => Found(Token(t))
  /\ request[t].step = "password" /\ request[t].kind = "reauth" => Found(Token(t))
  /\ request[t].step = "revoke" /\ request[t].kind = "reauth" => request[t].given \in Session
  /\ request[t].step \in {"touch", "reread"} =>
       /\ request[t].at < sessions[Token(t)].ends
       /\ request[t].at < used[Token(t)] + IdleTimeout

(* Ended sessions are revoked, and a row is never ahead of its use.        *)
SessionIInv(s) ==
  /\ sessions[s].seen <= used[s]
  /\ s \in over \/ rotated[s] # {} => sessions[s].state = "revoked"
  /\ rotated[s] = {} \/ \E given \in Session : rotated[s] = {given}

IInv ==
  /\ TypeOK
  /\ \A t \in Tab : RequestIInv(t)
  /\ \A s \in Session : SessionIInv(s)

----------------------------------------------------------------------------
(* How a step changes the request of its tab.                              *)
Becomes(t, q) ==
  /\ request' \in [Tab -> Request]
  /\ request'[t] = q
  /\ \A u \in Tab \ {t} : request'[u] = request[u]

LEMMA RequestFields ==
  ASSUME TypeOK, NEW t \in Tab
  PROVE  /\ request[t] \in Request /\ tab[t] \in Page
         /\ Token(t) \in Session \cup {None} /\ request[t].given \in Session \cup {None}
         /\ request[t].at \in Nat /\ request[t].kind \in Kind /\ request[t].code \in Code
BY DEF TypeOK, Request, Token

LEMMA GoesBecomes ==
  ASSUME TypeOK, NEW t \in Tab, Goes(t, "revoke") \/ Goes(t, "password") \/ Goes(t, "reread")
  PROVE  /\ Becomes(t, request'[t])
         /\ request'[t].step \in {"revoke", "password", "reread"}
         /\ Goes(t, "reread") => request'[t].step = "reread"
         /\ Goes(t, "revoke") => request'[t].step = "revoke"
         /\ Goes(t, "password") => request'[t].step = "password"
         /\ request'[t].kind = request[t].kind /\ request'[t].token = request[t].token
         /\ request'[t].at = request[t].at
BY DEF TypeOK, Request, Goes, Becomes

LEMMA AnswersBecomes ==
  ASSUME TypeOK, NEW t \in Tab, NEW code \in Code, NEW given \in Session \cup {None},
         Answers(t, code, given)
  PROVE  Becomes(t, [step |-> "answer", kind |-> request[t].kind, token |-> None,
                     at |-> 0, given |-> given, code |-> code])
BY RequestFields DEF TypeOK, Request, Answers, NoRequest, Becomes, Kind

(* A request that proceeds is refused for its CSRF token, answered, or     *)
(* goes on with the same session.                                          *)
LEMMA ProceedBecomes ==
  ASSUME TypeOK, NEW t \in Tab, request[t].kind # "login", Proceed(t)
  PROVE  /\ Becomes(t, request'[t])
         /\ \/ request'[t].step = "answer"
            \/ /\ request'[t].step \in {"revoke", "password"}
               /\ request'[t].kind = request[t].kind /\ request'[t].token = request[t].token
               /\ request'[t].step = "revoke" => request[t].kind = "logout"
<1>1. ASSUME NEW code \in Code, NEW given \in Session \cup {None}, Answers(t, code, given)
      PROVE  Becomes(t, request'[t]) /\ request'[t].step = "answer"
  <2>1. Becomes(t, [step |-> "answer", kind |-> request[t].kind, token |-> None,
                    at |-> 0, given |-> given, code |-> code])
    BY <1>1, AnswersBecomes
  <2> QED BY <2>1 DEF Becomes
<1>2. CASE NeedsCSRF(t) /\ tab[t].csrf # Token(t)
  <2>1. Answers(t, "csrf_failed", None) /\ "csrf_failed" \in Code
    BY <1>2 DEF Proceed, Refuses, Code
  <2> QED BY <1>1, <2>1
<1>3. CASE ~ (NeedsCSRF(t) /\ tab[t].csrf # Token(t))
  <2>1. \/ Goes(t, "revoke") /\ request[t].kind = "logout"
        \/ Goes(t, "password")
        \/ Answers(t, "ok", Token(t)) \/ Answers(t, "ok", None)
    BY <1>3, RequestFields DEF Proceed, Kind
  <2>2. CASE (Goes(t, "revoke") /\ request[t].kind = "logout") \/ Goes(t, "password")
    BY <2>2, GoesBecomes
  <2>3. CASE Answers(t, "ok", Token(t)) \/ Answers(t, "ok", None)
    BY <1>1, <2>3, RequestFields DEF Code
  <2> QED BY <2>1, <2>2, <2>3
<1> QED BY <1>2, <1>3

LEMMA NoRequestTyped == NoRequest \in Request
BY DEF NoRequest, Request, Kind, Code

(* Only Touch, Reread and Read have more to say than this: a request       *)
(* answered, ended or begun relies on nothing.                             *)
LEMMA OthersRely ==
  ASSUME IInv, NEW t \in Tab, Becomes(t, request'[t]),
         RequestIInv(t)',
         \A s \in Session : sessions[s].state # "none" =>
            /\ sessions'[s].state # "none"
            /\ sessions'[s].ends = sessions[s].ends /\ used'[s] >= used[s] /\ used'[s] \in Nat
  PROVE  \A u \in Tab : RequestIInv(u)'
<1> SUFFICES ASSUME NEW u \in Tab \ {t} PROVE RequestIInv(u)'
  OBVIOUS
<1>1. request'[u] = request[u] /\ RequestIInv(u)
  BY DEF Becomes, IInv
<1>2. /\ Token(u) \in Session \cup {None} /\ request[u].at \in Nat
      /\ \A s \in Session : used[s] \in Nat /\ sessions[s].ends \in Nat
  BY RequestFields DEF IInv, TypeOK, Row
<1>3. IdleTimeout \in Nat
  BY ConstantsAssumption
<1> QED BY <1>1, <1>2, <1>3 DEF RequestIInv, Found, Token

(* A step that leaves the tables alone.                                    *)
LEMMA TablesStay ==
  ASSUME IInv, NEW t \in Tab, Becomes(t, request'[t]), RequestIInv(t)',
         UNCHANGED <<sessions, history>>, now' \in Nat,
         cookie' \in Session \cup {None}, tab' \in [Tab -> Page]
  PROVE  IInv'
<1>1. /\ \A s \in Session : sessions[s].state # "none" =>
            /\ sessions'[s].state # "none"
            /\ sessions'[s].ends = sessions[s].ends /\ used'[s] >= used[s] /\ used'[s] \in Nat
  BY DEF IInv, TypeOK, history
<1>2. \A u \in Tab : RequestIInv(u)'
  BY <1>1, OthersRely
<1>3. \A s \in Session : SessionIInv(s)'
  BY DEF IInv, SessionIInv, history
<1>4. \A u \in Tab : request'[u].step \in {"touch", "reread", "revoke"} => request'[u].token # None
  BY <1>2 DEF RequestIInv, Found, Token
<1>5. TypeOK'
  BY <1>4 DEF IInv, TypeOK, Becomes, history
<1> QED BY <1>2, <1>3, <1>5 DEF IInv

(* A request that is over, or that has its answer, relies on nothing.      *)
LEMMA AnsweredRelies ==
  ASSUME NEW t \in Tab, request'[t].step \in {"answer", "idle"}
  PROVE  RequestIInv(t)'
BY DEF RequestIInv

LEMMA SendStep ==
  ASSUME IInv, NEW t \in Tab, NEW kind \in Kind, Send(t, kind)
  PROVE  IInv'
<1> DEFINE q == [step |-> IF kind = "login" THEN "password" ELSE "read", kind |-> kind,
                 token |-> SentCookie, at |-> 0, given |-> None, code |-> "ok"]
<1>1. SentCookie \in Session \cup {None}
  BY DEF SentCookie, IInv, TypeOK
<1>3. Becomes(t, q)
  BY <1>1 DEF Send, NoRequest, Becomes, IInv, TypeOK, Request, Code
<1>4. RequestIInv(t)'
  BY <1>3 DEF Becomes, RequestIInv
<1>5. tab' \in [Tab -> Page]
  <2>1. LoginPage \in Page
    BY DEF LoginPage, Page
  <2> QED BY <2>1 DEF Send, IInv, TypeOK
<1>6. Becomes(t, request'[t])
  BY <1>3 DEF Becomes
<1> QED BY <1>4, <1>5, <1>6, TablesStay DEF Send, IInv, TypeOK

LEMMA ReadStep ==
  ASSUME IInv, NEW t \in Tab, Read(t)
  PROVE  IInv'
<1>0. /\ TypeOK /\ request[t].kind # "login" /\ UNCHANGED <<now, sessions, cookie, tab, history>>
      /\ now \in Nat /\ cookie \in Session \cup {None} /\ tab \in [Tab -> Page]
  BY DEF IInv, RequestIInv, Read, At, TypeOK
<1>1. Becomes(t, request'[t]) /\ RequestIInv(t)'
  <2>1. CASE ~ Live(Token(t)) \/ ~ Timely(t)
    <3>1. PICK code \in Code : Answers(t, code, None)
      BY <2>1 DEF Read, Refuses, Code
    <3>2. Becomes(t, [step |-> "answer", kind |-> request[t].kind, token |-> None,
                      at |-> 0, given |-> None, code |-> code])
      BY <1>0, <3>1, AnswersBecomes
    <3> QED BY <3>2, AnsweredRelies DEF Becomes
  <2>2. CASE Live(Token(t)) /\ Timely(t) /\ request[t].kind = "reauth"
    <3>1. Proceed(t)
      BY <2>2 DEF Read
    <3>2. Found(Token(t))' \/ request'[t].step = "answer"
      BY <1>0, <2>2, <3>1, ProceedBecomes DEF Found, Live, Token
    <3> QED BY <1>0, <3>1, <3>2, ProceedBecomes DEF RequestIInv
  <2>3. CASE Live(Token(t)) /\ Timely(t) /\ request[t].kind # "reauth"
    <3>1. request' = [request EXCEPT ![t].step = "touch", ![t].at = now]
      BY <2>3 DEF Read
    <3>2. request[t] \in Request /\ request \in [Tab -> Request]
      BY <1>0, RequestFields DEF TypeOK
    <3>3. /\ request'[t] = [step |-> "touch", kind |-> request[t].kind, token |-> request[t].token,
                            at |-> now, given |-> request[t].given, code |-> request[t].code]
          /\ \A u \in Tab \ {t} : request'[u] = request[u]
          /\ DOMAIN request' = Tab
          /\ request' = [u \in Tab |-> request'[u]]
      BY <3>1, <3>2 DEF Request
    <3>4. Becomes(t, request'[t])
      BY <1>0, <3>2, <3>3 DEF Becomes, Request
    <3>5. Token(t) \in Session /\ sessions[Token(t)].state # "none" /\ Token(t) # None
      BY <1>0, <2>3, RequestFields DEF Live
    <3>6. now < sessions[Token(t)].ends /\ now < used[Token(t)] + IdleTimeout
      <4>1. /\ sessions[Token(t)].ends \in Nat /\ sessions[Token(t)].seen \in Nat
            /\ used[Token(t)] \in Nat /\ IdleTimeout \in Nat
        BY <1>0, <3>5, ConstantsAssumption DEF TypeOK, Row
      <4>2. sessions[Token(t)].seen <= used[Token(t)]
        BY <3>5 DEF IInv, SessionIInv
      <4>3. now < sessions[Token(t)].ends /\ now < sessions[Token(t)].seen + IdleTimeout
        BY <1>0, <2>3, <4>1 DEF Timely, IsOver, IsIdle
      <4> QED BY <1>0, <4>1, <4>2, <4>3
    <3> QED BY <1>0, <3>3, <3>4, <3>5, <3>6 DEF RequestIInv, Found, Token, history
  <2> QED BY <2>1, <2>2, <2>3
<1> QED BY <1>0, <1>1, TablesStay

(* The step that accepts a session, from either of the two statements.     *)
LEMMA TouchStep ==
  ASSUME IInv, NEW t \in Tab, Touch(t)
  PROVE  IInv'
<1>0. /\ TypeOK /\ RequestIInv(t) /\ request[t].step = "touch" /\ request[t].kind # "login"
      /\ Token(t) \in Session /\ Found(Token(t)) /\ request[t].at \in Nat
      /\ UNCHANGED <<now, cookie, tab, over, rotated>>
  BY RequestFields DEF IInv, RequestIInv, Touch, At, Found
<1>1. CASE ~ (Live(Token(t)) /\ sessions[Token(t)].seen # request[t].at)
  <2>1. Goes(t, "reread") /\ UNCHANGED <<sessions, history>>
    BY <1>0, <1>1 DEF Touch, history
  <2>2. /\ Becomes(t, request'[t]) /\ request'[t].step = "reread"
        /\ request'[t].kind = request[t].kind /\ request'[t].token = request[t].token
        /\ request'[t].at = request[t].at
    BY <1>0, <2>1, GoesBecomes
  <2>3. RequestIInv(t)'
    BY <1>0, <2>1, <2>2 DEF RequestIInv, Found, Token, history
  <2> QED BY <1>0, <2>1, <2>2, <2>3, TablesStay DEF TypeOK
<1>2. CASE Live(Token(t)) /\ sessions[Token(t)].seen # request[t].at
  <2> DEFINE s == Token(t)
  <2>1. /\ sessions' = [sessions EXCEPT ![s].seen = request[t].at]
        /\ Proceed(t) /\ Uses(t)
    BY <1>2 DEF Touch
  <2>2. s \in Session /\ sessions \in [Session -> Row] /\ used \in [Session -> Nat]
    BY <1>0 DEF TypeOK
  <2> HIDE DEF s
  <2>3. /\ sessions' \in [Session -> Row]
        /\ \A i \in Session : /\ sessions'[i].state = sessions[i].state
                              /\ sessions'[i].ends = sessions[i].ends
                              /\ i # s => sessions'[i].seen = sessions[i].seen
        /\ sessions'[s].seen = request[t].at
    BY <1>0, <2>1, <2>2 DEF Row
  <2>4. /\ used' \in [Session -> Nat] /\ used'[s] >= request[t].at
        /\ \A i \in Session : used'[i] >= used[i]
    <3>1. used' = [used EXCEPT ![s] = IF request[t].at > used[s] THEN request[t].at ELSE used[s]]
      BY <2>1 DEF Uses, s
    <3> QED BY <1>0, <2>2, <3>1
  <2>5. /\ Becomes(t, request'[t])
        /\ \/ request'[t].step = "answer"
           \/ /\ request'[t].step \in {"revoke", "password"}
              /\ request'[t].kind = request[t].kind /\ request'[t].token = request[t].token
              /\ request'[t].step = "revoke" => request[t].kind = "logout"
    BY <1>0, <2>1, ProceedBecomes
  <2>6. RequestIInv(t)'
    BY <1>0, <2>2, <2>3, <2>5 DEF RequestIInv, Found, Token
  <2>7. \A u \in Tab : RequestIInv(u)'
    BY <2>3, <2>4, <2>5, <2>6, OthersRely
  <2>8. ASSUME NEW i \in Session PROVE SessionIInv(i)'
    <3>1. SessionIInv(i) /\ sessions[i].seen \in Nat /\ used[i] \in Nat /\ used'[i] \in Nat
      BY <2>2, <2>4 DEF IInv, Row
    <3> QED BY <1>0, <2>3, <2>4, <3>1 DEF SessionIInv
  <2>9. TypeOK'
    BY <1>0, <2>3, <2>4, <2>5, <2>7 DEF TypeOK, Becomes, RequestIInv, Found, Token
  <2> QED BY <2>7, <2>8, <2>9 DEF IInv
<1> QED BY <1>1, <1>2

LEMMA RereadStep ==
  ASSUME IInv, NEW t \in Tab, Reread(t)
  PROVE  IInv'
<1>0. /\ TypeOK /\ RequestIInv(t) /\ request[t].step = "reread" /\ request[t].kind # "login"
      /\ Token(t) \in Session /\ Found(Token(t)) /\ request[t].at \in Nat
      /\ UNCHANGED <<now, sessions, cookie, tab, over, rotated>>
  BY RequestFields DEF IInv, RequestIInv, Reread, At, Found
<1>1. CASE UNCHANGED used /\ \E code \in Code : Answers(t, code, None)
  <2>1. PICK code \in Code : Answers(t, code, None)
    BY <1>1
  <2>2. Becomes(t, [step |-> "answer", kind |-> request[t].kind, token |-> None,
                    at |-> 0, given |-> None, code |-> code])
    BY <1>0, <2>1, AnswersBecomes
  <2>3. Becomes(t, request'[t]) /\ RequestIInv(t)'
    BY <2>2, AnsweredRelies DEF Becomes
  <2> QED BY <1>0, <1>1, <2>3, TablesStay DEF TypeOK, history
<1>2. CASE Proceed(t) /\ Uses(t)
  <2> DEFINE s == Token(t)
  <2>1. s \in Session /\ used \in [Session -> Nat]
    BY <1>0 DEF TypeOK
  <2>2. /\ used' \in [Session -> Nat]
        /\ \A i \in Session : used'[i] >= used[i]
    <3>1. used' = [used EXCEPT ![s] = IF request[t].at > used[s] THEN request[t].at ELSE used[s]]
      BY <1>2 DEF Uses
    <3> HIDE DEF s
    <3> QED BY <1>0, <2>1, <3>1
  <2>3. /\ Becomes(t, request'[t])
        /\ \/ request'[t].step = "answer"
           \/ /\ request'[t].step \in {"revoke", "password"}
              /\ request'[t].kind = request[t].kind /\ request'[t].token = request[t].token
              /\ request'[t].step = "revoke" => request[t].kind = "logout"
    BY <1>0, <1>2, ProceedBecomes
  <2>4. RequestIInv(t)'
    BY <1>0, <2>3 DEF RequestIInv, Found, Token
  <2>5. \A u \in Tab : RequestIInv(u)'
    BY <1>0, <2>2, <2>3, <2>4, OthersRely
  <2>6. ASSUME NEW i \in Session PROVE SessionIInv(i)'
    <3>1. SessionIInv(i) /\ sessions[i].seen \in Nat /\ used[i] \in Nat /\ used'[i] \in Nat
      BY <1>0, <2>2 DEF IInv, TypeOK, Row
    <3> QED BY <1>0, <2>2, <3>1 DEF SessionIInv
  <2>7. TypeOK'
    BY <1>0, <2>2, <2>3, <2>5 DEF TypeOK, Becomes, RequestIInv, Found, Token
  <2> QED BY <2>5, <2>6, <2>7 DEF IInv
<1> QED
  <2>1. CASE ~ Live(Token(t))
    BY <1>1, <2>1 DEF Reread, Refuses, Code
  <2>2. CASE Live(Token(t)) /\ (IsOver(Token(t), request[t].at) \/ IsIdle(Token(t), request[t].at))
    BY <1>1, <2>2 DEF Reread, Refuses, Code
  <2> QED BY <1>2, <2>1, <2>2 DEF Reread

LEMMA WrongPasswordStep ==
  ASSUME IInv, NEW t \in Tab, WrongPassword(t)
  PROVE  IInv'
<1>1. Answers(t, "authentication_required", None) /\ "authentication_required" \in Code
  BY DEF WrongPassword, Refuses, Code
<1>2. Becomes(t, [step |-> "answer", kind |-> request[t].kind, token |-> None,
                  at |-> 0, given |-> None, code |-> "authentication_required"])
  BY <1>1, AnswersBecomes DEF IInv
<1>3. Becomes(t, request'[t]) /\ RequestIInv(t)'
  BY <1>2, AnsweredRelies DEF Becomes
<1> QED BY <1>3, TablesStay DEF WrongPassword, IInv, TypeOK

LEMMA FailsStep ==
  ASSUME IInv, NEW t \in Tab, Fails(t)
  PROVE  IInv'
<1>1. Becomes(t, NoRequest)
  BY NoRequestTyped DEF Fails, Becomes, IInv, TypeOK
<1>2. Becomes(t, request'[t]) /\ RequestIInv(t)'
  BY <1>1, AnsweredRelies DEF Becomes, NoRequest
<1> QED BY <1>2, TablesStay DEF Fails, IInv, TypeOK

LEMMA DeliverStep ==
  ASSUME IInv, NEW t \in Tab, Deliver(t)
  PROVE  IInv'
<1>1. Becomes(t, NoRequest)
  BY NoRequestTyped DEF Deliver, Becomes, IInv, TypeOK
<1>2. Becomes(t, request'[t]) /\ RequestIInv(t)'
  BY <1>1, AnsweredRelies DEF Becomes, NoRequest
<1>3. /\ request[t].given \in Session \cup {None} /\ tab[t] \in Page
      /\ cookie \in Session \cup {None} /\ tab \in [Tab -> Page]
  BY RequestFields DEF IInv, TypeOK
<1>4. cookie' \in Session \cup {None}
  BY <1>3 DEF Deliver, NewCookie
<1>5. NewPage(t) \in Page
  BY <1>3 DEF NewPage, Page, LoginPage
<1>6. tab' \in [Tab -> Page]
  BY <1>3, <1>5 DEF Deliver
<1> QED BY <1>2, <1>4, <1>6, TablesStay DEF Deliver, IInv, TypeOK

LEMMA CreateSessionStep ==
  ASSUME IInv, NEW t \in Tab, NEW n \in Session, CreateSession(t, n)
  PROVE  IInv'
<1>0. /\ TypeOK /\ RequestIInv(t) /\ request[t].step = "password" /\ now \in Nat
      /\ sessions[n].state = "none" /\ n # None
      /\ UNCHANGED <<now, cookie, tab, over, rotated>>
      /\ sessions \in [Session -> Row] /\ used \in [Session -> Nat]
  BY ConstantsAssumption DEF IInv, CreateSession, At, TypeOK, Session, None
<1>1. /\ sessions' \in [Session -> Row]
      /\ sessions'[n].state = "live" /\ sessions'[n].seen = now
      /\ \A i \in Session \ {n} : sessions'[i] = sessions[i]
  BY <1>0, ConstantsAssumption DEF CreateSession, Row
<1>2. /\ used' \in [Session -> Nat] /\ used'[n] = now
      /\ \A i \in Session \ {n} : used'[i] = used[i]
  BY <1>0 DEF CreateSession
<1>3. Becomes(t, request'[t]) /\ RequestIInv(t)'
  <2>1. CASE request[t].kind = "reauth"
    <3>1. request' = [request EXCEPT ![t].step = "revoke", ![t].given = n]
      BY <2>1 DEF CreateSession
    <3>2. request[t] \in Request /\ request \in [Tab -> Request]
      BY <1>0, RequestFields DEF TypeOK
    <3>3. /\ request'[t] = [step |-> "revoke", kind |-> request[t].kind, token |-> request[t].token,
                            at |-> request[t].at, given |-> n, code |-> request[t].code]
          /\ \A u \in Tab \ {t} : request'[u] = request[u]
          /\ request' = [u \in Tab |-> request'[u]]
      BY <3>1, <3>2 DEF Request
    <3>4. Becomes(t, request'[t])
      BY <3>2, <3>3 DEF Becomes, Request
    <3>5. Found(Token(t)) /\ Token(t) \in Session \ {n}
      BY <1>0, <2>1, RequestFields DEF RequestIInv, Found
    <3> QED BY <1>1, <3>3, <3>4, <3>5 DEF RequestIInv, Found, Token
  <2>2. CASE request[t].kind # "reauth"
    <3>1. Answers(t, "ok", n) /\ "ok" \in Code
      BY <2>2 DEF CreateSession, Code
    <3>2. Becomes(t, [step |-> "answer", kind |-> request[t].kind, token |-> None,
                      at |-> 0, given |-> n, code |-> "ok"])
      BY <1>0, <3>1, AnswersBecomes
    <3> QED BY <3>2, AnsweredRelies DEF Becomes
  <2> QED BY <2>1, <2>2
<1>4. \A u \in Tab : RequestIInv(u)'
  <2>1. ASSUME NEW i \in Session, sessions[i].state # "none"
        PROVE  /\ sessions'[i].state # "none" /\ sessions'[i].ends = sessions[i].ends
               /\ used'[i] >= used[i] /\ used'[i] \in Nat
    BY <1>0, <1>1, <1>2, <2>1
  <2> QED BY <1>3, <2>1, OthersRely
<1>5. ASSUME NEW i \in Session PROVE SessionIInv(i)'
  <2>1. SessionIInv(i)
    BY DEF IInv
  <2> QED BY <1>0, <1>1, <1>2, <2>1 DEF SessionIInv
<1>6. TypeOK'
  BY <1>0, <1>1, <1>2, <1>3, <1>4 DEF TypeOK, Becomes, RequestIInv, Found, Token
<1> QED BY <1>4, <1>5, <1>6 DEF IInv

LEMMA RevokeStep ==
  ASSUME IInv, NEW t \in Tab, Revoke(t)
  PROVE  IInv'
<1> DEFINE s == Token(t)
<1>0. /\ TypeOK /\ RequestIInv(t) /\ request[t].step = "revoke" /\ s \in Session /\ Found(s)
      /\ UNCHANGED <<now, cookie, tab, used>>
      /\ sessions \in [Session -> Row] /\ used \in [Session -> Nat]
      /\ over \subseteq Session /\ rotated \in [Session -> SUBSET Session]
  BY RequestFields DEF IInv, Revoke, At, TypeOK, RequestIInv, Found
<1>1. /\ sessions' \in [Session -> Row]
      /\ \A i \in Session : /\ sessions'[i].ends = sessions[i].ends
                            /\ sessions'[i].seen = sessions[i].seen
                            /\ i # s => sessions'[i].state = sessions[i].state
      /\ sessions'[s].state = IF Live(s) THEN "revoked" ELSE sessions[s].state
      /\ sessions'[s].state = "revoked"
  <2>1. sessions' = [sessions EXCEPT ![s].state =
                       IF sessions[s].state = "live" THEN "revoked" ELSE sessions[s].state]
    BY DEF Revoke, Revoked
  <2> HIDE DEF s
  <2> QED BY <1>0, <2>1 DEF Row, Live, Found
<1>2. Becomes(t, request'[t]) /\ request'[t].step = "answer"
  <2>1. PICK code \in Code, given \in Session \cup {None} : Answers(t, code, given)
    BY <1>0, RequestFields DEF Revoke, Refuses, Code
  <2>2. Becomes(t, [step |-> "answer", kind |-> request[t].kind, token |-> None,
                    at |-> 0, given |-> given, code |-> code])
    BY <1>0, <2>1, AnswersBecomes
  <2> QED BY <2>2 DEF Becomes
<1>3. \A u \in Tab : RequestIInv(u)'
  <2>1. RequestIInv(t)'
    BY <1>2, AnsweredRelies
  <2>2. ASSUME NEW i \in Session, sessions[i].state # "none"
        PROVE  /\ sessions'[i].state # "none" /\ sessions'[i].ends = sessions[i].ends
               /\ used'[i] >= used[i] /\ used'[i] \in Nat
    BY <1>0, <1>1, <2>2
  <2> QED BY <1>2, <2>1, <2>2, OthersRely
<1>4. /\ over' \subseteq over \cup {s}
      /\ rotated' \in [Session -> SUBSET Session]
      /\ \A i \in Session \ {s} : rotated'[i] = rotated[i]
      /\ \/ rotated'[s] = rotated[s]
         \/ \E given \in Session : Live(s) /\ rotated'[s] = rotated[s] \cup {given}
  <2>1. CASE UNCHANGED <<over, rotated>>
    BY <1>0, <2>1
  <2>2. CASE ~ UNCHANGED <<over, rotated>>
    <3>1. /\ over' = over \cup {s} /\ ~ (request[t].kind = "reauth" /\ ~ Live(s))
          /\ rotated' = IF request[t].kind = "reauth"
                        THEN [rotated EXCEPT ![s] = rotated[s] \cup {request[t].given}] ELSE rotated
      BY <2>2 DEF Revoke
    <3>2. CASE request[t].kind = "reauth"
      <4>1. request[t].given \in Session /\ Live(s)
        BY <1>0, <3>1, <3>2 DEF RequestIInv
      <4> HIDE DEF s
      <4> QED BY <1>0, <3>1, <3>2, <4>1
    <3>3. CASE request[t].kind # "reauth"
      BY <1>0, <3>1, <3>3
    <3> QED BY <3>2, <3>3
  <2> QED BY <2>1, <2>2
<1>5. ASSUME NEW i \in Session PROVE SessionIInv(i)'
  <2>1. SessionIInv(i)
    BY DEF IInv
  <2> HIDE DEF s
  <2>2. CASE i # s
    BY <1>0, <1>1, <1>4, <2>1, <2>2 DEF SessionIInv
  <2>3. CASE i = s
    <3>1. CASE rotated'[s] = rotated[s]
      BY <1>0, <1>1, <2>1, <2>3, <3>1 DEF SessionIInv
    <3>2. CASE rotated'[s] # rotated[s]
      <4>1. PICK given \in Session : Live(s) /\ rotated'[s] = rotated[s] \cup {given}
        BY <1>4, <3>2
      <4>2. rotated[s] = {}
        BY <2>1, <2>3, <4>1 DEF SessionIInv, Live
      <4> QED BY <1>0, <1>1, <2>1, <2>3, <4>1, <4>2 DEF SessionIInv
    <3> QED BY <3>1, <3>2
  <2> QED BY <2>2, <2>3
<1>6. TypeOK'
  <2>1. \A u \in Tab : request'[u].step \in {"touch", "reread", "revoke"} => request'[u].token # None
    BY <1>3 DEF RequestIInv, Found, Token
  <2> HIDE DEF s
  <2> QED BY <1>0, <1>1, <1>2, <1>4, <2>1 DEF TypeOK, Becomes
<1> QED BY <1>3, <1>5, <1>6 DEF IInv

LEMMA IInvNext == IInv /\ [Next]_vars => IInv'
<1> SUFFICES ASSUME IInv, [Next]_vars PROVE IInv'
  OBVIOUS
<1>1. ASSUME NEW t \in Tab, NEW kind \in Kind, Send(t, kind) PROVE IInv'
  BY <1>1, SendStep
<1>2. ASSUME NEW t \in Tab, \/ Read(t) \/ Touch(t) \/ Reread(t) \/ WrongPassword(t)
                            \/ Revoke(t) \/ Fails(t) \/ Deliver(t)
      PROVE  IInv'
  BY <1>2, ReadStep, TouchStep, RereadStep, WrongPasswordStep, RevokeStep, FailsStep, DeliverStep
<1>3. ASSUME NEW t \in Tab, NEW n \in Session, CreateSession(t, n) PROVE IInv'
  BY <1>3, CreateSessionStep
(* No request moves.                                                        *)
<1>4. ASSUME UNCHANGED <<sessions, cookie, request, history>>, now' \in Nat, tab' \in [Tab -> Page]
      PROVE  IInv'
  <2>1. \A t \in Tab : RequestIInv(t)'
    BY <1>4 DEF IInv, RequestIInv, Found, Token, history
  <2>2. \A s \in Session : SessionIInv(s)'
    BY <1>4 DEF IInv, SessionIInv, history
  <2>3. TypeOK'
    BY <1>4 DEF IInv, TypeOK, history
  <2> QED BY <2>1, <2>2, <2>3 DEF IInv
<1>5. ASSUME NEW t \in Tab, CloseReauth(t) PROVE IInv'
  <2>1. tab' \in [Tab -> Page] /\ now \in Nat
    BY <1>5 DEF CloseReauth, IInv, TypeOK, Page
  <2> QED BY <1>4, <1>5, <2>1 DEF CloseReauth
<1>6. CASE Tick
  BY <1>4, <1>6 DEF Tick, IInv, TypeOK
<1>7. CASE UNCHANGED vars
  BY <1>4, <1>7 DEF vars, history, IInv, TypeOK
<1> QED BY <1>1, <1>2, <1>3, <1>5, <1>6, <1>7 DEF Next

LEMMA IInvInit == Init => IInv
<1> SUFFICES ASSUME Init PROVE IInv
  OBVIOUS
<1>1. TypeOK
  BY NoRequestTyped DEF Init, TypeOK, Row, Page, LoginPage, NoRequest
<1>2. \A t \in Tab : RequestIInv(t)
  BY DEF Init, RequestIInv, NoRequest
<1>3. \A s \in Session : SessionIInv(s)
  BY DEF Init, SessionIInv
<1> QED BY <1>1, <1>2, <1>3 DEF IInv

LEMMA IInvAlways == Spec => []IInv
BY IInvInit, IInvNext, PTL DEF Spec

----------------------------------------------------------------------------
(* The tables of internal/auth, the browser's cookie, the tabs and their   *)
(* requests keep their types.                                              *)
THEOREM SessionTypes == Spec => []TypeOK
<1>1. IInv => TypeOK
  BY DEF IInv
<1> QED BY <1>1, IInvAlways, PTL

(* However many tabs reauthenticate with one session at once, one of them  *)
(* at most is given a new one, and the old one has ended by then.          *)
THEOREM RotationsAreUnique == Spec => []RotationIsUnique
<1>1. IInv => RotationIsUnique
  <2> SUFFICES ASSUME IInv, NEW s \in Session
               PROVE  /\ Cardinality(rotated[s]) <= 1
                      /\ rotated[s] # {} => sessions[s].state = "revoked"
    BY DEF RotationIsUnique
  <2>1. SessionIInv(s)
    BY DEF IInv
  <2>2. CASE rotated[s] = {}
    BY <2>2, FS_EmptySet
  <2>3. CASE rotated[s] # {}
    <3>1. Cardinality(rotated[s]) = 1
      BY <2>1, <2>3, FS_Singleton DEF SessionIInv
    <3> QED BY <2>1, <3>1 DEF SessionIInv
  <2> QED BY <2>2, <2>3
<1> QED BY <1>1, IInvAlways, PTL

(* A request is moved by the steps of its own tab alone.                   *)
LEMMA OthersStay ==
  ASSUME IInv, NEW t \in Tab, NEW u \in Tab \ {t},
         \/ \E kind \in Kind : Send(u, kind)
         \/ Read(u) \/ Touch(u) \/ Reread(u)
         \/ WrongPassword(u) \/ Revoke(u) \/ Fails(u)
         \/ \E n \in Session : CreateSession(u, n)
         \/ Deliver(u) \/ CloseReauth(u)
  PROVE  request'[t] = request[t]
<1>0. /\ TypeOK /\ request \in [Tab -> Request]
      /\ request[u].step \in {"read", "touch", "reread"} => request[u].kind # "login"
  BY DEF IInv, RequestIInv, TypeOK
<1>1. CASE Read(u)
  <2>1. \/ Refuses(u, "authentication_required") \/ Refuses(u, "session_expired") \/ Proceed(u)
        \/ request' = [request EXCEPT ![u].step = "touch", ![u].at = now]
    BY <1>1 DEF Read
  <2>2. request[u].kind # "login"
    BY <1>0, <1>1 DEF Read, At
  <2>3. CASE Proceed(u)
    BY <1>0, <2>2, <2>3, ProceedBecomes DEF Becomes
  <2> QED BY <1>0, <2>1, <2>3 DEF Refuses, Answers
<1>2. CASE Touch(u) \/ Reread(u)
  <2>1. \/ Refuses(u, "authentication_required") \/ Refuses(u, "session_expired") \/ Proceed(u)
        \/ Goes(u, "reread")
    BY <1>2 DEF Touch, Reread
  <2>2. request[u].kind # "login"
    BY <1>0, <1>2 DEF Touch, Reread, At
  <2>3. CASE Proceed(u)
    BY <1>0, <2>2, <2>3, ProceedBecomes DEF Becomes
  <2> QED BY <1>0, <2>1, <2>3 DEF Refuses, Answers, Goes
<1>3. CASE \E kind \in Kind : Send(u, kind)
  BY <1>0, <1>3 DEF Send
<1>4. CASE Revoke(u) \/ WrongPassword(u)
  BY <1>0, <1>4 DEF Revoke, WrongPassword, Refuses, Answers
<1>5. CASE \E n \in Session : CreateSession(u, n)
  BY <1>0, <1>5 DEF CreateSession, Answers
<1>6. CASE Fails(u) \/ Deliver(u) \/ CloseReauth(u)
  BY <1>0, <1>6 DEF Fails, Deliver, CloseReauth
<1> QED BY <1>1, <1>2, <1>3, <1>4, <1>5, <1>6

(* A session is accepted only by a statement that has just found it live.  *)
LEMMA AdmittedLive ==
  ASSUME IInv, [Next]_vars, NEW t \in Tab, Admits(t)
  PROVE  RequestIInv(t) /\ Token(t) \in Session /\ Live(Token(t))
<1>0. /\ RequestIInv(t) /\ Token(t) \in Session
      /\ request[t].step \in {"touch", "reread"} /\ request'[t] # request[t]
  BY RequestFields DEF IInv, RequestIInv, Found, Admits
<1>1. ~ UNCHANGED request
  BY <1>0
<1>2. PICK u \in Tab :
        \/ \E kind \in Kind : Send(u, kind)
        \/ Read(u) \/ Touch(u) \/ Reread(u)
        \/ WrongPassword(u) \/ Revoke(u) \/ Fails(u)
        \/ \E n \in Session : CreateSession(u, n)
        \/ Deliver(u) \/ CloseReauth(u)
  BY <1>1 DEF Next, vars, Tick
<1>3. u = t
  BY <1>0, <1>2, OthersStay
<1>4. Touch(t) \/ Reread(t) \/ Fails(t)
  BY <1>0, <1>2, <1>3 DEF Send, Read, WrongPassword, Revoke, CreateSession, Deliver, CloseReauth, At
<1>5. ~ Fails(t)
  BY DEF Fails, Admits, NoRequest, IInv, TypeOK
<1>6. CASE Touch(t)
  <2>1. ~ Goes(t, "reread")
    BY GoesBecomes DEF IInv, Admits
  <2> QED BY <1>0, <1>6, <2>1 DEF Touch
<1>7. CASE Reread(t)
  <2>1. ASSUME Refuses(t, "authentication_required") PROVE FALSE
    <3>1. Answers(t, "authentication_required", None) /\ "authentication_required" \in Code
      BY <2>1 DEF Refuses, Code
    <3>2. Becomes(t, [step |-> "answer", kind |-> request[t].kind, token |-> None,
                      at |-> 0, given |-> None, code |-> "authentication_required"])
      BY <3>1, AnswersBecomes DEF IInv
    <3> QED BY <3>2 DEF Admits, Becomes
  <2> QED BY <1>0, <1>7, <2>1 DEF Reread
<1> QED BY <1>0, <1>4, <1>5, <1>6, <1>7

(* After the answer to a logout or a reauthentication that ended a session *)
(* no request is accepted with it, not even one that had found it valid.   *)
THEOREM EndedStaysOver == Spec => EndedIsOver
<1> DEFINE Step == \A t \in Tab : Admits(t) => Token(t) \notin over
<1>1. IInv /\ [Next]_vars => [Step]_vars
  <2> SUFFICES ASSUME IInv, [Next]_vars, NEW t \in Tab, Admits(t)
               PROVE  Token(t) \notin over
    OBVIOUS
  <2>1. Token(t) \in Session /\ Live(Token(t))
    BY AdmittedLive
  <2>2. SessionIInv(Token(t))
    BY <2>1 DEF IInv
  <2> QED BY <2>1, <2>2 DEF SessionIInv, Live
<1> QED BY <1>1, IInvAlways, PTL DEF Spec, EndedIsOver

(* No session is accepted past its end, nor after lying unused for the     *)
(* idle timeout, although the time was taken some statements before.       *)
THEOREM TimeoutsAreAlwaysEnforced == Spec => TimeoutsAreEnforced
<1> DEFINE Step == \A t \in Tab :
             Admits(t) => /\ request[t].at < sessions[Token(t)].ends
                          /\ request[t].at < used[Token(t)] + IdleTimeout
<1>1. IInv /\ [Next]_vars => [Step]_vars
  <2> SUFFICES ASSUME IInv, [Next]_vars, NEW t \in Tab, Admits(t)
               PROVE  /\ request[t].at < sessions[Token(t)].ends
                      /\ request[t].at < used[Token(t)] + IdleTimeout
    OBVIOUS
  <2>1. RequestIInv(t)
    BY AdmittedLive
  <2> QED BY <2>1 DEF RequestIInv, Admits
<1> QED BY <1>1, IInvAlways, PTL DEF Spec, TimeoutsAreEnforced
=============================================================================
