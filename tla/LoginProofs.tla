---------------------------- MODULE LoginProofs ----------------------------
(***************************************************************************)
(* Proofs about Login, for every number of sessions, logins and concurrent *)
(* requests at the auth server.                                            *)
(***************************************************************************)
EXTENDS Login, AuthServerProofs

-----------------------------------------------------------------------------
(* Type correctness.                                                         *)

(* A login is a request of the game server.                                  *)
LEMMA LoginsAreRequests ==
  ASSUME NEW l \in Logins
  PROVE  l \in Requests /\ l \notin WebRequests /\ SessionOf[l] \in Sessions
  BY AuthAssumption, LoginAssumption DEF Logins, Requests

(* What is pushed to or taken from one of the queues of responses.           *)
LEMMA Pushed ==
  ASSUME NEW q \in [Logins -> Seq(Responses)], NEW l \in Logins, NEW x \in Responses,
         NEW p, p = [q EXCEPT ![l] = Append(q[l], x)]
  PROVE  /\ p \in [Logins -> Seq(Responses)]
         /\ Len(q[l]) \in Nat
         /\ Len(p[l]) = Len(q[l]) + 1
         /\ p[l] # <<>>
         /\ q[l] = <<>> => Head(p[l]) = x
         /\ \A k \in Logins : k # l => p[k] = q[k]
<1>1. q[l] \in Seq(Responses)
  OBVIOUS
<1>2. Append(q[l], x) \in Seq(Responses)
  BY <1>1
<1>3. /\ Len(q[l]) \in Nat /\ Len(Append(q[l], x)) = Len(q[l]) + 1
      /\ Append(q[l], x) # <<>>
  BY <1>1
<1>4. q[l] = <<>> => Head(Append(q[l], x)) = x
  BY <1>1
<1>5. p[l] = Append(q[l], x) /\ \A k \in Logins : k # l => p[k] = q[k]
  OBVIOUS
<1> QED
  BY <1>2, <1>3, <1>4, <1>5

LEMMA Popped ==
  ASSUME NEW q \in [Logins -> Seq(Responses)], NEW l \in Logins, q[l] # <<>>,
         NEW p, p = [q EXCEPT ![l] = Tail(q[l])]
  PROVE  /\ p \in [Logins -> Seq(Responses)]
         /\ Head(q[l]) \in Responses
         /\ Len(q[l]) \in Nat
         /\ Len(p[l]) = Len(q[l]) - 1
         /\ \A k \in Logins : k # l => p[k] = q[k]
<1>1. q[l] \in Seq(Responses)
  OBVIOUS
<1>2. /\ Tail(q[l]) \in Seq(Responses)
      /\ Head(q[l]) \in Responses
      /\ Len(q[l]) \in Nat
      /\ Len(Tail(q[l])) = Len(q[l]) - 1
  BY <1>1
<1>3. p[l] = Tail(q[l]) /\ \A k \in Logins : k # l => p[k] = q[k]
  OBVIOUS
<1> QED
  BY <1>2, <1>3

(* The lengths of the queues of responses.                                   *)
LEMMA Lengths ==
  ASSUME TypeOK, NEW l \in Logins
  PROVE  /\ Len(posted[l]) \in Nat /\ Len(passed[l]) \in Nat /\ Len(answers[l]) \in Nat
         /\ posted[l] # <<>> => Len(posted[l]) > 0
         /\ passed[l] # <<>> => Len(passed[l]) > 0
         /\ answers[l] # <<>> => Len(answers[l]) > 0
<1>1. posted[l] \in Seq(Responses) /\ passed[l] \in Seq(Responses)
      /\ answers[l] \in Seq(Responses)
  BY DEF TypeOK
<1>2. ASSUME NEW q \in Seq(Responses)
      PROVE  Len(q) \in Nat /\ (q # <<>> => Len(q) > 0)
  OBVIOUS
<1> QED
  BY <1>1, <1>2

(* A response that moves on, or is dropped, keeps the number of them.        *)
LEMMA MovesOn ==
  ASSUME NEW a \in Nat, NEW b \in Nat, NEW c \in Nat, a + b + c <= 1,
         NEW x, NEW y, NEW z,
         \/ x = a - 1 /\ y \in {b, b + 1} /\ z = c
         \/ x = a /\ y = b - 1 /\ z \in {c, c + 1}
  PROVE  x + y + z <= 1
  OBVIOUS

(* Steps of the game server that leave the auth server's state alone.        *)
LEMMA AuthUntouched ==
  ASSUME AuthTypeOK, UNCHANGED authVars
  PROVE  AuthTypeOK'
  BY DEF AuthTypeOK, authVars, userVars, characterVars, ticketVars

(* Every step keeps the types of the state.                                  *)
LEMMA TypeStep ==
  ASSUME TypeOK, [Next]_vars
  PROVE  TypeOK'
<1> USE DEF socketVars, loginVars
<1>1. CASE AuthNext /\ UNCHANGED <<socketVars, loginVars>>
  BY <1>1, AuthTypeStep DEF TypeOK
<1>2. ASSUME NEW s \in Sessions, CloseSession(s) \/ ResetConnection(s)
      PROVE  TypeOK'
  BY <1>2, AuthUntouched DEF CloseSession, ResetConnection, TypeOK
<1>3. ASSUME NEW l \in Logins, StartLogin(l)
      PROVE  TypeOK'
  <2>1. PICK k \in Presentable, c \in Characters :
          request' = [request EXCEPT ![l] =
                        [op |-> "verify", at |-> "idle", user |-> NoUser, ticket |-> k,
                         text |-> NoName, character |-> c]]
    BY <1>3 DEF StartLogin
  <2>2. k \in Tickets \cup {NoTicket}
    BY DEF Presentable
  <2>3. [op |-> "verify", at |-> "idle", user |-> NoUser, ticket |-> k,
         text |-> NoName, character |-> c] \in Request
    BY <2>2 DEF Request, Operations, Texts
  <2>4. AuthTypeOK'
    BY <1>3, <2>1, <2>3, LoginsAreRequests
    DEF StartLogin, TypeOK, AuthTypeOK, userVars, characterVars, ticketVars
  <2> QED
    BY <1>3, <2>4 DEF StartLogin, TypeOK, Chain
<1>4. ASSUME NEW l \in Logins, NEW at, NEW next \in Chain, Handler(l, at, next)
      PROVE  TypeOK'
  <2>1. AuthTypeOK'
    BY <1>4, AuthUntouched DEF Handler, TypeOK
  <2>2. posted' \in [Logins -> Seq(Responses)]
    BY <1>4, Pushed DEF Handler, CallBack, TypeOK, Responses
  <2> QED
    BY <1>4, <2>1, <2>2 DEF Handler, TypeOK, Chain
<1>5. ASSUME NEW l \in Logins, DeliverRequest(l)
      PROVE  TypeOK'
  <2>1. AuthTypeOK'
    BY <1>5, RequestTypes, LoginsAreRequests
    DEF DeliverRequest, TypeOK, AuthTypeOK, Steps, userVars, characterVars, ticketVars
  <2> QED
    BY <1>5, <2>1 DEF DeliverRequest, TypeOK
<1>6. ASSUME NEW l \in Logins, OnRead(l)
      PROVE  TypeOK'
  <2>1. AuthTypeOK'
    BY <1>6, AuthUntouched DEF OnRead, TypeOK
  <2>2. posted' \in [Logins -> Seq(Responses)]
    BY <1>6, Pushed DEF OnRead, CallBack, TypeOK, Responses
  <2> QED
    BY <1>6, <2>1, <2>2 DEF OnRead, TypeOK, Chain
<1>7. ASSUME NEW l \in Logins, FindConnected(l)
      PROVE  TypeOK'
  BY <1>7, AuthUntouched DEF FindConnected, TypeOK
<1>8. ASSUME NEW l \in Logins, SendLoginSuccess(l)
      PROVE  TypeOK'
  <2>1. request[l].character \in Characters \cup {NoCharacter}
    <3>1. request[l] \in Request
      BY LoginsAreRequests DEF TypeOK, AuthTypeOK
    <3> QED
      BY <3>1 DEF Request
  <2> QED
    BY <1>8, <2>1, AuthUntouched, LoginsAreRequests DEF SendLoginSuccess, TypeOK, Responses
<1>9. ASSUME NEW l \in Logins, SendLoginFailure(l)
      PROVE  TypeOK'
  <2>1. AuthTypeOK'
    BY <1>9, AuthUntouched DEF SendLoginFailure, TypeOK
  <2>2. passed' \in [Logins -> Seq(Responses)]
    BY <1>9, Popped DEF SendLoginFailure, TypeOK
  <2>3. answers' \in [Logins -> Seq(Responses)] /\ up' \in BOOLEAN
    BY <1>9, Pushed DEF SendLoginFailure, TypeOK, Responses
  <2> QED
    BY <1>9, <2>1, <2>2, <2>3 DEF SendLoginFailure, TypeOK
<1>10. ASSUME NEW l \in Logins, RefuseLogin(l)
       PROVE  TypeOK'
  <2>1. AuthTypeOK'
    BY <1>10, AuthUntouched DEF RefuseLogin, TypeOK
  <2>2. answers' \in [Logins -> Seq(Responses)]
    BY <1>10, Pushed DEF RefuseLogin, TypeOK, Responses
  <2> QED
    BY <1>10, <2>1, <2>2 DEF RefuseLogin, TypeOK, Chain
<1>11. ASSUME NEW l \in Logins, ThrowLogin(l) \/ CrashLogin(l)
       PROVE  TypeOK'
  <2>1. AuthTypeOK'
    BY <1>11, AuthUntouched DEF ThrowLogin, CrashLogin, TypeOK
  <2> QED
    BY <1>11, <2>1 DEF ThrowLogin, CrashLogin, TypeOK, Chain
<1>12. CASE UNCHANGED vars
  BY <1>12, AuthUntouched DEF vars, TypeOK
<1> QED
  BY <1>1, <1>2, <1>3, <1>4, <1>5, <1>6, <1>7, <1>8, <1>9, <1>10, <1>11, <1>12
  DEF Next, HandleLogin, Network, OnResolve, OnConnect, OnWrite, Respond, Chain

(* Every step of a login keeps the types of the state.                       *)
THEOREM LoginTypeCorrect == Spec => []TypeOK
<1>1. Init => TypeOK
  <2>1. AuthInit => AuthTypeOK
    BY AuthAssumption DEF AuthInit, AuthTypeOK, Idle, Request, Texts
  <2> QED
    BY <2>1 DEF Init, TypeOK, Chain
<1> QED
  BY <1>1, TypeStep, PTL DEF Spec

-----------------------------------------------------------------------------
(* One answer for each login.                                                *)

(* Nothing is called back before the chain of handlers is over.              *)
ChainInv ==
  /\ \A l \in Logins : Len(posted[l]) + Len(passed[l]) + Len(answers[l]) <= 1
  /\ \A l \in Logins : chain[l] # "over" => posted[l] = <<>> /\ passed[l] = <<>>
                                             /\ answers[l] = <<>>

(* Every step keeps ChainInv.                                                *)
LEMMA ChainInvStep ==
  ASSUME TypeOK, ChainInv, [Next]_vars
  PROVE  ChainInv'
<1> USE DEF ChainInv
<1>0. ASSUME UNCHANGED <<chain, posted, passed, answers>>
      PROVE  ChainInv'
  BY <1>0
<1>1. ASSUME NEW l \in Logins, StartLogin(l) \/ ThrowLogin(l)
      PROVE  ChainInv'
  BY <1>1 DEF StartLogin, ThrowLogin, TypeOK
<1>2. ASSUME NEW l \in Logins, chain[l] # "over", NEW x \in Responses, CallBack(l, x),
             chain' = [chain EXCEPT ![l] = "over"], UNCHANGED <<passed, answers>>
      PROVE  ChainInv'
  <2>1. /\ Len(posted'[l]) = Len(posted[l]) + 1
        /\ \A k \in Logins : k # l => posted'[k] = posted[k]
    BY <1>2, Pushed DEF CallBack, TypeOK
  <2>2. /\ chain'[l] = "over"
        /\ \A k \in Logins : k # l => chain'[k] = chain[k]
    BY <1>2 DEF TypeOK
  <2>3. /\ posted[l] = <<>> /\ passed[l] = <<>> /\ answers[l] = <<>>
    BY <1>2
  <2>4. Len(posted'[l]) + Len(passed'[l]) + Len(answers'[l]) <= 1
    BY <1>2, <2>1, <2>3
  <2> QED
    BY <1>2, <2>1, <2>2, <2>4
<1>3. ASSUME NEW l \in Logins, NEW at \in Chain \ {"over"}, NEW next \in Chain,
             Handler(l, at, next)
      PROVE  ChainInv'
  <2>1. CASE chain' = [chain EXCEPT ![l] = next] /\ UNCHANGED posted
    BY <1>3, <2>1 DEF Handler, TypeOK
  <2>2. CASE chain' = [chain EXCEPT ![l] = "over"] /\ CallBack(l, "failure")
    BY <1>2, <1>3, <2>2 DEF Handler, Responses
  <2> QED
    BY <1>3, <2>1, <2>2 DEF Handler
<1>4. ASSUME NEW l \in Logins, OnRead(l)
      PROVE  ChainInv'
  BY <1>2, <1>4 DEF OnRead, Responses
<1>5. ASSUME NEW l \in Logins, FindConnected(l)
      PROVE  ChainInv'
  <2>1. /\ Len(posted'[l]) = Len(posted[l]) - 1
        /\ Head(posted[l]) \in Responses
        /\ \A k \in Logins : k # l => posted'[k] = posted[k]
    BY <1>5, Popped DEF FindConnected, TypeOK
  <2>2. /\ Len(passed'[l]) \in {Len(passed[l]), Len(passed[l]) + 1}
        /\ \A k \in Logins : k # l => passed'[k] = passed[k]
    BY <1>5, <2>1, Pushed DEF FindConnected, TypeOK
  <2>3. chain[l] = "over" /\ UNCHANGED <<answers, chain>>
    BY <1>5 DEF FindConnected
  <2>4. /\ Len(posted[l]) + Len(passed[l]) + Len(answers[l]) <= 1
        /\ Len(posted[l]) \in Nat /\ Len(passed[l]) \in Nat /\ Len(answers[l]) \in Nat
    BY Lengths
  <2>5. Len(posted'[l]) + Len(passed'[l]) + Len(answers'[l]) <= 1
    BY <2>1, <2>2, <2>3, <2>4, MovesOn
  <2> QED
    BY <2>1, <2>2, <2>3, <2>5
<1>6. ASSUME NEW l \in Logins, SendLoginSuccess(l) \/ SendLoginFailure(l)
      PROVE  ChainInv'
  <2>1. /\ Len(passed'[l]) = Len(passed[l]) - 1
        /\ \A k \in Logins : k # l => passed'[k] = passed[k]
    BY <1>6, Popped DEF SendLoginSuccess, SendLoginFailure, TypeOK
  <2>2. /\ Len(answers'[l]) \in {Len(answers[l]), Len(answers[l]) + 1}
        /\ \A k \in Logins : k # l => answers'[k] = answers[k]
    BY <1>6, Pushed DEF SendLoginSuccess, SendLoginFailure, TypeOK, Responses
  <2>3. chain[l] = "over" /\ UNCHANGED <<posted, chain>>
    BY <1>6 DEF SendLoginSuccess, SendLoginFailure
  <2>4. /\ Len(posted[l]) + Len(passed[l]) + Len(answers[l]) <= 1
        /\ Len(posted[l]) \in Nat /\ Len(passed[l]) \in Nat /\ Len(answers[l]) \in Nat
    BY Lengths
  <2>5. Len(posted'[l]) + Len(passed'[l]) + Len(answers'[l]) <= 1
    BY <2>1, <2>2, <2>3, <2>4, MovesOn
  <2> QED
    BY <2>1, <2>2, <2>3, <2>5
<1>7. ASSUME NEW l \in Logins, RefuseLogin(l)
      PROVE  ChainInv'
  <2>1. /\ Len(answers'[l]) = Len(answers[l]) + 1
        /\ \A k \in Logins : k # l => answers'[k] = answers[k]
    BY <1>7, Pushed DEF RefuseLogin, TypeOK, Responses
  <2>2. /\ chain'[l] = "over" /\ UNCHANGED <<posted, passed>>
        /\ \A k \in Logins : k # l => chain'[k] = chain[k]
    BY <1>7 DEF RefuseLogin, TypeOK
  <2>3. posted[l] = <<>> /\ passed[l] = <<>> /\ answers[l] = <<>>
    BY <1>7 DEF RefuseLogin
  <2>4. Len(posted'[l]) + Len(passed'[l]) + Len(answers'[l]) <= 1
    BY <2>1, <2>2, <2>3
  <2> QED
    BY <2>1, <2>2, <2>4
<1>8. CASE \/ AuthNext /\ UNCHANGED <<socketVars, loginVars>>
           \/ \E s \in Sessions : CloseSession(s) \/ ResetConnection(s)
           \/ \E l \in Logins : DeliverRequest(l) \/ CrashLogin(l)
           \/ UNCHANGED vars
  BY <1>0, <1>8
  DEF CloseSession, ResetConnection, DeliverRequest, CrashLogin, vars, loginVars
<1> QED
  BY <1>1, <1>3, <1>4, <1>5, <1>6, <1>7, <1>8
  DEF Next, HandleLogin, Network, OnResolve, OnConnect, OnWrite, Respond, Chain

(* ChainInv is an invariant.                                                 *)
LEMMA ChainInvariant == Spec => []ChainInv
<1>1. Init => ChainInv
  BY DEF Init, ChainInv
<1> QED
  BY <1>1, ChainInvStep, LoginTypeCorrect, PTL DEF Spec

(* A lost connection stays lost.                                             *)
LEMMA LostStays ==
  ASSUME TypeOK, [Next]_vars, NEW s, Lost(s)
  PROVE  Lost(s)'
<1>1. UNCHANGED socketVars => Lost(s)'
  BY DEF Lost, socketVars
<1>2. ASSUME NEW r \in Sessions, CloseSession(r) \/ ResetConnection(r)
      PROVE  Lost(s)'
  BY <1>2 DEF CloseSession, ResetConnection, Lost
<1>3. ASSUME NEW l \in Logins, HandleLogin(l) \/ Network(l) \/ OnRead(l) \/ Respond(l)
      PROVE  UNCHANGED socketVars
  BY <1>3 DEF HandleLogin, StartLogin, RefuseLogin, ThrowLogin, CrashLogin, Network,
     OnResolve, OnConnect, OnWrite, Handler, DeliverRequest, OnRead, Respond, FindConnected,
     SendLoginSuccess, SendLoginFailure
<1> QED
  BY <1>1, <1>2, <1>3 DEF Next, vars

(* A login that is over and has no response anywhere has lost its client.    *)
ForgottenInv ==
  \A l \in Logins :
    chain[l] = "over" /\ posted[l] = <<>> /\ passed[l] = <<>> /\ answers[l] = <<>>
      => Lost(SessionOf[l])

(* Every step keeps ForgottenInv.                                            *)
LEMMA ForgottenStep ==
  ASSUME TypeOK, ForgottenInv, [Next]_vars
  PROVE  ForgottenInv'
<1> SUFFICES ASSUME NEW l \in Logins,
                    chain'[l] = "over", posted'[l] = <<>>, passed'[l] = <<>>,
                    answers'[l] = <<>>
             PROVE  Lost(SessionOf[l])'
  BY DEF ForgottenInv
<1>0. /\ posted \in [Logins -> Seq(Responses)] /\ passed \in [Logins -> Seq(Responses)]
      /\ answers \in [Logins -> Seq(Responses)]
  BY DEF TypeOK
<1>1. ASSUME chain'[l] = chain[l], posted'[l] = posted[l], passed'[l] = passed[l],
             answers'[l] = answers[l]
      PROVE  Lost(SessionOf[l])'
  BY <1>1, LostStays DEF ForgottenInv
<1>2. ASSUME NEW k \in Logins, StartLogin(k) \/ ThrowLogin(k) \/ CrashLogin(k)
      PROVE  Lost(SessionOf[l])'
  BY <1>1, <1>2 DEF StartLogin, ThrowLogin, CrashLogin, TypeOK
<1>3. ASSUME NEW k \in Logins, NEW at, NEW next \in Chain \ {"over"}, Handler(k, at, next)
      PROVE  Lost(SessionOf[l])'
  <2>1. CASE chain' = [chain EXCEPT ![k] = next] /\ UNCHANGED posted
    BY <1>1, <1>3, <2>1 DEF Handler, TypeOK
  <2>2. CASE chain' = [chain EXCEPT ![k] = "over"] /\ CallBack(k, "failure")
    <3>1. posted'[k] # <<>> /\ \A i \in Logins : i # k => posted'[i] = posted[i]
      BY <1>0, <2>2, Pushed DEF CallBack, Responses
    <3> QED
      BY <1>1, <1>3, <2>2, <3>1 DEF Handler, TypeOK
  <2> QED
    BY <1>3, <2>1, <2>2 DEF Handler
<1>4. ASSUME NEW k \in Logins, OnRead(k)
      PROVE  Lost(SessionOf[l])'
  <2>1. posted'[k] # <<>> /\ \A i \in Logins : i # k => posted'[i] = posted[i]
    BY <1>4, Pushed DEF OnRead, CallBack, TypeOK, Responses
  <2> QED
    BY <1>1, <1>4, <2>1 DEF OnRead, TypeOK
<1>5. ASSUME NEW k \in Logins, FindConnected(k)
      PROVE  Lost(SessionOf[l])'
  <2>1. /\ Head(posted[k]) \in Responses
        /\ \A i \in Logins : i # k => posted'[i] = posted[i]
    BY <1>5, Popped DEF FindConnected, TypeOK
  <2>2. CASE SessionOf[k] \in open
    <3>1. passed' = [passed EXCEPT ![k] = Append(passed[k], Head(posted[k]))]
      BY <1>5, <2>2 DEF FindConnected
    <3>2. passed'[k] # <<>> /\ \A i \in Logins : i # k => passed'[i] = passed[i]
      BY <1>0, <2>1, <3>1, Pushed
    <3> QED
      BY <1>1, <1>5, <2>1, <3>2 DEF FindConnected
  <2>3. CASE SessionOf[k] \notin open
    <3>1. Lost(SessionOf[k])
      BY <2>3 DEF Lost
    <3> QED
      BY <1>1, <1>5, <2>1, <2>3, <3>1, LostStays DEF FindConnected
  <2> QED
    BY <2>2, <2>3
<1>6. ASSUME NEW k \in Logins, SendLoginSuccess(k) \/ SendLoginFailure(k)
      PROVE  Lost(SessionOf[l])'
  <2>1. \A i \in Logins : i # k => passed'[i] = passed[i]
    BY <1>6, Popped DEF SendLoginSuccess, SendLoginFailure, TypeOK
  <2>2. UNCHANGED <<posted, chain>>
    BY <1>6 DEF SendLoginSuccess, SendLoginFailure
  <2>3. ASSUME NEW x \in Responses,
               answers' = [answers EXCEPT ![k] = Append(answers[k], x)]
        PROVE  Lost(SessionOf[l])'
    <3>1. answers \in [Logins -> Seq(Responses)]
      BY <1>0
    <3>2. answers'[k] # <<>>
      BY <2>3, <3>1, Pushed
    <3>3. \A i \in Logins : i # k => answers'[i] = answers[i]
      BY <2>3, <3>1, Pushed
    <3> QED
      BY <1>1, <2>1, <2>2, <3>2, <3>3
  <2>4. CASE Lost(SessionOf[k]) /\ UNCHANGED answers
    BY <1>1, <2>1, <2>2, <2>4, LostStays
  <2> QED
    BY <1>6, <2>3, <2>4 DEF SendLoginSuccess, SendLoginFailure, Responses
<1>7. ASSUME NEW k \in Logins, RefuseLogin(k)
      PROVE  Lost(SessionOf[l])'
  <2>0. answers \in [Logins -> Seq(Responses)]
    BY <1>0
  <2>1. PICK x \in Responses : answers' = [answers EXCEPT ![k] = Append(answers[k], x)]
    BY <1>7 DEF RefuseLogin, Responses
  <2>2. answers'[k] # <<>>
    BY <2>0, <2>1, Pushed
  <2>3. \A i \in Logins : i # k => answers'[i] = answers[i]
    BY <2>0, <2>1, Pushed
  <2> QED
    BY <1>1, <1>7, <2>2, <2>3 DEF RefuseLogin, TypeOK
<1>8. CASE \/ AuthNext /\ UNCHANGED <<socketVars, loginVars>>
           \/ \E s \in Sessions : CloseSession(s) \/ ResetConnection(s)
           \/ \E k \in Logins : DeliverRequest(k)
           \/ UNCHANGED vars
  BY <1>1, <1>8 DEF CloseSession, ResetConnection, DeliverRequest, vars, loginVars
<1> QED
  BY <1>2, <1>3, <1>4, <1>5, <1>6, <1>7, <1>8
  DEF Next, HandleLogin, Network, OnResolve, OnConnect, OnWrite, Respond, Chain

(* A login whose request was started is called back and answered once,       *)
(* whichever of its handlers fails, and remains without an answer only if    *)
(* its connection is lost.                                                   *)
THEOREM OneAnswer == Spec => []AnsweredOnce
<1>1. Init => ForgottenInv
  BY DEF Init, ForgottenInv
<1>2. ChainInv /\ ForgottenInv => AnsweredOnce
  BY DEF ChainInv, ForgottenInv, AnsweredOnce
<1>3. TypeOK /\ ForgottenInv /\ [Next]_vars => ForgottenInv'
  BY ForgottenStep
<1> QED
  BY <1>1, <1>2, <1>3, ChainInvariant, LoginTypeCorrect, PTL DEF Spec

-----------------------------------------------------------------------------
(* Whose character a session plays.                                          *)

(* The auth server has compared the owner with the user of the ticket.       *)
Verified(l) ==
  /\ request[l].ticket \in Tickets
  /\ request[l].character \in Characters
  /\ owner[request[l].character] \in UserIds
  /\ ticketUser[request[l].ticket] = owner[request[l].character]

(* Tickets are issued to users, and a login that is told "ok" is verified.   *)
RequestInv ==
  /\ \A r \in Requests : request[r].at = "issue" => request[r].user \in UserIds
  /\ \A k \in tickets : ticketUser[k] \in UserIds
  /\ \A l \in Logins :
       /\ request[l].op \in {"none", "verify"}
       /\ request[l].at \in {"idle", "ticket", "player", "ok", "refused", "failed"}
       /\ chain[l] = "idle" => request[l] = Idle
       /\ request[l].at = "player" =>
            /\ request[l].ticket \in Tickets
            /\ request[l].user \in UserIds
            /\ ticketUser[request[l].ticket] = request[l].user
       /\ request[l].at = "ok" => Verified(l)

(* A response of success, and a player id, come from a verified login.       *)
PlayInv ==
  /\ \A l \in Logins :
       /\ posted[l] # <<>> /\ Head(posted[l]) = "success" => Verified(l)
       /\ passed[l] # <<>> /\ Head(passed[l]) = "success" => Verified(l)
  /\ \A s \in Sessions :
       playerId[s] # NoCharacter =>
         \E l \in Logins : /\ SessionOf[l] = s
                           /\ request[l].character = playerId[s]
                           /\ Verified(l)

(* Whom a ticket or a character belongs to never changes.                    *)
LEMMA OwnersStay ==
  ASSUME TypeOK, [Next]_vars
  PROVE  /\ \A k \in Tickets : ticketUser[k] # NoUser => ticketUser'[k] = ticketUser[k]
         /\ \A c \in Characters : owner[c] # NoUser => owner'[c] = owner[c]
<1>0. ASSUME UNCHANGED <<ticketUser, owner>>
      PROVE  /\ \A k \in Tickets : ticketUser[k] # NoUser => ticketUser'[k] = ticketUser[k]
             /\ \A c \in Characters : owner[c] # NoUser => owner'[c] = owner[c]
  BY <1>0
<1>1. ASSUME NEW r \in Requests, IssueTicket(r)
      PROVE  /\ \A k \in Tickets : ticketUser[k] # NoUser => ticketUser'[k] = ticketUser[k]
             /\ \A c \in Characters : owner[c] # NoUser => owner'[c] = owner[c]
  BY <1>1 DEF IssueTicket, TypeOK, AuthTypeOK, characterVars
<1>2. ASSUME NEW r \in Requests, CreatePlayer(r)
      PROVE  /\ \A k \in Tickets : ticketUser[k] # NoUser => ticketUser'[k] = ticketUser[k]
             /\ \A c \in Characters : owner[c] # NoUser => owner'[c] = owner[c]
  BY <1>2 DEF CreatePlayer, TypeOK, AuthTypeOK, characterVars, ticketVars
<1>3. ASSUME NEW r \in Requests, Serve(r), ~IssueTicket(r), ~CreatePlayer(r)
      PROVE  UNCHANGED <<ticketUser, owner>>
  BY <1>3 DEF Serve, ServeClient, Verify, CreateUser, FindTicket, FindPlayer, IsPlayerNameExists,
     CountCharacters, CheckPassword, DeletePlayers, DeleteUserRow, DeleteTicket,
     AccessFails, characterVars, ticketVars
<1>4. ASSUME NEW r \in WebRequests, Arrive(r)
      PROVE  UNCHANGED <<ticketUser, owner>>
  BY <1>4 DEF Arrive, Register, Login, CreateCharacter, DeleteUser, Begin,
     characterVars, ticketVars
<1>5. ASSUME NEW k \in Tickets, Logout(k)
      PROVE  UNCHANGED <<ticketUser, owner>>
  BY <1>5 DEF Logout, characterVars
<1>6. ASSUME NEW l \in Logins, HandleLogin(l) \/ Network(l) \/ OnRead(l) \/ Respond(l)
      PROVE  UNCHANGED <<ticketUser, owner>>
  BY <1>6 DEF HandleLogin, StartLogin, RefuseLogin, ThrowLogin, CrashLogin, Network,
     OnResolve, OnConnect, OnWrite, Handler, DeliverRequest, OnRead, Respond, FindConnected,
     SendLoginSuccess, SendLoginFailure, authVars, characterVars, ticketVars
<1>7. ASSUME \/ \E s \in Sessions : CloseSession(s) \/ ResetConnection(s)
             \/ UNCHANGED vars
      PROVE  UNCHANGED <<ticketUser, owner>>
  BY <1>7 DEF CloseSession, ResetConnection, vars, authVars, characterVars, ticketVars
<1> QED
  BY <1>0, <1>1, <1>2, <1>3, <1>4, <1>5, <1>6, <1>7, NextCases DEF Next

(* What the auth server does to the request of a login.                      *)
LEMMA LoginServed ==
  ASSUME TypeOK, RequestInv, AuthNext, NEW l \in Logins
  PROVE  \/ request'[l] = request[l]
         \/ /\ request'[l].op = request[l].op
            /\ request'[l].ticket = request[l].ticket
            /\ request'[l].character = request[l].character
            /\ request[l] # Idle
            /\ FindTicket(l) \/ FindPlayer(l) \/ AccessFails(l)
<1>0. l \in Requests /\ l \notin WebRequests
  BY LoginsAreRequests
<1>1. ASSUME NEW r \in WebRequests, Arrive(r)
      PROVE  request'[l] = request[l]
  BY <1>0, <1>1 DEF Arrive, Register, Login, CreateCharacter, DeleteUser, Begin,
     TypeOK, AuthTypeOK
<1>2. ASSUME NEW r \in Requests, r # l, Serve(r)
      PROVE  request'[l] = request[l]
  BY <1>0, <1>2, OpStays DEF TypeOK
<1>3. ASSUME NEW k \in Tickets, Logout(k)
      PROVE  request'[l] = request[l]
  BY <1>3 DEF Logout
<1>4. ASSUME Serve(l)
      PROVE  FindTicket(l) \/ FindPlayer(l) \/ AccessFails(l)
  BY <1>4 DEF Serve, ServeClient, Verify, CreateUser, IssueTicket, IsPlayerNameExists, CountCharacters,
     CreatePlayer, CheckPassword, DeletePlayers, DeleteUserRow, DeleteTicket, IsAt,
     RequestInv
<1>5. ASSUME NEW at, NEW u, MoveTo(l, at, u)
      PROVE  /\ request'[l].op = request[l].op
             /\ request'[l].ticket = request[l].ticket
             /\ request'[l].character = request[l].character
  BY <1>0, <1>5 DEF MoveTo, TypeOK, AuthTypeOK
<1>6. ASSUME FindTicket(l) \/ FindPlayer(l) \/ AccessFails(l)
      PROVE  /\ \E at, u : MoveTo(l, at, u)
             /\ request[l] # Idle
  <2>1. ASSUME NEW result, Answer(l, result)
        PROVE  MoveTo(l, result, request[l].user)
    BY <1>0, <2>1 DEF Answer, GoOn
  <2>2. \E at, u : MoveTo(l, at, u)
    BY <1>6, <2>1, Zenon DEF FindTicket, FindPlayer, AccessFails
  <2>3. request[l].at # "idle"
    BY <1>6 DEF FindTicket, FindPlayer, AccessFails, IsAt, Steps
  <2> QED
    BY <2>2, <2>3 DEF Idle
<1> QED
  BY <1>1, <1>2, <1>3, <1>4, <1>5, <1>6, NextCases

(* A verified login stays so.                                                *)
LEMMA VerifiedStays ==
  ASSUME TypeOK, RequestInv, [Next]_vars, NEW l \in Logins, Verified(l)
  PROVE  Verified(l)' /\ request'[l].character = request[l].character
<1>1. request[l] # Idle
  BY AuthAssumption DEF Verified, Idle
<1>2. chain[l] # "idle"
  BY <1>1 DEF RequestInv
<1>3. /\ request'[l].ticket = request[l].ticket
      /\ request'[l].character = request[l].character
  <2>1. CASE AuthNext
    BY <2>1, LoginServed
  <2>2. ASSUME NEW k \in Logins, StartLogin(k)
        PROVE  request'[l] = request[l]
    BY <1>2, <2>2, LoginsAreRequests DEF StartLogin, TypeOK, AuthTypeOK
  <2>3. ASSUME NEW k \in Logins, DeliverRequest(k)
        PROVE  /\ request'[l].ticket = request[l].ticket
               /\ request'[l].character = request[l].character
    BY <2>3, LoginsAreRequests DEF DeliverRequest, GoOn, MoveTo, TypeOK, AuthTypeOK
  <2>4. ASSUME NEW k \in Logins,
               \/ RefuseLogin(k) \/ ThrowLogin(k) \/ CrashLogin(k)
               \/ OnResolve(k) \/ OnConnect(k) \/ OnWrite(k) \/ OnRead(k) \/ Respond(k)
        PROVE  UNCHANGED request
    BY <2>4 DEF RefuseLogin, ThrowLogin, CrashLogin, OnResolve, OnConnect, OnWrite, Handler, OnRead, Respond, FindConnected,
       SendLoginSuccess, SendLoginFailure, authVars
  <2>5. ASSUME \/ \E s \in Sessions : CloseSession(s) \/ ResetConnection(s)
               \/ UNCHANGED vars
        PROVE  UNCHANGED request
    BY <2>5 DEF CloseSession, ResetConnection, vars, authVars
  <2> QED
    BY <2>1, <2>2, <2>3, <2>4, <2>5 DEF Next, HandleLogin, Network
<1> QED
  BY <1>3, OwnersStay, AuthAssumption DEF Verified

(* The users of requests at "issue", and of tickets, exist.                  *)
LEMMA IssuedToUsers ==
  ASSUME TypeOK, RequestInv, AuthNext
  PROVE  /\ \A r \in Requests : request'[r].at = "issue" => request'[r].user \in UserIds
         /\ \A k \in tickets' : ticketUser'[k] \in UserIds
<1>0. /\ \A r \in Requests : request[r].at = "issue" => request[r].user \in UserIds
      /\ \A k \in tickets : ticketUser[k] \in UserIds
  BY DEF RequestInv
<1>1. ASSUME NEW r \in WebRequests, Arrive(r)
      PROVE  /\ \A q \in Requests : request'[q].at = "issue" => request'[q].user \in UserIds
             /\ UNCHANGED ticketVars
  <2>1. ASSUME NEW op, NEW at, NEW u, NEW k, NEW n, Begin(r, op, at, u, k, n),
               at = "issue" => u \in UserIds
        PROVE  /\ \A q \in Requests :
                    request'[q].at = "issue" => request'[q].user \in UserIds
               /\ UNCHANGED ticketVars
    BY <1>0, <2>1 DEF Begin, Requests, TypeOK, AuthTypeOK
  <2>2. "insert user" # "issue" /\ "name" # "issue" /\ "password" # "issue"
    OBVIOUS
  <2> QED
    BY <1>1, <2>1, <2>2, Zenon DEF Arrive, Register, Login, CreateCharacter, DeleteUser
<1>2. ASSUME NEW r \in Requests, Serve(r)
      PROVE  \A q \in Requests : request'[q].at = "issue" => request'[q].user \in UserIds
  <2>1. \A q \in Requests : q # r => request'[q] = request[q]
    BY <1>2, OpStays DEF TypeOK
  <2>2. request'[r].at = "issue" => request'[r].user \in UserIds
    <3>1. ASSUME NEW at, NEW u, MoveTo(r, at, u), at # "issue"
          PROVE  request'[r].at # "issue"
      BY <3>1 DEF MoveTo, TypeOK, AuthTypeOK
    <3>2. ASSUME NEW at, GoOn(r, at), at # "issue"
          PROVE  request'[r].at # "issue"
      BY <3>1, <3>2 DEF GoOn
    <3>3. ASSUME NEW result \in Results, Answer(r, result)
          PROVE  request'[r].at # "issue"
      <4>1. result # "issue"
        BY DEF Results
      <4>2. CASE r \in WebRequests
        BY <3>3, <4>2 DEF Answer, Idle, TypeOK, AuthTypeOK
      <4>3. CASE r \notin WebRequests
        BY <3>2, <3>3, <4>1, <4>3 DEF Answer
      <4> QED
        BY <4>2, <4>3
    <3>4. CASE CreateUser(r)
      <4>1. CASE Registered(request[r].text) # {}
        BY <3>3, <3>4, <4>1 DEF CreateUser, Results
      <4>2. CASE Registered(request[r].text) = {}
        <5>1. PICK u \in newUsers : MoveTo(r, "issue", u)
          BY <3>4, <4>2 DEF CreateUser
        <5>2. u \in UserIds
          BY DEF TypeOK, AuthTypeOK
        <5>3. request'[r].user = u
          BY <5>1 DEF MoveTo, TypeOK, AuthTypeOK
        <5> QED
          BY <5>2, <5>3
      <4> QED
        BY <4>1, <4>2
    <3>5. CASE IssueTicket(r) \/ FindPlayer(r) \/ CreatePlayer(r) \/ DeleteTicket(r)
               \/ AccessFails(r)
      BY <3>3, <3>5
      DEF IssueTicket, FindPlayer, CreatePlayer, DeleteTicket, AccessFails, Results
    <3>6. CASE FindTicket(r)
      <4>1. "player" # "issue"
        OBVIOUS
      <4>2. CASE request[r].ticket \in tickets
        BY <3>1, <3>6, <4>1, <4>2 DEF FindTicket
      <4>3. CASE request[r].ticket \notin tickets
        BY <3>3, <3>6, <4>3 DEF FindTicket, Results
      <4> QED
        BY <4>2, <4>3
    <3>7. CASE IsPlayerNameExists(r) \/ CheckPassword(r) \/ DeletePlayers(r)
               \/ DeleteUserRow(r) \/ CountCharacters(r)
      BY <3>2, <3>3, <3>7 DEF IsPlayerNameExists, CheckPassword, DeletePlayers,
         DeleteUserRow, CountCharacters, Results
    <3> QED
      BY <1>2, <3>4, <3>5, <3>6, <3>7 DEF Serve, ServeClient, Verify
  <2> QED
    BY <1>0, <2>1, <2>2
<1>3. ASSUME NEW r \in Requests, Serve(r)
      PROVE  \A k \in tickets' : ticketUser'[k] \in UserIds
  <2>1. CASE IssueTicket(r)
    <3>1. request[r].user \in UserIds
      BY <1>0, <2>1 DEF IssueTicket
    <3>2. PICK k \in Tickets :
            /\ ticketUser' = [ticketUser EXCEPT ![k] = request[r].user]
            /\ tickets' = tickets \cup {k}
      BY <2>1 DEF IssueTicket
    <3> QED
      BY <1>0, <3>1, <3>2 DEF TypeOK, AuthTypeOK
  <2>2. CASE ~IssueTicket(r)
    <3>1. tickets' \subseteq tickets /\ ticketUser' = ticketUser
      BY <1>3, <2>2 DEF Serve, ServeClient, Verify, CreateUser, FindTicket, FindPlayer, IsPlayerNameExists,
         CountCharacters, CreatePlayer, CheckPassword, DeletePlayers, DeleteUserRow,
         DeleteTicket, AccessFails, ticketVars
    <3> QED
      BY <1>0, <3>1
  <2> QED
    BY <2>1, <2>2
<1>4. ASSUME NEW k \in Tickets, Logout(k)
      PROVE  /\ \A r \in Requests : request'[r].at = "issue" => request'[r].user \in UserIds
             /\ \A j \in tickets' : ticketUser'[j] \in UserIds
  BY <1>0, <1>4 DEF Logout
<1> QED
  BY <1>0, <1>1, <1>2, <1>3, <1>4, NextCases DEF ticketVars

(* What RequestInv says of one login.                                        *)
LoginInv(l) ==
  /\ request[l].op \in {"none", "verify"}
  /\ request[l].at \in {"idle", "ticket", "player", "ok", "refused", "failed"}
  /\ chain[l] = "idle" => request[l] = Idle
  /\ request[l].at = "player" =>
       /\ request[l].ticket \in Tickets
       /\ request[l].user \in UserIds
       /\ ticketUser[request[l].ticket] = request[l].user
  /\ request[l].at = "ok" => Verified(l)

(* It holds of a login whose request a step leaves alone.                    *)
LEMMA LoginInvKept ==
  ASSUME TypeOK, RequestInv, [Next]_vars, NEW l \in Logins, request'[l] = request[l],
         chain'[l] = "idle" => chain[l] = "idle"
  PROVE  LoginInv(l)'
<1>1. request[l].at = "player" =>
        /\ request[l].ticket \in Tickets
        /\ request[l].user \in UserIds
        /\ ticketUser'[request[l].ticket] = request[l].user
  BY OwnersStay, AuthAssumption DEF RequestInv
<1>2. request[l].at = "ok" => Verified(l)'
  BY VerifiedStays DEF RequestInv
<1> QED
  BY <1>1, <1>2 DEF RequestInv, LoginInv

(* The auth server keeps it.                                                 *)
LEMMA LoginInvServed ==
  ASSUME TypeOK, RequestInv, AuthNext, UNCHANGED <<socketVars, loginVars>>,
         NEW l \in Logins
  PROVE  LoginInv(l)'
<1>0. [Next]_vars /\ l \in Requests /\ l \notin WebRequests /\ UNCHANGED chain
  BY LoginsAreRequests DEF Next, loginVars
<1>1. CASE request'[l] = request[l]
  BY <1>0, <1>1, LoginInvKept
<1>2. CASE /\ request'[l].op = request[l].op
           /\ request'[l].ticket = request[l].ticket
           /\ request'[l].character = request[l].character
           /\ request[l] # Idle
           /\ FindTicket(l) \/ FindPlayer(l) \/ AccessFails(l)
  <2>1. chain[l] # "idle" /\ request[l].op \in {"none", "verify"}
    BY <1>2 DEF RequestInv
  <2>2. ASSUME NEW at, NEW u, MoveTo(l, at, u)
        PROVE  request'[l].at = at /\ request'[l].user = u
    BY <1>0, <2>2 DEF MoveTo, TypeOK, AuthTypeOK
  <2>3. ASSUME NEW result, Answer(l, result)
        PROVE  request'[l].at = result
    BY <1>0, <2>2, <2>3 DEF Answer, GoOn
  <2>4. CASE FindTicket(l)
    <3>1. CASE request[l].ticket \in tickets
      <4>1. /\ request'[l].at = "player"
            /\ request'[l].user = ticketUser[request[l].ticket]
        BY <2>2, <2>4, <3>1 DEF FindTicket
      <4>2. /\ request[l].ticket \in Tickets
            /\ ticketUser[request[l].ticket] \in UserIds
            /\ UNCHANGED ticketUser
        BY <2>4, <3>1 DEF FindTicket, ticketVars, RequestInv, TypeOK, AuthTypeOK
      <4> QED
        BY <1>0, <1>2, <2>1, <4>1, <4>2 DEF LoginInv
    <3>2. CASE request[l].ticket \notin tickets
      <4>1. request'[l].at = "refused"
        BY <2>3, <2>4, <3>2 DEF FindTicket
      <4> QED
        BY <1>0, <1>2, <2>1, <4>1 DEF LoginInv
    <3> QED
      BY <3>1, <3>2
  <2>5. CASE FindPlayer(l)
    <3>0. UNCHANGED <<ticketUser, owner, characters>>
      BY <2>5 DEF FindPlayer, ticketVars, characterVars
    <3>1. CASE /\ request[l].character \in characters
               /\ owner[request[l].character] = request[l].user
      <4>1. request'[l].at = "ok"
        BY <2>3, <2>5, <3>1 DEF FindPlayer
      <4>2. /\ request[l].ticket \in Tickets
            /\ request[l].user \in UserIds
            /\ ticketUser[request[l].ticket] = request[l].user
        BY <2>5 DEF FindPlayer, IsAt, RequestInv
      <4>3. Verified(l)'
        BY <1>2, <3>0, <3>1, <4>2 DEF Verified, TypeOK, AuthTypeOK
      <4> QED
        BY <1>0, <1>2, <2>1, <4>1, <4>3 DEF LoginInv
    <3>2. CASE ~(/\ request[l].character \in characters
                 /\ owner[request[l].character] = request[l].user)
      <4>1. request'[l].at = "refused"
        BY <2>3, <2>5, <3>2 DEF FindPlayer
      <4> QED
        BY <1>0, <1>2, <2>1, <4>1 DEF LoginInv
    <3> QED
      BY <3>1, <3>2
  <2>6. CASE AccessFails(l)
    <3>1. request'[l].at = "failed"
      BY <2>3, <2>6 DEF AccessFails
    <3> QED
      BY <1>0, <1>2, <2>1, <3>1 DEF LoginInv
  <2> QED
    BY <1>2, <2>4, <2>5, <2>6
<1> QED
  BY <1>1, <1>2, LoginServed

(* Every step keeps RequestInv.                                              *)
LEMMA RequestInvStep ==
  ASSUME TypeOK, RequestInv, [Next]_vars
  PROVE  RequestInv'
<1>0. ASSUME /\ \A r \in Requests :
                  request'[r].at = "issue" => request'[r].user \in UserIds
             /\ \A k \in tickets' : ticketUser'[k] \in UserIds
             /\ \A l \in Logins : LoginInv(l)'
      PROVE  RequestInv'
  BY <1>0 DEF RequestInv, LoginInv
<1>1. CASE AuthNext /\ UNCHANGED <<socketVars, loginVars>>
  BY <1>0, <1>1, IssuedToUsers, LoginInvServed
<1>2. ASSUME UNCHANGED <<request, tickets, ticketUser>>,
             \A l \in Logins : chain'[l] = "idle" => chain[l] = "idle"
      PROVE  RequestInv'
  BY <1>0, <1>2, LoginInvKept DEF RequestInv
<1>3. ASSUME NEW l \in Logins, StartLogin(l)
      PROVE  RequestInv'
  <2>1. PICK k \in Presentable, c \in Characters :
          request' = [request EXCEPT ![l] =
                        [op |-> "verify", at |-> "idle", user |-> NoUser, ticket |-> k,
                         text |-> NoName, character |-> c]]
    BY <1>3 DEF StartLogin
  <2>2. request'[l].at = "idle" /\ request'[l].op = "verify" /\ chain'[l] = "resolving"
    BY <1>3, <2>1, LoginsAreRequests DEF StartLogin, TypeOK, AuthTypeOK
  <2>3. /\ \A r \in Requests : r # l => request'[r] = request[r]
        /\ \A j \in Logins : j # l => chain'[j] = chain[j]
        /\ UNCHANGED <<tickets, ticketUser>>
    BY <1>3, <2>1 DEF StartLogin, TypeOK, AuthTypeOK, ticketVars
  <2>4. LoginInv(l)'
    BY <2>2 DEF LoginInv
  <2>5. \A j \in Logins : j # l => LoginInv(j)'
    BY <2>3, LoginInvKept, LoginsAreRequests
  <2> QED
    BY <1>0, <2>2, <2>3, <2>4, <2>5 DEF RequestInv
<1>4. ASSUME NEW l \in Logins, DeliverRequest(l)
      PROVE  RequestInv'
  <2>1. MoveTo(l, "ticket", request[l].user) /\ request[l].op = "verify"
        /\ chain[l] # "idle"
    BY <1>4 DEF DeliverRequest, GoOn, IsAt
  <2>2. request'[l].at = "ticket" /\ request'[l].op = "verify"
    BY <2>1, LoginsAreRequests DEF MoveTo, TypeOK, AuthTypeOK
  <2>3. /\ \A r \in Requests : r # l => request'[r] = request[r]
        /\ UNCHANGED <<tickets, ticketUser, chain>>
    BY <1>4, <2>1 DEF DeliverRequest, MoveTo, TypeOK, AuthTypeOK, ticketVars, loginVars
  <2>4. LoginInv(l)'
    BY <2>1, <2>2, <2>3 DEF LoginInv
  <2>5. \A j \in Logins : j # l => LoginInv(j)'
    BY <2>3, LoginInvKept, LoginsAreRequests
  <2> QED
    BY <1>0, <2>2, <2>3, <2>4, <2>5 DEF RequestInv
<1>5. ASSUME NEW l \in Logins, NEW at, NEW next \in Chain \ {"idle"},
             Handler(l, at, next)
      PROVE  RequestInv'
  BY <1>2, <1>5 DEF Handler, authVars, ticketVars, TypeOK
<1>6. ASSUME NEW l \in Logins, OnRead(l) \/ Respond(l)
      PROVE  RequestInv'
  BY <1>2, <1>6 DEF OnRead, Respond, FindConnected, SendLoginSuccess, SendLoginFailure,
     authVars, ticketVars, TypeOK
<1>7. ASSUME NEW l \in Logins, RefuseLogin(l) \/ ThrowLogin(l) \/ CrashLogin(l)
      PROVE  RequestInv'
  BY <1>2, <1>7 DEF RefuseLogin, ThrowLogin, CrashLogin, authVars, ticketVars, TypeOK
<1>8. CASE \/ \E s \in Sessions : CloseSession(s) \/ ResetConnection(s)
           \/ UNCHANGED vars
  BY <1>2, <1>8 DEF CloseSession, ResetConnection, vars, authVars, ticketVars, loginVars
<1> QED
  BY <1>1, <1>3, <1>4, <1>5, <1>6, <1>7, <1>8
  DEF Next, HandleLogin, Network, OnResolve, OnConnect, OnWrite, Chain

(* A queue that holds at most one response.                                  *)
LEMMA OneResponse ==
  ASSUME TypeOK, ChainInv, NEW l \in Logins
  PROVE  /\ posted[l] # <<>> => passed[l] = <<>>
         /\ chain[l] # "over" => posted[l] = <<>>
<1>1. /\ Len(posted[l]) + Len(passed[l]) + Len(answers[l]) <= 1
      /\ Len(posted[l]) \in Nat /\ Len(passed[l]) \in Nat /\ Len(answers[l]) \in Nat
      /\ posted[l] # <<>> => Len(posted[l]) > 0
      /\ passed[l] # <<>> => Len(passed[l]) > 0
  BY Lengths DEF ChainInv
<1> DEFINE a == Len(posted[l])  b == Len(passed[l])  c == Len(answers[l])
<1>2. a \in Nat /\ b \in Nat /\ c \in Nat /\ a + b + c <= 1
  BY <1>1
<1> HIDE DEF a, b, c
<1>3. ~(a > 0 /\ b > 0)
  BY <1>2
<1> QED
  BY <1>1, <1>3 DEF a, b, ChainInv

(* A queue of at most one response is empty once it is taken.                *)
LEMMA TakenEmpty ==
  ASSUME NEW q \in Seq(Responses), q # <<>>, Len(q) <= 1
  PROVE  Tail(q) = <<>>
<1>1. /\ Len(q) \in Nat /\ Len(q) > 0 /\ Tail(q) \in Seq(Responses)
      /\ Len(Tail(q)) = Len(q) - 1
  OBVIOUS
<1> DEFINE n == Len(q)
<1>2. n \in Nat /\ n > 0 /\ n <= 1 /\ Len(Tail(q)) = n - 1
  BY <1>1
<1> HIDE DEF n
<1>3. n - 1 = 0
  BY <1>2
<1>4. Len(Tail(q)) = 0
  BY <1>2, <1>3
<1> QED
  BY <1>1, <1>4

(* Every step keeps PlayInv.                                                 *)
LEMMA PlayInvStep ==
  ASSUME TypeOK, ChainInv, RequestInv, PlayInv, [Next]_vars
  PROVE  PlayInv'
<1>0. ASSUME NEW l \in Logins, Verified(l)
      PROVE  Verified(l)' /\ request'[l].character = request[l].character
  BY <1>0, VerifiedStays
<1>1. ASSUME UNCHANGED playerId
      PROVE  \A s \in Sessions :
               playerId'[s] # NoCharacter =>
                 \E l \in Logins : /\ SessionOf[l] = s
                                   /\ request'[l].character = playerId'[s]
                                   /\ Verified(l)'
  BY <1>0, <1>1 DEF PlayInv
<1>2. ASSUME UNCHANGED <<posted, passed, playerId>>
      PROVE  PlayInv'
  BY <1>0, <1>1, <1>2 DEF PlayInv
<1>3. ASSUME NEW l \in Logins, chain[l] # "over", NEW x \in Responses, CallBack(l, x),
             x = "success" => request[l].at = "ok", UNCHANGED <<passed, playerId>>
      PROVE  PlayInv'
  <2>1. /\ posted[l] = <<>>
        /\ Head(posted'[l]) = x
        /\ \A k \in Logins : k # l => posted'[k] = posted[k]
    BY <1>3, OneResponse, Pushed DEF CallBack, TypeOK
  <2>2. x = "success" => Verified(l)
    BY <1>3 DEF RequestInv
  <2> QED
    BY <1>0, <1>1, <1>3, <2>1, <2>2 DEF PlayInv
<1>4. ASSUME NEW l \in Logins, NEW at \in Chain \ {"over"}, NEW next, Handler(l, at, next)
      PROVE  PlayInv'
  BY <1>2, <1>3, <1>4 DEF Handler, Responses
<1>5. ASSUME NEW l \in Logins, OnRead(l)
      PROVE  PlayInv'
  BY <1>3, <1>5 DEF OnRead, Responses
<1>6. ASSUME NEW l \in Logins
      PROVE  /\ posted[l] # <<>> => Tail(posted[l]) = <<>> /\ Head(posted[l]) \in Responses
             /\ passed[l] # <<>> => Tail(passed[l]) = <<>> /\ Head(passed[l]) \in Responses
  <2>1. /\ Len(posted[l]) + Len(passed[l]) + Len(answers[l]) <= 1
        /\ Len(posted[l]) \in Nat /\ Len(passed[l]) \in Nat /\ Len(answers[l]) \in Nat
    BY Lengths DEF ChainInv
  <2>2. Len(posted[l]) <= 1 /\ Len(passed[l]) <= 1
    <3>1. ASSUME NEW a \in Nat, NEW b \in Nat, NEW c \in Nat, a + b + c <= 1
          PROVE  a <= 1 /\ b <= 1
      BY <3>1
    <3> QED
      BY <2>1, <3>1
  <2>3. posted[l] \in Seq(Responses) /\ passed[l] \in Seq(Responses)
    BY DEF TypeOK
  <2>4. ASSUME NEW q \in Seq(Responses), q # <<>>
        PROVE  Head(q) \in Responses
    BY <2>4
  <2> QED
    BY <2>2, <2>3, <2>4, TakenEmpty
<1>7. ASSUME NEW l \in Logins, FindConnected(l)
      PROVE  PlayInv'
  <2>1. /\ posted'[l] = <<>>
        /\ \A k \in Logins : k # l => posted'[k] = posted[k]
    BY <1>6, <1>7 DEF FindConnected, TypeOK
  <2>2. CASE UNCHANGED passed
    BY <1>0, <1>1, <1>7, <2>1, <2>2 DEF PlayInv, FindConnected
  <2>3. CASE passed' = [passed EXCEPT ![l] = Append(passed[l], Head(posted[l]))]
    <3>1. /\ Head(passed'[l]) = Head(posted[l])
          /\ \A k \in Logins : k # l => passed'[k] = passed[k]
      BY <1>6, <1>7, <2>3, OneResponse, Pushed DEF FindConnected, TypeOK
    <3>2. Head(posted[l]) = "success" => Verified(l)
      BY <1>7 DEF FindConnected, PlayInv
    <3> QED
      BY <1>0, <1>1, <1>7, <2>1, <3>1, <3>2 DEF PlayInv, FindConnected
  <2> QED
    BY <1>7, <2>2, <2>3 DEF FindConnected
<1>8. ASSUME NEW l \in Logins, SendLoginSuccess(l) \/ SendLoginFailure(l)
      PROVE  \A k \in Logins :
               /\ posted'[k] # <<>> /\ Head(posted'[k]) = "success" => Verified(k)'
               /\ passed'[k] # <<>> /\ Head(passed'[k]) = "success" => Verified(k)'
  <2>1. /\ passed'[l] = <<>>
        /\ \A k \in Logins : k # l => passed'[k] = passed[k]
        /\ UNCHANGED posted
    BY <1>6, <1>8 DEF SendLoginSuccess, SendLoginFailure, TypeOK
  <2> QED
    BY <1>0, <2>1 DEF PlayInv
<1>9. ASSUME NEW l \in Logins, SendLoginSuccess(l)
      PROVE  PlayInv'
  <2>1. Verified(l)
    BY <1>9 DEF SendLoginSuccess, PlayInv
  <2>2. /\ playerId'[SessionOf[l]] = request[l].character
        /\ \A s \in Sessions : s # SessionOf[l] => playerId'[s] = playerId[s]
    BY <1>9, LoginsAreRequests DEF SendLoginSuccess, TypeOK
  <2>3. ASSUME NEW s \in Sessions, playerId'[s] # NoCharacter
        PROVE  \E k \in Logins : /\ SessionOf[k] = s
                                 /\ request'[k].character = playerId'[s]
                                 /\ Verified(k)'
    <3>1. CASE s = SessionOf[l]
      BY <1>0, <2>1, <2>2, <3>1
    <3>2. CASE s # SessionOf[l]
      BY <1>0, <2>2, <2>3, <3>2 DEF PlayInv
    <3> QED
      BY <3>1, <3>2
  <2> QED
    BY <1>8, <1>9, <2>3 DEF PlayInv
<1>10. ASSUME NEW l \in Logins, SendLoginFailure(l)
       PROVE  PlayInv'
  <2>1. UNCHANGED playerId
    BY <1>10 DEF SendLoginFailure
  <2> QED
    BY <1>1, <1>8, <1>10, <2>1 DEF PlayInv
<1>11. CASE \/ AuthNext /\ UNCHANGED <<socketVars, loginVars>>
            \/ \E s \in Sessions : CloseSession(s) \/ ResetConnection(s)
            \/ \E l \in Logins : HandleLogin(l) \/ DeliverRequest(l)
            \/ UNCHANGED vars
  BY <1>2, <1>11 DEF CloseSession, ResetConnection, HandleLogin, StartLogin, RefuseLogin,
     ThrowLogin, CrashLogin, DeliverRequest, vars, loginVars
<1> QED
  BY <1>4, <1>5, <1>7, <1>9, <1>10, <1>11
  DEF Next, Network, OnResolve, OnConnect, OnWrite, Respond, Chain

(* A session plays only a character of the user its ticket was issued to,    *)
(* however requests of the auth server overtake each other.                  *)
THEOREM OwnersOnly == Spec => []OnlyOwners
<1>1. Init => RequestInv /\ PlayInv
  BY AuthAssumption, LoginsAreRequests
  DEF Init, AuthInit, RequestInv, PlayInv, Idle, Logins, Requests
<1>2. TypeOK /\ PlayInv => OnlyOwners
  BY AuthAssumption DEF PlayInv, OnlyOwners, Verified
<1>3. TypeOK /\ RequestInv /\ [Next]_vars => RequestInv'
  BY RequestInvStep
<1>4. TypeOK /\ ChainInv /\ RequestInv /\ PlayInv /\ [Next]_vars => PlayInv'
  BY PlayInvStep
<1> QED
  BY <1>1, <1>2, <1>3, <1>4, LoginTypeCorrect, ChainInvariant, PTL DEF Spec
=============================================================================
