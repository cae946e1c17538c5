------------------------------- MODULE Login -------------------------------
(***************************************************************************)
(* A login from the packet to its answer: LoginPacketHandler, the HTTP     *)
(* request of the AuthService, the auth server (AuthServer) and the        *)
(* callback that the AuthService posts to the io_context.                  *)
(*                                                                         *)
(* A login is one C_Login packet.  An HttpRequestSession goes through      *)
(* resolve, connect, write and read, each of which may fail; the callback  *)
(* gets a VerifyTicketResponse in every case.  None of the steps has a     *)
(* timeout.  The failure codes of the response are not told apart.         *)
(*                                                                         *)
(* An exception that leaves a handler of the io_context ends the process:  *)
(* the threads of TcpServer::Start have no handler for it, and main leaves *)
(* its own run() for the end of the program.  One that leaves a packet     *)
(* handler is caught by the worker, which drops the packet.                *)
(***************************************************************************)
EXTENDS AuthServer, Sequences

CONSTANTS
  Sessions,
  SessionOf     \* the session a login came on

Logins == Verifications

ASSUME LoginAssumption == SessionOf \in [Logins -> Sessions]

VARIABLES
  open,       \* sessions whose socket is open
  reset,      \* connections the peer has reset: remote_endpoint throws
  chain,      \* where the HttpRequestSession of a login is; "thrown": the
              \* packet was dropped before there was one
  posted,     \* responses handed to m_callback, posted and not yet handled
  passed,     \* responses whose handler has found the session connected
  answers,    \* what was sent to the client for a login
  playerId,   \* Session::m_playerId
  up          \* whether the process runs

socketVars == <<open, reset>>
loginVars  == <<chain, posted, passed, answers, playerId, up>>
vars       == <<authVars, socketVars, loginVars>>

Chain     == {"idle", "thrown", "resolving", "connecting", "writing", "reading", "over"}
Responses == {"success", "failure"}

TypeOK ==
  /\ AuthTypeOK
  /\ open \subseteq Sessions
  /\ reset \subseteq Sessions
  /\ chain \in [Logins -> Chain]
  /\ posted \in [Logins -> Seq(Responses)]
  /\ passed \in [Logins -> Seq(Responses)]
  /\ answers \in [Logins -> Seq(Responses)]
  /\ playerId \in [Sessions -> Characters \cup {NoCharacter}]
  /\ up \in BOOLEAN

Init ==
  /\ AuthInit
  /\ open = Sessions
  /\ reset = {}
  /\ chain = [l \in Logins |-> "idle"]
  /\ posted = [l \in Logins |-> <<>>]
  /\ passed = [l \in Logins |-> <<>>]
  /\ answers = [l \in Logins |-> <<>>]
  /\ playerId = [s \in Sessions |-> NoCharacter]
  /\ up = TRUE

-----------------------------------------------------------------------------
(* The connection of the client: closed by its coroutines, or reset by the   *)
(* peer, which the coroutines notice later.                                  *)
CloseSession(s) ==
  /\ s \in open
  /\ open' = open \ {s}
  /\ reset' = reset \ {s}
  /\ UNCHANGED <<authVars, loginVars>>

ResetConnection(s) ==
  /\ s \in open \ reset
  /\ reset' = reset \cup {s}
  /\ UNCHANGED <<open, authVars, loginVars>>

(* The tickets a client may present: any that was issued, also one that has  *)
(* expired, or none that ever was.                                           *)
Presentable == {k \in Tickets : ticketUser[k] # NoUser} \cup {NoTicket}

Lost(s) == s \notin open \/ s \in reset

(* LoginPacketHandler::operator() on a worker, and HttpRequestSession::Run.  *)
StartLogin(l) ==
  /\ up
  /\ chain[l] = "idle"
  /\ ~Lost(SessionOf[l])
  /\ chain' = [chain EXCEPT ![l] = "resolving"]
  /\ \E k \in Presentable, c \in Characters :
       request' = [request EXCEPT ![l] =
                     [op |-> "verify", at |-> "idle", user |-> NoUser, ticket |-> k,
                      text |-> NoName, character |-> c]]
  /\ UNCHANGED <<userVars, characterVars, ticketVars, socketVars, posted, passed,
                 answers, playerId, up>>

(* A packet whose data is no C_Login is refused at once.                     *)
RefuseLogin(l) ==
  /\ up
  /\ chain[l] = "idle"
  /\ ~Lost(SessionOf[l])
  /\ chain' = [chain EXCEPT ![l] = "over"]
  /\ answers' = [answers EXCEPT ![l] = Append(@, "failure")]
  /\ UNCHANGED <<authVars, socketVars, posted, passed, playerId, up>>

(* The packet is dropped and nobody answers: the connection is lost, which   *)
(* makes the log lines throw, or the ticket is not UTF-8, which makes the    *)
(* dump() of Run throw, on any connection.                                   *)
ThrowLogin(l) ==
  /\ up
  /\ chain[l] = "idle"
  /\ chain' = [chain EXCEPT ![l] = "thrown"]
  /\ UNCHANGED <<authVars, socketVars, posted, passed, answers, playerId, up>>

(* A C_Login without a session_ticket, which the schema allows: the null     *)
(* pointer is dereferenced and the process ends.                             *)
CrashLogin(l) ==
  /\ up
  /\ chain[l] = "idle"
  /\ up' = FALSE
  /\ UNCHANGED <<authVars, socketVars, chain, posted, passed, answers, playerId>>

-----------------------------------------------------------------------------
(* HttpRequestSession.                                                       *)

CallBack(l, response) == posted' = [posted EXCEPT ![l] = Append(@, response)]

(* Mutant: the return after the callback of a failure is missing.            *)
HandlerGoesOn(l, at, next) ==
  /\ up
  /\ chain[l] = at
  /\ chain' = [chain EXCEPT ![l] = next]
  /\ UNCHANGED posted \/ CallBack(l, "failure")
  /\ UNCHANGED <<authVars, socketVars, passed, answers, playerId, up>>

(* OnResolve, OnConnect and OnWrite: an error is called back and ends the    *)
(* chain; otherwise the next operation is started.                           *)
Handler(l, at, next) ==
  /\ up
  /\ chain[l] = at
  /\ \/ chain' = [chain EXCEPT ![l] = next] /\ UNCHANGED posted
     \/ chain' = [chain EXCEPT ![l] = "over"] /\ CallBack(l, "failure")
  /\ UNCHANGED <<authVars, socketVars, passed, answers, playerId, up>>

OnResolve(l) == Handler(l, "resolving", "connecting")
OnConnect(l) == Handler(l, "connecting", "writing")
OnWrite(l)   == Handler(l, "writing", "reading")

(* The request reaches the auth server.                                      *)
DeliverRequest(l) ==
  /\ up
  /\ chain[l] \in {"writing", "reading"}
  /\ IsAt(l, "verify", "idle")
  /\ GoOn(l, "ticket")
  /\ UNCHANGED <<userVars, characterVars, ticketVars, socketVars, loginVars>>

(* Mutant: nothing is called back when the auth server closes the connection *)
(* without an answer.                                                        *)
OnReadSilent(l) ==
  /\ up
  /\ chain[l] = "reading"
  /\ chain' = [chain EXCEPT ![l] = "over"]
  /\ UNCHANGED posted
  /\ UNCHANGED <<authVars, socketVars, passed, answers, playerId, up>>

(* OnRead: the answer 200 with success is a success; another status, an      *)
(* error of the read, a connection closed without an answer and a body that  *)
(* is not the JSON expected are failures.                                    *)
OnRead(l) ==
  /\ up
  /\ chain[l] = "reading"
  /\ chain' = [chain EXCEPT ![l] = "over"]
  /\ \/ CallBack(l, "failure")
     \/ request[l].at = "ok" /\ CallBack(l, "success")
  /\ UNCHANGED <<authVars, socketVars, passed, answers, playerId, up>>

-----------------------------------------------------------------------------
(* The handler the callback has posted.  The session is kept alive by a      *)
(* shared pointer from here on; its socket is not.                           *)

FindConnected(l) ==
  /\ up
  /\ posted[l] # <<>>
  /\ posted' = [posted EXCEPT ![l] = Tail(@)]
  /\ passed' = IF SessionOf[l] \in open
               THEN [passed EXCEPT ![l] = Append(@, Head(posted[l]))] ELSE passed
  /\ UNCHANGED <<authVars, socketVars, chain, answers, playerId, up>>

(* SetPlayerId with the id of the answer, and S_LoginSuccess.                *)
SendLoginSuccess(l) ==
  /\ up
  /\ passed[l] # <<>>
  /\ Head(passed[l]) = "success"
  /\ passed' = [passed EXCEPT ![l] = Tail(@)]
  /\ playerId' = [playerId EXCEPT ![SessionOf[l]] = request[l].character]
  /\ answers' = [answers EXCEPT ![l] = Append(@, "success")]
  /\ UNCHANGED <<authVars, socketVars, chain, posted, up>>

(* A refused login: the log line throws when the connection is lost by now.  *)
SendLoginFailure(l) ==
  /\ up
  /\ passed[l] # <<>>
  /\ Head(passed[l]) = "failure"
  /\ passed' = [passed EXCEPT ![l] = Tail(@)]
  /\ IF Lost(SessionOf[l])
     THEN up' = FALSE /\ UNCHANGED answers
     ELSE answers' = [answers EXCEPT ![l] = Append(@, "failure")] /\ UNCHANGED up
  /\ UNCHANGED <<authVars, socketVars, chain, posted, playerId>>

-----------------------------------------------------------------------------
HandleLogin(l) == StartLogin(l) \/ RefuseLogin(l) \/ ThrowLogin(l) \/ CrashLogin(l)

Network(l) == OnResolve(l) \/ OnConnect(l) \/ OnWrite(l) \/ DeliverRequest(l)

(* OnRead runs when the auth server has answered, or the connection fails.   *)
Answered(l) == request[l].at \in Results /\ OnRead(l)

Respond(l) == FindConnected(l) \/ SendLoginSuccess(l) \/ SendLoginFailure(l)

Next ==
  \/ AuthNext /\ UNCHANGED <<socketVars, loginVars>>
  \/ \E s \in Sessions : CloseSession(s) \/ ResetConnection(s)
  \/ \E l \in Logins : HandleLogin(l) \/ Network(l) \/ OnRead(l) \/ Respond(l)

Spec == Init /\ [][Next]_vars

(* The io_context runs its handlers, and the auth server answers: neither    *)
(* side has a timeout that would do without the latter.                      *)
Fairness ==
  \A l \in Logins : /\ WF_vars(Network(l))
                    /\ WF_vars(Verify(l) /\ UNCHANGED <<socketVars, loginVars>>)
                    /\ WF_vars(Answered(l))
                    /\ WF_vars(Respond(l))

FairSpec == Spec /\ Fairness

-----------------------------------------------------------------------------
(* A session plays only a character that belongs to the user its ticket was  *)
(* issued to, whatever expires, is deleted or is created while the request   *)
(* is under way (AuthController.Verify, LoginPacketHandler::operator()).     *)
OnlyOwners ==
  \A s \in Sessions :
    playerId[s] # NoCharacter =>
      \E l \in Logins :
        /\ SessionOf[l] = s
        /\ request[l].character = playerId[s]
        /\ request[l].ticket \in Tickets
        /\ ticketUser[request[l].ticket] = owner[playerId[s]]
        /\ owner[playerId[s]] # NoUser

(* Every login whose request was started is called back once, and its client *)
(* gets one answer, on all the error paths of                                *)
(* AuthService::HttpRequestSession: never two, and none only if its          *)
(* connection is lost.                                                       *)
AnsweredOnce ==
  \A l \in Logins :
    /\ Len(posted[l]) + Len(passed[l]) + Len(answers[l]) <= 1
    /\ /\ chain[l] = "over"
       /\ posted[l] = <<>> /\ passed[l] = <<>> /\ answers[l] = <<>>
       => Lost(SessionOf[l])

(* A login is answered, unless its connection is lost, the process ends, or  *)
(* its packet was dropped: a live client is left without an answer in the    *)
(* last case only, that of a ticket Run cannot put into JSON; a request that *)
(* was started is called back on every path                                  *)
(* (LoginPacketHandler::operator(), AuthService::HttpRequestSession).        *)
LoginsAreAnswered ==
  \A l \in Logins :
    chain[l] # "idle" ~>
      answers[l] # <<>> \/ Lost(SessionOf[l]) \/ ~up \/ chain[l] = "thrown"
=============================================================================
