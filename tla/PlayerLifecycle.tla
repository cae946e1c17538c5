-------------------------- MODULE PlayerLifecycle --------------------------
(***************************************************************************)
(* The life of a player, across every thread of the game server that       *)
(* touches it:                                                             *)
(*                                                                         *)
(*   accept coroutine   TcpServer::AcceptLoop                              *)
(*   two coroutines     Session::ReadLoop and Session::WriteLoop, each of  *)
(*   per session        which ends in Session::Disconnect on an error      *)
(*   worker threads     JobProcessor::WorkerLoop                           *)
(*   login callbacks    LoginPacketHandler, posted to the io_context       *)
(*   the game thread    GameManager::GameLoop                              *)
(*                                                                         *)
(* Packets go from ReadLoop through the JobQueue to a worker; the worker   *)
(* turns them into commands of the GameLogicQueue or into a verification   *)
(* at the auth service; the game thread applies the commands in batches.   *)
(* Both queues are moodycamel::ConcurrentQueues, which keep the order of   *)
(* one producing thread only: they are modelled as a FIFO per thread.      *)
(*                                                                         *)
(* What is abstracted: positions, velocities, snapshots and their batches  *)
(* (the near players of a response are any subset of the spatial index),   *)
(* the bytes of a packet, chat, and the clock of the input rate limit.     *)
(***************************************************************************)
EXTENDS Naturals, Sequences, FiniteSets

CONSTANTS
  Sessions,         \* the connections that are ever accepted (session ids)
  Players,          \* the character ids the auth server hands out
  NoPlayer,         \* 0, the m_playerId of a session before a login
  Accounts,         \* Accounts[s]: the players the client on s logs in as
  IoThreads,        \* threads that run the io_context
  Workers,          \* threads of the JobProcessor
  PacketTypes,      \* packet kinds the clients send
  FailingLoops,     \* bound: the coroutines that may meet an error
  ResetPeers,       \* bound: the connections reset while they are accepted
  MaxPackets,       \* bound: MaxPackets[s] packets are read from s
  MaxSeq,           \* bound: sequence numbers of C_PlayerInput are 1..MaxSeq
  BatchSize,        \* m_commandBatchSize
  MaxConnections    \* MAX_CONCURRENT_CONNECTIONS

ASSUME ConstantsAssumption ==
  /\ NoPlayer \notin Players
  /\ Accounts \in [Sessions -> SUBSET Players]
  /\ IoThreads \cap Workers = {}
  /\ PacketTypes \subseteq {"login", "enter", "input", "other"}
  /\ FailingLoops \subseteq {"read", "write"}
  /\ ResetPeers \subseteq Sessions
  /\ MaxPackets \in [Sessions -> Nat]
  /\ MaxSeq \in Nat
  /\ BatchSize \in Nat \ {0}
  /\ MaxConnections \in Nat

VARIABLES
  acceptor,    \* whether AcceptLoop still runs
  accepting,   \* sessions started by AcceptLoop and not yet added (at most one)
  fresh,       \* sessions not accepted yet
  open,        \* sessions whose socket is open
  loop,        \* loop[s][l]: where coroutine l of session s is
  registered,  \* SessionManager::m_activeSessions
  playerId,    \* Session::m_playerId
  named,       \* history: named[s], the players whose logins set the id of s
  sent,        \* packets read from each session so far
  jobs,        \* JobQueue: one FIFO per io thread
  worker,      \* the job a worker holds, as a sequence of length 0 or 1
  logins,      \* verifications under way and callbacks not finished
  commands,    \* GameLogicQueue: one FIFO per producing thread
  batch,       \* commandBatch of ProcessPendingCommands
  phase,       \* where the game thread is
  players,     \* the keys of World::m_players
  active,      \* players whose m_isActive is set
  sessionOf,   \* Player::m_sessionId
  lastSeq,     \* Player::m_lastInputSequence
  tree,        \* player ids held by the QuadTree
  view         \* view[s]: players that the packets sent to s announce as present

netVars   == <<acceptor, accepting, fresh, open, loop, registered>>
loginVars == <<playerId, named, logins>>
jobVars   == <<sent, jobs, worker>>
gameVars  == <<players, active, sessionOf, lastSeq, tree, view>>
queueVars == <<commands, batch, phase>>
vars == <<netVars, loginVars, jobVars, queueVars, gameVars>>

Ids       == Players \cup {NoPlayer}
Producers == IoThreads \cup Workers
Loops     == {"read", "write"}
Seqs      == 1..MaxSeq

(* seq is the sequence number of an input and the command id of a login.      *)
Job == [type : PacketTypes, session : Sessions, player : Ids, seq : Nat]

Command == [type : {"input", "enter", "disconnect"}, player : Ids,
            session : Sessions, seq : Nat]

Login == [session : Sessions, player : Ids, id : Nat,
          stage : {"verifying", "checked"}]

TypeOK ==
  /\ acceptor \in {"listening", "ended"}
  /\ accepting \subseteq Sessions
  /\ fresh \subseteq Sessions
  /\ open \subseteq Sessions
  /\ loop \in [Sessions -> [Loops -> {"off", "run", "closed", "again",
                                      "erased", "announced", "done"}]]
  /\ registered \subseteq Sessions
  /\ playerId \in [Sessions -> Ids]
  /\ named \in [Sessions -> SUBSET Ids]
  /\ sent \in [Sessions -> Nat]
  /\ jobs \in [IoThreads -> Seq(Job)]
  /\ worker \in [Workers -> Seq(Job)]
  /\ logins \subseteq Login
  /\ commands \in [Producers -> Seq(Command)]
  /\ batch \in Seq(Command)
  /\ phase \in {"collect", "process", "handle"}
  /\ players \subseteq Ids
  /\ active \subseteq Ids
  /\ sessionOf \in [Ids -> Sessions]
  /\ lastSeq \in [Ids -> Nat]
  /\ tree \subseteq Ids
  /\ view \in [Sessions -> SUBSET Ids]

Init ==
  /\ acceptor = "listening"
  /\ accepting = {}
  /\ fresh = Sessions
  /\ open = {}
  /\ loop = [s \in Sessions |-> [l \in Loops |-> "off"]]
  /\ registered = {}
  /\ playerId = [s \in Sessions |-> NoPlayer]
  /\ named = [s \in Sessions |-> {}]
  /\ sent = [s \in Sessions |-> 0]
  /\ jobs = [t \in IoThreads |-> <<>>]
  /\ worker = [w \in Workers |-> <<>>]
  /\ logins = {}
  /\ commands = [t \in Producers |-> <<>>]
  /\ batch = <<>>
  /\ phase = "collect"
  /\ players = {}
  /\ active = {}
  /\ sessionOf \in {[p \in Ids |-> s] : s \in Sessions}
  /\ lastSeq = [p \in Ids |-> 0]
  /\ tree = {}
  /\ view = [s \in Sessions |-> {}]

-----------------------------------------------------------------------------
(* AcceptLoop: Start comes before AddSession, and the loops of the session  *)
(* run on other threads in between.  remote_endpoint, which the log lines   *)
(* of AcceptLoop, of Session's constructor and of ChatManager's callback    *)
(* call, throws on a connection that is closed or reset; the exception      *)
(* leaves the accept loop for good.                                         *)

Accepts(s) == acceptor = "listening" /\ accepting = {} /\ s \in fresh

AcceptSession(s) ==
  /\ Accepts(s)
  /\ Cardinality(registered) < MaxConnections
  /\ fresh' = fresh \ {s}
  /\ accepting' = {s}
  /\ open' = open \cup {s}
  /\ loop' = [loop EXCEPT ![s] = [l \in Loops |-> "run"]]
  /\ UNCHANGED <<acceptor, registered, loginVars, jobVars, queueVars, gameVars>>

(* Mutant: an exception of the callback does not leave the accept loop.     *)
AddSessionQuiet(s) ==
  /\ s \in accepting
  /\ accepting' = {}
  /\ registered' = registered \cup {s}
  /\ UNCHANGED <<acceptor, fresh, open, loop, loginVars, jobVars, queueVars, gameVars>>

(* AddSession, and the connected callback of the ChatManager after it.      *)
AddSession(s) ==
  /\ s \in accepting
  /\ accepting' = {}
  /\ registered' = registered \cup {s}
  /\ \/ s \in open /\ acceptor' = acceptor
     \/ (s \notin open \/ s \in ResetPeers) /\ acceptor' = "ended"
  /\ UNCHANGED <<fresh, open, loop, loginVars, jobVars, queueVars, gameVars>>

(* The connection is reset before it becomes a session.                     *)
AcceptThrows(s) ==
  /\ Accepts(s)
  /\ s \in ResetPeers
  /\ fresh' = fresh \ {s}
  /\ acceptor' = "ended"
  /\ UNCHANGED <<accepting, open, loop, registered, loginVars, jobVars,
                 queueVars, gameVars>>

(* A connection over the limit is closed and never becomes a session.       *)
RejectConnection(s) ==
  /\ Accepts(s)
  /\ Cardinality(registered) >= MaxConnections
  /\ fresh' = fresh \ {s}
  /\ UNCHANGED <<acceptor, accepting, open, loop, registered, loginVars, jobVars,
                 queueVars, gameVars>>

-----------------------------------------------------------------------------
(* The coroutines of a session.                                             *)

(* What the client on s may send.  A C_Login names one of its players.       *)
Packets(s) ==
  LET packet(type, p, n) == [type |-> type, session |-> s, player |-> p, seq |-> n]
  IN {j \in {packet("login", p, sent[s]) : p \in Accounts[s]}
            \cup {packet("input", NoPlayer, n) : n \in Seqs}
            \cup {packet(type, NoPlayer, 0) : type \in {"enter", "other"}} :
        j.type \in PacketTypes}

(* ReadLoop reads a packet on thread t and PacketManager::HandlePacket       *)
(* pushes it as a job.                                                       *)
ReadPacket(s, t) ==
  /\ loop[s]["read"] = "run"
  /\ s \in open
  /\ sent[s] < MaxPackets[s]
  /\ sent' = [sent EXCEPT ![s] = @ + 1]
  /\ \E j \in Packets(s) : jobs' = [jobs EXCEPT ![t] = Append(@, j)]
  /\ UNCHANGED <<worker, netVars, loginVars, queueVars, gameVars>>

(* A read or write error, or a header with an invalid length: the coroutine  *)
(* calls Disconnect, which closes the socket and runs the callback.          *)
CloseSocket(s, l) ==
  /\ l \in FailingLoops
  /\ loop[s][l] = "run"
  /\ open' = open \ {s}
  /\ loop' = [loop EXCEPT ![s][l] = "closed"]
  /\ UNCHANGED <<acceptor, accepting, fresh, registered, loginVars, jobVars, queueVars,
                 gameVars>>

(* WriteLoop finds the socket closed and returns without calling Disconnect. *)
WriteLoopReturns(s) ==
  /\ loop[s]["write"] = "run"
  /\ s \notin open
  /\ loop' = [loop EXCEPT ![s]["write"] = "done"]
  /\ UNCHANGED <<acceptor, accepting, fresh, open, registered, loginVars, jobVars,
                 queueVars, gameVars>>

(* RemoveSession under the lock, then the disconnected callback: it throws,  *)
(* since the socket is closed.  ReadLoop calls Disconnect inside its try     *)
(* block and calls it a second time from the handler; WriteLoop calls it     *)
(* from the handler and ends.                                                *)
NotFound(s, l) == IF l = "read" /\ loop[s][l] = "closed" THEN "again" ELSE "done"

(* Mutant: the entry is found but not erased.                               *)
RemoveSessionKeepsEntry(s, l) ==
  /\ loop[s][l] \in {"closed", "again"}
  /\ loop' = [loop EXCEPT ![s][l] = IF s \in registered THEN "erased"
                                    ELSE NotFound(s, l)]
  /\ UNCHANGED <<acceptor, accepting, fresh, open, registered, loginVars, jobVars,
                 queueVars, gameVars>>

(* Mutant: the callback runs whether or not the entry was found.            *)
RemoveSessionUnchecked(s, l) ==
  /\ loop[s][l] \in {"closed", "again"}
  /\ registered' = registered \ {s}
  /\ loop' = [loop EXCEPT ![s][l] = "erased"]
  /\ UNCHANGED <<acceptor, accepting, fresh, open, loginVars, jobVars, queueVars,
                 gameVars>>

(* Whoever erases the entry goes on to OnSessionDisconnected; after that, a   *)
(* second call finds nothing.                                                *)
RemoveSession(s, l) ==
  /\ loop[s][l] \in {"closed", "again"}
  /\ registered' = registered \ {s}
  /\ loop' = [loop EXCEPT ![s][l] = IF s \in registered THEN "erased"
                                    ELSE NotFound(s, l)]
  /\ UNCHANGED <<acceptor, accepting, fresh, open, loginVars, jobVars, queueVars,
                 gameVars>>

(* Mutant: no disconnect command is ever pushed. *)
OnSessionDisconnectedSilent(s, l, t) ==
  /\ loop[s][l] = "erased"
  /\ loop' = [loop EXCEPT ![s][l] = "announced"]
  /\ UNCHANGED <<acceptor, accepting, fresh, open, registered, loginVars, jobVars,
                 queueVars, gameVars>>

(* OnSessionDisconnected, on thread t: no command when no login has set the  *)
(* player id.                                                                *)
OnSessionDisconnected(s, l, t) ==
  /\ loop[s][l] = "erased"
  /\ loop' = [loop EXCEPT ![s][l] = "announced"]
  /\ commands' =
       IF playerId[s] = NoPlayer THEN commands
       ELSE [commands EXCEPT ![t] =
               Append(@, [type |-> "disconnect", player |-> playerId[s],
                          session |-> s, seq |-> 0])]
  /\ UNCHANGED <<acceptor, accepting, fresh, open, registered, loginVars, jobVars, batch,
                 phase, gameVars>>

-----------------------------------------------------------------------------
(* The worker threads.                                                      *)

PopJob(w, t) ==
  /\ worker[w] = <<>>
  /\ jobs[t] # <<>>
  /\ worker' = [worker EXCEPT ![w] = <<Head(jobs[t])>>]
  /\ jobs' = [jobs EXCEPT ![t] = Tail(@)]
  /\ UNCHANGED <<sent, netVars, loginVars, queueVars, gameVars>>

(* ProcessJobPacket, C_Login: the handler starts a verification, unless the *)
(* log line before it throws because the socket is closed.                  *)
ProcessLogin(w) ==
  /\ worker[w] # <<>>
  /\ LET j == Head(worker[w]) IN
       /\ j.type = "login"
       /\ j.session \in open
       /\ logins' = logins \cup {[session |-> j.session, player |-> j.player,
                                  id |-> j.seq, stage |-> "verifying"]}
  /\ worker' = [worker EXCEPT ![w] = <<>>]
  /\ UNCHANGED <<playerId, named, sent, jobs, netVars, queueVars, gameVars>>

(* ProcessJobPacket, C_EnterZone and C_PlayerInput: the command carries the  *)
(* player id the session has now, not the one it had when the packet came.   *)
ProcessGamePacket(w) ==
  /\ worker[w] # <<>>
  /\ LET j == Head(worker[w]) IN
       /\ j.type \in {"enter", "input"}
       /\ commands' = [commands EXCEPT ![w] =
                         Append(@, [type |-> j.type, player |-> playerId[j.session],
                                    session |-> j.session, seq |-> j.seq])]
  /\ worker' = [worker EXCEPT ![w] = <<>>]
  /\ UNCHANGED <<sent, jobs, netVars, loginVars, batch, phase, gameVars>>

(* An invalid packet, one without a game command, or a C_Login whose handler *)
(* throws is logged and dropped.                                             *)
DropPacket(w) ==
  /\ worker[w] # <<>>
  /\ Head(worker[w]).type \in {"other", "login"}
  /\ worker' = [worker EXCEPT ![w] = <<>>]
  /\ UNCHANGED <<sent, jobs, netVars, loginVars, queueVars, gameVars>>

-----------------------------------------------------------------------------
(* The callback of a verification, on an io thread.  The test of            *)
(* IsConnected and SetPlayerId are two steps: the session may close between *)
(* them.                                                                    *)

LoginChecked(r) ==
  /\ r \in logins
  /\ r.stage = "verifying"
  /\ r.session \in open
  /\ logins' = (logins \ {r}) \cup {[session |-> r.session, player |-> r.player,
                                     id |-> r.id, stage |-> "checked"]}
  /\ UNCHANGED <<playerId, named, netVars, jobVars, queueVars, gameVars>>

(* The session is gone, or the ticket was refused.  The log line of a       *)
(* refusal throws, too, when the connection is lost by then; what becomes   *)
(* of a thread of the io_context whose handler throws is not modelled.      *)
LoginDropped(r) ==
  /\ r \in logins
  /\ r.stage = "verifying"
  /\ logins' = logins \ {r}
  /\ UNCHANGED <<playerId, named, netVars, jobVars, queueVars, gameVars>>

(* A later login of the session overwrites the id of an earlier one.         *)
LoginSucceeds(r) ==
  /\ r \in logins
  /\ r.stage = "checked"
  /\ playerId' = [playerId EXCEPT ![r.session] = r.player]
  /\ named' = [named EXCEPT ![r.session] = @ \cup {r.player}]
  /\ logins' = logins \ {r}
  /\ UNCHANGED <<netVars, jobVars, queueVars, gameVars>>

-----------------------------------------------------------------------------
(* The game thread: ProcessPendingCommands collects a batch, then handles    *)
(* its commands one by one; UpdateWorld follows.                             *)

TryPopGameCommand(t) ==
  /\ phase = "collect"
  /\ Len(batch) < BatchSize
  /\ commands[t] # <<>>
  /\ batch' = Append(batch, Head(commands[t]))
  /\ commands' = [commands EXCEPT ![t] = Tail(@)]
  /\ UNCHANGED <<phase, netVars, loginVars, jobVars, gameVars>>

(* The batch is full, the queue was found empty, or the time is over.       *)
StopCollecting ==
  /\ phase = "collect"
  /\ batch # <<>>
  /\ phase' = "process"
  /\ UNCHANGED <<commands, batch, netVars, loginVars, jobVars, gameVars>>

(* Mutant: a command whose session is gone is handled all the same.         *)
LookupSessionIgnored ==
  /\ phase = "process"
  /\ batch # <<>>
  /\ Head(batch).type # "disconnect"
  /\ phase' = "handle"
  /\ UNCHANGED <<commands, batch, netVars, loginVars, jobVars, gameVars>>

(* ProcessGameCommand looks the sender's session up.                        *)
LookupSession ==
  /\ phase = "process"
  /\ batch # <<>>
  /\ LET c == Head(batch) IN
       /\ c.type # "disconnect"
       /\ \/ /\ c.session \in registered
             /\ phase' = "handle"
             /\ UNCHANGED batch
          \/ /\ c.session \notin registered
             /\ batch' = Tail(batch)
             /\ UNCHANGED phase
  /\ UNCHANGED <<commands, netVars, loginVars, jobVars, gameVars>>

(* Sessions a broadcast about p goes to, when the players in `present` are    *)
(* active and belong to the sessions `owner` gives.                          *)
Recipients(p, present, owner) ==
  {s \in registered \cap open : \E q \in present \ {p} : owner[q] = s}

(* The game thread has found the session of the sender and calls the handler. *)
Handling(type) == phase = "handle" /\ batch # <<>> /\ Head(batch).type = type

(* Mutant: the sequence number is stored without the comparison.            *)
HandleAnyPlayerInput ==
  /\ Handling("input")
  /\ LET c == Head(batch) IN
       lastSeq' \in IF c.player \in players
                    THEN {lastSeq, [lastSeq EXCEPT ![c.player] = c.seq]}
                    ELSE {lastSeq}
  /\ batch' = Tail(batch)
  /\ phase' = "process"
  /\ UNCHANGED <<commands, players, active, sessionOf, tree, view, netVars,
                 loginVars, jobVars>>

(* HandlePlayerInput.  Whether the rate limit lets the input through depends *)
(* on the clock.  The player is not required to be active.                   *)
HandlePlayerInput ==
  /\ Handling("input")
  /\ LET c == Head(batch) IN
       lastSeq' \in IF c.player \in players /\ c.seq > lastSeq[c.player]
                    THEN {lastSeq, [lastSeq EXCEPT ![c.player] = c.seq]}
                    ELSE {lastSeq}
  /\ batch' = Tail(batch)
  /\ phase' = "process"
  /\ UNCHANGED <<commands, players, active, sessionOf, tree, view, netVars,
                 loginVars, jobVars>>

(* HandleEnterZone: a player that is active already is refused silently.     *)
EnterZoneRefused ==
  /\ Handling("enter")
  /\ Head(batch).player \in active
  /\ batch' = Tail(batch)
  /\ phase' = "process"
  /\ UNCHANGED <<commands, netVars, loginVars, jobVars, gameVars>>

(* A new player is added to the world; a known one is activated again, with  *)
(* the sequence number it has.  S_ZoneEntered lists the near players, and    *)
(* S_PlayerJoined goes to every other active player.                         *)
EnterZoneAccepted ==
  /\ Handling("enter")
  /\ Head(batch).player \notin active
  /\ LET p == Head(batch).player
         s == Head(batch).session
     IN /\ players' = players \cup {p}
        /\ active' = active \cup {p}
        /\ sessionOf' = [sessionOf EXCEPT ![p] = s]
        /\ lastSeq' = IF p \in players THEN lastSeq ELSE [lastSeq EXCEPT ![p] = 0]
        /\ tree' = tree \cup {p}
        /\ \E near \in SUBSET (tree \ {p}) :
             view' = [r \in Sessions |->
                        (IF r = s /\ s \in open THEN near ELSE view[r]) \cup
                        (IF r \in Recipients(p, active, sessionOf) THEN {p} ELSE {})]
  /\ batch' = Tail(batch)
  /\ phase' = "process"
  /\ UNCHANGED <<commands, netVars, loginVars, jobVars>>

(* Mutants: the player stays in the spatial index; S_PlayerLeft is not sent. *)
LeaveKeepsTree ==
  /\ phase = "process"
  /\ batch # <<>>
  /\ Head(batch).type = "disconnect"
  /\ active' = active \ {Head(batch).player}
  /\ batch' = Tail(batch)
  /\ UNCHANGED <<commands, phase, players, sessionOf, lastSeq, tree, view,
                 netVars, loginVars, jobVars>>

LeaveUnannounced ==
  /\ phase = "process"
  /\ batch # <<>>
  /\ Head(batch).type = "disconnect"
  /\ active' = active \ {Head(batch).player}
  /\ tree' = tree \ {Head(batch).player}
  /\ batch' = Tail(batch)
  /\ UNCHANGED <<commands, phase, players, sessionOf, lastSeq, view, netVars,
                 loginVars, jobVars>>

(* HandlePlayerDisconnect, which no session lookup precedes and which does   *)
(* not ask which session the player belongs to.                              *)
HandlePlayerDisconnect ==
  /\ phase = "process"
  /\ batch # <<>>
  /\ Head(batch).type = "disconnect"
  /\ LET p == Head(batch).player IN
       \/ /\ p \notin players
          /\ UNCHANGED gameVars
       \/ /\ p \in players
          /\ active' = active \ {p}
          /\ lastSeq' = [lastSeq EXCEPT ![p] = 0]
          /\ tree' = tree \ {p}
          /\ view' = [r \in Sessions |->
                        IF r \in Recipients(p, active, sessionOf)
                        THEN view[r] \ {p} ELSE view[r]]
          /\ UNCHANGED <<players, sessionOf>>
  /\ batch' = Tail(batch)
  /\ UNCHANGED <<commands, phase, netVars, loginVars, jobVars>>

(* UpdateWorld moves the active players; QuadTree::Update inserts an id that  *)
(* it does not hold.                                                          *)
UpdateWorld ==
  /\ phase = "process"
  /\ batch = <<>>
  /\ phase' = "collect"
  /\ tree' = tree \cup active
  /\ UNCHANGED <<commands, batch, players, active, sessionOf, lastSeq, view,
                 netVars, loginVars, jobVars>>

-----------------------------------------------------------------------------
AcceptLoop ==
  \E s \in Sessions : \/ AcceptSession(s)
                      \/ AddSession(s)
                      \/ AcceptThrows(s)
                      \/ RejectConnection(s)

ReadOrClose ==
  \E s \in Sessions : \/ \E t \in IoThreads : ReadPacket(s, t)
                      \/ \E l \in Loops : CloseSocket(s, l)

(* What a coroutine does once its socket is closed.                          *)
Disconnect(s, l) ==
  \/ RemoveSession(s, l)
  \/ \E t \in IoThreads : OnSessionDisconnected(s, l, t)

WorkerLoop(w) ==
  \/ \E t \in IoThreads : PopJob(w, t)
  \/ ProcessLogin(w)
  \/ ProcessGamePacket(w)
  \/ DropPacket(w)

LoginCallback == \E r \in logins : LoginChecked(r) \/ LoginDropped(r) \/ LoginSucceeds(r)

GameLoop ==
  \/ \E t \in Producers : TryPopGameCommand(t)
  \/ StopCollecting
  \/ LookupSession
  \/ HandlePlayerInput
  \/ EnterZoneRefused
  \/ EnterZoneAccepted
  \/ HandlePlayerDisconnect
  \/ UpdateWorld

Next ==
  \/ AcceptLoop
  \/ ReadOrClose
  \/ \E s \in Sessions : WriteLoopReturns(s)
  \/ \E s \in Sessions, l \in Loops : Disconnect(s, l)
  \/ \E w \in Workers : WorkerLoop(w)
  \/ LoginCallback
  \/ GameLoop

Spec == Init /\ [][Next]_vars

(* Threads and coroutines that have something to do go on.  Nothing makes a  *)
(* client connect, send or close.                                            *)
Fairness ==
  /\ WF_vars(\E s \in Sessions : AddSession(s))
  /\ \A s \in Sessions, l \in Loops : WF_vars(Disconnect(s, l))
  /\ \A w \in Workers : WF_vars(WorkerLoop(w))
  /\ WF_vars(LoginCallback)
  /\ WF_vars(GameLoop)

FairSpec == Spec /\ Fairness

-----------------------------------------------------------------------------
(* An assumption on the clients, under which LeavesWithOwnSession holds: no   *)
(* player is used by two connections.                                        *)
ExclusiveAccounts ==
  \A s, r \in Sessions : s # r => Accounts[s] \cap Accounts[r] = {}

(* The commands between a push and their handling.                           *)
Elems(q) == {q[i] : i \in 1..Len(q)}
Held(queues, collected) ==
  (UNION {Elems(queues[t]) : t \in Producers}) \cup Elems(collected)
Queued == Held(commands, batch)

(* The end of session s is still on its way to the game thread.              *)
Ending(loops, queued, s) ==
  \/ \E l \in Loops : loops[s][l] = "erased"
  \/ \E c \in queued : c.type = "disconnect" /\ c.session = s
EndPending(s) == Ending(loop, Queued, s)

(* An active player whose session is gone, and nothing of its end is left    *)
(* that could still take the player out of the world.                        *)
Ghost(p) == sessionOf[p] \notin registered /\ ~EndPending(sessionOf[p])

(* README.md:91 of the repository has a player leave when its connection is  *)
(* closed.  The code does not keep this: a session that enters before a      *)
(* login enters as player 0 (JobProcessor::ProcessJobPacket), for whom       *)
(* SessionManager::OnSessionDisconnected queues no disconnect.               *)
NoGhost == \A p \in active : ~Ghost(p)

(* There are two kinds of ghosts and no third: player 0, and the player a    *)
(* session was logged in as before a later login gave it another id, which   *)
(* is the one its disconnect names (LoginPacketHandler::operator()).  Every  *)
(* other player has the session it entered with until that session's end     *)
(* takes it out, although the lookup of the session, the erasure, the login  *)
(* callback and both queues interleave freely; and nobody enters as a player *)
(* its session was not logged in as (HandleEnterZone, RemoveSession).        *)
OnlyKnownGhosts ==
  \A p \in active \ {NoPlayer} :
    /\ p \in named[sessionOf[p]]
    /\ Ghost(p) => named[sessionOf[p]] # {p}

(* Session::Disconnect may run in both coroutines of a session, but at most   *)
(* one of them announces the end, and never while the session is registered   *)
(* or about to be (SessionManager::RemoveSession).                            *)
AnnouncedOnce ==
  \A s \in Sessions, l \in Loops :
    loop[s][l] \in {"erased", "announced"} =>
      /\ s \notin registered \cup accepting
      /\ \A k \in Loops \ {l} : loop[s][k] \notin {"erased", "announced"}

(* The packets sent to the client of an active player never leave a departed *)
(* player standing in its view: every S_PlayerLeft reaches whoever was told  *)
(* of the player (GameManager::BroadcastPlayerLeft, SendEnterZoneResponse).  *)
ViewsAreCurrent ==
  \A p \in active :
    sessionOf[p] \in registered \cap open => view[sessionOf[p]] \subseteq active

(* The spatial index holds exactly the active players, whatever the order in *)
(* which entries, re-entries and repeated disconnects are handled.           *)
TreeHoldsActive == tree = active /\ active \subseteq players

(* A player leaves only when its own session is gone: the comment at         *)
(* GameManager.cpp:347 ("connection already terminated").  Holds under       *)
(* ExclusiveAccounts only.                                                   *)
LeavesWithOwnSession ==
  [][\A p \in Players : p \in active /\ p \notin active' => sessionOf[p] \notin registered]_vars

(* The sequence number of a player only grows, until the player leaves: an   *)
(* input overtaken by a later one, in the workers or in the queues, is never *)
(* applied (GameManager::HandlePlayerInput).                                 *)
InputsAdvance ==
  [][\A p \in Ids : lastSeq'[p] < lastSeq[p] => lastSeq'[p] = 0 /\ p \notin active']_vars

(* No coroutine will ever remove the entry of s.                             *)
Dead(s) ==
  /\ s \notin open
  /\ loop[s]["read"] \notin {"run", "closed", "again"}
  /\ loop[s]["write"] # "closed"

(* A registered session is removed in the end, but for one: when its end     *)
(* overtakes AddSession its entry stays for good, and the accept loop has    *)
(* ended with it (TcpServer::AcceptLoop, Session::Disconnect).               *)
OneDeadEntry ==
  \A s \in registered : Dead(s) =>
    acceptor = "ended" /\ \A r \in registered : Dead(r) => r = s

(* A connection is left unaccepted only at the limit on connections           *)
(* (TcpServer::AcceptLoop).                                                   *)
RefusedOnlyAtLimit ==
  acceptor = "listening" \/ Cardinality(registered) >= MaxConnections

(* The end of a logged-in session eventually deactivates its player          *)
(* (OnSessionDisconnected, ProcessPendingCommands, HandlePlayerDisconnect).  *)
EndsAreHandled ==
  \A s \in Sessions :
    EndPending(s) /\ playerId[s] # NoPlayer ~> playerId[s] \notin active

-----------------------------------------------------------------------------
(* The contract the server keeps, as the abstract specification Presence      *)
(* states it: a session is new until it is registered, has ended once its    *)
(* entry is erased, and is gone when nothing of its end is left to handle.   *)
Stage(s) ==
  IF s \in fresh \cup accepting THEN "new"
  ELSE IF s \in registered THEN "up"
  ELSE IF EndPending(s) THEN "ended" ELSE "gone"

Abstract == INSTANCE Presence WITH
  present <- active,
  via     <- sessionOf,
  names   <- named,
  stage   <- [s \in Sessions |-> Stage(s)]

(* Whatever the threads, the coroutines and the queues do, players enter and *)
(* leave as Presence allows, player 0 included, however often a connection   *)
(* logs in and however many connections a player has.                        *)
ImplementsPresence == Abstract!Spec

-----------------------------------------------------------------------------
(* The inductive invariants behind these properties.                         *)

(* A session is fresh, then being accepted, one at a time, then registered;  *)
(* no coroutine of a fresh session has started.                              *)
NetInv ==
  /\ fresh \cap (accepting \cup registered) = {}
  /\ accepting \cap registered = {}
  /\ \A s, r \in accepting : s = r
  /\ \A s \in fresh, l \in Loops : loop[s][l] = "off"
  /\ AnnouncedOnce

(* Whoever is in the world, or is being let in, came through a session that  *)
(* was registered at the lookup.                                             *)
EntryInv ==
  /\ \A p \in active : sessionOf[p] \notin fresh \cup accepting
  /\ phase = "handle" => batch # <<>> /\ Head(batch).session \notin fresh \cup accepting

(* Every login, past or on its way, names an account of its session.         *)
AccountInv ==
  /\ \A s \in Sessions :
       /\ named[s] \subseteq Accounts[s]
       /\ IF named[s] = {} THEN playerId[s] = NoPlayer ELSE playerId[s] \in named[s]
  /\ \A r \in logins : r.player \in Accounts[r.session]
  /\ \A t \in IoThreads : \A j \in Elems(jobs[t]) :
       j.type = "login" => j.player \in Accounts[j.session]
  /\ \A w \in Workers : \A j \in Elems(worker[w]) :
       j.type = "login" => j.player \in Accounts[j.session]

(* A queued command carries a player its session was logged in as, and a     *)
(* disconnect command belongs to a session that is gone.                     *)
CommandInv ==
  /\ \A c \in Queued : c.player # NoPlayer => c.player \in named[c.session]
  /\ \A c \in Queued :
       c.type = "disconnect" =>
         c.player # NoPlayer /\ c.session \notin registered \cup accepting \cup fresh

(* The session found by the lookup is registered until its end is on the way. *)
HandleInv ==
  phase = "handle" =>
    /\ Head(batch).type # "disconnect"
    /\ Head(batch).player # NoPlayer =>
         Head(batch).session \in registered \/ EndPending(Head(batch).session)
=============================================================================
