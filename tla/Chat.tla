-------------------------------- MODULE Chat --------------------------------
(***************************************************************************)
(* Chat, on top of SessionOutput: ChatPacketHandler publishes a message to *)
(* a Redis channel, the thread of RedisChatService receives it and         *)
(* ChatManager broadcasts it to the sessions of its table, which the       *)
(* accept loop and the ends of sessions change from other threads.         *)
(*                                                                         *)
(* The table is protected by a mutex: a broadcast and a change of the      *)
(* table are one step each.  Other servers publish on the same channel,    *)
(* and not every message there has the form <player>|<text>.               *)
(***************************************************************************)
EXTENDS SessionOutput

CONSTANTS
  MaxMessages,    \* bound: messages published
  MaxTraffic,     \* bound: packets built and messages published, together
  RedisMayFail    \* whether the connection to Redis may be lost

ASSUME ChatAssumption ==
  MaxMessages \in Nat /\ MaxTraffic \in Nat /\ RedisMayFail \in BOOLEAN

VARIABLES
  accepting,    \* sessions that are started and not yet passed to the callbacks
  acceptor,     \* whether AcceptLoop still runs
  table,        \* ChatManager::m_connectedSessions
  published,    \* messages published on the channel
  consumed,     \* how many of them the subscriber has taken, in order
  subscriber,   \* the thread of RedisChatService::Subscribe
  redis         \* the connection of the subscriber to Redis

tableVars == <<accepting, acceptor, table>>
redisVars == <<published, consumed, subscriber, redis>>
vars      == <<outputVars, tableVars, redisVars>>

Packet   == [from : Senders, n : Nat, body : Seq(Senders)]

QueueTypes ==
  /\ queue \in [Sessions -> [Senders -> Seq(Packet)]]
  /\ sent \in [Sessions -> [Senders -> Nat]]

SocketTypes ==
  /\ open \subseteq Sessions
  /\ loop \in [Sessions -> [Loops -> {"off", "run", "test", "dequeue", "wait", "write",
                 "broken", "drain", "callback", "drain again", "callback again", "done"}]]
  /\ written \in [Sessions -> [Senders -> Nat]]

(* WriteLoop has a packet exactly while it writes.                           *)
WritingTypes ==
  /\ writing \in [Sessions -> Seq(Packet)]
  /\ \A s \in Sessions :
       Len(writing[s]) = IF loop[s]["write"] \in {"write", "broken"} THEN 1 ELSE 0

TaskTypes ==
  /\ stage \in [Testers -> {"idle", "answer", "test", "send", "copy", "flush",
                            "send batch"}]
  /\ todo \in [Testers -> SUBSET Sessions]
  /\ target \in [Testers -> Sessions \cup {None}]
  /\ built \in [Testers -> Nat]
  /\ batch \in [Sessions -> Seq(Senders)]

PoolTypes ==
  /\ builders \in Seq(Builders)
  /\ builderOf \in [Testers -> Builders \cup {None}]
  /\ builderContent \in [Builders -> Seq(Senders)]
  /\ vectors \in Seq(Builders)
  /\ vectorOf \in [{GameThread} -> Builders \cup {None}]
  /\ vectorContent \in [Builders -> Seq(Senders)]

ChatTypes ==
  /\ accepting \subseteq Sessions
  /\ acceptor \in {"listening", "ended"}
  /\ table \subseteq Sessions
  /\ published \in Nat
  /\ consumed \in 0..published
  /\ subscriber \in {"consuming", "ended"}
  /\ redis \in {"up", "down"}

TypeOK ==
  QueueTypes /\ SocketTypes /\ WritingTypes /\ TaskTypes /\ PoolTypes /\ ChatTypes

(* ChatManager::Initialize has connected and subscribed.                     *)
Init ==
  /\ OutputInit
  /\ accepting = {}
  /\ acceptor = "listening"
  /\ table = {}
  /\ published = 0
  /\ consumed = 0
  /\ subscriber = "consuming"
  /\ redis = "up"

-----------------------------------------------------------------------------
(* The table.                                                                *)

AcceptSession(s) ==
  /\ acceptor = "listening"
  /\ accepting = {}
  /\ accepting' = {s}
  /\ Start(s)
  /\ UNCHANGED <<acceptor, table, redisVars>>

(* Mutant: the exception of the log line is caught in the callback.          *)
OnSessionConnectedQuiet(s) ==
  /\ s \in accepting
  /\ accepting' = {}
  /\ table' = table \cup {s}
  /\ UNCHANGED <<acceptor, outputVars, redisVars>>

(* OnSessionConnected stores the session before its log line throws, if the  *)
(* socket is closed by then or was reset by the peer; the exception ends the *)
(* accept loop.                                                              *)
OnSessionConnected(s) ==
  /\ s \in accepting
  /\ accepting' = {}
  /\ table' = table \cup {s}
  /\ \/ acceptor' = "ended"
     \/ s \in open /\ UNCHANGED acceptor
  /\ UNCHANGED <<outputVars, redisVars>>

(* The callback of Disconnect ends in OnSessionDisconnected.                 *)
OnSessionDisconnected(s, l) ==
  /\ Callback(s, l)
  /\ table' = table \ {s}
  /\ UNCHANGED <<accepting, acceptor, redisVars>>

-----------------------------------------------------------------------------
(* Redis.                                                                    *)

(* ChatPacketHandler, or another server, publishes, over a connection of its *)
(* own and whether or not the subscriber is still there.                     *)
Publish ==
  /\ published < MaxMessages
  /\ published' = published + 1
  /\ UNCHANGED <<consumed, subscriber, redis, outputVars, tableVars>>

(* consume() and HandleRedisChatMessage: the message is sent to every        *)
(* session of the table, without a test of IsConnected.                      *)
HandleRedisChatMessage ==
  /\ subscriber = "consuming"
  /\ consumed < published
  /\ consumed' = consumed + 1
  /\ queue' = [s \in Sessions |->
                 IF s \in table
                 THEN Enqueued(queue, s, ChatThread, <<ChatThread>>)[s] ELSE queue[s]]
  /\ sent' = [s \in Sessions |->
                IF s \in table THEN [sent[s] EXCEPT ![ChatThread] = @ + 1] ELSE sent[s]]
  /\ UNCHANGED <<published, subscriber, redis, socketVars, taskVars, poolVars, tableVars>>

(* Mutant: the exception of stoll leaves the callback and ends the thread.   *)
FailMalformed ==
  /\ subscriber = "consuming"
  /\ consumed < published
  /\ consumed' = consumed + 1
  /\ subscriber' = "ended"
  /\ UNCHANGED <<published, redis, outputVars, tableVars>>

(* A message without a separator, or without a player id, is dropped.        *)
DropMalformed ==
  /\ subscriber = "consuming"
  /\ consumed < published
  /\ consumed' = consumed + 1
  /\ UNCHANGED <<published, subscriber, redis, outputVars, tableVars>>

(* The connection is lost: consume() throws and the thread ends.  Nothing    *)
(* starts it again, and whatever it has not taken by then is never taken.    *)
RedisFails ==
  /\ RedisMayFail
  /\ subscriber = "consuming"
  /\ subscriber' = "ended"
  /\ redis' = "down"
  /\ UNCHANGED <<published, consumed, outputVars, tableVars>>

-----------------------------------------------------------------------------
SubscribeThread == HandleRedisChatMessage \/ DropMalformed

(* The packets built and the messages published so far, which are bounded.   *)
Traffic == published + Cardinality(UNION {{t} \X (1..built[t]) : t \in Testers})

Next ==
  \/ OutputNext /\ UNCHANGED <<tableVars, redisVars>> /\ Traffic' <= MaxTraffic
  \/ \E s \in Sessions : AcceptSession(s) \/ OnSessionConnected(s)
  \/ \E s \in Sessions, l \in Loops : OnSessionDisconnected(s, l)
  \/ Publish /\ Traffic < MaxTraffic
  \/ SubscribeThread
  \/ RedisFails

Spec == Init /\ [][Next]_vars

(* Coroutines and threads that can go on do.  Nothing makes a client connect *)
(* or a connection fail.                                                     *)
Fairness ==
  /\ \A s \in Sessions : WF_vars(WriteLoop(s) /\ UNCHANGED <<tableVars, redisVars>>)
  /\ WF_vars(SubscribeThread)

FairSpec == Spec /\ Fairness

-----------------------------------------------------------------------------
(* The table keeps a session whose end has been announced only if the end    *)
(* overtook the connected callback; the accept loop has ended with it, so    *)
(* there is never more than one (ChatManager, TcpServer::AcceptLoop).        *)
Ended(s) == loop[s]["write"] \in {"done"} /\ loop[s]["read"] = "done"

OneStaleEntry ==
  \A s \in table : Ended(s) =>
    acceptor = "ended" /\ \A r \in table : Ended(r) => r = s

(* All messages on the channel are taken from it, also those behind one that *)
(* cannot be parsed, unless the connection to Redis is lost: after that the  *)
(* rest is lost, too, and so is all chat that follows                        *)
(* (RedisChatService::Subscribe, ChatManager::HandleRedisChatMessage).       *)
ChatGoesOn == consumed < published ~> consumed = published \/ redis = "down"
=============================================================================
