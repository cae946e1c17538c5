--------------------------- MODULE SessionOutput ---------------------------
(***************************************************************************)
(* What the server sends: the threads that build packets in pooled builders*)
(* (MemoryPool) and call Session::Send or SendBatch, the write queue of    *)
(* each session, WriteLoop, and Disconnect, which either coroutine of the  *)
(* session may call.                                                       *)
(*                                                                         *)
(* The write queue is a moodycamel::ConcurrentQueue, a FIFO per sending    *)
(* thread.  A packet is its sender, its number among the packets the       *)
(* sender sent to the session, and its body, the copied content of a       *)
(* builder.  The game thread tests IsConnected before every Send, the      *)
(* login callback once before it builds its packet; a snapshot is copied   *)
(* to the batch of its player and sent after its builder is given back.    *)
(***************************************************************************)
EXTENDS Naturals, Sequences, FiniteSets

CONSTANTS
  Sessions,
  GameThread, IoThreads,   \* the threads that test IsConnected and send
  ChatThread,              \* the thread that broadcasts without a test
  MaxSends,                \* bound: MaxSends[t] packets are built by t
  MaxObjects,              \* bound: builders, and vectors, at one time
  PoolSize,
  FailingLoops,            \* bound: coroutines that may meet an error
  None

Builders == 1..MaxObjects
Testers  == {GameThread} \cup IoThreads
Senders  == Testers \cup {ChatThread}

ASSUME OutputAssumption ==
  /\ IsFiniteSet(IoThreads)
  /\ GameThread \notin IoThreads
  /\ ChatThread \notin Testers
  /\ MaxSends \in [Testers -> Nat]
  /\ MaxObjects \in Nat
  /\ PoolSize \in 0..MaxObjects
  /\ FailingLoops \subseteq {"read", "write"}
  /\ None \notin Sessions
  /\ None \notin Nat

VARIABLES
  open,        \* sessions whose socket is open
  loop,        \* loop[s][l]: where coroutine l of session s is
  queue,       \* queue[s][t]: what t has put into the write queue of s
  writing,     \* the packet WriteLoop has taken, as a sequence of length 0 or 1
  sent,        \* sent[s][t]: packets put into the queue of s by t
  written,     \* written[s][t]: number of the last of them on the wire
  stage,       \* what a sending thread is at
  todo,        \* sessions the packet is still to be sent to
  target,      \* the session whose test has passed
  built,       \* packets a thread has built so far
  batch,       \* m_playerBatches, by session
  builders, builderOf, builderContent,
  vectors, vectorOf, vectorContent

queueVars  == <<queue, sent>>
socketVars == <<open, loop, writing, written>>
taskVars   == <<stage, todo, target, built, batch>>
poolVars   == <<builders, builderOf, builderContent, vectors, vectorOf, vectorContent>>
outputVars == <<queueVars, socketVars, taskVars, poolVars>>

BuilderPool == INSTANCE MemoryPool WITH
  Objects <- Builders, Users <- Testers,
  available <- builders, held <- builderOf, content <- builderContent

VectorPool == INSTANCE MemoryPool WITH
  Objects <- Builders, Users <- {GameThread},
  available <- vectors, held <- vectorOf, content <- vectorContent

Loops == {"read", "write"}

OutputInit ==
  /\ open = {}
  /\ loop = [s \in Sessions |-> [l \in Loops |-> "off"]]
  /\ queue = [s \in Sessions |-> [t \in Senders |-> <<>>]]
  /\ writing = [s \in Sessions |-> <<>>]
  /\ sent = [s \in Sessions |-> [t \in Senders |-> 0]]
  /\ written = [s \in Sessions |-> [t \in Senders |-> 0]]
  /\ stage = [t \in Testers |-> "idle"]
  /\ todo = [t \in Testers |-> {}]
  /\ target = [t \in Testers |-> None]
  /\ built = [t \in Testers |-> 0]
  /\ batch = [s \in Sessions |-> <<>>]
  /\ BuilderPool!PoolInit
  /\ VectorPool!PoolInit

-----------------------------------------------------------------------------
(* Session::Send and SendBatch: a copy goes into the queue, whether or not   *)
(* the socket is still open.                                                 *)
Enqueued(q, s, t, body) ==
  [q EXCEPT ![s][t] = Append(@, [from |-> t, n |-> sent[s][t] + 1, body |-> body])]

Send(s, t, body) ==
  /\ queue' = Enqueued(queue, s, t, body)
  /\ sent' = [sent EXCEPT ![s][t] = @ + 1]

(* Session::Start.                                                           *)
Start(s) ==
  /\ loop[s]["read"] = "off"
  /\ open' = open \cup {s}
  /\ loop' = [loop EXCEPT ![s] = [read |-> "run", write |-> "test"]]
  /\ UNCHANGED <<writing, written, queueVars, taskVars, poolVars>>

-----------------------------------------------------------------------------
(* WriteLoop.                                                                *)

TestOpen(s) ==
  /\ loop[s]["write"] = "test"
  /\ loop' = [loop EXCEPT ![s]["write"] = IF s \in open THEN "dequeue" ELSE "done"]
  /\ UNCHANGED <<open, writing, written, queueVars, taskVars, poolVars>>

(* A write on a socket that is closed by now fails at once.                  *)
Dequeue(s, t) ==
  /\ loop[s]["write"] = "dequeue"
  /\ queue[s][t] # <<>>
  /\ writing' = [writing EXCEPT ![s] = <<Head(queue[s][t])>>]
  /\ queue' = [queue EXCEPT ![s][t] = Tail(@)]
  /\ loop' = [loop EXCEPT ![s]["write"] = IF s \in open THEN "write" ELSE "broken"]
  /\ UNCHANGED <<open, written, sent, taskVars, poolVars>>

FindEmpty(s) ==
  /\ loop[s]["write"] = "dequeue"
  /\ \A t \in Senders : queue[s][t] = <<>>
  /\ loop' = [loop EXCEPT ![s]["write"] = "wait"]
  /\ UNCHANGED <<open, writing, written, queueVars, taskVars, poolVars>>

(* Mutant: the wait ends only when the socket is closed.                     *)
WaitForCancel(s) ==
  /\ loop[s]["write"] = "wait"
  /\ s \notin open
  /\ loop' = [loop EXCEPT ![s]["write"] = "test"]
  /\ UNCHANGED <<open, writing, written, queueVars, taskVars, poolVars>>

(* The timer has no expiry time: its wait ends by itself, or by a cancel.    *)
WaitEnds(s) ==
  /\ loop[s]["write"] = "wait"
  /\ loop' = [loop EXCEPT ![s]["write"] = "test"]
  /\ UNCHANGED <<open, writing, written, queueVars, taskVars, poolVars>>

(* A write that began while the socket was open may still complete.          *)
WriteCompletes(s) ==
  /\ loop[s]["write"] = "write"
  /\ written' = [written EXCEPT ![s][Head(writing[s]).from] = Head(writing[s]).n]
  /\ writing' = [writing EXCEPT ![s] = <<>>]
  /\ loop' = [loop EXCEPT ![s]["write"] = "test"]
  /\ UNCHANGED <<open, queueVars, taskVars, poolVars>>

-----------------------------------------------------------------------------
(* Disconnect, called by a coroutine that met an error.  The socket is       *)
(* closed first, then the queue is emptied packet by packet, then the        *)
(* callback runs.  It throws (see PlayerLifecycle), and ReadLoop calls       *)
(* Disconnect a second time.                                                 *)

Fails(s, l) == \/ l = "read" /\ loop[s][l] = "run"
               \/ l = "write" /\ loop[s][l] \in {"write", "broken"}

(* Mutant: the queue is emptied before the socket is closed.                 *)
CloseLate(s, l) ==
  /\ Fails(s, l)
  /\ l \in FailingLoops \/ s \notin open
  /\ IF \A t \in Senders : queue[s][t] = <<>>
     THEN /\ writing' = IF l = "write" THEN [writing EXCEPT ![s] = <<>>] ELSE writing
          /\ open' = open \ {s}
          /\ loop' = [loop EXCEPT ![s][l] = "drain"]
          /\ UNCHANGED queue
     ELSE /\ \E t \in Senders : queue[s][t] # <<>> /\ queue' = [queue EXCEPT ![s][t] = Tail(@)]
          /\ UNCHANGED <<writing, open, loop>>
  /\ UNCHANGED <<written, sent, taskVars, poolVars>>

Close(s, l) ==
  /\ Fails(s, l)
  /\ l \in FailingLoops \/ s \notin open
  /\ writing' = IF l = "write" THEN [writing EXCEPT ![s] = <<>>] ELSE writing
  /\ open' = open \ {s}
  /\ loop' = [loop EXCEPT ![s][l] = "drain"]
  /\ UNCHANGED <<written, queueVars, taskVars, poolVars>>

Drain(s, l, t) ==
  /\ loop[s][l] \in {"drain", "drain again"}
  /\ queue[s][t] # <<>>
  /\ queue' = [queue EXCEPT ![s][t] = Tail(@)]
  /\ UNCHANGED <<sent, socketVars, taskVars, poolVars>>

Drained(s, l) ==
  /\ loop[s][l] \in {"drain", "drain again"}
  /\ \A t \in Senders : queue[s][t] = <<>>
  /\ loop' = [loop EXCEPT ![s][l] = IF @ = "drain" THEN "callback" ELSE "callback again"]
  /\ UNCHANGED <<open, writing, written, queueVars, taskVars, poolVars>>

Callback(s, l) ==
  /\ loop[s][l] \in {"callback", "callback again"}
  /\ loop' = [loop EXCEPT ![s][l] = IF l = "read" /\ @ = "callback"
                                    THEN "drain again" ELSE "done"]
  /\ UNCHANGED <<open, writing, written, queueVars, taskVars, poolVars>>

-----------------------------------------------------------------------------
(* The sending threads.                                                      *)

(* Sessions the SessionManager can know of, now or in the past.              *)
Started == {s \in Sessions : loop[s]["read"] # "off"}

Begin(t, at, sessions) ==
  /\ stage[t] = "idle"
  /\ built[t] < MaxSends[t]
  /\ built' = [built EXCEPT ![t] = @ + 1]
  /\ stage' = [stage EXCEPT ![t] = at]
  /\ todo' = [todo EXCEPT ![t] = sessions]

(* BroadcastPlayerJoined, BroadcastPlayerLeft and SendEnterZoneResponse build *)
(* a packet for the sessions of whoever is active.                            *)
BeginBroadcast(t) ==
  /\ t = GameThread
  /\ \E sessions \in SUBSET Started : Begin(t, "test", sessions)
  /\ BuilderPool!Acquire(t, t)
  /\ UNCHANGED <<target, batch, vectors, vectorOf, vectorContent, queueVars, socketVars>>

(* AddSnapshotToPlayerBatch takes a builder and a vector.                    *)
BeginSnapshot(t) ==
  /\ t = GameThread
  /\ \E s \in Started : Begin(t, "copy", {s})
  /\ BuilderPool!Acquire(t, t)
  /\ VectorPool!Acquire(t, t)
  /\ UNCHANGED <<target, batch, queueVars, socketVars>>

(* The login callback finds its session connected, then builds its packet.   *)
BeginAnswer(t) ==
  /\ t \in IoThreads
  /\ \E s \in open : Begin(t, "answer", {s}) /\ target' = [target EXCEPT ![t] = s]
  /\ UNCHANGED <<batch, poolVars, queueVars, socketVars>>

BuildAnswer(t) ==
  /\ stage[t] = "answer"
  /\ BuilderPool!Acquire(t, t)
  /\ stage' = [stage EXCEPT ![t] = "send"]
  /\ UNCHANGED <<todo, target, built, batch, vectors, vectorOf, vectorContent, queueVars,
                 socketVars>>

(* Mutant: IsConnected is not asked.                                         *)
TestNothing(t, s) ==
  /\ stage[t] \in {"test", "flush"}
  /\ s \in todo[t]
  /\ stage' = [stage EXCEPT ![t] = IF @ = "test" THEN "send" ELSE "send batch"]
  /\ target' = [target EXCEPT ![t] = s]
  /\ UNCHANGED <<todo, built, batch, poolVars, queueVars, socketVars>>

(* IsConnected, before Send and in FlushAllBatches.  A batch that cannot be  *)
(* sent is cleared.                                                          *)
TestConnected(t, s) ==
  /\ stage[t] \in {"test", "flush"}
  /\ s \in todo[t]
  /\ IF s \in open
     THEN /\ stage' = [stage EXCEPT ![t] = IF @ = "test" THEN "send" ELSE "send batch"]
          /\ target' = [target EXCEPT ![t] = s]
          /\ UNCHANGED <<todo, batch>>
     ELSE /\ todo' = [todo EXCEPT ![t] = @ \ {s}]
          /\ IF stage[t] = "test" THEN UNCHANGED <<stage, batch>>
             ELSE /\ stage' = [stage EXCEPT ![t] = "idle"]
                  /\ batch' = [batch EXCEPT ![s] = <<>>]
          /\ UNCHANGED target
  /\ UNCHANGED <<built, poolVars, queueVars, socketVars>>

(* The session whose test has passed has been sent to.                       *)
SentTo(t, next) ==
  /\ stage' = [stage EXCEPT ![t] = next]
  /\ todo' = [todo EXCEPT ![t] = @ \ {target[t]}]
  /\ target' = [target EXCEPT ![t] = None]

SendPacket(t) ==
  /\ stage[t] = "send"
  /\ Send(target[t], t, builderContent[builderOf[t]])
  /\ SentTo(t, "test")
  /\ UNCHANGED <<built, batch, poolVars, socketVars>>

(* The wrapper goes out of scope.                                            *)
EndPacket(t) ==
  /\ stage[t] = "test"
  /\ todo[t] = {}
  /\ BuilderPool!Release(t)
  /\ stage' = [stage EXCEPT ![t] = "idle"]
  /\ UNCHANGED <<todo, target, built, batch, vectors, vectorOf, vectorContent, queueVars,
                 socketVars>>

(* AddToPlayerBatch copies the packet; then both wrappers go out of scope.   *)
AddToPlayerBatch(t) ==
  /\ stage[t] = "copy"
  /\ batch' = [s \in Sessions |-> IF s \in todo[t]
                                  THEN batch[s] \o builderContent[builderOf[t]]
                                  ELSE batch[s]]
  /\ BuilderPool!Release(t)
  /\ VectorPool!Release(t)
  /\ stage' = [stage EXCEPT ![t] = "flush"]
  /\ UNCHANGED <<todo, target, built, queueVars, socketVars>>

SendBatch(t) ==
  /\ stage[t] = "send batch"
  /\ Send(target[t], t, batch[target[t]])
  /\ batch' = [batch EXCEPT ![target[t]] = <<>>]
  /\ SentTo(t, "idle")
  /\ UNCHANGED <<built, poolVars, socketVars>>

-----------------------------------------------------------------------------
WriteLoop(s) ==
  \/ TestOpen(s)
  \/ \E t \in Senders : Dequeue(s, t)
  \/ FindEmpty(s)
  \/ WaitEnds(s)
  \/ WriteCompletes(s)

Disconnect(s, l) ==
  \/ Close(s, l)
  \/ \E t \in Senders : Drain(s, l, t)
  \/ Drained(s, l)

BeginPacket(t) == BeginBroadcast(t) \/ BeginSnapshot(t) \/ BeginAnswer(t)

SendLoop(t) ==
  \/ BuildAnswer(t)
  \/ \E s \in Sessions : TestConnected(t, s)
  \/ SendPacket(t)
  \/ EndPacket(t)
  \/ AddToPlayerBatch(t)
  \/ SendBatch(t)

(* Every step but Start and Callback, which happen elsewhere as well.        *)
OutputNext ==
  \/ \E s \in Sessions : WriteLoop(s)
  \/ \E s \in Sessions, l \in Loops : Disconnect(s, l)
  \/ \E t \in Testers : BeginPacket(t) \/ SendLoop(t)

-----------------------------------------------------------------------------
Packets(s) ==
  (UNION {{queue[s][t][i] : i \in 1..Len(queue[s][t])} : t \in Senders})
    \cup {writing[s][i] : i \in 1..Len(writing[s])}

(* A packet that is on its way holds exactly what its sender has built,      *)
(* although builders are shared, given back and reused by other threads      *)
(* while it is sent (MemoryPool, Session::Send, AddToPlayerBatch).           *)
Intact == \A s \in Sessions : \A p \in Packets(s) : p.body = <<p.from>>

(* No builder or vector is handed to two threads, and none is lost           *)
(* (FlatBufferBuilderPool, PlayerStateVectorPool).                           *)
PoolsSound ==
  /\ BuilderPool!Exclusive /\ BuilderPool!Conserved
  /\ VectorPool!Exclusive /\ VectorPool!Conserved

(* What each thread sends to a session reaches the wire in order and without *)
(* a gap, until it stops for good when the session ends (WriteLoop and       *)
(* Disconnect take from the same queue on two threads).                      *)
WireHasNoGaps ==
  [][\A s \in Sessions, t \in Senders :
       written'[s][t] \in {written[s][t], written[s][t] + 1}]_outputVars

(* Packets of t that are written to s or with WriteLoop.                     *)
Taken(s, t) ==
  written[s][t] + IF Len(writing[s]) = 1 /\ writing[s][1].from = t THEN 1 ELSE 0

(* As long as the socket of a session is open, each packet sent to it is on  *)
(* the wire, with WriteLoop or in the queue, and WriteLoop is still there to *)
(* take it (Send, WriteLoop and Disconnect on three threads).                *)
OpenLosesNothing ==
  \A s \in open :
    /\ loop[s]["write"] \in {"test", "dequeue", "wait", "write"}
    /\ \A t \in Senders : sent[s][t] = Taken(s, t) + Len(queue[s][t])

(* A closed session that was drained once keeps at most one packet of each   *)
(* thread that asks IsConnected: the one whose test was passed before the    *)
(* close (Disconnect against Send).                                          *)
HasDrained(s) ==
  \E l \in Loops : loop[s][l] \in {"callback", "drain again", "callback again"}

ResidueBounded ==
  \A s \in Sessions :
    HasDrained(s) => \A t \in Testers : Len(queue[s][t]) <= 1

(* A packet put into the queue of a session is taken out of it: WriteLoop    *)
(* never sleeps over it (the timer of WriteLoop and cancel_one of Send).     *)
QueuesAreEmptied ==
  \A s \in Sessions :
    s \in open ~> s \notin open \/ \A t \in Senders : queue[s][t] = <<>>
=============================================================================
