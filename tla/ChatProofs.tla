----------------------------- MODULE ChatProofs -----------------------------
(***************************************************************************)
(* Proofs about Chat, and with it SessionOutput and MemoryPool, for every  *)
(* number of sessions, threads, packets and builders.                      *)
(***************************************************************************)
EXTENDS Chat, FiniteSetTheorems, TLAPS

-----------------------------------------------------------------------------
(* Type correctness.                                                         *)

(* What a sending thread has in its hands at each stage.                     *)
TaskInv ==
  \A t \in Testers :
    /\ stage[t] \in {"test", "send", "copy"} <=> builderOf[t] # None
    /\ stage[t] \in {"answer", "send", "send batch"} <=> target[t] # None
    /\ stage[t] \in {"copy", "flush", "send batch"} => t = GameThread

(* WriteLoop starts together with ReadLoop.                                  *)
LoopInv == \A s \in Sessions : loop[s]["read"] = "off" => loop[s]["write"] = "off"

TypeInv == TypeOK /\ TaskInv /\ LoopInv

(* The sending threads are senders.                                          *)
LEMMA Threads ==
  /\ GameThread \in Testers
  /\ IoThreads \subseteq Testers
  /\ Testers \subseteq Senders
  /\ ChatThread \in Senders
  /\ None \notin Builders
  /\ None \notin Sessions
  BY OutputAssumption DEF Testers, Senders, Builders

(* A packet put into a queue keeps the types of the queues.                  *)
LEMMA SendTypes ==
  ASSUME QueueTypes, NEW s \in Sessions, NEW t \in Senders, NEW body \in Seq(Senders),
         Send(s, t, body)
  PROVE  QueueTypes'
<1> DEFINE p == [from |-> t, n |-> sent[s][t] + 1, body |-> body]
<1>1. sent[s][t] \in Nat
  BY DEF QueueTypes
<1>2. p \in Packet
  BY <1>1 DEF Packet
<1>3. queue' = [queue EXCEPT ![s][t] = Append(@, p)]
  BY DEF Send, Enqueued
<1> HIDE DEF p
<1>4. queue' \in [Sessions -> [Senders -> Seq(Packet)]]
  BY <1>2, <1>3 DEF QueueTypes
<1>5. sent' \in [Sessions -> [Senders -> Nat]]
  BY <1>1 DEF Send, QueueTypes
<1> QED
  BY <1>4, <1>5 DEF QueueTypes

(* The two pools keep their types.                                           *)
LEMMA BuilderTypes ==
  ASSUME PoolTypes, NEW t \in Testers, BuilderPool!Acquire(t, t) \/ BuilderPool!Release(t)
  PROVE  /\ builders' \in Seq(Builders)
         /\ builderOf' \in [Testers -> Builders \cup {None}]
         /\ builderContent' \in [Builders -> Seq(Senders)]
<1>1. CASE BuilderPool!Acquire(t, t)
  BY <1>1, Threads DEF PoolTypes, BuilderPool!Acquire
<1>2. CASE BuilderPool!Release(t)
  BY <1>2, Threads DEF PoolTypes, BuilderPool!Release
<1> QED
  BY <1>1, <1>2

LEMMA VectorTypes ==
  ASSUME PoolTypes, NEW t, t = GameThread, VectorPool!Acquire(t, t) \/ VectorPool!Release(t)
  PROVE  /\ vectors' \in Seq(Builders)
         /\ vectorOf' \in [{GameThread} -> Builders \cup {None}]
         /\ vectorContent' \in [Builders -> Seq(Senders)]
<1>1. CASE VectorPool!Acquire(t, t)
  BY <1>1, Threads DEF PoolTypes, VectorPool!Acquire
<1>2. CASE VectorPool!Release(t)
  BY <1>2, Threads DEF PoolTypes, VectorPool!Release
<1> QED
  BY <1>1, <1>2

(* What a step leaves alone keeps its types.                                 *)
LEMMA Frames ==
  /\ QueueTypes /\ UNCHANGED queueVars => QueueTypes'
  /\ SocketTypes /\ UNCHANGED <<open, loop, written>> => SocketTypes'
  /\ WritingTypes /\ UNCHANGED <<loop, writing>> => WritingTypes'
  /\ TaskTypes /\ UNCHANGED taskVars => TaskTypes'
  /\ PoolTypes /\ UNCHANGED poolVars => PoolTypes'
  /\ ChatTypes /\ UNCHANGED <<tableVars, redisVars>> => ChatTypes'
  /\ TaskInv /\ UNCHANGED <<stage, target, builderOf>> => TaskInv'
  BY DEF QueueTypes, SocketTypes, WritingTypes, TaskTypes, PoolTypes, ChatTypes, TaskInv,
     queueVars, taskVars, poolVars, tableVars, redisVars

(* A step of the coroutines of s leaves the packets of other sessions alone. *)
LEMMA WritingFrame ==
  ASSUME WritingTypes, NEW s \in Sessions,
         writing' \in [Sessions -> Seq(Packet)],
         \A r \in Sessions : r # s => /\ writing'[r] = writing[r]
                                      /\ loop'[r]["write"] = loop[r]["write"],
         IF loop'[s]["write"] \in {"write", "broken"}
         THEN Len(writing'[s]) = 1 ELSE Len(writing'[s]) = 0
  PROVE  WritingTypes'
  BY DEF WritingTypes

LEMMA HasPacket ==
  ASSUME WritingTypes, NEW s \in Sessions
  PROVE  IF loop[s]["write"] \in {"write", "broken"}
         THEN Len(writing[s]) = 1 ELSE Len(writing[s]) = 0
  BY DEF WritingTypes

(* Coroutine k of session s moves on, without taking or losing a packet.     *)
LEMMA LoopMoves ==
  ASSUME SocketTypes, WritingTypes, NEW s \in Sessions, NEW k \in Loops,
         NEW at \in {"dequeue", "done", "wait", "test", "callback", "callback again",
                     "drain again"},
         loop' = [loop EXCEPT ![s][k] = at], loop[s][k] \notin {"write", "broken"},
         UNCHANGED <<open, written, writing>>
  PROVE  SocketTypes' /\ WritingTypes'
<1>1. SocketTypes'
  BY DEF SocketTypes
<1>2. \A r \in Sessions : r # s => loop'[r] = loop[r]
  BY DEF SocketTypes
<1>3. loop'[s]["write"] \in {"write", "broken"} <=> loop[s]["write"] \in {"write", "broken"}
  BY DEF SocketTypes, Loops
<1>4. writing' \in [Sessions -> Seq(Packet)]
  BY DEF WritingTypes
<1> QED
  BY <1>1, <1>2, <1>3, <1>4, HasPacket, WritingFrame

(* The moves of WriteLoop and Disconnect that take no packet.                *)
LEMMA MoveTypes ==
  ASSUME SocketTypes, WritingTypes, NEW s \in Sessions, NEW l \in Loops,
         TestOpen(s) \/ FindEmpty(s) \/ WaitEnds(s) \/ Drained(s, l) \/ Callback(s, l)
  PROVE  SocketTypes' /\ WritingTypes'
<1>1. "write" \in Loops
  BY DEF Loops
<1>2. CASE TestOpen(s)
  BY <1>1, <1>2, LoopMoves DEF TestOpen
<1>3. CASE FindEmpty(s)
  BY <1>1, <1>3, LoopMoves DEF FindEmpty
<1>4. CASE WaitEnds(s)
  BY <1>1, <1>4, LoopMoves DEF WaitEnds
<1>5. CASE Drained(s, l)
  BY <1>5, LoopMoves DEF Drained
<1>6. CASE Callback(s, l)
  BY <1>6, LoopMoves DEF Callback
<1> QED
  BY <1>2, <1>3, <1>4, <1>5, <1>6

LEMMA StartTypes ==
  ASSUME SocketTypes, WritingTypes, NEW s \in Sessions, Start(s),
         loop[s]["write"] \notin {"write", "broken"}
  PROVE  SocketTypes' /\ WritingTypes'
<1> DEFINE begun == [read |-> "run", write |-> "test"]
<1>1. begun \in [Loops -> {"run", "test"}] /\ begun["write"] = "test"
  BY DEF Loops
<1>2. /\ open' = open \cup {s} /\ loop' = [loop EXCEPT ![s] = begun]
      /\ UNCHANGED <<writing, written>>
  BY DEF Start
<1> HIDE DEF begun
<1>3. SocketTypes'
  BY <1>1, <1>2 DEF SocketTypes
<1>4. /\ \A r \in Sessions : r # s => loop'[r] = loop[r]
      /\ loop'[s]["write"] = "test"
  BY <1>1, <1>2 DEF SocketTypes
<1>5. writing' \in [Sessions -> Seq(Packet)]
  BY <1>2 DEF WritingTypes
<1> QED
  BY <1>2, <1>3, <1>4, <1>5, HasPacket, WritingFrame

LEMMA DequeueTypes ==
  ASSUME QueueTypes, SocketTypes, WritingTypes, NEW s \in Sessions, NEW t \in Senders,
         Dequeue(s, t)
  PROVE  QueueTypes' /\ SocketTypes' /\ WritingTypes'
<1>1. queue[s][t] \in Seq(Packet) /\ queue[s][t] # <<>>
  BY DEF QueueTypes, Dequeue
<1>2. QueueTypes'
  BY <1>1 DEF QueueTypes, Dequeue
<1>3. SocketTypes'
  BY DEF SocketTypes, Dequeue, Loops
<1>4. /\ writing' \in [Sessions -> Seq(Packet)]
      /\ Len(writing'[s]) = 1
      /\ \A r \in Sessions : r # s => writing'[r] = writing[r]
  BY <1>1 DEF WritingTypes, Dequeue
<1>5. /\ \A r \in Sessions : r # s => loop'[r] = loop[r]
      /\ loop'[s]["write"] \in {"write", "broken"}
  BY DEF SocketTypes, Dequeue, Loops
<1> QED
  BY <1>2, <1>3, <1>4, <1>5, WritingFrame

LEMMA WriteTypes ==
  ASSUME SocketTypes, WritingTypes, NEW s \in Sessions, WriteCompletes(s)
  PROVE  SocketTypes' /\ WritingTypes'
<1>1. Head(writing[s]) \in Packet
  BY DEF WritingTypes, WriteCompletes
<1>2. Head(writing[s]).from \in Senders /\ Head(writing[s]).n \in Nat
  BY <1>1 DEF Packet
<1>3. SocketTypes'
  BY <1>2 DEF SocketTypes, WriteCompletes, Loops
<1>4. /\ writing' \in [Sessions -> Seq(Packet)]
      /\ Len(writing'[s]) = 0
      /\ \A r \in Sessions : r # s => writing'[r] = writing[r]
  BY DEF WritingTypes, WriteCompletes
<1>5. /\ \A r \in Sessions : r # s => loop'[r] = loop[r]
      /\ loop'[s]["write"] = "test"
  BY DEF SocketTypes, WriteCompletes, Loops
<1> QED
  BY <1>3, <1>4, <1>5, WritingFrame

LEMMA CloseTypes ==
  ASSUME SocketTypes, WritingTypes, NEW s \in Sessions, NEW l \in Loops, Close(s, l)
  PROVE  SocketTypes' /\ WritingTypes'
<1>1. SocketTypes'
  BY DEF SocketTypes, Close, Loops
<1>2. /\ writing' \in [Sessions -> Seq(Packet)]
      /\ l = "write" => Len(writing'[s]) = 0
      /\ l # "write" => writing'[s] = writing[s]
      /\ \A r \in Sessions : r # s => writing'[r] = writing[r]
  BY DEF WritingTypes, Close
<1>3. /\ \A r \in Sessions : r # s => loop'[r] = loop[r]
      /\ l = "write" => loop'[s]["write"] = "drain"
      /\ l # "write" => loop'[s]["write"] = loop[s]["write"]
  BY DEF SocketTypes, Close, Loops
<1> QED
  BY <1>1, <1>2, <1>3, HasPacket, WritingFrame

LEMMA DrainTypes ==
  ASSUME QueueTypes, NEW s \in Sessions, NEW l, NEW t \in Senders, Drain(s, l, t)
  PROVE  QueueTypes'
<1>1. queue[s][t] \in Seq(Packet) /\ queue[s][t] # <<>>
  BY DEF QueueTypes, Drain
<1>2. queue' = [queue EXCEPT ![s][t] = Tail(queue[s][t])] /\ UNCHANGED sent
  BY DEF Drain
<1> QED
  BY <1>1, <1>2 DEF QueueTypes

Stages == {"idle", "answer", "test", "send", "copy", "flush", "send batch"}

(* Thread t moves to another stage.                                          *)
LEMMA StageTypes ==
  ASSUME TaskTypes, NEW t \in Testers, NEW at \in Stages, stage' = [stage EXCEPT ![t] = at],
         todo' \in [Testers -> SUBSET Sessions],
         target' \in [Testers -> Sessions \cup {None}],
         built' \in [Testers -> Nat],
         batch' \in [Sessions -> Seq(Senders)]
  PROVE  /\ TaskTypes'
         /\ stage'[t] = at
         /\ \A q \in Testers : q # t => stage'[q] = stage[q]
<1>1. stage \in [Testers -> Stages]
  BY DEF TaskTypes, Stages
<1>2. stage' \in [Testers -> Stages]
  BY <1>1
<1>3. stage'[t] = at /\ \A q \in Testers : q # t => stage'[q] = stage[q]
  BY <1>1
<1> QED
  BY <1>2, <1>3 DEF TaskTypes, Stages

LEMMA TaskInvStep ==
  ASSUME TaskInv, NEW t \in Testers,
         \A q \in Testers : q # t => /\ stage'[q] = stage[q]
                                     /\ target'[q] = target[q]
                                     /\ builderOf'[q] = builderOf[q],
         stage'[t] \in {"test", "send", "copy"} <=> builderOf'[t] # None,
         stage'[t] \in {"answer", "send", "send batch"} <=> target'[t] # None,
         stage'[t] \in {"copy", "flush", "send batch"} => t = GameThread
  PROVE  TaskInv'
  BY DEF TaskInv

(* The builder that thread t holds.                                          *)
LEMMA Holding ==
  ASSUME PoolTypes, NEW t \in Testers
  PROVE  /\ BuilderPool!Acquire(t, t) \/ BuilderPool!Release(t) =>
              \A q \in Testers : q # t => builderOf'[q] = builderOf[q]
         /\ BuilderPool!Acquire(t, t) => builderOf'[t] # None
         /\ BuilderPool!Release(t) => builderOf'[t] = None
  BY Threads DEF PoolTypes, BuilderPool!Acquire, BuilderPool!Release

LEMMA BeginStep ==
  ASSUME TaskTypes, NEW t \in Testers, NEW at \in {"test", "copy", "answer"},
         NEW sessions \in SUBSET Sessions, Begin(t, at, sessions),
         target' \in [Testers -> Sessions \cup {None}], UNCHANGED batch
  PROVE  /\ TaskTypes'
         /\ stage[t] = "idle" /\ stage'[t] = at
         /\ \A q \in Testers : q # t => stage'[q] = stage[q]
<1>1. todo' \in [Testers -> SUBSET Sessions]
  BY DEF Begin, TaskTypes
<1>2. built' \in [Testers -> Nat]
  <2>1. built \in [Testers -> Nat] /\ built' = [built EXCEPT ![t] = built[t] + 1]
    BY DEF Begin, TaskTypes
  <2>2. built[t] + 1 \in Nat
    BY <2>1
  <2> QED
    BY <2>1, <2>2
<1>3. batch' \in [Sessions -> Seq(Senders)]
  BY DEF TaskTypes
<1>4. at \in Stages /\ stage[t] = "idle" /\ stage' = [stage EXCEPT ![t] = at]
  BY DEF Begin, Stages
<1> QED
  BY <1>1, <1>2, <1>3, <1>4, StageTypes

(* A thread begins a packet.                                                 *)
LEMMA BeginTypes ==
  ASSUME TaskTypes, TaskInv, PoolTypes, SocketTypes, NEW t \in Testers, BeginPacket(t)
  PROVE  TaskTypes' /\ TaskInv' /\ PoolTypes'
<1> USE Threads
<1>0. Started \subseteq Sessions /\ open \subseteq Sessions
      /\ target \in [Testers -> Sessions \cup {None}]
  BY DEF Started, SocketTypes, TaskTypes
<1>1. CASE BeginBroadcast(t)
  <2>1. PICK sessions \in SUBSET Started : Begin(t, "test", sessions)
    BY <1>1 DEF BeginBroadcast
  <2>2. UNCHANGED <<target, batch>> /\ t = GameThread /\ BuilderPool!Acquire(t, t)
    BY <1>1 DEF BeginBroadcast
  <2>3. /\ TaskTypes' /\ stage[t] = "idle" /\ stage'[t] = "test"
        /\ \A q \in Testers : q # t => stage'[q] = stage[q]
    BY <1>0, <2>1, <2>2, BeginStep
  <2>4. PoolTypes'
    BY <1>1, BuilderTypes DEF PoolTypes, BeginBroadcast
  <2>5. target[t] = None
    BY <2>3 DEF TaskInv
  <2> QED
    BY <2>2, <2>3, <2>4, <2>5, Holding, TaskInvStep
<1>2. CASE BeginSnapshot(t)
  <2>1. PICK s \in Started : Begin(t, "copy", {s})
    BY <1>2 DEF BeginSnapshot
  <2>2. UNCHANGED <<target, batch>> /\ t = GameThread /\ BuilderPool!Acquire(t, t)
    BY <1>2 DEF BeginSnapshot
  <2>3. /\ TaskTypes' /\ stage[t] = "idle" /\ stage'[t] = "copy"
        /\ \A q \in Testers : q # t => stage'[q] = stage[q]
    BY <1>0, <2>1, <2>2, BeginStep
  <2>4. PoolTypes'
    BY <1>2, BuilderTypes, VectorTypes DEF PoolTypes, BeginSnapshot
  <2>5. target[t] = None
    BY <2>3 DEF TaskInv
  <2> QED
    BY <2>2, <2>3, <2>4, <2>5, Holding, TaskInvStep
<1>3. CASE BeginAnswer(t)
  <2>1. PICK s \in open : Begin(t, "answer", {s}) /\ target' = [target EXCEPT ![t] = s]
    BY <1>3 DEF BeginAnswer
  <2>2. UNCHANGED <<batch, builderOf>>
    BY <1>3 DEF BeginAnswer, poolVars
  <2>3. /\ target' \in [Testers -> Sessions \cup {None}]
        /\ target'[t] # None /\ \A q \in Testers : q # t => target'[q] = target[q]
    BY <1>0, <2>1
  <2>4. /\ TaskTypes' /\ stage[t] = "idle" /\ stage'[t] = "answer"
        /\ \A q \in Testers : q # t => stage'[q] = stage[q]
    BY <1>0, <2>1, <2>2, <2>3, BeginStep
  <2>5. PoolTypes'
    BY <1>3, Frames DEF BeginAnswer
  <2>6. builderOf[t] = None
    BY <2>4 DEF TaskInv
  <2> QED
    BY <2>2, <2>3, <2>4, <2>5, <2>6, TaskInvStep
<1> QED
  BY <1>1, <1>2, <1>3 DEF BeginPacket

(* A thread goes on with its packet.                                         *)
LEMMA SendLoopTypes ==
  ASSUME TaskTypes, TaskInv, PoolTypes, QueueTypes, NEW t \in Testers, SendLoop(t)
  PROVE  TaskTypes' /\ TaskInv' /\ PoolTypes' /\ QueueTypes'
<1> USE Threads
<1>0. /\ todo \in [Testers -> SUBSET Sessions]
      /\ target \in [Testers -> Sessions \cup {None}]
      /\ built \in [Testers -> Nat]
      /\ batch \in [Sessions -> Seq(Senders)]
  BY DEF TaskTypes
<1>1. CASE BuildAnswer(t)
  <2>1. /\ stage[t] = "answer" /\ stage' = [stage EXCEPT ![t] = "send"]
        /\ UNCHANGED <<todo, target, built, batch>> /\ BuilderPool!Acquire(t, t)
    BY <1>1 DEF BuildAnswer
  <2>2. /\ TaskTypes' /\ stage'[t] = "send"
        /\ \A q \in Testers : q # t => stage'[q] = stage[q]
    BY <1>0, <2>1, StageTypes DEF Stages
  <2>3. PoolTypes' /\ QueueTypes'
    BY <1>1, BuilderTypes, Frames DEF PoolTypes, BuildAnswer
  <2>4. target[t] # None
    BY <2>1 DEF TaskInv
  <2> QED
    BY <2>1, <2>2, <2>3, <2>4, Holding, TaskInvStep
<1>2. ASSUME NEW s \in Sessions, TestConnected(t, s)
      PROVE  TaskTypes' /\ TaskInv' /\ PoolTypes' /\ QueueTypes'
  <2>0. PoolTypes' /\ QueueTypes' /\ built' = built /\ builderOf' = builderOf
    BY <1>2, Frames DEF TestConnected, poolVars
  <2>1. /\ stage[t] \in {"test", "flush"} /\ target[t] = None
        /\ stage[t] = "test" <=> builderOf[t] # None
        /\ stage[t] = "flush" => t = GameThread
    BY <1>2 DEF TestConnected, TaskInv
  <2>2. CASE s \in open
    <3>1. PICK at : /\ at = IF stage[t] = "test" THEN "send" ELSE "send batch"
                    /\ stage' = [stage EXCEPT ![t] = at]
      BY <1>2, <2>2 DEF TestConnected
    <3>2. target' = [target EXCEPT ![t] = s] /\ todo' = todo /\ batch' = batch
      BY <1>2, <2>2 DEF TestConnected
    <3>3. /\ target' \in [Testers -> Sessions \cup {None}]
          /\ target'[t] # None /\ \A q \in Testers : q # t => target'[q] = target[q]
      BY <1>0, <3>2
    <3>4. /\ TaskTypes' /\ stage'[t] = at
          /\ \A q \in Testers : q # t => stage'[q] = stage[q]
      BY <1>0, <2>0, <3>1, <3>2, <3>3, StageTypes DEF Stages
    <3>5. /\ stage'[t] \in {"test", "send", "copy"} <=> builderOf'[t] # None
          /\ stage'[t] \in {"answer", "send", "send batch"} <=> target'[t] # None
          /\ stage'[t] \in {"copy", "flush", "send batch"} => t = GameThread
      <4>1. CASE stage[t] = "test"
        <5>1. stage'[t] = "send"
          BY <3>1, <3>4, <4>1
        <5>2. builderOf'[t] # None
          BY <2>0, <2>1, <4>1
        <5>3. target'[t] # None
          BY <2>1, <3>3
        <5>4. "send" \in {"copy", "flush", "send batch"} => t = GameThread
          BY <2>1, <4>1
        <5> QED
          BY <5>1, <5>2, <5>3, <5>4
      <4>2. CASE stage[t] = "flush"
        <5>1. stage'[t] = "send batch"
          BY <3>1, <3>4, <4>2
        <5>2. builderOf'[t] = None
          BY <2>0, <2>1, <4>2
        <5>3. target'[t] # None
          BY <2>1, <3>3
        <5>4. "send batch" \in {"copy", "flush", "send batch"} => t = GameThread
          BY <2>1, <4>2
        <5> QED
          BY <5>1, <5>2, <5>3, <5>4
      <4> QED
        BY <2>1, <4>1, <4>2
    <3> QED
      BY <2>0, <3>3, <3>4, <3>5, TaskInvStep
  <2>3. CASE s \notin open
    <3>1. PICK at : /\ at = IF stage[t] = "test" THEN "test" ELSE "idle"
                    /\ stage' = [stage EXCEPT ![t] = at]
      <4>1. CASE stage[t] = "test"
        <5>1. stage' = stage /\ stage = [stage EXCEPT ![t] = "test"]
          BY <1>2, <2>3, <4>1 DEF TestConnected, TaskTypes
        <5> QED
          BY <4>1, <5>1
      <4>2. CASE stage[t] # "test"
        BY <1>2, <2>3, <4>2 DEF TestConnected
      <4> QED
        BY <4>1, <4>2
    <3>2. /\ todo' = [todo EXCEPT ![t] = todo[t] \ {s}] /\ target' = target
          /\ batch' = batch \/ batch' = [batch EXCEPT ![s] = <<>>]
      BY <1>2, <2>3 DEF TestConnected
    <3>3. todo' \in [Testers -> SUBSET Sessions]
      BY <1>0, <3>2
    <3>4. batch' \in [Sessions -> Seq(Senders)]
      <4>1. CASE batch' = batch
        BY <1>0, <4>1
      <4>2. CASE batch' = [batch EXCEPT ![s] = <<>>]
        BY <1>0, <4>2
      <4> QED
        BY <3>2, <4>1, <4>2
    <3>5. /\ TaskTypes' /\ stage'[t] = at
          /\ \A q \in Testers : q # t => stage'[q] = stage[q]
      BY <1>0, <2>0, <3>1, <3>2, <3>3, <3>4, StageTypes DEF Stages
    <3>6. /\ stage'[t] \in {"test", "send", "copy"} <=> builderOf'[t] # None
          /\ stage'[t] \in {"answer", "send", "send batch"} <=> target'[t] # None
          /\ stage'[t] \in {"copy", "flush", "send batch"} => t = GameThread
      <4>1. CASE stage[t] = "test"
        <5>1. stage'[t] = "test"
          BY <3>1, <3>5, <4>1
        <5>2. builderOf'[t] # None
          BY <2>0, <2>1, <4>1
        <5>3. target'[t] = None
          BY <2>1, <3>2
        <5>4. "test" \in {"copy", "flush", "send batch"} => t = GameThread
          BY <2>1, <4>1
        <5> QED
          BY <5>1, <5>2, <5>3, <5>4
      <4>2. CASE stage[t] = "flush"
        <5>1. stage'[t] = "idle"
          BY <3>1, <3>5, <4>2
        <5>2. builderOf'[t] = None
          BY <2>0, <2>1, <4>2
        <5>3. target'[t] = None
          BY <2>1, <3>2
        <5>4. "idle" \in {"copy", "flush", "send batch"} => t = GameThread
          BY <2>1, <4>2
        <5> QED
          BY <5>1, <5>2, <5>3, <5>4
      <4> QED
        BY <2>1, <4>1, <4>2
    <3> QED
      BY <2>0, <3>2, <3>5, <3>6, TaskInvStep
  <2> QED
    BY <2>2, <2>3
<1>3. ASSUME NEW next \in {"test", "idle"}, SentTo(t, next), UNCHANGED <<built, poolVars>>,
             batch' \in [Sessions -> Seq(Senders)],
             stage[t] = IF next = "test" THEN "send" ELSE "send batch"
      PROVE  TaskTypes' /\ TaskInv' /\ PoolTypes'
  <2>1. /\ stage' = [stage EXCEPT ![t] = next]
        /\ todo' = [todo EXCEPT ![t] = todo[t] \ {target[t]}]
        /\ target' = [target EXCEPT ![t] = None]
    BY <1>3 DEF SentTo
  <2>2. /\ todo' \in [Testers -> SUBSET Sessions]
        /\ target' \in [Testers -> Sessions \cup {None}]
        /\ target'[t] = None /\ \A q \in Testers : q # t => target'[q] = target[q]
    BY <1>0, <2>1
  <2>3. /\ TaskTypes' /\ stage'[t] = next
        /\ \A q \in Testers : q # t => stage'[q] = stage[q]
    BY <1>0, <1>3, <2>1, <2>2, StageTypes DEF Stages
  <2>4. UNCHANGED builderOf /\ (next = "test" <=> builderOf[t] # None)
    BY <1>3 DEF poolVars, TaskInv
  <2> QED
    BY <1>3, <2>2, <2>3, <2>4, TaskInvStep, Frames
<1>4. CASE SendPacket(t)
  <2>1. target[t] \in Sessions /\ builderContent[builderOf[t]] \in Seq(Senders)
    BY <1>4 DEF SendPacket, TaskInv, TaskTypes, PoolTypes
  <2>2. QueueTypes'
    BY <1>4, <2>1, SendTypes DEF SendPacket
  <2> QED
    BY <1>0, <1>3, <1>4, <2>2 DEF SendPacket
<1>5. CASE SendBatch(t)
  <2>1. target[t] \in Sessions /\ batch[target[t]] \in Seq(Senders)
    BY <1>0, <1>5 DEF SendBatch, TaskInv
  <2>2. QueueTypes'
    BY <1>5, <2>1, SendTypes DEF SendBatch
  <2>3. batch' \in [Sessions -> Seq(Senders)]
    <3>1. batch' = [batch EXCEPT ![target[t]] = <<>>]
      BY <1>5 DEF SendBatch
    <3>2. <<>> \in Seq(Senders)
      OBVIOUS
    <3> QED
      BY <1>0, <2>1, <3>1, <3>2
  <2> QED
    BY <1>3, <1>5, <2>2, <2>3 DEF SendBatch
<1>6. CASE EndPacket(t)
  <2>1. /\ stage[t] = "test" /\ stage' = [stage EXCEPT ![t] = "idle"]
        /\ UNCHANGED <<todo, target, built, batch>> /\ BuilderPool!Release(t)
    BY <1>6 DEF EndPacket
  <2>2. /\ TaskTypes' /\ stage'[t] = "idle"
        /\ \A q \in Testers : q # t => stage'[q] = stage[q]
    BY <1>0, <2>1, StageTypes DEF Stages
  <2>3. PoolTypes' /\ QueueTypes'
    BY <1>6, BuilderTypes, Frames DEF PoolTypes, EndPacket
  <2>4. target[t] = None
    BY <2>1 DEF TaskInv
  <2> QED
    BY <2>1, <2>2, <2>3, <2>4, Holding, TaskInvStep
<1>7. CASE AddToPlayerBatch(t)
  <2>1. /\ stage[t] = "copy" /\ stage' = [stage EXCEPT ![t] = "flush"]
        /\ UNCHANGED <<todo, target, built>> /\ BuilderPool!Release(t)
    BY <1>7 DEF AddToPlayerBatch
  <2>2. target[t] = None /\ t = GameThread /\ builderContent[builderOf[t]] \in Seq(Senders)
    BY <2>1 DEF TaskInv, PoolTypes
  <2>3. batch' \in [Sessions -> Seq(Senders)]
    BY <1>0, <1>7, <2>2 DEF AddToPlayerBatch
  <2>4. /\ TaskTypes' /\ stage'[t] = "flush"
        /\ \A q \in Testers : q # t => stage'[q] = stage[q]
    BY <1>0, <2>1, <2>3, StageTypes DEF Stages
  <2>5. PoolTypes' /\ QueueTypes'
    BY <1>7, <2>2, BuilderTypes, VectorTypes, Frames DEF PoolTypes, AddToPlayerBatch
  <2> QED
    BY <2>1, <2>2, <2>4, <2>5, Holding, TaskInvStep
<1> QED
  BY <1>1, <1>2, <1>4, <1>5, <1>6, <1>7 DEF SendLoop

(* What steps that are not Start do to the places of the coroutines: none    *)
(* goes back to the begin, and only one coroutine of one session moves.      *)
LEMMA LoopInvStep ==
  ASSUME LoopInv, SocketTypes, NEW s \in Sessions, NEW k \in Loops,
         NEW at \in {"test", "dequeue", "wait", "write", "broken", "drain", "callback",
                     "drain again", "callback again", "done"},
         loop[s][k] # "off", loop' = [loop EXCEPT ![s][k] = at]
  PROVE  LoopInv'
<1> SUFFICES ASSUME NEW r \in Sessions, loop'[r]["read"] = "off"
             PROVE  loop'[r]["write"] = "off"
  BY DEF LoopInv
<1>1. CASE r # s
  BY <1>1 DEF LoopInv, SocketTypes
<1>2. CASE r = s
  BY <1>2 DEF LoopInv, SocketTypes, Loops
<1> QED
  BY <1>1, <1>2

LEMMA CoroutineMoves ==
  ASSUME LoopInv, SocketTypes, NEW s \in Sessions, NEW k \in Loops,
         \/ WriteLoop(s)
         \/ Disconnect(s, k)
         \/ Callback(s, k)
  PROVE  LoopInv'
<1>1. "write" \in Loops
  BY DEF Loops
<1>2. CASE TestOpen(s)
  BY <1>1, <1>2, LoopInvStep DEF TestOpen
<1>3. ASSUME NEW t \in Senders, Dequeue(s, t)
      PROVE  LoopInv'
  BY <1>1, <1>3, LoopInvStep DEF Dequeue
<1>4. CASE FindEmpty(s)
  BY <1>1, <1>4, LoopInvStep DEF FindEmpty
<1>5. CASE WaitEnds(s)
  BY <1>1, <1>5, LoopInvStep DEF WaitEnds
<1>6. CASE WriteCompletes(s)
  BY <1>1, <1>6, LoopInvStep DEF WriteCompletes
<1>7. CASE Close(s, k)
  BY <1>7, LoopInvStep DEF Close, Fails
<1>8. ASSUME NEW t \in Senders, Drain(s, k, t)
      PROVE  LoopInv'
  BY <1>8 DEF Drain, LoopInv, socketVars
<1>9. CASE Drained(s, k)
  BY <1>9, LoopInvStep DEF Drained
<1>10. CASE Callback(s, k)
  BY <1>10, LoopInvStep DEF Callback
<1> QED
  BY <1>2, <1>3, <1>4, <1>5, <1>6, <1>7, <1>8, <1>9, <1>10 DEF WriteLoop, Disconnect

(* A step of a coroutine keeps every type.                                   *)
LEMMA CoroutineTypes ==
  ASSUME QueueTypes, SocketTypes, WritingTypes, TaskTypes, PoolTypes,
         NEW s \in Sessions, NEW k \in Loops,
         \/ WriteLoop(s)
         \/ Disconnect(s, k)
         \/ Callback(s, k)
  PROVE  /\ QueueTypes' /\ SocketTypes' /\ WritingTypes' /\ TaskTypes' /\ PoolTypes'
         /\ UNCHANGED <<stage, target, builderOf>>
<1>1. UNCHANGED <<taskVars, poolVars>>
  BY DEF WriteLoop, Disconnect, TestOpen, Dequeue, FindEmpty, WaitEnds, WriteCompletes,
     Close, Drain, Drained, Callback
<1>2. TaskTypes' /\ PoolTypes' /\ UNCHANGED <<stage, target, builderOf>>
  BY <1>1, Frames DEF taskVars, poolVars
<1>3. QueueTypes' /\ SocketTypes' /\ WritingTypes'
  <2>1. CASE TestOpen(s) \/ FindEmpty(s) \/ WaitEnds(s) \/ Drained(s, k) \/ Callback(s, k)
    <3>1. UNCHANGED queueVars
      BY <2>1 DEF TestOpen, FindEmpty, WaitEnds, Drained, Callback
    <3> QED
      BY <2>1, <3>1, MoveTypes, Frames
  <2>2. ASSUME NEW t \in Senders, Dequeue(s, t)
        PROVE  QueueTypes' /\ SocketTypes' /\ WritingTypes'
    BY <2>2, DequeueTypes
  <2>3. CASE WriteCompletes(s)
    BY <2>3, WriteTypes, Frames DEF WriteCompletes
  <2>4. CASE Close(s, k)
    BY <2>4, CloseTypes, Frames DEF Close
  <2>5. ASSUME NEW t \in Senders, Drain(s, k, t)
        PROVE  QueueTypes' /\ SocketTypes' /\ WritingTypes'
    BY <2>5, DrainTypes, Frames DEF Drain, socketVars
  <2> QED
    BY <2>1, <2>2, <2>3, <2>4, <2>5 DEF WriteLoop, Disconnect
<1> QED
  BY <1>2, <1>3

(* A chat message is put into the queue of every session of the table.       *)
LEMMA ChatSendTypes ==
  ASSUME QueueTypes, HandleRedisChatMessage
  PROVE  QueueTypes'
<1>1. ASSUME NEW s \in Sessions
      PROVE  /\ queue'[s] \in [Senders -> Seq(Packet)]
             /\ sent'[s] \in [Senders -> Nat]
  <2> DEFINE p == [from |-> ChatThread, n |-> sent[s][ChatThread] + 1,
                   body |-> <<ChatThread>>]
  <2>1. ChatThread \in Senders /\ sent[s][ChatThread] \in Nat
    BY Threads DEF QueueTypes
  <2>2. p \in Packet
    BY <2>1 DEF Packet
  <2>3. queue'[s] = IF s \in table THEN [queue EXCEPT ![s][ChatThread] = Append(@, p)][s]
                                   ELSE queue[s]
    BY DEF HandleRedisChatMessage, Enqueued
  <2> HIDE DEF p
  <2>4. queue'[s] \in [Senders -> Seq(Packet)]
    BY <2>1, <2>2, <2>3 DEF QueueTypes
  <2>5. sent'[s] \in [Senders -> Nat]
    BY <2>1 DEF QueueTypes, HandleRedisChatMessage
  <2> QED
    BY <2>4, <2>5
<1>2. /\ queue' = [s \in Sessions |-> queue'[s]]
      /\ sent' = [s \in Sessions |-> sent'[s]]
  BY DEF HandleRedisChatMessage
<1> QED
  BY <1>1, <1>2 DEF QueueTypes

(* Initially nothing has been started, sent or taken from a pool.            *)
LEMMA TypeInit ==
  ASSUME Init
  PROVE  TypeInv
<1> USE OutputAssumption DEF Init, OutputInit
<1>1. QueueTypes
  <2>1. <<>> \in Seq(Packet)
    OBVIOUS
  <2>2. [t \in Senders |-> <<>>] \in [Senders -> Seq(Packet)]
    BY <2>1
  <2> QED
    BY <2>2 DEF QueueTypes
<1>2. SocketTypes /\ WritingTypes /\ LoopInv
  <2>1. SocketTypes
    BY DEF SocketTypes
  <2>2. \A s \in Sessions : loop[s]["write"] = "off" /\ writing[s] = <<>>
    BY DEF Loops
  <2>3. writing \in [Sessions -> Seq(Packet)]
    OBVIOUS
  <2> QED
    BY <2>1, <2>2, <2>3 DEF WritingTypes, LoopInv
<1>3. TaskTypes /\ ChatTypes
  BY DEF TaskTypes, ChatTypes
<1>4. PoolTypes
  <2>1. [i \in 1..PoolSize |-> i] \in Seq(Builders)
    BY DEF Builders
  <2>2. /\ [b \in Builders |-> <<>>] \in [Builders -> Seq(Senders)]
        /\ [u \in Testers |-> None] \in [Testers -> Builders \cup {None}]
        /\ [u \in {GameThread} |-> None] \in [{GameThread} -> Builders \cup {None}]
    OBVIOUS
  <2>3. /\ builders = [i \in 1..PoolSize |-> i] /\ vectors = [i \in 1..PoolSize |-> i]
        /\ builderOf = [u \in Testers |-> None] /\ vectorOf = [u \in {GameThread} |-> None]
        /\ builderContent = [b \in Builders |-> <<>>]
        /\ vectorContent = [b \in Builders |-> <<>>]
    BY DEF BuilderPool!PoolInit, VectorPool!PoolInit
  <2> QED
    BY <2>1, <2>2, <2>3 DEF PoolTypes
<1>5. TaskInv
  BY DEF TaskInv, BuilderPool!PoolInit
<1> QED
  BY <1>1, <1>2, <1>3, <1>4, <1>5 DEF TypeInv, TypeOK

(* Every step of the threads and coroutines keeps the types.                 *)
LEMMA OutputTypeStep ==
  ASSUME TypeInv, OutputNext, UNCHANGED <<tableVars, redisVars>>
  PROVE  TypeInv'
<1> USE DEF TypeInv, TypeOK
<1>0. ChatTypes'
  BY Frames
<1>1. ASSUME NEW s \in Sessions, NEW k \in Loops, WriteLoop(s) \/ Disconnect(s, k)
      PROVE  TypeInv'
  BY <1>0, <1>1, CoroutineTypes, CoroutineMoves, Frames
<1>2. ASSUME NEW t \in Testers, BeginPacket(t)
      PROVE  TypeInv'
  <2>1. UNCHANGED <<queueVars, socketVars>>
    BY <1>2 DEF BeginPacket, BeginBroadcast, BeginSnapshot, BeginAnswer
  <2>2. QueueTypes' /\ SocketTypes' /\ WritingTypes' /\ LoopInv'
    BY <2>1, Frames DEF socketVars, LoopInv
  <2> QED
    BY <1>0, <1>2, <2>2, BeginTypes
<1>3. ASSUME NEW t \in Testers, SendLoop(t)
      PROVE  TypeInv'
  <2>1. UNCHANGED socketVars
    BY <1>3 DEF SendLoop, BuildAnswer, TestConnected, SendPacket, EndPacket,
       AddToPlayerBatch, SendBatch
  <2>2. SocketTypes' /\ WritingTypes' /\ LoopInv'
    BY <2>1, Frames DEF socketVars, LoopInv
  <2> QED
    BY <1>0, <1>3, <2>2, SendLoopTypes
<1>4. \E k : k \in Loops
  BY DEF Loops
<1> HIDE DEF TypeInv
<1> QED
  BY <1>1, <1>2, <1>3, <1>4 DEF OutputNext

(* What changes the table or belongs to Redis keeps them as well.            *)
LEMMA TypeStep ==
  ASSUME TypeInv, [Next]_vars
  PROVE  TypeInv'
<1> USE DEF TypeInv, TypeOK
<1>1. CASE OutputNext /\ UNCHANGED <<tableVars, redisVars>>
  BY <1>1, OutputTypeStep
<1>2. ASSUME NEW s \in Sessions, AcceptSession(s)
      PROVE  TypeInv'
  <2>1. Start(s) /\ UNCHANGED <<queueVars, taskVars, poolVars>>
    BY <1>2 DEF AcceptSession, Start
  <2>2. loop[s]["write"] = "off"
    BY <2>1 DEF Start, LoopInv
  <2>3. SocketTypes' /\ WritingTypes'
    BY <2>1, <2>2, StartTypes
  <2>4. LoopInv'
    BY <2>1 DEF Start, LoopInv, SocketTypes
  <2>5. ChatTypes'
    BY <1>2 DEF AcceptSession, ChatTypes, redisVars
  <2> QED
    BY <2>1, <2>3, <2>4, <2>5, Frames DEF taskVars, poolVars
<1>3. ASSUME UNCHANGED outputVars,
             \/ \E s \in Sessions : OnSessionConnected(s)
             \/ Publish \/ DropMalformed \/ RedisFails
             \/ UNCHANGED <<tableVars, redisVars>>
      PROVE  TypeInv'
  <2>1. /\ QueueTypes' /\ SocketTypes' /\ WritingTypes' /\ TaskTypes' /\ PoolTypes'
        /\ TaskInv' /\ LoopInv'
    BY <1>3, Frames DEF outputVars, queueVars, socketVars, taskVars, poolVars, LoopInv
  <2>2. ASSUME NEW s \in Sessions, OnSessionConnected(s)
        PROVE  ChatTypes'
    BY <2>2 DEF OnSessionConnected, ChatTypes, redisVars
  <2>3. ASSUME Publish \/ DropMalformed \/ RedisFails
        PROVE  ChatTypes'
    BY <2>3 DEF Publish, DropMalformed, RedisFails, ChatTypes, tableVars
  <2>4. ASSUME UNCHANGED <<tableVars, redisVars>>
        PROVE  ChatTypes'
    BY <2>4, Frames
  <2> QED
    BY <1>3, <2>1, <2>2, <2>3, <2>4
<1>4. ASSUME NEW s \in Sessions, NEW k \in Loops, OnSessionDisconnected(s, k)
      PROVE  TypeInv'
  <2>1. Callback(s, k)
    BY <1>4 DEF OnSessionDisconnected
  <2>2. ChatTypes'
    BY <1>4 DEF OnSessionDisconnected, ChatTypes, redisVars
  <2> QED
    BY <2>1, <2>2, CoroutineTypes, CoroutineMoves, Frames
<1>5. CASE HandleRedisChatMessage
  <2>1. UNCHANGED <<socketVars, taskVars, poolVars>>
    BY <1>5 DEF HandleRedisChatMessage
  <2>2. ChatTypes'
    BY <1>5 DEF HandleRedisChatMessage, ChatTypes, tableVars
  <2>3. SocketTypes' /\ WritingTypes' /\ TaskTypes' /\ PoolTypes' /\ TaskInv' /\ LoopInv'
    BY <2>1, Frames DEF socketVars, taskVars, poolVars, LoopInv
  <2> QED
    BY <1>5, <2>2, <2>3, ChatSendTypes
<1>6. /\ \A s \in Sessions : OnSessionConnected(s) => UNCHANGED outputVars
      /\ Publish \/ DropMalformed \/ RedisFails => UNCHANGED outputVars
      /\ UNCHANGED vars => UNCHANGED outputVars /\ UNCHANGED <<tableVars, redisVars>>
  BY DEF OnSessionConnected, Publish, DropMalformed, RedisFails, vars
<1> HIDE DEF TypeInv
<1> QED
  BY <1>1, <1>2, <1>3, <1>4, <1>5, <1>6 DEF Next, SubscribeThread

(* Every variable keeps its type; above all WriteLoop holds a packet exactly *)
(* while it writes, so the head it writes exists, and a thread that sends    *)
(* has the builder it sends from and a session to send to.                   *)
THEOREM ChatTypeCorrect == Spec => []TypeOK
<1>1. Spec => []TypeInv
  BY TypeInit, TypeStep, PTL DEF Spec
<1>2. TypeInv => TypeOK
  BY DEF TypeInv
<1> QED
  BY <1>1, <1>2, PTL

-----------------------------------------------------------------------------
(* The table of the ChatManager.                                             *)

Read(s) == loop[s]["read"]

(* The argument for OneStaleEntry: an open socket has a ReadLoop that runs,  *)
(* the accept loop ends only with the callback of the one session it had     *)
(* accepted, and ReadLoop takes its session off the table with its last step.*)
TableInv ==
  /\ acceptor = "ended" => accepting = {}
  /\ \A s \in open : Read(s) = "run"
  /\ \A s \in table : Read(s) = "done" =>
       acceptor = "ended" /\ \A r \in table : Read(r) = "done" => r = s

(* A step that leaves the table alone and ends no ReadLoop.                  *)
LEMMA TableFrame ==
  ASSUME TableInv, table \subseteq Sessions, UNCHANGED tableVars,
         open' \subseteq Sessions,
         \A r \in Sessions : Read(r)' = "done" => Read(r) = "done",
         \A r \in open' : Read(r)' = "run"
  PROVE  TableInv'
  BY DEF TableInv, tableVars

(* The steps of WriteLoop do not move ReadLoop.                              *)
LEMMA WriteLoopApart ==
  ASSUME SocketTypes, NEW s \in Sessions, NEW at,
         loop' = [loop EXCEPT ![s]["write"] = at] \/ loop' = loop
  PROVE  \A r \in Sessions : Read(r)' = Read(r)
  BY DEF SocketTypes, Read, Loops

(* Disconnect in ReadLoop moves only the ReadLoop of its session.            *)
LEMMA ReadLoopMoves ==
  ASSUME SocketTypes, NEW s \in Sessions, NEW at,
         loop' = [loop EXCEPT ![s]["read"] = at]
  PROVE  /\ Read(s)' = at
         /\ \A r \in Sessions : r # s => Read(r)' = Read(r)
  BY DEF SocketTypes, Read, Loops

LEMMA WriteLoopTable ==
  ASSUME SocketTypes, ChatTypes, TableInv, NEW s \in Sessions, WriteLoop(s),
         UNCHANGED tableVars
  PROVE  TableInv'
<1>1. open' = open
  BY DEF WriteLoop, TestOpen, Dequeue, FindEmpty, WaitEnds, WriteCompletes
<1>2. \E at : loop' = [loop EXCEPT ![s]["write"] = at]
  BY DEF WriteLoop, TestOpen, Dequeue, FindEmpty, WaitEnds, WriteCompletes
<1>3. \A r \in Sessions : Read(r)' = Read(r)
  BY <1>2, WriteLoopApart
<1>4. table \subseteq Sessions /\ open \subseteq Sessions /\ \A r \in open : Read(r) = "run"
  BY DEF ChatTypes, SocketTypes, TableInv
<1> QED
  BY <1>1, <1>3, <1>4, TableFrame

LEMMA DisconnectTable ==
  ASSUME SocketTypes, ChatTypes, TableInv, NEW s \in Sessions, NEW k \in Loops,
         Disconnect(s, k), UNCHANGED tableVars
  PROVE  TableInv'
<1>1. table \subseteq Sessions /\ open \subseteq Sessions /\ \A r \in open : Read(r) = "run"
  BY DEF ChatTypes, SocketTypes, TableInv
<1>2. CASE Close(s, k)
  <2>1. open' = open \ {s} /\ loop' = [loop EXCEPT ![s][k] = "drain"]
    BY <1>2 DEF Close
  <2>2. CASE k = "read"
    <3>1. Read(s)' = "drain" /\ \A r \in Sessions : r # s => Read(r)' = Read(r)
      BY <2>1, <2>2, ReadLoopMoves
    <3> QED
      BY <1>1, <2>1, <3>1, TableFrame
  <2>3. CASE k = "write"
    <3>1. \A r \in Sessions : Read(r)' = Read(r)
      BY <2>1, <2>3, WriteLoopApart
    <3> QED
      BY <1>1, <2>1, <3>1, TableFrame
  <2> QED
    BY <2>2, <2>3 DEF Loops
<1>3. ASSUME NEW t \in Senders, Drain(s, k, t)
      PROVE  TableInv'
  <2>1. UNCHANGED <<open, loop>>
    BY <1>3 DEF Drain, socketVars
  <2>2. \A r \in Sessions : Read(r)' = Read(r)
    BY <2>1 DEF Read
  <2> QED
    BY <1>1, <2>1, <2>2, TableFrame
<1>4. CASE Drained(s, k)
  <2>1. /\ open' = open /\ loop[s][k] \in {"drain", "drain again"}
        /\ \E at \in {"callback", "callback again"} : loop' = [loop EXCEPT ![s][k] = at]
    BY <1>4 DEF Drained
  <2>2. CASE k = "read"
    <3>1. /\ Read(s)' \in {"callback", "callback again"}
          /\ \A r \in Sessions : r # s => Read(r)' = Read(r)
      BY <2>1, <2>2, ReadLoopMoves
    <3>2. s \notin open
      BY <1>1, <2>1, <2>2 DEF Read
    <3> QED
      BY <1>1, <2>1, <3>1, <3>2, TableFrame
  <2>3. CASE k = "write"
    <3>1. \A r \in Sessions : Read(r)' = Read(r)
      BY <2>1, <2>3, WriteLoopApart
    <3> QED
      BY <1>1, <2>1, <3>1, TableFrame
  <2> QED
    BY <2>2, <2>3 DEF Loops
<1> QED
  BY <1>2, <1>3, <1>4 DEF Disconnect

(* The callback: whatever the coroutine, the session leaves the table.       *)
LEMMA CallbackTable ==
  ASSUME SocketTypes, ChatTypes, TableInv, NEW s \in Sessions, NEW k \in Loops,
         OnSessionDisconnected(s, k)
  PROVE  TableInv'
<1>1. table \subseteq Sessions /\ open \subseteq Sessions /\ \A r \in open : Read(r) = "run"
  BY DEF ChatTypes, SocketTypes, TableInv
<1>2. /\ open' = open /\ table' = table \ {s} /\ UNCHANGED <<accepting, acceptor>>
      /\ loop[s][k] \in {"callback", "callback again"}
      /\ \E at : loop' = [loop EXCEPT ![s][k] = at]
  BY DEF OnSessionDisconnected, Callback
<1>3. \A r \in Sessions : r # s => Read(r)' = Read(r)
  BY <1>2 DEF SocketTypes, Read
<1>4. \A r \in open : Read(r)' = "run"
  <2>1. CASE k = "read"
    BY <1>1, <1>2, <1>3, <2>1 DEF Read
  <2>2. CASE k = "write"
    BY <1>1, <1>2, <2>2, WriteLoopApart
  <2> QED
    BY <2>1, <2>2 DEF Loops
<1> QED
  BY <1>1, <1>2, <1>3, <1>4 DEF TableInv

LEMMA TableStep ==
  ASSUME TypeOK, TableInv, [Next]_vars
  PROVE  TableInv'
<1>0. SocketTypes /\ ChatTypes
  BY DEF TypeOK
<1>1. table \subseteq Sessions /\ open \subseteq Sessions /\ \A r \in open : Read(r) = "run"
  BY <1>0 DEF ChatTypes, SocketTypes, TableInv
<1>2. ASSUME UNCHANGED <<open, loop, tableVars>>
      PROVE  TableInv'
  BY <1>2 DEF TableInv, tableVars, Read
<1>3. CASE OutputNext /\ UNCHANGED <<tableVars, redisVars>>
  <2>1. ASSUME NEW t \in Testers, BeginPacket(t) \/ SendLoop(t)
        PROVE  UNCHANGED <<open, loop>>
    BY <2>1 DEF BeginPacket, BeginBroadcast, BeginSnapshot, BeginAnswer, SendLoop,
       BuildAnswer, TestConnected, SendPacket, EndPacket, AddToPlayerBatch, SendBatch,
       socketVars
  <2> QED
    BY <1>0, <1>2, <1>3, <2>1, WriteLoopTable, DisconnectTable DEF OutputNext
<1>4. ASSUME NEW s \in Sessions, AcceptSession(s)
      PROVE  TableInv'
  <2>1. /\ acceptor = "listening" /\ UNCHANGED <<acceptor, table>>
        /\ open' = open \cup {s}
        /\ loop' = [loop EXCEPT ![s] = [read |-> "run", write |-> "test"]]
    BY <1>4 DEF AcceptSession, Start
  <2>2. Read(s)' = "run" /\ \A r \in Sessions : r # s => Read(r)' = Read(r)
    BY <1>0, <2>1 DEF SocketTypes, Read
  <2> QED
    BY <1>1, <2>1, <2>2 DEF TableInv
<1>5. ASSUME NEW s \in Sessions, OnSessionConnected(s)
      PROVE  TableInv'
  <2>1. /\ s \in accepting /\ accepting' = {} /\ table' = table \cup {s}
        /\ acceptor' = "ended" \/ (s \in open /\ acceptor' = acceptor)
        /\ UNCHANGED <<open, loop>>
    BY <1>5 DEF OnSessionConnected, outputVars, socketVars
  <2>2. \A r \in Sessions : Read(r)' = Read(r)
    BY <2>1 DEF Read
  <2>3. \A r \in table : Read(r) # "done"
    BY <1>0, <2>1 DEF TableInv, ChatTypes
  <2>4. s \in open => Read(s) = "run"
    BY <1>1
  <2> QED
    BY <1>1, <2>1, <2>2, <2>3, <2>4 DEF TableInv
<1>6. ASSUME NEW s \in Sessions, NEW k \in Loops, OnSessionDisconnected(s, k)
      PROVE  TableInv'
  BY <1>0, <1>6, CallbackTable
<1>7. CASE Publish \/ SubscribeThread \/ RedisFails \/ UNCHANGED vars
  <2>1. UNCHANGED <<open, loop, tableVars>>
    BY <1>7 DEF Publish, SubscribeThread, HandleRedisChatMessage, DropMalformed, RedisFails,
       vars, outputVars, socketVars
  <2> QED
    BY <1>2, <2>1
<1> QED
  BY <1>3, <1>4, <1>5, <1>6, <1>7 DEF Next

(* The table of the ChatManager never keeps more than one session that has   *)
(* ended, and keeps that one only after the accept loop has ended            *)
(* (ChatManager::OnSessionConnected, OnSessionDisconnected).                 *)
THEOREM OneStaleSession == Spec => []OneStaleEntry
<1>1. Init => TypeInv /\ TableInv
  BY TypeInit DEF Init, OutputInit, TableInv
<1>2. TypeInv /\ TableInv /\ [Next]_vars => (TypeInv /\ TableInv)'
  BY TypeStep, TableStep DEF TypeInv
<1>3. TypeInv /\ TableInv => OneStaleEntry
  BY DEF TableInv, OneStaleEntry, Ended, Read
<1> QED
  BY <1>1, <1>2, <1>3, PTL DEF Spec

-----------------------------------------------------------------------------
(* The pools.  Sound states the two properties of a pool for the queue av of *)
(* its available objects and for what each thread of U holds.                *)
Holders(h, U) == {u \in U : h[u] # None}

Sound(av, h, U) ==
  /\ \A i, j \in 1..Len(av) : av[i] = av[j] => i = j
  /\ \A u, v \in U : h[u] = h[v] /\ h[u] # None => u = v
  /\ \A i \in 1..Len(av) : \A u \in U : av[i] # h[u]
  /\ Len(av) <= PoolSize
  /\ PoolSize <= Len(av) + Cardinality(Holders(h, U))

(* One thread more, or one fewer, holds an object.                           *)
LEMMA HoldersCount ==
  ASSUME NEW U, IsFiniteSet(U), NEW h \in [U -> Builders \cup {None}], NEW u \in U,
         NEW o \in Builders \cup {None}
  PROVE  /\ Cardinality(Holders(h, U)) \in Nat
         /\ h[u] = None /\ o # None => Cardinality(Holders([h EXCEPT ![u] = o], U))
                                         = Cardinality(Holders(h, U)) + 1
         /\ h[u] # None /\ o = None => Cardinality(Holders([h EXCEPT ![u] = o], U))
                                         = Cardinality(Holders(h, U)) - 1
<1>1. IsFiniteSet(Holders(h, U))
  BY FS_Subset DEF Holders
<1>2. ASSUME h[u] = None, o # None
      PROVE  Cardinality(Holders([h EXCEPT ![u] = o], U)) = Cardinality(Holders(h, U)) + 1
  <2>1. Holders([h EXCEPT ![u] = o], U) = Holders(h, U) \cup {u} /\ u \notin Holders(h, U)
    BY <1>2 DEF Holders
  <2> QED
    BY <1>1, <2>1, FS_AddElement
<1>3. ASSUME h[u] # None, o = None
      PROVE  Cardinality(Holders([h EXCEPT ![u] = o], U)) = Cardinality(Holders(h, U)) - 1
  <2>1. Holders([h EXCEPT ![u] = o], U) = Holders(h, U) \ {u} /\ u \in Holders(h, U)
    BY <1>3 DEF Holders
  <2> QED
    BY <1>1, <2>1, FS_RemoveElement
<1> QED
  BY <1>1, <1>2, <1>3, FS_CardinalityType

(* Acquire, from the queue and with a new object, and Release.               *)
LEMMA TakeFront ==
  ASSUME NEW U, IsFiniteSet(U), NEW h \in [U -> Builders \cup {None}], NEW u \in U,
         NEW av \in Seq(Builders), Sound(av, h, U), h[u] = None, av # <<>>
  PROVE  Sound(Tail(av), [h EXCEPT ![u] = Head(av)], U)
<1> DEFINE g == [h EXCEPT ![u] = Head(av)]
<1>1. Len(av) \in Nat /\ Len(av) >= 1 /\ Head(av) = av[1] /\ Head(av) \in Builders
  OBVIOUS
<1>2. Len(Tail(av)) = Len(av) - 1 /\ \A i \in 1..Len(Tail(av)) : Tail(av)[i] = av[i + 1]
  OBVIOUS
<1>3. Cardinality(Holders(h, U)) \in Nat
      /\ Cardinality(Holders(g, U)) = Cardinality(Holders(h, U)) + 1
  BY <1>1, Threads, HoldersCount
<1>4. g[u] = av[1] /\ \A v \in U : v # u => g[v] = h[v]
  BY <1>1
<1> HIDE DEF g
<1>5. \A i, j \in 1..Len(Tail(av)) : Tail(av)[i] = Tail(av)[j] => i = j
  BY <1>1, <1>2 DEF Sound
<1>6. \A v, w \in U : g[v] = g[w] /\ g[v] # None => v = w
  BY <1>1, <1>4 DEF Sound
<1>7. \A i \in 1..Len(Tail(av)) : \A v \in U : Tail(av)[i] # g[v]
  BY <1>1, <1>2, <1>4 DEF Sound
<1>8. /\ Len(Tail(av)) <= PoolSize
      /\ PoolSize <= Len(Tail(av)) + Cardinality(Holders(g, U))
  BY <1>1, <1>2, <1>3, OutputAssumption DEF Sound
<1>9. Sound(Tail(av), g, U)
  BY <1>5, <1>6, <1>7, <1>8 DEF Sound
<1> QED
  BY <1>9 DEF g

LEMMA TakeNew ==
  ASSUME NEW U, IsFiniteSet(U), NEW h \in [U -> Builders \cup {None}], NEW u \in U,
         NEW av \in Seq(Builders), Sound(av, h, U), h[u] = None, av = <<>>,
         NEW o \in Builders, \A v \in U : h[v] # o
  PROVE  Sound(av, [h EXCEPT ![u] = o], U)
<1>1. Len(av) = 0
  OBVIOUS
<1>2. Cardinality(Holders(h, U)) \in Nat
      /\ Cardinality(Holders([h EXCEPT ![u] = o], U)) = Cardinality(Holders(h, U)) + 1
  BY Threads, HoldersCount
<1> QED
  BY <1>1, <1>2, OutputAssumption DEF Sound

LEMMA GiveBack ==
  ASSUME NEW U, IsFiniteSet(U), NEW h \in [U -> Builders \cup {None}], NEW u \in U,
         NEW av \in Seq(Builders), Sound(av, h, U), h[u] # None
  PROVE  Sound(IF Len(av) < PoolSize THEN Append(av, h[u]) ELSE av,
               [h EXCEPT ![u] = None], U)
<1> DEFINE g == [h EXCEPT ![u] = None]
<1>0. Len(av) \in Nat /\ h[u] \in Builders /\ PoolSize \in Nat
      /\ \A i \in 1..Len(av) : av[i] \in Builders
  BY OutputAssumption
<1>1. Cardinality(Holders(h, U)) \in Nat
      /\ Cardinality(Holders(g, U)) = Cardinality(Holders(h, U)) - 1
      /\ Cardinality(Holders(g, U)) \in Nat
  <2>1. g \in [U -> Builders \cup {None}]
    OBVIOUS
  <2> QED
    BY <2>1, HoldersCount
<1>2. g[u] = None /\ \A v \in U : v # u => g[v] = h[v]
  OBVIOUS
<1> HIDE DEF g
<1>3. \A v, w \in U : g[v] = g[w] /\ g[v] # None => v = w
  BY <1>2 DEF Sound
<1>4. \A i \in 1..Len(av) : \A v \in U : av[i] # g[v]
  BY <1>0, <1>2, Threads DEF Sound
<1>5. CASE Len(av) < PoolSize
  <2> DEFINE bv == Append(av, h[u])
  <2>1. /\ Len(bv) = Len(av) + 1 /\ bv[Len(av) + 1] = h[u]
        /\ \A i \in 1..Len(av) : bv[i] = av[i]
    BY <1>0
  <2> HIDE DEF bv
  <2>2. \A i, j \in 1..Len(bv) : bv[i] = bv[j] => i = j
    BY <1>0, <2>1 DEF Sound
  <2>3. \A v \in U : h[u] # g[v]
    BY <1>0, <1>2, Threads DEF Sound
  <2>4. \A i \in 1..Len(bv) : \A v \in U : bv[i] # g[v]
    BY <1>0, <1>4, <2>1, <2>3
  <2>5. Len(bv) <= PoolSize /\ PoolSize <= Len(bv) + Cardinality(Holders(g, U))
    BY <1>0, <1>1, <1>5, <2>1 DEF Sound
  <2>6. Sound(bv, g, U)
    BY <1>3, <2>2, <2>4, <2>5 DEF Sound
  <2> QED
    BY <1>5, <2>6 DEF bv, g
<1>6. CASE ~(Len(av) < PoolSize)
  <2>1. Len(av) <= PoolSize /\ PoolSize <= Len(av) + Cardinality(Holders(g, U))
    BY <1>0, <1>1, <1>6 DEF Sound
  <2>2. Sound(av, g, U)
    BY <1>3, <1>4, <2>1 DEF Sound
  <2> QED
    BY <1>6, <2>2 DEF g
<1> QED
  BY <1>5, <1>6

LEMMA FiniteThreads ==
  IsFiniteSet(Testers) /\ IsFiniteSet({GameThread})
  BY OutputAssumption, FS_Union, FS_Singleton DEF Testers

BuildersSound == Sound(builders, builderOf, Testers)
VectorsSound  == Sound(vectors, vectorOf, {GameThread})

LEMMA SoundPools ==
  ASSUME PoolTypes
  PROVE  BuildersSound /\ VectorsSound => PoolsSound
<1>1. None \notin Builders /\ Len(builders) \in Nat /\ Len(vectors) \in Nat
      /\ (\A i \in 1..Len(builders) : builders[i] \in Builders)
      /\ (\A i \in 1..Len(vectors) : vectors[i] \in Builders)
  BY Threads DEF PoolTypes
<1>2. ASSUME BuildersSound
      PROVE  BuilderPool!Exclusive /\ BuilderPool!Conserved
  <2>1. BuilderPool!Available \cap BuilderPool!Owned = {}
    BY <1>1, <1>2 DEF BuildersSound, Sound, BuilderPool!Available, BuilderPool!Owned
  <2>2. BuilderPool!Exclusive
    BY <1>2, <2>1 DEF BuildersSound, Sound, BuilderPool!Exclusive
  <2>3. {u \in Testers : builderOf[u] # None} = Holders(builderOf, Testers)
    BY DEF Holders
  <2>4. BuilderPool!Conserved
    BY <1>2, <2>3 DEF BuildersSound, Sound, BuilderPool!Conserved,
       BuilderPool!Cardinality, Cardinality
  <2> QED
    BY <2>2, <2>4
<1>3. ASSUME VectorsSound
      PROVE  VectorPool!Exclusive /\ VectorPool!Conserved
  <2>1. VectorPool!Available \cap VectorPool!Owned = {}
    BY <1>1, <1>3 DEF VectorsSound, Sound, VectorPool!Available, VectorPool!Owned
  <2>2. VectorPool!Exclusive
    BY <1>3, <2>1 DEF VectorsSound, Sound, VectorPool!Exclusive
  <2>3. {u \in {GameThread} : vectorOf[u] # None} = Holders(vectorOf, {GameThread})
    BY DEF Holders
  <2>4. VectorPool!Conserved
    BY <1>3, <2>3 DEF VectorsSound, Sound, VectorPool!Conserved,
       VectorPool!Cardinality, Cardinality
  <2> QED
    BY <2>2, <2>4
<1> QED
  BY <1>2, <1>3 DEF PoolsSound

LEMMA BuilderSteps ==
  ASSUME PoolTypes, BuildersSound, NEW t \in Testers,
         BuilderPool!Acquire(t, t) \/ BuilderPool!Release(t)
  PROVE  BuildersSound'
<1>0. builders \in Seq(Builders) /\ builderOf \in [Testers -> Builders \cup {None}]
  BY DEF PoolTypes
<1>1. CASE BuilderPool!Acquire(t, t)
  <2>1. CASE builders = <<>>
    <3>1. PICK o \in Builders \ BuilderPool!Owned : builderOf' = [builderOf EXCEPT ![t] = o]
      BY <1>1, <2>1 DEF BuilderPool!Acquire
    <3>2. \A v \in Testers : builderOf[v] # o
      BY <3>1, Threads DEF BuilderPool!Owned
    <3>3. builderOf[t] = None /\ builders' = builders
      BY <1>1, <2>1 DEF BuilderPool!Acquire
    <3> QED
      BY <1>0, <2>1, <3>1, <3>2, <3>3, FiniteThreads, TakeNew DEF BuildersSound
  <2>2. CASE builders # <<>>
    <3>1. /\ builderOf[t] = None /\ builders' = Tail(builders)
          /\ builderOf' = [builderOf EXCEPT ![t] = Head(builders)]
      BY <1>1, <2>2 DEF BuilderPool!Acquire
    <3> QED
      BY <1>0, <2>2, <3>1, FiniteThreads, TakeFront DEF BuildersSound
  <2> QED
    BY <2>1, <2>2
<1>2. CASE BuilderPool!Release(t)
  BY <1>0, <1>2, FiniteThreads, GiveBack DEF BuildersSound, BuilderPool!Release
<1> QED
  BY <1>1, <1>2

LEMMA VectorSteps ==
  ASSUME PoolTypes, VectorsSound, NEW t, t = GameThread,
         VectorPool!Acquire(t, t) \/ VectorPool!Release(t)
  PROVE  VectorsSound'
<1>0. vectors \in Seq(Builders) /\ vectorOf \in [{GameThread} -> Builders \cup {None}]
      /\ t \in {GameThread}
  BY DEF PoolTypes
<1>1. CASE VectorPool!Acquire(t, t)
  <2>1. CASE vectors = <<>>
    <3>1. PICK o \in Builders \ VectorPool!Owned : vectorOf' = [vectorOf EXCEPT ![t] = o]
      BY <1>1, <2>1 DEF VectorPool!Acquire
    <3>2. \A v \in {GameThread} : vectorOf[v] # o
      BY <3>1, Threads DEF VectorPool!Owned
    <3>3. vectorOf[t] = None /\ vectors' = vectors
      BY <1>1, <2>1 DEF VectorPool!Acquire
    <3> QED
      BY <1>0, <2>1, <3>1, <3>2, <3>3, FiniteThreads, TakeNew DEF VectorsSound
  <2>2. CASE vectors # <<>>
    <3>1. /\ vectorOf[t] = None /\ vectors' = Tail(vectors)
          /\ vectorOf' = [vectorOf EXCEPT ![t] = Head(vectors)]
      BY <1>1, <2>2 DEF VectorPool!Acquire
    <3> QED
      BY <1>0, <2>2, <3>1, FiniteThreads, TakeFront DEF VectorsSound
  <2> QED
    BY <2>1, <2>2
<1>2. CASE VectorPool!Release(t)
  BY <1>0, <1>2, FiniteThreads, GiveBack DEF VectorsSound, VectorPool!Release
<1> QED
  BY <1>1, <1>2

(* Both pools start with PoolSize objects that nobody holds.                 *)
LEMMA SoundInit ==
  ASSUME Init
  PROVE  BuildersSound /\ VectorsSound
<1> DEFINE all == [i \in 1..PoolSize |-> i]
<1>0. PoolSize \in Nat /\ \A i \in 1..PoolSize : i \in Builders
  BY OutputAssumption DEF Builders
<1>1. Len(all) = PoolSize /\ \A i \in 1..PoolSize : all[i] = i
  BY <1>0
<1>2. builders = all /\ vectors = all
  BY DEF Init, OutputInit, BuilderPool!PoolInit, VectorPool!PoolInit
<1>3. /\ builderOf = [u \in Testers |-> None]
      /\ vectorOf = [u \in {GameThread} |-> None]
  BY DEF Init, OutputInit, BuilderPool!PoolInit, VectorPool!PoolInit
<1> HIDE DEF all
<1>4. ASSUME NEW U, NEW h, h = [u \in U |-> None], IsFiniteSet(U)
      PROVE  Sound(all, h, U)
  <2>1. Holders(h, U) = {}
    BY <1>4 DEF Holders
  <2>2. Cardinality(Holders(h, U)) = 0
    BY <2>1, FS_EmptySet
  <2> QED
    BY <1>0, <1>1, <1>4, <2>2, Threads DEF Sound
<1> QED
  BY <1>2, <1>3, <1>4, FiniteThreads DEF BuildersSound, VectorsSound

(* Every other step leaves both pools alone.                                 *)
LEMMA PoolUsers ==
  ASSUME TaskInv, [Next]_vars
  PROVE  \/ UNCHANGED poolVars
         \/ \E t \in Testers :
              /\ BuilderPool!Acquire(t, t) \/ BuilderPool!Release(t)
              /\ \/ UNCHANGED <<vectors, vectorOf, vectorContent>>
                 \/ /\ t = GameThread
                    /\ VectorPool!Acquire(t, t) \/ VectorPool!Release(t)
<1> DEFINE Goal ==
       \/ UNCHANGED poolVars
       \/ \E t \in Testers :
            /\ BuilderPool!Acquire(t, t) \/ BuilderPool!Release(t)
            /\ \/ UNCHANGED <<vectors, vectorOf, vectorContent>>
               \/ /\ t = GameThread
                  /\ VectorPool!Acquire(t, t) \/ VectorPool!Release(t)
<1>1. ASSUME NEW s \in Sessions, NEW k \in Loops,
             \/ WriteLoop(s) \/ Disconnect(s, k)
             \/ AcceptSession(s) \/ OnSessionConnected(s) \/ OnSessionDisconnected(s, k)
      PROVE  UNCHANGED poolVars
  BY <1>1 DEF WriteLoop, Disconnect, TestOpen, Dequeue, FindEmpty, WaitEnds, WriteCompletes,
     Close, Drain, Drained, Callback, AcceptSession, Start, OnSessionConnected,
     OnSessionDisconnected, outputVars
<1>2. ASSUME NEW t \in Testers, BeginPacket(t) \/ SendLoop(t)
      PROVE  Goal
  BY <1>2 DEF BeginPacket, BeginBroadcast, BeginSnapshot, BeginAnswer, SendLoop,
     BuildAnswer, TestConnected, SendPacket, EndPacket, AddToPlayerBatch, SendBatch, TaskInv
<1>3. CASE Publish \/ SubscribeThread \/ RedisFails \/ UNCHANGED vars
  BY <1>3 DEF Publish, SubscribeThread, HandleRedisChatMessage, DropMalformed, RedisFails,
     vars, outputVars
<1>4. \E k : k \in Loops
  BY DEF Loops
<1>5. Goal
  BY <1>1, <1>2, <1>3, <1>4 DEF Next, OutputNext
<1> QED
  BY <1>5

LEMMA SoundStep ==
  ASSUME PoolTypes, TaskInv, BuildersSound, VectorsSound, [Next]_vars
  PROVE  BuildersSound' /\ VectorsSound'
<1>1. CASE UNCHANGED poolVars
  BY <1>1 DEF poolVars, BuildersSound, VectorsSound
<1>2. ASSUME NEW t \in Testers, BuilderPool!Acquire(t, t) \/ BuilderPool!Release(t),
             \/ UNCHANGED <<vectors, vectorOf, vectorContent>>
             \/ t = GameThread /\ (VectorPool!Acquire(t, t) \/ VectorPool!Release(t))
      PROVE  BuildersSound' /\ VectorsSound'
  <2>1. BuildersSound'
    BY <1>2, BuilderSteps
  <2>2. CASE UNCHANGED <<vectors, vectorOf, vectorContent>>
    BY <2>1, <2>2 DEF VectorsSound
  <2>3. CASE t = GameThread /\ (VectorPool!Acquire(t, t) \/ VectorPool!Release(t))
    BY <2>1, <2>3, VectorSteps
  <2> QED
    BY <1>2, <2>2, <2>3
<1> QED
  BY <1>1, <1>2, PoolUsers

(* No builder or vector is ever with two threads, or with a thread and in    *)
(* the pool, and none of the PoolSize objects is lost, whatever the number   *)
(* of threads (FlatBufferBuilderPool, PlayerStateVectorPool).                *)
THEOREM PoolsStaySound == Spec => []PoolsSound
<1> DEFINE Inv == TypeInv /\ BuildersSound /\ VectorsSound
<1>1. Init => Inv
  BY TypeInit, SoundInit
<1>2. Inv /\ [Next]_vars => Inv'
  <2> SUFFICES ASSUME Inv, [Next]_vars
               PROVE  Inv'
    OBVIOUS
  <2>1. TypeInv' /\ PoolTypes /\ TaskInv
    BY TypeStep DEF TypeInv, TypeOK
  <2> QED
    BY <2>1, SoundStep
<1>3. Inv => PoolsSound
  BY SoundPools DEF TypeInv, TypeOK
<1> QED
  BY <1>1, <1>2, <1>3, PTL DEF Spec

-----------------------------------------------------------------------------
(* What the packets hold.                                                    *)

QueuesIntact ==
  \A s \in Sessions : \A t \in Senders : \A i \in 1..Len(queue[s][t]) :
    queue[s][t][i].from = t /\ queue[s][t][i].body = <<t>>

WritingIntact ==
  \A s \in Sessions : \A i \in 1..Len(writing[s]) :
    writing[s][i].body = <<writing[s][i].from>>

(* A builder that is held has what its holder wrote: it is with nobody else. *)
BuildersIntact ==
  \A t \in Testers : builderOf[t] # None => builderContent[builderOf[t]] = <<t>>

(* The one batch there is belongs to the session the game thread is at.      *)
BatchOf(s) == [r \in Sessions |-> IF r = s THEN <<GameThread>> ELSE <<>>]

BatchIntact ==
  /\ stage[GameThread] \in {"flush", "send batch"} =>
       \E s \in Sessions : /\ todo[GameThread] = {s}
                           /\ batch = BatchOf(s)
                           /\ target[GameThread] \in {s, None}
  /\ stage[GameThread] \notin {"flush", "send batch"} => batch = BatchOf(None)
  /\ stage[GameThread] = "copy" =>
       \E s \in Sessions : todo[GameThread] = {s} /\ target[GameThread] = None

ContentInv == QueuesIntact /\ WritingIntact /\ BuildersIntact /\ BatchIntact

LEMMA SendIntact ==
  ASSUME QueueTypes, QueuesIntact, NEW s \in Sessions, NEW t \in Senders, NEW body,
         body = <<t>>, Send(s, t, body)
  PROVE  QueuesIntact'
<1> DEFINE p == [from |-> t, n |-> sent[s][t] + 1, body |-> body]
<1>1. queue' = [queue EXCEPT ![s][t] = Append(@, p)] /\ p.from = t /\ p.body = <<t>>
  BY DEF Send, Enqueued
<1> HIDE DEF p
<1> SUFFICES ASSUME NEW r \in Sessions, NEW u \in Senders, NEW i \in 1..Len(queue'[r][u])
             PROVE  queue'[r][u][i].from = u /\ queue'[r][u][i].body = <<u>>
  BY DEF QueuesIntact
<1>2. CASE r = s /\ u = t
  <2>1. queue[s][t] \in Seq(Packet) /\ queue'[s][t] = Append(queue[s][t], p)
    BY <1>1 DEF QueueTypes
  <2>2. \/ i \in 1..Len(queue[s][t]) /\ queue'[s][t][i] = queue[s][t][i]
        \/ queue'[s][t][i] = p
    BY <1>2, <2>1
  <2> QED
    BY <1>1, <1>2, <2>2 DEF QueuesIntact
<1>3. CASE ~(r = s /\ u = t)
  <2>1. queue'[r][u] = queue[r][u]
    BY <1>1, <1>3 DEF QueueTypes
  <2> QED
    BY <2>1 DEF QueuesIntact
<1> QED
  BY <1>2, <1>3

LEMMA TailAt ==
  ASSUME NEW S, NEW q \in Seq(S), q # <<>>
  PROVE  \A i \in 1..Len(Tail(q)) : i + 1 \in 1..Len(q) /\ Tail(q)[i] = q[i + 1]
  OBVIOUS

(* A packet taken from a queue, by WriteLoop or by Disconnect.               *)
LEMMA TakeIntact ==
  ASSUME QueueTypes, QueuesIntact, NEW s \in Sessions, NEW t \in Senders,
         queue[s][t] # <<>>, queue' = [queue EXCEPT ![s][t] = Tail(@)]
  PROVE  /\ QueuesIntact'
         /\ Head(queue[s][t]).body = <<Head(queue[s][t]).from>>
<1>0. queue[s][t] \in Seq(Packet)
  BY DEF QueueTypes
<1>1. Len(queue[s][t]) \in Nat /\ Len(queue[s][t]) >= 1 /\ Head(queue[s][t]) = queue[s][t][1]
  BY <1>0
<1>2. Head(queue[s][t]).body = <<Head(queue[s][t]).from>>
  BY <1>1 DEF QueuesIntact
<1>3. /\ queue'[s][t] = Tail(queue[s][t])
      /\ \A r \in Sessions : \A u \in Senders :
           ~(r = s /\ u = t) => queue'[r][u] = queue[r][u]
  BY DEF QueueTypes
<1>4. ASSUME NEW r \in Sessions, NEW u \in Senders
      PROVE  \A i \in 1..Len(queue'[r][u]) :
               queue'[r][u][i].from = u /\ queue'[r][u][i].body = <<u>>
  <2>1. CASE r = s /\ u = t
    BY <1>0, <1>3, <2>1, TailAt DEF QueuesIntact
  <2>2. CASE ~(r = s /\ u = t)
    <3>1. queue'[r][u] = queue[r][u]
      BY <1>3, <2>2
    <3> QED
      BY ONLY QueuesIntact, <3>1, r \in Sessions, u \in Senders DEF QueuesIntact
  <2> QED
    BY <2>1, <2>2
<1> QED
  BY <1>2, <1>4 DEF QueuesIntact

LEMMA ChatIntact ==
  ASSUME QueueTypes, QueuesIntact, HandleRedisChatMessage
  PROVE  QueuesIntact'
<1> SUFFICES ASSUME NEW r \in Sessions, NEW u \in Senders, NEW i \in 1..Len(queue'[r][u])
             PROVE  queue'[r][u][i].from = u /\ queue'[r][u][i].body = <<u>>
  BY DEF QueuesIntact
<1> DEFINE p == [from |-> ChatThread, n |-> sent[r][ChatThread] + 1, body |-> <<ChatThread>>]
<1>1. /\ queue'[r] = IF r \in table THEN [queue EXCEPT ![r][ChatThread] = Append(@, p)][r]
                                     ELSE queue[r]
      /\ p.from = ChatThread /\ p.body = <<ChatThread>>
  BY DEF HandleRedisChatMessage, Enqueued
<1> HIDE DEF p
<1>2. CASE r \in table /\ u = ChatThread
  <2>1. queue[r][u] \in Seq(Packet) /\ queue'[r][u] = Append(queue[r][u], p)
    BY <1>1, <1>2 DEF QueueTypes
  <2>2. \/ i \in 1..Len(queue[r][u]) /\ queue'[r][u][i] = queue[r][u][i]
        \/ queue'[r][u][i] = p
    BY <2>1
  <2> QED
    BY <1>1, <1>2, <2>2 DEF QueuesIntact
<1>3. CASE ~(r \in table /\ u = ChatThread)
  <2>1. queue'[r][u] = queue[r][u]
    BY <1>1, <1>3 DEF QueueTypes
  <2> QED
    BY <2>1 DEF QueuesIntact
<1> QED
  BY <1>2, <1>3

(* A builder that a thread takes or gives back is not the one another holds. *)
LEMMA BuildersIntactStep ==
  ASSUME PoolTypes, BuildersSound, BuildersIntact, NEW t \in Testers,
         BuilderPool!Acquire(t, t) \/ BuilderPool!Release(t)
  PROVE  BuildersIntact'
<1>0. /\ builders \in Seq(Builders) /\ builderOf \in [Testers -> Builders \cup {None}]
      /\ builderContent \in [Builders -> Seq(Senders)]
  BY DEF PoolTypes
<1>1. CASE BuilderPool!Acquire(t, t)
  <2>1. PICK o \in Builders : /\ builderOf' = [builderOf EXCEPT ![t] = o]
                              /\ builderContent' = [builderContent EXCEPT ![o] = <<t>>]
                              /\ \A v \in Testers : builderOf[v] # o
    <3>1. CASE builders = <<>>
      BY <1>1, <3>1, Threads DEF BuilderPool!Acquire, BuilderPool!Owned
    <3>2. CASE builders # <<>>
      <4>1. Head(builders) \in Builders /\ Head(builders) = builders[1]
            /\ 1 \in 1..Len(builders)
        BY <1>0, <3>2
      <4>2. \A v \in Testers : builderOf[v] # Head(builders)
        BY <4>1 DEF BuildersSound, Sound
      <4> QED
        BY <1>1, <3>2, <4>1, <4>2 DEF BuilderPool!Acquire
    <3> QED
      BY <3>1, <3>2
  <2> QED
    BY <1>0, <2>1 DEF BuildersIntact
<1>2. CASE BuilderPool!Release(t)
  <2>1. /\ builderOf[t] # None /\ builderOf' = [builderOf EXCEPT ![t] = None]
        /\ builderContent' = [builderContent EXCEPT ![builderOf[t]] = <<>>]
    BY <1>2 DEF BuilderPool!Release
  <2>2. \A v \in Testers : v # t => builderOf[v] # builderOf[t]
    BY <2>1 DEF BuildersSound, Sound
  <2> QED
    BY <1>0, <2>1, <2>2 DEF BuildersIntact
<1> QED
  BY <1>1, <1>2

LEMMA BatchFrame ==
  ASSUME BatchIntact, stage'[GameThread] = stage[GameThread],
         todo'[GameThread] = todo[GameThread], target'[GameThread] = target[GameThread],
         batch' = batch
  PROVE  BatchIntact'
  BY DEF BatchIntact, BatchOf

(* The steps of the login callbacks have nothing to do with the batches.     *)
LEMMA OtherBatches ==
  ASSUME TaskTypes, TaskInv, BatchIntact, NEW t \in Testers, t # GameThread,
         BeginPacket(t) \/ SendLoop(t)
  PROVE  BatchIntact'
<1> USE Threads
<1>0. /\ stage[t] \notin {"copy", "flush", "send batch"}
      /\ todo \in [Testers -> SUBSET Sessions]
      /\ target \in [Testers -> Sessions \cup {None}]
      /\ stage \in [Testers -> Stages]
  BY DEF TaskInv, TaskTypes, Stages
<1>1. /\ ~BeginBroadcast(t) /\ ~BeginSnapshot(t)
      /\ ~AddToPlayerBatch(t) /\ ~SendBatch(t)
  BY <1>0 DEF BeginBroadcast, BeginSnapshot, AddToPlayerBatch, SendBatch
<1>2. CASE BeginAnswer(t)
  BY <1>0, <1>2, BatchFrame DEF BeginAnswer, Begin
<1>3. CASE BuildAnswer(t)
  BY <1>0, <1>3, BatchFrame DEF BuildAnswer
<1>4. ASSUME NEW s \in Sessions, TestConnected(t, s)
      PROVE  BatchIntact'
  <2>1. stage[t] = "test"
    BY <1>0, <1>4 DEF TestConnected
  <2>2. /\ batch' = batch
        /\ stage' = stage \/ stage' = [stage EXCEPT ![t] = "send"]
        /\ target' = target \/ target' = [target EXCEPT ![t] = s]
        /\ todo' = todo \/ todo' = [todo EXCEPT ![t] = todo[t] \ {s}]
    BY <1>4, <2>1 DEF TestConnected
  <2> QED
    BY <1>0, <2>2, BatchFrame
<1>5. CASE SendPacket(t)
  BY <1>0, <1>5, BatchFrame DEF SendPacket, SentTo
<1>6. CASE EndPacket(t)
  BY <1>0, <1>6, BatchFrame DEF EndPacket
<1> QED
  BY <1>1, <1>2, <1>3, <1>4, <1>5, <1>6 DEF BeginPacket, SendLoop

(* The game thread fills the batch of one session and empties it again.      *)
LEMMA GameBatches ==
  ASSUME TaskTypes, TaskInv, BuildersIntact, BatchIntact, NEW t, t = GameThread,
         BeginPacket(t) \/ SendLoop(t)
  PROVE  BatchIntact'
<1> USE Threads
<1>0. /\ t \in Testers
      /\ todo \in [Testers -> SUBSET Sessions]
      /\ target \in [Testers -> Sessions \cup {None}]
      /\ stage \in [Testers -> Stages]
      /\ ~BeginAnswer(t)
  BY OutputAssumption DEF TaskTypes, Stages, BeginAnswer
<1>1. ASSUME NEW at \in {"idle", "test", "send"}, stage' = [stage EXCEPT ![t] = at],
             batch' = batch, stage[t] \notin {"flush", "send batch"}
      PROVE  BatchIntact'
  <2>1. stage'[t] = at /\ batch' = BatchOf(None)
    BY <1>0, <1>1 DEF BatchIntact
  <2> QED
    BY <2>1 DEF BatchIntact, BatchOf
<1>2. CASE BeginBroadcast(t)
  <2>1. stage' = [stage EXCEPT ![t] = "test"] /\ batch' = batch /\ stage[t] = "idle"
    BY <1>2 DEF BeginBroadcast, Begin
  <2> QED
    BY <1>1, <2>1
<1>3. CASE BeginSnapshot(t)
  <2>1. PICK s \in Sessions : Begin(t, "copy", {s})
    BY <1>3 DEF BeginSnapshot, Started
  <2>2. stage[t] = "idle" /\ batch' = batch /\ target' = target
        /\ stage' = [stage EXCEPT ![t] = "copy"] /\ todo' = [todo EXCEPT ![t] = {s}]
    BY <1>3, <2>1 DEF BeginSnapshot, Begin
  <2>3. target[t] = None /\ batch = BatchOf(None)
    BY <1>0, <2>2 DEF TaskInv, BatchIntact
  <2>4. stage'[t] = "copy" /\ todo'[t] = {s} /\ target'[t] = None /\ batch' = BatchOf(None)
    BY <1>0, <2>2, <2>3
  <2> QED
    BY <2>4 DEF BatchIntact, BatchOf
<1>4. CASE BuildAnswer(t)
  <2>1. stage' = [stage EXCEPT ![t] = "send"] /\ batch' = batch /\ stage[t] = "answer"
    BY <1>4 DEF BuildAnswer
  <2> QED
    BY <1>1, <2>1
<1>5. ASSUME NEW s \in Sessions, TestConnected(t, s)
      PROVE  BatchIntact'
  <2>1. CASE stage[t] = "test"
    <3>1. /\ batch' = batch
          /\ stage' = stage \/ stage' = [stage EXCEPT ![t] = "send"]
      BY <1>5, <2>1 DEF TestConnected
    <3>2. batch = BatchOf(None) /\ stage'[t] \in {"test", "send"}
      BY <1>0, <2>1, <3>1 DEF BatchIntact
    <3> QED
      BY <3>1, <3>2 DEF BatchIntact, BatchOf
  <2>2. CASE stage[t] = "flush"
    <3>1. PICK r \in Sessions : todo[t] = {r} /\ batch = BatchOf(r)
      BY <2>2 DEF BatchIntact
    <3>2. s = r
      BY <1>5, <3>1 DEF TestConnected
    <3>3. CASE s \in open
      <4>1. /\ stage' = [stage EXCEPT ![t] = "send batch"] /\ batch' = batch
            /\ target' = [target EXCEPT ![t] = s] /\ todo' = todo
        BY <1>5, <2>2, <3>3 DEF TestConnected
      <4>2. stage'[t] = "send batch" /\ target'[t] = s /\ todo'[t] = {s}
            /\ batch' = BatchOf(s)
        BY <1>0, <3>1, <3>2, <4>1
      <4> QED
        BY <4>2 DEF BatchIntact, BatchOf
    <3>4. CASE s \notin open
      <4>1. stage' = [stage EXCEPT ![t] = "idle"] /\ batch' = [batch EXCEPT ![s] = <<>>]
        BY <1>5, <2>2, <3>4 DEF TestConnected
      <4>2. stage'[t] = "idle" /\ batch' = BatchOf(None)
        BY <1>0, <3>1, <3>2, <4>1 DEF BatchOf
      <4> QED
        BY <4>2 DEF BatchIntact, BatchOf
    <3> QED
      BY <3>3, <3>4
  <2> QED
    BY <1>5, <2>1, <2>2 DEF TestConnected
<1>6. CASE SendPacket(t)
  <2>1. stage' = [stage EXCEPT ![t] = "test"] /\ batch' = batch /\ stage[t] = "send"
    BY <1>6 DEF SendPacket, SentTo
  <2> QED
    BY <1>1, <2>1
<1>7. CASE EndPacket(t)
  <2>1. stage' = [stage EXCEPT ![t] = "idle"] /\ batch' = batch /\ stage[t] = "test"
    BY <1>7 DEF EndPacket
  <2> QED
    BY <1>1, <2>1
<1>8. CASE AddToPlayerBatch(t)
  <2>1. /\ stage[t] = "copy" /\ stage' = [stage EXCEPT ![t] = "flush"]
        /\ UNCHANGED <<todo, target>>
        /\ batch' = [s \in Sessions |-> IF s \in todo[t]
                                        THEN batch[s] \o builderContent[builderOf[t]]
                                        ELSE batch[s]]
    BY <1>8 DEF AddToPlayerBatch
  <2>2. PICK s \in Sessions : todo[t] = {s} /\ target[t] = None
    BY <2>1 DEF BatchIntact
  <2>3. builderContent[builderOf[t]] = <<t>>
    BY <1>0, <2>1 DEF BuildersIntact, TaskInv
  <2>4. batch = BatchOf(None)
    BY <2>1 DEF BatchIntact
  <2>5. \A r \in Sessions : batch[r] = <<>>
    BY <2>4 DEF BatchOf
  <2>6. <<>> \o <<t>> = <<t>>
    OBVIOUS
  <2>7. batch' = BatchOf(s)
    BY <2>1, <2>2, <2>3, <2>5, <2>6 DEF BatchOf
  <2>8. stage'[t] = "flush" /\ todo'[t] = {s} /\ target'[t] = None
    BY <1>0, <2>1, <2>2
  <2> QED
    BY <2>7, <2>8 DEF BatchIntact, BatchOf
<1>9. CASE SendBatch(t)
  <2>1. /\ stage[t] = "send batch" /\ stage' = [stage EXCEPT ![t] = "idle"]
        /\ batch' = [batch EXCEPT ![target[t]] = <<>>]
    BY <1>9 DEF SendBatch, SentTo
  <2>2. PICK s \in Sessions : batch = BatchOf(s) /\ target[t] \in {s, None}
    BY <2>1 DEF BatchIntact
  <2>3. target[t] = s
    BY <1>0, <2>1, <2>2 DEF TaskInv
  <2>4. stage'[t] = "idle" /\ batch' = BatchOf(None)
    BY <1>0, <2>1, <2>2, <2>3 DEF BatchOf
  <2> QED
    BY <2>4 DEF BatchIntact, BatchOf
<1> QED
  BY <1>0, <1>2, <1>3, <1>4, <1>5, <1>6, <1>7, <1>8, <1>9 DEF BeginPacket, SendLoop

(* The content of builders follows the pool.                                 *)
LEMMA BuildersIntactNext ==
  ASSUME PoolTypes, TaskInv, BuildersSound, BuildersIntact, [Next]_vars
  PROVE  BuildersIntact'
<1>1. CASE UNCHANGED poolVars
  BY <1>1 DEF poolVars, BuildersIntact
<1> QED
  BY <1>1, PoolUsers, BuildersIntactStep

(* The packets in the queues and at WriteLoop.                               *)
LEMMA WritingFrameIntact ==
  ASSUME WritingIntact, writing \in [Sessions -> Seq(Packet)],
         \/ writing' = writing
         \/ \E s \in Sessions : writing' = [writing EXCEPT ![s] = <<>>]
         \/ \E s \in Sessions : \E p :
              /\ writing' = [writing EXCEPT ![s] = <<p>>]
              /\ p.body = <<p.from>>
  PROVE  WritingIntact'
<1>1. CASE writing' = writing
  BY <1>1 DEF WritingIntact
<1>2. ASSUME NEW s \in Sessions, writing' = [writing EXCEPT ![s] = <<>>]
      PROVE  WritingIntact'
  <2>1. writing'[s] = <<>> /\ \A r \in Sessions : r # s => writing'[r] = writing[r]
    BY <1>2
  <2> QED
    BY ONLY <2>1, WritingIntact DEF WritingIntact
<1>3. ASSUME NEW s \in Sessions, NEW p, writing' = [writing EXCEPT ![s] = <<p>>],
             p.body = <<p.from>>
      PROVE  WritingIntact'
  <2>1. writing'[s] = <<p>> /\ \A r \in Sessions : r # s => writing'[r] = writing[r]
    BY <1>3
  <2>2. Len(writing'[s]) = 1 /\ writing'[s][1] = p
    BY <2>1
  <2>3. \A i \in 1..Len(writing'[s]) : writing'[s][i].body = <<writing'[s][i].from>>
    <3>1. \A i \in 1..Len(writing'[s]) : i = 1
      BY <2>2
    <3> QED
      BY <1>3, <2>2, <3>1
  <2> QED
    BY ONLY <2>1, <2>3, WritingIntact DEF WritingIntact
<1> QED
  BY <1>1, <1>2, <1>3

LEMMA CoroutineIntact ==
  ASSUME QueueTypes, WritingTypes, QueuesIntact, WritingIntact,
         NEW s \in Sessions, NEW k \in Loops,
         WriteLoop(s) \/ Disconnect(s, k) \/ Callback(s, k) \/ AcceptSession(s)
  PROVE  QueuesIntact' /\ WritingIntact'
<1>0. writing \in [Sessions -> Seq(Packet)]
  BY DEF WritingTypes
<1>1. ASSUME queue' = queue
      PROVE  QueuesIntact'
  BY <1>1 DEF QueuesIntact
<1>2. CASE \/ TestOpen(s) \/ FindEmpty(s) \/ WaitEnds(s)
           \/ Drained(s, k) \/ Callback(s, k) \/ AcceptSession(s)
  <2>1. queue' = queue /\ writing' = writing
    BY <1>2 DEF TestOpen, FindEmpty, WaitEnds, Drained, Callback, AcceptSession, Start,
       queueVars
  <2> QED
    BY <1>0, <1>1, <2>1, WritingFrameIntact
<1>3. CASE WriteCompletes(s) \/ Close(s, k)
  <2>1. queue' = queue /\ (writing' = writing \/ writing' = [writing EXCEPT ![s] = <<>>])
    BY <1>3 DEF WriteCompletes, Close, queueVars
  <2> QED
    BY <1>0, <1>1, <2>1, WritingFrameIntact
<1>4. ASSUME NEW t \in Senders, Dequeue(s, t)
      PROVE  QueuesIntact' /\ WritingIntact'
  <2>1. /\ queue[s][t] # <<>> /\ queue' = [queue EXCEPT ![s][t] = Tail(@)]
        /\ writing' = [writing EXCEPT ![s] = <<Head(queue[s][t])>>]
    BY <1>4 DEF Dequeue
  <2>2. QueuesIntact' /\ Head(queue[s][t]).body = <<Head(queue[s][t]).from>>
    BY <2>1, TakeIntact
  <2> QED
    BY <1>0, <2>1, <2>2, WritingFrameIntact
<1>5. ASSUME NEW t \in Senders, Drain(s, k, t)
      PROVE  QueuesIntact' /\ WritingIntact'
  <2>1. /\ queue[s][t] # <<>> /\ queue' = [queue EXCEPT ![s][t] = Tail(@)]
        /\ writing' = writing
    BY <1>5 DEF Drain, socketVars
  <2> QED
    BY <1>0, <2>1, TakeIntact, WritingFrameIntact
<1> QED
  BY <1>2, <1>3, <1>4, <1>5 DEF WriteLoop, Disconnect

LEMMA SenderIntact ==
  ASSUME TaskTypes, TaskInv, QueueTypes, QueuesIntact, BuildersIntact, BatchIntact,
         NEW t \in Testers, BeginPacket(t) \/ SendLoop(t)
  PROVE  QueuesIntact'
<1> USE Threads
<1>1. CASE SendPacket(t)
  <2>1. /\ stage[t] = "send" /\ Send(target[t], t, builderContent[builderOf[t]])
    BY <1>1 DEF SendPacket
  <2>2. target[t] \in Sessions /\ builderContent[builderOf[t]] = <<t>>
    BY <2>1 DEF TaskInv, TaskTypes, BuildersIntact
  <2> QED
    BY <2>1, <2>2, SendIntact
<1>2. CASE SendBatch(t)
  <2>1. stage[t] = "send batch" /\ Send(target[t], t, batch[target[t]])
    BY <1>2 DEF SendBatch
  <2>2. t = GameThread /\ target[t] \in Sessions
    BY <2>1 DEF TaskInv, TaskTypes
  <2>3. batch[target[t]] = <<t>>
    BY <2>1, <2>2 DEF BatchIntact, BatchOf
  <2> QED
    BY <2>1, <2>2, <2>3, SendIntact
<1>3. CASE ~SendPacket(t) /\ ~SendBatch(t)
  <2>1. queue' = queue
    BY <1>3 DEF BeginPacket, BeginBroadcast, BeginSnapshot, BeginAnswer, SendLoop,
       BuildAnswer, TestConnected, EndPacket, AddToPlayerBatch, queueVars
  <2> QED
    BY <2>1 DEF QueuesIntact
<1> QED
  BY <1>1, <1>2, <1>3

LEMMA ContentStep ==
  ASSUME TypeInv, BuildersSound, ContentInv, [Next]_vars
  PROVE  ContentInv'
<1>0. /\ QueueTypes /\ WritingTypes /\ TaskTypes /\ PoolTypes /\ TaskInv
      /\ QueuesIntact /\ WritingIntact /\ BuildersIntact /\ BatchIntact
  BY DEF TypeInv, TypeOK, ContentInv
<1>1. BuildersIntact'
  BY <1>0, BuildersIntactNext
<1>2. ASSUME UNCHANGED <<queue, writing>>
      PROVE  QueuesIntact' /\ WritingIntact'
  BY <1>0, <1>2 DEF QueuesIntact, WritingIntact
<1>3. ASSUME UNCHANGED taskVars
      PROVE  BatchIntact'
  BY <1>0, <1>3, BatchFrame DEF taskVars
<1>4. ASSUME NEW s \in Sessions, NEW k \in Loops,
             \/ WriteLoop(s) \/ Disconnect(s, k)
             \/ AcceptSession(s) \/ OnSessionDisconnected(s, k)
      PROVE  ContentInv'
  <2>1. UNCHANGED taskVars
    BY <1>4 DEF WriteLoop, Disconnect, TestOpen, Dequeue, FindEmpty, WaitEnds,
       WriteCompletes, Close, Drain, Drained, Callback, AcceptSession, Start,
       OnSessionDisconnected
  <2>2. WriteLoop(s) \/ Disconnect(s, k) \/ Callback(s, k) \/ AcceptSession(s)
    BY <1>4 DEF OnSessionDisconnected
  <2>3. QueuesIntact' /\ WritingIntact'
    BY <1>0, <2>2, CoroutineIntact
  <2> QED
    BY <1>1, <1>3, <2>1, <2>3 DEF ContentInv
<1>5. ASSUME NEW t \in Testers, BeginPacket(t) \/ SendLoop(t)
      PROVE  ContentInv'
  <2>1. writing' = writing
    BY <1>5 DEF BeginPacket, BeginBroadcast, BeginSnapshot, BeginAnswer, SendLoop,
       BuildAnswer, TestConnected, SendPacket, EndPacket, AddToPlayerBatch, SendBatch,
       socketVars
  <2>2. WritingIntact'
    BY <1>0, <2>1 DEF WritingIntact
  <2>3. QueuesIntact'
    BY <1>0, <1>5, SenderIntact
  <2>4. BatchIntact'
    BY <1>0, <1>5, OtherBatches, GameBatches
  <2> QED
    BY <1>1, <2>2, <2>3, <2>4 DEF ContentInv
<1>6. CASE HandleRedisChatMessage
  <2>1. writing' = writing /\ UNCHANGED taskVars
    BY <1>6 DEF HandleRedisChatMessage, socketVars
  <2>2. WritingIntact'
    BY <1>0, <2>1 DEF WritingIntact
  <2> QED
    BY <1>0, <1>1, <1>3, <1>6, <2>1, <2>2, ChatIntact DEF ContentInv
<1>7. ASSUME UNCHANGED outputVars
      PROVE  ContentInv'
  <2>1. UNCHANGED <<queue, writing>> /\ UNCHANGED taskVars
    BY <1>7 DEF outputVars, queueVars, socketVars
  <2> QED
    BY <1>1, <1>2, <1>3, <2>1 DEF ContentInv
<1>8. /\ \A s \in Sessions : OnSessionConnected(s) => UNCHANGED outputVars
      /\ Publish \/ DropMalformed \/ RedisFails \/ UNCHANGED vars => UNCHANGED outputVars
  BY DEF OnSessionConnected, Publish, DropMalformed, RedisFails, vars
<1>9. \E k : k \in Loops
  BY DEF Loops
<1> QED
  BY <1>4, <1>5, <1>6, <1>7, <1>8, <1>9 DEF Next, OutputNext, SubscribeThread

LEMMA ContentInit ==
  ASSUME Init
  PROVE  ContentInv
<1>1. QueuesIntact /\ WritingIntact /\ BuildersIntact
  BY DEF Init, OutputInit, BuilderPool!PoolInit, QueuesIntact, WritingIntact, BuildersIntact
<1>2. stage[GameThread] = "idle"
  BY Threads DEF Init, OutputInit
<1>3. batch = BatchOf(None)
  BY Threads DEF Init, OutputInit, BatchOf
<1> QED
  BY <1>1, <1>2, <1>3 DEF ContentInv, BatchIntact

(* Every packet on its way holds what its sender built, for every number of  *)
(* threads and builders (MemoryPool, Session::Send, AddToPlayerBatch).       *)
THEOREM PacketsIntact == Spec => []Intact
<1> DEFINE Inv == TypeInv /\ BuildersSound /\ VectorsSound /\ ContentInv
<1>1. Init => Inv
  <2> SUFFICES ASSUME Init
               PROVE  Inv
    OBVIOUS
  <2> QED
    BY TypeInit, SoundInit, ContentInit
<1>2. Inv /\ [Next]_vars => Inv'
  <2> SUFFICES ASSUME Inv, [Next]_vars
               PROVE  Inv'
    OBVIOUS
  <2>1. TypeInv' /\ PoolTypes /\ TaskInv
    BY TypeStep DEF TypeInv, TypeOK
  <2> QED
    BY <2>1, SoundStep, ContentStep
<1>3. ASSUME QueuesIntact, WritingIntact, NEW s \in Sessions, NEW p, p \in Packets(s)
      PROVE  p.body = <<p.from>>
  <2>1. CASE \E i \in 1..Len(writing[s]) : p = writing[s][i]
    BY <1>3, <2>1 DEF WritingIntact
  <2>2. ASSUME NEW t \in Senders, NEW i \in 1..Len(queue[s][t]), p = queue[s][t][i]
        PROVE  p.body = <<p.from>>
    <3>1. p.from = t /\ p.body = <<t>>
      BY <1>3, <2>2 DEF QueuesIntact
    <3> QED
      BY <3>1
  <2> DEFINE queued == UNION {{queue[s][t][i] : i \in 1..Len(queue[s][t])} : t \in Senders}
             taken == {writing[s][i] : i \in 1..Len(writing[s])}
  <2>3. CASE p \in queued
    <3>1. PICK t \in Senders : p \in {queue[s][t][i] : i \in 1..Len(queue[s][t])}
      BY <2>3
    <3> QED
      BY <2>2, <3>1
  <2>4. CASE p \in taken
    BY <2>1, <2>4
  <2>5. Packets(s) = queued \cup taken
    BY DEF Packets
  <2> HIDE DEF queued, taken
  <2> QED
    BY <1>3, <2>3, <2>4, <2>5
<1>4. Inv => Intact
  BY <1>3 DEF ContentInv, Intact
<1> QED
  BY <1>1, <1>2, <1>4, PTL DEF Spec

-----------------------------------------------------------------------------
(* What is left in the queue of a session that has ended.                    *)

(* The coroutines of a session whose socket is open have met no error.       *)
OpenInv ==
  \A s \in open : /\ Read(s) = "run"
                  /\ loop[s]["write"] \in {"test", "dequeue", "wait", "write"}

(* Coroutine k of session s moves on.                                        *)
LEMMA OpenMove ==
  ASSUME SocketTypes, OpenInv, NEW s \in Sessions, NEW k \in Loops, NEW at,
         loop' = [loop EXCEPT ![s][k] = at], open' \subseteq open,
         s \in open' => k = "write" /\ at \in {"test", "dequeue", "wait", "write"}
  PROVE  OpenInv'
<1> SUFFICES ASSUME NEW r \in open'
             PROVE  /\ Read(r)' = "run"
                    /\ loop'[r]["write"] \in {"test", "dequeue", "wait", "write"}
  BY DEF OpenInv
<1>0. r \in open /\ r \in Sessions
  BY DEF SocketTypes
<1>1. CASE r # s
  <2>1. loop'[r] = loop[r]
    BY <1>0, <1>1 DEF SocketTypes
  <2> QED
    BY <1>0, <2>1 DEF OpenInv, Read
<1>2. CASE r = s
  <2>1. loop'[s]["write"] = at /\ loop'[s]["read"] = loop[s]["read"]
    BY <1>2 DEF SocketTypes, Loops
  <2> QED
    BY <1>0, <1>2, <2>1 DEF OpenInv, Read
<1> QED
  BY <1>1, <1>2

LEMMA OpenStep ==
  ASSUME SocketTypes, OpenInv, [Next]_vars
  PROVE  OpenInv'
<1>0. "write" \in Loops /\ \E k : k \in Loops
  BY DEF Loops
<1>1. ASSUME UNCHANGED <<open, loop>>
      PROVE  OpenInv'
  BY <1>1 DEF OpenInv, Read
<1>2. ASSUME NEW s \in Sessions, NEW k \in Loops,
             loop[s][k] \in {"drain", "drain again", "callback", "callback again"}
      PROVE  s \notin open
  BY <1>2 DEF OpenInv, Read, Loops
<1>3. ASSUME NEW s \in Sessions, WriteLoop(s)
      PROVE  OpenInv'
  <2>1. /\ open' = open
        /\ \E at : /\ loop' = [loop EXCEPT ![s]["write"] = at]
                   /\ s \in open => at \in {"test", "dequeue", "wait", "write"}
    BY <1>3 DEF WriteLoop, TestOpen, Dequeue, FindEmpty, WaitEnds, WriteCompletes
  <2> QED
    BY <1>0, <2>1, OpenMove
<1>4. ASSUME NEW s \in Sessions, NEW k \in Loops, Disconnect(s, k) \/ Callback(s, k)
      PROVE  OpenInv'
  <2>1. CASE Close(s, k)
    <3>1. open' = open \ {s} /\ loop' = [loop EXCEPT ![s][k] = "drain"]
      BY <2>1 DEF Close
    <3> QED
      BY <3>1, OpenMove
  <2>2. CASE \E t \in Senders : Drain(s, k, t)
    BY <1>1, <2>2 DEF Drain, socketVars
  <2>3. CASE Drained(s, k) \/ Callback(s, k)
    <3>1. /\ loop[s][k] \in {"drain", "drain again", "callback", "callback again"}
          /\ open' = open /\ \E at : loop' = [loop EXCEPT ![s][k] = at]
      BY <2>3 DEF Drained, Callback
    <3> QED
      BY <1>2, <3>1, OpenMove
  <2> QED
    BY <1>4, <2>1, <2>2, <2>3 DEF Disconnect
<1>5. ASSUME NEW s \in Sessions, AcceptSession(s)
      PROVE  OpenInv'
  <2>1. /\ open' = open \cup {s}
        /\ loop' = [loop EXCEPT ![s] = [read |-> "run", write |-> "test"]]
    BY <1>5 DEF AcceptSession, Start
  <2>2. /\ loop'[s]["read"] = "run" /\ loop'[s]["write"] = "test"
        /\ \A r \in Sessions : r # s => loop'[r] = loop[r]
    BY <2>1 DEF SocketTypes
  <2>3. open \subseteq Sessions
    BY DEF SocketTypes
  <2> QED
    BY <2>1, <2>2, <2>3 DEF OpenInv, Read
<1>6. ASSUME NEW t \in Testers, BeginPacket(t) \/ SendLoop(t)
      PROVE  UNCHANGED <<open, loop>>
  BY <1>6 DEF BeginPacket, BeginBroadcast, BeginSnapshot, BeginAnswer, SendLoop,
     BuildAnswer, TestConnected, SendPacket, EndPacket, AddToPlayerBatch, SendBatch,
     socketVars
<1>7. ASSUME \/ \E s \in Sessions : OnSessionConnected(s)
             \/ Publish \/ SubscribeThread \/ RedisFails \/ UNCHANGED vars
      PROVE  UNCHANGED <<open, loop>>
  BY <1>7 DEF OnSessionConnected, Publish, SubscribeThread, HandleRedisChatMessage,
     DropMalformed, RedisFails, vars, outputVars, socketVars
<1>8. \A s \in Sessions, k \in Loops : OnSessionDisconnected(s, k) => Callback(s, k)
  BY DEF OnSessionDisconnected
<1> QED
  BY <1>0, <1>1, <1>3, <1>4, <1>5, <1>6, <1>7, <1>8 DEF Next, OutputNext

(* After the first drain, a thread whose test has passed finds its part of   *)
(* the queue empty, and no further test passes.                              *)
ResidueAt(s, t) == Len(queue[s][t]) <= 1 /\ (target[t] = s => queue[s][t] = <<>>)

ResidueInv == \A s \in Sessions : HasDrained(s) => \A t \in Testers : ResidueAt(s, t)

LEMMA DrainedClosed ==
  ASSUME OpenInv, NEW s \in Sessions, HasDrained(s)
  PROVE  s \notin open
  BY DEF OpenInv, HasDrained, Read, Loops

(* Taking a packet out leaves no more.                                       *)
LEMMA ResidueTake ==
  ASSUME QueueTypes, ResidueInv, NEW s \in Sessions, NEW t \in Senders,
         queue[s][t] # <<>>, queue' = [queue EXCEPT ![s][t] = Tail(@)],
         UNCHANGED target, \A r \in Sessions : HasDrained(r)' => HasDrained(r)
  PROVE  ResidueInv'
<1> SUFFICES ASSUME NEW r \in Sessions, HasDrained(r)', NEW u \in Testers
             PROVE  ResidueAt(r, u)'
  BY DEF ResidueInv
<1>0. ResidueAt(r, u) /\ u \in Senders
  BY Threads DEF ResidueInv
<1>1. queue[s][t] \in Seq(Packet) /\ Len(Tail(queue[s][t])) = Len(queue[s][t]) - 1
      /\ Len(queue[s][t]) \in Nat
  BY DEF QueueTypes
<1>2. CASE r = s /\ u = t
  <2>1. queue'[s][t] = Tail(queue[s][t])
    BY DEF QueueTypes
  <2> QED
    BY <1>0, <1>1, <1>2, <2>1 DEF ResidueAt
<1>3. CASE ~(r = s /\ u = t)
  <2>1. queue'[r][u] = queue[r][u]
    BY <1>0, <1>3 DEF QueueTypes
  <2> QED
    BY <1>0, <2>1 DEF ResidueAt
<1> QED
  BY <1>2, <1>3

(* Coroutine k of session s moves on: it has drained only if it had, or if   *)
(* the queue is empty.                                                       *)
LEMMA ResidueMove ==
  ASSUME SocketTypes, ResidueInv, NEW s \in Sessions, NEW k \in Loops, NEW at,
         loop' = [loop EXCEPT ![s][k] = at], UNCHANGED <<queue, target>>,
         at \in {"callback", "drain again", "callback again"} =>
           HasDrained(s) \/ \A t \in Senders : queue[s][t] = <<>>
  PROVE  ResidueInv'
<1> SUFFICES ASSUME NEW r \in Sessions, HasDrained(r)', NEW u \in Testers
             PROVE  ResidueAt(r, u)'
  BY DEF ResidueInv
<1>1. HasDrained(r) => ResidueAt(r, u)
  BY DEF ResidueInv
<1>2. HasDrained(r) \/ \A t \in Senders : queue[r][t] = <<>>
  <2>1. CASE r # s
    <3>1. loop'[r] = loop[r]
      BY <2>1 DEF SocketTypes
    <3> QED
      BY <3>1 DEF HasDrained
  <2>2. CASE r = s
    <3>1. \A l \in Loops : loop'[s][l] = IF l = k THEN at ELSE loop[s][l]
      BY DEF SocketTypes
    <3> QED
      BY <2>2, <3>1 DEF HasDrained
  <2> QED
    BY <2>1, <2>2
<1>3. ASSUME \A t \in Senders : queue[r][t] = <<>>
      PROVE  ResidueAt(r, u)
  <2>1. queue[r][u] = <<>>
    BY <1>3, Threads
  <2>2. Len(<<>>) = 0
    OBVIOUS
  <2> QED
    BY ONLY <2>1, <2>2 DEF ResidueAt
<1> QED
  BY <1>1, <1>2, <1>3 DEF ResidueAt

(* What a thread does to its own part of the queues and to its target.       *)
LEMMA ResidueSend ==
  ASSUME TypeInv, OpenInv, ResidueInv, NEW t \in Testers, BeginPacket(t) \/ SendLoop(t)
  PROVE  ResidueInv'
<1>0. /\ queue \in [Sessions -> [Senders -> Seq(Packet)]]
      /\ target \in [Testers -> Sessions \cup {None}]
      /\ TaskInv /\ t \in Senders
  BY Threads DEF TypeInv, TypeOK, QueueTypes, TaskTypes
<1>1. loop' = loop
  BY DEF BeginPacket, BeginBroadcast, BeginSnapshot, BeginAnswer, SendLoop,
     BuildAnswer, TestConnected, SendPacket, EndPacket, AddToPlayerBatch, SendBatch,
     socketVars
<1>2. \A r \in Sessions : HasDrained(r)' => HasDrained(r) /\ r \notin open
  BY <1>1, DrainedClosed DEF HasDrained
<1>3. CASE SendPacket(t) \/ SendBatch(t)
  <2>1. stage[t] \in {"send", "send batch"}
    BY <1>3 DEF SendPacket, SendBatch
  <2>2. target[t] \in Sessions
    BY <1>0, <2>1 DEF TaskInv
  <2>3. /\ \E p : queue' = [queue EXCEPT ![target[t]][t] = Append(@, p)]
        /\ target' = [target EXCEPT ![t] = None]
    BY <1>3 DEF SendPacket, SendBatch, Send, Enqueued, SentTo
  <2>4. PICK p : queue' = [queue EXCEPT ![target[t]][t] = Append(@, p)]
    BY <2>3
  <2>5. ASSUME NEW r \in Sessions, HasDrained(r)', NEW u \in Testers
        PROVE  ResidueAt(r, u)'
    <3>0. ResidueAt(r, u) /\ u \in Senders
      BY <1>2, <2>5, Threads DEF ResidueInv
    <3>1. CASE r = target[t] /\ u = t
      <4>1. queue[r][u] = <<>>
        BY <3>0, <3>1 DEF ResidueAt
      <4>2. queue'[r][u] = Append(queue[r][u], p)
        BY <1>0, <2>2, <2>4, <3>1
      <4>3. Len(Append(<<>>, p)) = 1
        OBVIOUS
      <4>4. target'[u] = None /\ None # r
        BY <1>0, <2>3, <3>1, Threads
      <4> QED
        BY <4>1, <4>2, <4>3, <4>4 DEF ResidueAt
    <3>2. CASE ~(r = target[t] /\ u = t)
      <4>1. queue'[r][u] = queue[r][u]
        BY <1>0, <2>2, <2>4, <3>0, <3>2
      <4>2. target'[u] = r => target[u] = r
        BY <1>0, <2>3, Threads
      <4> QED
        BY <3>0, <4>1, <4>2 DEF ResidueAt
    <3> QED
      BY <3>1, <3>2
  <2> QED
    BY <2>5 DEF ResidueInv
<1>4. CASE ~SendPacket(t) /\ ~SendBatch(t)
  <2>1. queue' = queue
    BY <1>4 DEF BeginPacket, BeginBroadcast, BeginSnapshot, BeginAnswer, SendLoop,
       BuildAnswer, TestConnected, EndPacket, AddToPlayerBatch, queueVars
  <2>2. target' = target \/ \E s \in open : target' = [target EXCEPT ![t] = s]
    BY <1>4 DEF BeginPacket, BeginBroadcast, BeginSnapshot, BeginAnswer, SendLoop,
       BuildAnswer, TestConnected, EndPacket, AddToPlayerBatch
  <2>3. ASSUME NEW r \in Sessions, HasDrained(r)', NEW u \in Testers
        PROVE  ResidueAt(r, u)'
    <3>1. ResidueAt(r, u) /\ r \notin open
      BY <1>2, <2>3 DEF ResidueInv
    <3>2. target'[u] = r => target[u] = r
      BY <1>0, <2>2, <3>1
    <3> QED
      BY <2>1, <3>1, <3>2 DEF ResidueAt
  <2> QED
    BY <2>3 DEF ResidueInv
<1> QED
  BY <1>3, <1>4

(* A chat message changes only the part of the Redis thread.                 *)
LEMMA ChatQueues ==
  ASSUME QueueTypes, HandleRedisChatMessage, NEW r \in Sessions
  PROVE  /\ \A u \in Senders : u # ChatThread \/ r \notin table =>
              queue'[r][u] = queue[r][u] /\ sent'[r][u] = sent[r][u]
         /\ r \in table =>
              /\ \E p : /\ p.n = sent[r][ChatThread] + 1
                        /\ queue'[r][ChatThread] = Append(queue[r][ChatThread], p)
              /\ sent'[r][ChatThread] = sent[r][ChatThread] + 1
<1> DEFINE p == [from |-> ChatThread, n |-> sent[r][ChatThread] + 1, body |-> <<ChatThread>>]
<1>0. ChatThread \in Senders
  BY Threads
<1>1. /\ queue'[r] = IF r \in table THEN [queue EXCEPT ![r][ChatThread] = Append(@, p)][r]
                                     ELSE queue[r]
      /\ sent'[r] = IF r \in table
                    THEN [sent[r] EXCEPT ![ChatThread] = sent[r][ChatThread] + 1]
                    ELSE sent[r]
      /\ p.n = sent[r][ChatThread] + 1
  BY DEF HandleRedisChatMessage, Enqueued
<1> HIDE DEF p
<1>2. \A u \in Senders : u # ChatThread \/ r \notin table =>
        queue'[r][u] = queue[r][u] /\ sent'[r][u] = sent[r][u]
  BY <1>0, <1>1 DEF QueueTypes
<1>3. r \in table => /\ queue'[r][ChatThread] = Append(queue[r][ChatThread], p)
                     /\ sent'[r][ChatThread] = sent[r][ChatThread] + 1
  BY <1>0, <1>1 DEF QueueTypes
<1> QED
  BY <1>1, <1>2, <1>3

LEMMA ResidueStep ==
  ASSUME TypeInv, OpenInv, ResidueInv, [Next]_vars
  PROVE  ResidueInv'
<1>0. QueueTypes /\ SocketTypes /\ TaskTypes /\ "write" \in Loops
  BY DEF TypeInv, TypeOK, Loops
<1>1. ASSUME UNCHANGED <<queue, target, loop>>
      PROVE  ResidueInv'
  BY <1>1 DEF ResidueInv, ResidueAt, HasDrained
<1>2. ASSUME NEW s \in Sessions, WriteLoop(s)
      PROVE  ResidueInv'
  <2>1. PICK at \in {"test", "dequeue", "wait", "write", "broken", "done"} :
          loop' = [loop EXCEPT ![s]["write"] = at]
    BY <1>2 DEF WriteLoop, TestOpen, Dequeue, FindEmpty, WaitEnds, WriteCompletes
  <2>2. target' = target
    BY <1>2 DEF WriteLoop, TestOpen, Dequeue, FindEmpty, WaitEnds, WriteCompletes, taskVars
  <2>3. CASE queue' = queue
    BY <1>0, <2>1, <2>2, <2>3, ResidueMove
  <2>4. ASSUME NEW t \in Senders, Dequeue(s, t)
        PROVE  ResidueInv'
    <3>1. queue[s][t] # <<>> /\ queue' = [queue EXCEPT ![s][t] = Tail(@)]
      BY <2>4 DEF Dequeue
    <3>2. ASSUME NEW r \in Sessions, HasDrained(r)'
          PROVE  HasDrained(r)
      <4>1. \A l \in Loops :
              loop'[r][l] = loop[r][l] \/ loop'[r][l] = at
        BY <1>0, <2>1 DEF SocketTypes
      <4> QED
        BY <3>2, <4>1 DEF HasDrained
    <3> QED
      BY <1>0, <2>2, <3>1, <3>2, ResidueTake
  <2>5. (\A t \in Senders : ~Dequeue(s, t)) => queue' = queue
    BY <1>2 DEF WriteLoop, TestOpen, FindEmpty, WaitEnds, WriteCompletes, queueVars
  <2> QED
    BY <2>3, <2>4, <2>5
<1>3. ASSUME NEW s \in Sessions, NEW k \in Loops, Disconnect(s, k) \/ Callback(s, k)
      PROVE  ResidueInv'
  <2>1. CASE Close(s, k)
    <3>1. loop' = [loop EXCEPT ![s][k] = "drain"] /\ UNCHANGED <<queue, target>>
      BY <2>1 DEF Close, queueVars, taskVars
    <3> QED
      BY <1>0, <3>1, ResidueMove
  <2>2. ASSUME NEW t \in Senders, Drain(s, k, t)
        PROVE  ResidueInv'
    <3>1. /\ queue[s][t] # <<>> /\ queue' = [queue EXCEPT ![s][t] = Tail(@)]
          /\ UNCHANGED <<target, loop>>
      BY <2>2 DEF Drain, socketVars, taskVars
    <3>2. \A r \in Sessions : HasDrained(r)' => HasDrained(r)
      BY <3>1 DEF HasDrained
    <3> QED
      BY <1>0, <3>1, <3>2, ResidueTake
  <2>3. CASE Drained(s, k)
    <3>1. PICK at : loop' = [loop EXCEPT ![s][k] = at]
      BY <2>3 DEF Drained
    <3>2. UNCHANGED <<queue, target>> /\ \A t \in Senders : queue[s][t] = <<>>
      BY <2>3 DEF Drained, queueVars, taskVars
    <3> QED
      BY <1>0, <3>1, <3>2, ResidueMove
  <2>4. CASE Callback(s, k)
    <3>1. PICK at : loop' = [loop EXCEPT ![s][k] = at]
      BY <2>4 DEF Callback
    <3>2. UNCHANGED <<queue, target>> /\ HasDrained(s)
      BY <2>4 DEF Callback, queueVars, taskVars, HasDrained
    <3> QED
      BY <1>0, <3>1, <3>2, ResidueMove
  <2> QED
    BY <1>3, <2>1, <2>2, <2>3, <2>4 DEF Disconnect
<1>4. ASSUME NEW s \in Sessions, AcceptSession(s)
      PROVE  ResidueInv'
  <2>1. /\ loop' = [loop EXCEPT ![s] = [read |-> "run", write |-> "test"]]
        /\ UNCHANGED <<queue, target>>
    BY <1>4 DEF AcceptSession, Start, queueVars, taskVars
  <2>2. /\ loop'[s]["read"] = "run" /\ loop'[s]["write"] = "test"
        /\ \A r \in Sessions : r # s => loop'[r] = loop[r]
    BY <1>0, <2>1 DEF SocketTypes
  <2>3. \A r \in Sessions : HasDrained(r)' => HasDrained(r)
    BY <2>2 DEF HasDrained, Loops
  <2> QED
    BY <2>1, <2>3 DEF ResidueInv, ResidueAt
<1>5. CASE HandleRedisChatMessage
  <2>1. UNCHANGED <<target, loop>>
    BY <1>5 DEF HandleRedisChatMessage, socketVars, taskVars
  <2>2. ASSUME NEW r \in Sessions, NEW u \in Testers
        PROVE  queue'[r][u] = queue[r][u]
    BY <1>0, <1>5, Threads, OutputAssumption, ChatQueues
  <2> QED
    BY <2>1, <2>2 DEF ResidueInv, ResidueAt, HasDrained
<1>6. ASSUME \/ \E s \in Sessions : OnSessionConnected(s)
             \/ Publish \/ DropMalformed \/ RedisFails \/ UNCHANGED vars
      PROVE  UNCHANGED <<queue, target, loop>>
  BY <1>6 DEF OnSessionConnected, Publish, DropMalformed, RedisFails, vars, outputVars,
     queueVars, socketVars, taskVars
<1>7. \A s \in Sessions, k \in Loops : OnSessionDisconnected(s, k) => Callback(s, k)
  BY DEF OnSessionDisconnected
<1> QED
  BY <1>0, <1>1, <1>2, <1>3, <1>4, <1>5, <1>6, <1>7, ResidueSend
     DEF Next, OutputNext, SubscribeThread

LEMMA OpenInit ==
  ASSUME Init
  PROVE  OpenInv /\ ResidueInv
<1>1. OpenInv
  BY DEF Init, OutputInit, OpenInv
<1>2. \A s \in Sessions : ~HasDrained(s)
  BY DEF Init, OutputInit, HasDrained
<1> QED
  BY <1>1, <1>2 DEF ResidueInv

(* A session that ends keeps at most one packet of each thread that asks     *)
(* IsConnected, however many threads send to it (Disconnect against Send).   *)
THEOREM ResidueStaysBounded == Spec => []ResidueBounded
<1> DEFINE Inv == TypeInv /\ OpenInv /\ ResidueInv
<1>1. Init => Inv
  BY TypeInit, OpenInit
<1>2. Inv /\ [Next]_vars => Inv'
  BY TypeStep, OpenStep, ResidueStep DEF TypeInv, TypeOK
<1>3. Inv => ResidueBounded
  BY DEF ResidueInv, ResidueAt, ResidueBounded
<1> QED
  BY <1>1, <1>2, <1>3, PTL DEF Spec

-----------------------------------------------------------------------------
(* The order on the wire.                                                    *)

(* The numbers in the queue go on where the written ones end.                *)
NumberedAt(s, t) ==
  /\ sent[s][t] = Taken(s, t) + Len(queue[s][t])
  /\ \A i \in 1..Len(queue[s][t]) : queue[s][t][i].n = Taken(s, t) + i

(* True until the socket is closed; then Disconnect may take packets out.    *)
Live(s) == Read(s) = "off" \/ s \in open

Numbered == \A s \in Sessions : Live(s) => \A t \in Senders : NumberedAt(s, t)

(* A write that may still complete, even after the close, is of the packet   *)
(* that follows the last one on the wire.                                    *)
WriteInv ==
  \A s \in Sessions : loop[s]["write"] = "write" =>
    writing[s][1].n = written[s][writing[s][1].from] + 1

WireInv == Numbered /\ WriteInv

LEMMA TakenType ==
  ASSUME SocketTypes, NEW s \in Sessions, NEW t \in Senders
  PROVE  Taken(s, t) \in Nat
<1>1. written[s][t] \in Nat
  BY DEF SocketTypes
<1> QED
  BY <1>1 DEF Taken

LEMMA TakenFrame ==
  ASSUME NEW s \in Sessions, NEW t \in Senders, written'[s][t] = written[s][t],
         writing'[s] = writing[s]
  PROVE  Taken(s, t)' = Taken(s, t)
  BY DEF Taken

(* A queue that gets a packet, one that gives one, and one left alone.       *)
LEMMA NumberedSend ==
  ASSUME QueueTypes, SocketTypes, NEW s \in Sessions, NEW t \in Senders, NumberedAt(s, t),
         NEW p, p.n = sent[s][t] + 1, queue'[s][t] = Append(queue[s][t], p),
         sent'[s][t] = sent[s][t] + 1, Taken(s, t)' = Taken(s, t)
  PROVE  NumberedAt(s, t)'
<1> DEFINE q == queue[s][t]
           k == Taken(s, t)
<1>1. q \in Seq(Packet) /\ Len(q) \in Nat /\ k \in Nat
  BY TakenType DEF QueueTypes
<1>2. sent[s][t] = k + Len(q) /\ \A i \in 1..Len(q) : q[i].n = k + i
  BY DEF NumberedAt
<1> HIDE DEF q, k
<1>3. /\ Len(Append(q, p)) = Len(q) + 1 /\ Append(q, p)[Len(q) + 1] = p
      /\ \A i \in 1..Len(q) : Append(q, p)[i] = q[i]
  BY <1>1
<1>4. \A i \in 1..(Len(q) + 1) : Append(q, p)[i].n = k + i
  <2> SUFFICES ASSUME NEW i \in 1..(Len(q) + 1)
               PROVE  Append(q, p)[i].n = k + i
    OBVIOUS
  <2>1. CASE i \in 1..Len(q)
    BY <1>2, <1>3, <2>1
  <2>2. CASE i = Len(q) + 1
    BY <1>1, <1>2, <1>3, <2>2
  <2> QED
    BY <1>1, <2>1, <2>2
<1>5. sent[s][t] + 1 = k + (Len(q) + 1)
  BY <1>1, <1>2
<1> QED
  BY <1>3, <1>4, <1>5 DEF NumberedAt, q, k

LEMMA NumberedTake ==
  ASSUME QueueTypes, SocketTypes, NEW s \in Sessions, NEW t \in Senders, NumberedAt(s, t),
         queue[s][t] # <<>>, queue'[s][t] = Tail(queue[s][t]),
         sent'[s][t] = sent[s][t], Taken(s, t)' = Taken(s, t) + 1
  PROVE  NumberedAt(s, t)'
<1> DEFINE q == queue[s][t]
           k == Taken(s, t)
<1>1. q \in Seq(Packet) /\ q # <<>> /\ k \in Nat
  BY TakenType DEF QueueTypes
<1>2. sent[s][t] = k + Len(q) /\ \A i \in 1..Len(q) : q[i].n = k + i
  BY DEF NumberedAt
<1> HIDE DEF q, k
<1>3. Len(q) \in Nat /\ Len(Tail(q)) = Len(q) - 1
      /\ \A i \in 1..Len(Tail(q)) : i + 1 \in 1..Len(q) /\ Tail(q)[i] = q[i + 1]
  BY <1>1, TailAt
<1>4. \A i \in 1..Len(Tail(q)) : Tail(q)[i].n = k + 1 + i
  BY <1>1, <1>2, <1>3
<1>5. sent[s][t] = k + 1 + Len(Tail(q))
  BY <1>1, <1>2, <1>3
<1> QED
  BY <1>4, <1>5 DEF NumberedAt, q, k

LEMMA NumberedFrame ==
  ASSUME NEW s \in Sessions, NEW t \in Senders, NumberedAt(s, t),
         queue'[s][t] = queue[s][t], sent'[s][t] = sent[s][t], Taken(s, t)' = Taken(s, t)
  PROVE  NumberedAt(s, t)'
  BY DEF NumberedAt

(* A step that moves no packet, and brings no session back to life.          *)
LEMMA WireFrame ==
  ASSUME WireInv, UNCHANGED <<queue, sent, written, writing>>,
         \A r \in Sessions : Live(r)' => Live(r),
         \A r \in Sessions : loop'[r]["write"] = "write" => loop[r]["write"] = "write"
  PROVE  WireInv'
<1>1. Numbered'
  BY TakenFrame, NumberedFrame DEF WireInv, Numbered
<1>2. WriteInv'
  BY DEF WireInv, WriteInv
<1> QED
  BY <1>1, <1>2 DEF WireInv

(* Nothing moves but packets of session s.                                   *)
LEMMA OthersWire ==
  ASSUME WireInv, NEW s \in Sessions, NEW r \in Sessions, r # s,
         queue'[r] = queue[r], sent'[r] = sent[r], written'[r] = written[r],
         writing'[r] = writing[r], loop'[r] = loop[r], open' \subseteq open
  PROVE  /\ Live(r)' => \A t \in Senders : NumberedAt(r, t)'
         /\ loop'[r]["write"] = "write" =>
              writing'[r][1].n = written'[r][writing'[r][1].from] + 1
<1>1. Live(r)' => Live(r)
  BY DEF Live, Read
<1>2. ASSUME Live(r), NEW t \in Senders
      PROVE  NumberedAt(r, t)'
  BY <1>2, TakenFrame, NumberedFrame DEF WireInv, Numbered
<1> QED
  BY <1>1, <1>2 DEF WireInv, WriteInv

LEMMA DequeueWire ==
  ASSUME TypeInv, QueuesIntact, WireInv, NEW s \in Sessions, NEW t \in Senders,
         Dequeue(s, t)
  PROVE  WireInv'
<1>0. QueueTypes /\ SocketTypes /\ WritingTypes
  BY DEF TypeInv, TypeOK
<1> DEFINE q == queue[s][t]
<1>1. /\ q \in Seq(Packet) /\ q # <<>> /\ loop[s]["write"] = "dequeue"
      /\ writing' = [writing EXCEPT ![s] = <<Head(q)>>]
      /\ queue' = [queue EXCEPT ![s][t] = Tail(q)]
      /\ loop' = [loop EXCEPT ![s]["write"] = IF s \in open THEN "write" ELSE "broken"]
      /\ UNCHANGED <<open, written, sent>>
  BY <1>0 DEF QueueTypes, Dequeue
<1> HIDE DEF q
<1>2. Len(writing[s]) = 0 /\ writing'[s] = <<Head(q)>>
  BY <1>0, <1>1 DEF WritingTypes
<1>3. Head(q) = q[1] /\ 1 \in 1..Len(q) /\ Len(writing'[s]) = 1 /\ writing'[s][1] = q[1]
  BY <1>1, <1>2
<1>4. q[1].from = t
  BY <1>3 DEF QueuesIntact, q
<1>5. /\ queue'[s][t] = Tail(q)
      /\ \A u \in Senders : u # t => queue'[s][u] = queue[s][u]
      /\ \A r \in Sessions : r # s => /\ queue'[r] = queue[r]
                                      /\ writing'[r] = writing[r]
                                      /\ loop'[r] = loop[r]
      /\ loop'[s]["read"] = loop[s]["read"]
      /\ loop'[s]["write"] = "write" => s \in open
  BY <1>0, <1>1 DEF QueueTypes, SocketTypes, WritingTypes, Loops
<1>6. ASSUME NEW u \in Senders
      PROVE  /\ Taken(s, u) = written[s][u] /\ written[s][u] \in Nat
             /\ Taken(s, u)' = written[s][u] + IF u = t THEN 1 ELSE 0
  <2>1. written[s][u] \in Nat
    BY <1>0 DEF SocketTypes
  <2> QED
    BY <1>1, <1>2, <1>3, <1>4, <2>1 DEF Taken
<1>7. ASSUME Live(s), NEW u \in Senders
      PROVE  NumberedAt(s, u)'
  <2>0. NumberedAt(s, u)
    BY <1>7 DEF WireInv, Numbered
  <2>1. CASE u = t
    <3>1. Taken(s, t)' = Taken(s, t) + 1
      BY <1>6, <2>1
    <3> QED
      BY <1>0, <1>1, <1>5, <2>0, <2>1, <3>1, NumberedTake DEF q
  <2>2. CASE u # t
    <3>1. Taken(s, u)' = Taken(s, u)
      BY <1>6, <2>2
    <3> QED
      BY <1>1, <1>5, <2>0, <2>2, <3>1, NumberedFrame
  <2> QED
    BY <2>1, <2>2
<1>8. Live(s)' => Live(s)
  BY <1>1, <1>5 DEF Live, Read
<1>9. loop'[s]["write"] = "write" =>
        writing'[s][1].n = written'[s][writing'[s][1].from] + 1
  <2> SUFFICES ASSUME s \in open
               PROVE  q[1].n = written[s][t] + 1
    BY <1>1, <1>3, <1>4, <1>5
  <2>1. NumberedAt(s, t)
    BY DEF WireInv, Numbered, Live
  <2> QED
    BY <1>3, <1>6, <2>1 DEF NumberedAt, q
<1>10. Numbered'
  BY <1>1, <1>5, <1>7, <1>8, OthersWire DEF Numbered
<1>11. WriteInv'
  BY <1>1, <1>5, <1>9, OthersWire DEF WriteInv
<1> QED
  BY <1>10, <1>11 DEF WireInv

LEMMA WriteWire ==
  ASSUME TypeInv, WireInv, NEW s \in Sessions, WriteCompletes(s)
  PROVE  /\ WireInv'
         /\ \A u \in Senders : written'[s][u] \in {written[s][u], written[s][u] + 1}
         /\ \A r \in Sessions : r # s => written'[r] = written[r]
<1>0. SocketTypes /\ WritingTypes
  BY DEF TypeInv, TypeOK
<1> DEFINE p == writing[s][1]
<1>1. /\ loop[s]["write"] = "write"
      /\ written' = [written EXCEPT ![s][Head(writing[s]).from] = Head(writing[s]).n]
      /\ writing' = [writing EXCEPT ![s] = <<>>]
      /\ loop' = [loop EXCEPT ![s]["write"] = "test"]
      /\ UNCHANGED <<open, queue, sent>>
  BY DEF WriteCompletes, queueVars
<1>2. writing[s] \in Seq(Packet) /\ Len(writing[s]) = 1
  BY <1>0, <1>1 DEF WritingTypes
<1>3. Head(writing[s]) = p /\ p \in Packet
  BY <1>2
<1>4. p.n = written[s][p.from] + 1
  BY <1>1 DEF WireInv, WriteInv
<1> HIDE DEF p
<1>5. p.from \in Senders
  BY <1>3 DEF Packet
<1>6. /\ \A u \in Senders :
           written'[s][u] = IF u = p.from THEN written[s][u] + 1 ELSE written[s][u]
      /\ \A r \in Sessions : r # s => written'[r] = written[r]
  BY <1>0, <1>1, <1>3, <1>4, <1>5 DEF SocketTypes
<1>7. writing'[s] = <<>> /\ \A r \in Sessions : r # s => writing'[r] = writing[r]
  BY <1>0, <1>1 DEF WritingTypes
<1>8. /\ loop'[s]["read"] = loop[s]["read"] /\ loop'[s]["write"] = "test"
      /\ \A r \in Sessions : r # s => loop'[r] = loop[r]
  BY <1>0, <1>1 DEF SocketTypes, Loops
<1>9. ASSUME NEW u \in Senders
      PROVE  Taken(s, u)' = Taken(s, u)
  <2>1. Taken(s, u) = written[s][u] + IF p.from = u THEN 1 ELSE 0
    BY <1>2 DEF Taken, p
  <2>2. Len(writing'[s]) = 0
    BY <1>7
  <2>3. Taken(s, u)' = written'[s][u] + 0
    BY <2>2 DEF Taken
  <2>4. written[s][u] \in Nat
    BY <1>0 DEF SocketTypes
  <2> QED
    BY <1>6, <2>1, <2>3, <2>4
<1>10. Live(s)' => \A u \in Senders : NumberedAt(s, u)'
  <2>1. Live(s)' => Live(s)
    BY <1>1, <1>8 DEF Live, Read
  <2> QED
    BY <1>1, <1>9, <2>1, NumberedFrame DEF WireInv, Numbered
<1>11. Numbered'
  BY <1>1, <1>6, <1>7, <1>8, <1>10, OthersWire DEF Numbered
<1>12. WriteInv'
  BY <1>1, <1>6, <1>7, <1>8, OthersWire DEF WriteInv
<1> QED
  BY <1>6, <1>11, <1>12 DEF WireInv

(* A coroutine that met an error belongs to a session that is not live.      *)
LEMMA NotLive ==
  ASSUME LoopInv, OpenInv, NEW s \in Sessions, NEW k \in Loops,
         loop[s][k] \in {"drain", "drain again", "callback", "callback again"}
  PROVE  ~Live(s)
  BY DEF LoopInv, OpenInv, Live, Read, Loops

LEMMA CloseWire ==
  ASSUME TypeInv, WireInv, NEW s \in Sessions, NEW k \in Loops, Close(s, k)
  PROVE  WireInv'
<1>0. SocketTypes /\ WritingTypes /\ LoopInv
  BY DEF TypeInv, TypeOK
<1>1. /\ Fails(s, k) /\ open' = open \ {s} /\ loop' = [loop EXCEPT ![s][k] = "drain"]
      /\ writing' = IF k = "write" THEN [writing EXCEPT ![s] = <<>>] ELSE writing
      /\ UNCHANGED <<written, queue, sent>>
  BY DEF Close, queueVars
<1>2. /\ \A r \in Sessions : r # s => loop'[r] = loop[r] /\ writing'[r] = writing[r]
      /\ k = "write" => /\ loop'[s]["write"] = "drain"
                        /\ loop'[s]["read"] = loop[s]["read"]
      /\ k = "read" => /\ loop'[s]["write"] = loop[s]["write"]
                       /\ loop'[s]["read"] = "drain"
                       /\ writing' = writing
  BY <1>0, <1>1 DEF SocketTypes, WritingTypes, Loops
<1>3. ~Live(s)'
  <2>1. Read(s)' # "off"
    BY <1>0, <1>1, <1>2 DEF Fails, LoopInv, Read, Loops
  <2> QED
    BY <1>1, <2>1 DEF Live
<1>4. loop'[s]["write"] = "write" =>
        writing'[s][1].n = written'[s][writing'[s][1].from] + 1
  BY <1>1, <1>2 DEF WireInv, WriteInv, Loops
<1>5. Numbered'
  BY <1>1, <1>2, <1>3, OthersWire DEF Numbered
<1>6. WriteInv'
  BY <1>1, <1>2, <1>4, OthersWire DEF WriteInv
<1> QED
  BY <1>5, <1>6 DEF WireInv

LEMMA DrainWire ==
  ASSUME TypeInv, OpenInv, WireInv, NEW s \in Sessions, NEW k \in Loops, NEW t \in Senders,
         Drain(s, k, t)
  PROVE  WireInv'
<1>0. QueueTypes /\ LoopInv
  BY DEF TypeInv, TypeOK
<1>1. /\ loop[s][k] \in {"drain", "drain again"}
      /\ queue' = [queue EXCEPT ![s][t] = Tail(@)]
      /\ UNCHANGED <<sent, open, loop, writing, written>>
  BY DEF Drain, socketVars
<1>2. ~Live(s)'
  BY <1>0, <1>1, NotLive DEF Live, Read
<1>3. \A r \in Sessions : r # s => queue'[r] = queue[r]
  BY <1>0, <1>1 DEF QueueTypes
<1>4. Numbered'
  BY <1>1, <1>2, <1>3, OthersWire DEF Numbered
<1>5. WriteInv'
  BY <1>1 DEF WireInv, WriteInv
<1> QED
  BY <1>4, <1>5 DEF WireInv

(* A packet is put into the queue of s by t.                                 *)
LEMMA SendWire ==
  ASSUME TypeInv, WireInv, NEW s \in Sessions, NEW t \in Senders, NEW body,
         Send(s, t, body), UNCHANGED <<open, loop, writing, written>>
  PROVE  WireInv'
<1>0. QueueTypes /\ SocketTypes
  BY DEF TypeInv, TypeOK
<1> DEFINE p == [from |-> t, n |-> sent[s][t] + 1, body |-> body]
<1>1. /\ queue' = [queue EXCEPT ![s][t] = Append(@, p)] /\ p.n = sent[s][t] + 1
      /\ sent' = [sent EXCEPT ![s][t] = sent[s][t] + 1]
  BY DEF Send, Enqueued
<1> HIDE DEF p
<1>2. /\ queue'[s][t] = Append(queue[s][t], p) /\ sent'[s][t] = sent[s][t] + 1
      /\ \A u \in Senders : u # t => queue'[s][u] = queue[s][u] /\ sent'[s][u] = sent[s][u]
      /\ \A r \in Sessions : r # s => queue'[r] = queue[r] /\ sent'[r] = sent[r]
  BY <1>0, <1>1 DEF QueueTypes
<1>3. \A r \in Sessions : Live(r)' = Live(r)
  BY DEF Live, Read
<1>4. ASSUME Live(s), NEW u \in Senders
      PROVE  NumberedAt(s, u)'
  <2>0. NumberedAt(s, u) /\ Taken(s, u)' = Taken(s, u)
    BY <1>4, TakenFrame DEF WireInv, Numbered
  <2>1. CASE u = t
    BY <1>0, <1>1, <1>2, <2>0, <2>1, NumberedSend
  <2>2. CASE u # t
    BY <1>2, <2>0, <2>2, NumberedFrame
  <2> QED
    BY <2>1, <2>2
<1>5. Numbered'
  BY <1>2, <1>3, <1>4, OthersWire DEF Numbered
<1>6. WriteInv'
  BY DEF WireInv, WriteInv
<1> QED
  BY <1>5, <1>6 DEF WireInv

LEMMA ChatWire ==
  ASSUME TypeInv, WireInv, HandleRedisChatMessage
  PROVE  WireInv'
<1>0. QueueTypes /\ SocketTypes /\ UNCHANGED <<open, loop, writing, written>>
  BY DEF TypeInv, TypeOK, HandleRedisChatMessage, socketVars
<1>1. \A r \in Sessions : Live(r)' = Live(r)
  BY <1>0 DEF Live, Read
<1>2. ASSUME NEW r \in Sessions, Live(r), NEW u \in Senders
      PROVE  NumberedAt(r, u)'
  <2>0. NumberedAt(r, u) /\ Taken(r, u)' = Taken(r, u)
    BY <1>0, <1>2, TakenFrame DEF WireInv, Numbered
  <2>1. CASE u = ChatThread /\ r \in table
    BY <1>0, <2>0, <2>1, ChatQueues, NumberedSend
  <2>2. CASE u # ChatThread \/ r \notin table
    BY <1>0, <2>0, <2>2, ChatQueues, NumberedFrame
  <2> QED
    BY <2>1, <2>2
<1>3. Numbered'
  BY <1>1, <1>2 DEF Numbered
<1>4. WriteInv'
  BY <1>0 DEF WireInv, WriteInv
<1> QED
  BY <1>3, <1>4 DEF WireInv

(* What every step does to the numbers, and to what is on the wire.          *)
NoGap == \A s \in Sessions, t \in Senders :
           written'[s][t] \in {written[s][t], written[s][t] + 1}

LEMMA WireStep ==
  ASSUME TypeInv, OpenInv, QueuesIntact, WireInv, [Next]_vars
  PROVE  WireInv' /\ NoGap
<1>0. SocketTypes /\ LoopInv /\ TaskTypes /\ TaskInv
  BY DEF TypeInv, TypeOK
<1>1. ASSUME UNCHANGED written
      PROVE  NoGap
  BY <1>1 DEF NoGap
<1>2. ASSUME UNCHANGED <<queue, sent, written, writing, open, loop>>
      PROVE  WireInv'
  BY <1>2, WireFrame DEF Live, Read
<1>3. ASSUME NEW s \in Sessions, WriteLoop(s)
      PROVE  WireInv' /\ NoGap
  <2>1. CASE WriteCompletes(s)
    BY <2>1, WriteWire DEF NoGap
  <2>2. ASSUME NEW t \in Senders, Dequeue(s, t)
        PROVE  WireInv' /\ NoGap
    BY <1>1, <2>2, DequeueWire DEF Dequeue
  <2>3. CASE TestOpen(s) \/ FindEmpty(s) \/ WaitEnds(s)
    <3>1. /\ UNCHANGED <<queue, sent, written, writing, open>>
          /\ \E at \in {"dequeue", "done", "wait", "test"} :
               loop' = [loop EXCEPT ![s]["write"] = at]
      BY <2>3 DEF TestOpen, FindEmpty, WaitEnds, queueVars
    <3>2. \A r \in Sessions :
            /\ loop'[r]["read"] = loop[r]["read"]
            /\ loop'[r]["write"] = "write" => loop[r]["write"] = "write"
      BY <1>0, <3>1 DEF SocketTypes, Loops
    <3> QED
      BY <1>1, <3>1, <3>2, WireFrame DEF Live, Read
  <2> QED
    BY <1>3, <2>1, <2>2, <2>3 DEF WriteLoop
<1>4. ASSUME NEW s \in Sessions, NEW k \in Loops, Disconnect(s, k) \/ Callback(s, k)
      PROVE  WireInv' /\ NoGap
  <2>1. CASE Close(s, k)
    BY <1>1, <2>1, CloseWire DEF Close
  <2>2. ASSUME NEW t \in Senders, Drain(s, k, t)
        PROVE  WireInv' /\ NoGap
    BY <1>1, <2>2, DrainWire DEF Drain, socketVars
  <2>3. CASE Drained(s, k) \/ Callback(s, k)
    <3>1. /\ UNCHANGED <<queue, sent, written, writing, open>>
          /\ \E at \in {"callback", "callback again", "drain again", "done"} :
               loop' = [loop EXCEPT ![s][k] = at]
      BY <2>3 DEF Drained, Callback, queueVars
    <3>2. ASSUME NEW r \in Sessions
          PROVE  /\ loop'[r]["read"] = "off" => loop[r]["read"] = "off"
                 /\ loop'[r]["write"] = "write" => loop[r]["write"] = "write"
      <4>1. \A l \in Loops : \/ loop'[r][l] = loop[r][l]
                             \/ loop'[r][l] \notin {"off", "write"}
        BY <1>0, <3>1 DEF SocketTypes
      <4> QED
        BY <4>1 DEF Loops
    <3> QED
      BY <1>1, <3>1, <3>2, WireFrame DEF Live, Read
  <2> QED
    BY <1>4, <2>1, <2>2, <2>3 DEF Disconnect
<1>5. ASSUME NEW s \in Sessions, AcceptSession(s)
      PROVE  WireInv' /\ NoGap
  <2>1. /\ loop[s]["read"] = "off" /\ open' = open \cup {s}
        /\ loop' = [loop EXCEPT ![s] = [read |-> "run", write |-> "test"]]
        /\ UNCHANGED <<queue, sent, written, writing>>
    BY <1>5 DEF AcceptSession, Start, queueVars
  <2>2. /\ loop'[s]["write"] = "test"
        /\ \A r \in Sessions : r # s => loop'[r] = loop[r]
    BY <1>0, <2>1 DEF SocketTypes
  <2>3. \A r \in Sessions : Live(r)' => Live(r)
    BY <2>1, <2>2 DEF Live, Read
  <2> QED
    BY <1>1, <2>1, <2>2, <2>3, WireFrame
<1>6. ASSUME NEW t \in Testers, BeginPacket(t) \/ SendLoop(t)
      PROVE  WireInv' /\ NoGap
  <2>1. UNCHANGED <<open, loop, writing, written>>
    BY <1>6 DEF BeginPacket, BeginBroadcast, BeginSnapshot, BeginAnswer, SendLoop,
       BuildAnswer, TestConnected, SendPacket, EndPacket, AddToPlayerBatch, SendBatch,
       socketVars
  <2>2. CASE SendPacket(t) \/ SendBatch(t)
    <3>1. /\ stage[t] \in {"send", "send batch"}
          /\ \E body : Send(target[t], t, body)
      BY <2>2 DEF SendPacket, SendBatch
    <3>2. target[t] \in Sessions /\ t \in Senders
      BY <1>0, <3>1, Threads DEF TaskInv, TaskTypes
    <3> QED
      BY <1>1, <2>1, <3>1, <3>2, SendWire
  <2>3. CASE ~SendPacket(t) /\ ~SendBatch(t)
    <3>1. UNCHANGED <<queue, sent>>
      BY <1>6, <2>3 DEF BeginPacket, BeginBroadcast, BeginSnapshot, BeginAnswer, SendLoop,
         BuildAnswer, TestConnected, EndPacket, AddToPlayerBatch, queueVars
    <3> QED
      BY <1>1, <1>2, <2>1, <3>1
  <2> QED
    BY <2>2, <2>3
<1>7. CASE HandleRedisChatMessage
  BY <1>1, <1>7, ChatWire DEF HandleRedisChatMessage, socketVars
<1>8. ASSUME \/ \E s \in Sessions : OnSessionConnected(s)
             \/ Publish \/ DropMalformed \/ RedisFails \/ UNCHANGED vars
      PROVE  UNCHANGED <<queue, sent, written, writing, open, loop>>
  BY <1>8 DEF OnSessionConnected, Publish, DropMalformed, RedisFails, vars, outputVars,
     queueVars, socketVars
<1>9. \A s \in Sessions, k \in Loops : OnSessionDisconnected(s, k) => Callback(s, k)
  BY DEF OnSessionDisconnected
<1>10. \E k : k \in Loops
  BY DEF Loops
<1> QED
  BY <1>1, <1>2, <1>3, <1>4, <1>5, <1>6, <1>7, <1>8, <1>9, <1>10
     DEF Next, OutputNext, SubscribeThread

(* What the order on the wire rests on.                                      *)
OrderInv ==
  /\ TypeInv /\ BuildersSound /\ VectorsSound /\ ContentInv
  /\ OpenInv /\ WireInv

LEMMA OrderInit ==
  ASSUME Init
  PROVE  OrderInv
<1>1. ContentInv
  BY ContentInit
<1>2. Numbered
  <2>1. \A s \in Sessions, t \in Senders :
          /\ queue[s][t] = <<>> /\ sent[s][t] = 0 /\ written[s][t] = 0
          /\ writing[s] = <<>>
    BY DEF Init, OutputInit
  <2>2. Len(<<>>) = 0
    OBVIOUS
  <2> QED
    BY <2>1, <2>2 DEF Numbered, NumberedAt, Taken
<1>3. WriteInv
  BY DEF Init, OutputInit, WriteInv, Loops
<1> QED
  BY <1>1, <1>2, <1>3, TypeInit, SoundInit, OpenInit DEF OrderInv, WireInv

LEMMA OrderStep ==
  ASSUME OrderInv, [Next]_vars
  PROVE  OrderInv' /\ NoGap
<1>1. TypeInv' /\ PoolTypes /\ TaskInv /\ SocketTypes /\ QueuesIntact
  BY TypeStep DEF OrderInv, TypeInv, TypeOK, ContentInv
<1> QED
  BY <1>1, SoundStep, ContentStep, OpenStep, WireStep DEF OrderInv

(* What a thread sends to a session reaches the wire in order and without a  *)
(* gap, for every number of threads and packets, although WriteLoop and      *)
(* Disconnect take from the same queue (Session::WriteLoop, Disconnect).     *)
THEOREM WireStaysInOrder == Spec => WireHasNoGaps
<1>1. OrderInv /\ [Next]_vars =>
        [\A s \in Sessions, t \in Senders :
           written'[s][t] \in {written[s][t], written[s][t] + 1}]_outputVars
  BY OrderStep DEF NoGap
<1> QED
  BY <1>1, OrderInit, OrderStep, PTL DEF Spec, WireHasNoGaps

(* Until its socket is closed, no packet sent to a session is lost, whichever *)
(* threads send to it, and WriteLoop runs (Session::Send, WriteLoop).         *)
THEOREM OpenSessionsLoseNothing == Spec => []OpenLosesNothing
<1>1. OrderInv => OpenLosesNothing
  <2>1. OrderInv => open \subseteq Sessions
    BY DEF OrderInv, TypeInv, TypeOK, SocketTypes
  <2> QED
    BY <2>1 DEF OrderInv, OpenInv, WireInv, Numbered, NumberedAt, Live, OpenLosesNothing
<1> QED
  BY <1>1, OrderInit, OrderStep, PTL DEF Spec
=============================================================================
