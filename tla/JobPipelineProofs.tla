------------------------- MODULE JobPipelineProofs -------------------------
(***************************************************************************)
(* Proofs about JobPipeline, for any number of threads and of jobs: type   *)
(* correctness, no lost wakeup, one shutdown job per worker, and one place *)
(* for every packet.                                                       *)
(***************************************************************************)
EXTENDS JobPipeline, FiniteSetTheorems, TLAPS

USE PipelineAssumption

LEMMA MainIsPusher == Main \in Pushers
BY DEF Pushers

LEMMA PushersFinite == IsFiniteSet(Pushers)
BY FS_AddElement DEF Pushers

-----------------------------------------------------------------------------
(* Type correctness.                                                         *)

LEMMA InitType == Init => TypeOK
<1> SUFFICES ASSUME Init PROVE TypeOK
  OBVIOUS
<1>1. Cardinality(Workers) \in Nat
  BY FS_CardinalityType
<1>2. IsFiniteSet({})
  BY FS_EmptySet
<1> QED
  BY <1>1, <1>2 DEF Init, TypeOK

LEMMA EnqueueType ==
  ASSUME TypeOK, NEW t \in Pushers, NEW kind \in {"packet", "shutdown"}, Enqueue(t, kind)
  PROVE  /\ stage' \in [Pushers -> {"idle", "handling", "notify", "out"}]
         /\ pushed' \in [Pushers -> Nat]
         /\ queue' \subseteq Job /\ IsFiniteSet(queue')
<1>1. [from |-> t, n |-> pushed[t], kind |-> kind] \in Job
  BY DEF TypeOK, Job
<1>2. IsFiniteSet(queue')
  BY FS_AddElement DEF TypeOK, Enqueue
<1> QED
  BY <1>1, <1>2 DEF TypeOK, Enqueue

LEMMA PushType ==
  ASSUME TypeOK, NEW t \in Pushers, BeginHandler(t) \/ IoThread(t)
  PROVE  TypeOK'
<1> USE DEF poolVars, mainVars, gameVars
<1>1. CASE BeginHandler(t)
  BY <1>1 DEF TypeOK, BeginHandler
<1>2. CASE PushPacket(t)
  BY <1>2, EnqueueType DEF TypeOK, PushPacket
<1>3. CASE NotifyOne(t)
  BY <1>3 DEF TypeOK, NotifyOne, Waiting
<1>4. CASE RunReturns(t)
  BY <1>4 DEF TypeOK, RunReturns
<1> QED
  BY <1>1, <1>2, <1>3, <1>4 DEF IoThread

LEMMA WorkerType ==
  ASSUME TypeOK, NEW w \in Workers, WorkerLoop(w) \/ SpuriousWakeup(w)
  PROVE  TypeOK'
<1> USE DEF pushVars, mainVars, gameVars
<1>1. CASE PopJob(w)
  <2>1. PICK j \in queue :
          /\ queue' = queue \ {j}
          /\ IF j.kind = "shutdown"
             THEN /\ worker' = [worker EXCEPT ![w] = "exited"]
                  /\ held' = held
             ELSE /\ worker' = [worker EXCEPT ![w] = "busy"]
                  /\ held' = [held EXCEPT ![w] = {j}]
    BY <1>1 DEF PopJob
  <2>2. IsFiniteSet(queue')
    BY <2>1, FS_RemoveElement DEF TypeOK
  <2> QED
    BY <1>1, <2>1, <2>2 DEF TypeOK, PopJob
<1>2. CASE Wait(w)
  BY <1>2 DEF TypeOK, Wait
<1>3. CASE FinishPacket(w)
  BY <1>3 DEF TypeOK, FinishPacket
<1>4. CASE TestShuttingDown(w)
  BY <1>4 DEF TypeOK, TestShuttingDown
<1>5. CASE PushGameCommand(w)
  BY <1>5 DEF TypeOK, PushGameCommand
<1>6. CASE SpuriousWakeup(w)
  BY <1>6 DEF TypeOK, SpuriousWakeup
<1> QED
  BY <1>1, <1>2, <1>3, <1>4, <1>5, <1>6 DEF WorkerLoop

LEMMA StopType ==
  ASSUME TypeOK, Signal \/ GameLoop \/ MainThread
  PROVE  TypeOK'
<1> USE DEF pushVars, poolVars, gameVars
<1>1. CASE Signal
  BY <1>1 DEF TypeOK, Signal
<1>2. CASE GameLoop
  BY <1>2 DEF TypeOK, GameLoop, TestRunning, TryPopGameCommand, StopCollecting,
              ProcessBatch, mainVars
<1>3. CASE PushShutdownJob
  BY <1>3, EnqueueType, MainIsPusher DEF TypeOK, PushShutdownJob
<1>4. CASE ClearRunning \/ ShutdownGameQueue \/ JoinGameThread \/ StopSignalling
           \/ JoinWorkers
  BY <1>4 DEF TypeOK, ClearRunning, ShutdownGameQueue, JoinGameThread,
              StopSignalling, JoinWorkers
<1> QED
  BY <1>1, <1>2, <1>3, <1>4 DEF MainThread

LEMMA NextType ==
  ASSUME TypeOK, [Next]_vars
  PROVE  TypeOK'
<1>1. CASE UNCHANGED vars
  BY <1>1 DEF TypeOK, vars, pushVars, poolVars, mainVars, gameVars
<1> QED
  BY <1>1, PushType, WorkerType, StopType DEF Next

(* Every variable of the worker pool and of the stopping threads keeps its   *)
(* type (JobQueue, JobProcessor, GameLogicQueue, main).                      *)
THEOREM PipelineTypeCorrect == Spec => []TypeOK
<1>1. TypeOK /\ [Next]_vars => TypeOK'
  BY NextType
<1> QED
  BY InitType, <1>1, PTL DEF Spec

-----------------------------------------------------------------------------
(* Jobs are told apart.                                                      *)

LEMMA EnqueueUnique ==
  ASSUME TypeOK, UniqueJobs, NEW t \in Pushers, NEW kind \in {"packet", "shutdown"},
         Enqueue(t, kind)
  PROVE  UniqueJobs'
<1> DEFINE new == [from |-> t, n |-> pushed[t], kind |-> kind]
<1>1. /\ queue' = queue \cup {new}
      /\ new.from = t /\ new.n = pushed[t]
      /\ pushed' = [pushed EXCEPT ![t] = @ + 1]
  BY DEF Enqueue
<1>2. \A j \in queue : j.from \in Pushers /\ j.n \in Nat /\ j.n < pushed[j.from]
  BY DEF TypeOK, Job, UniqueJobs
<1>3. \A u \in Pushers : pushed[u] \in Nat /\ pushed'[u] = IF u = t THEN pushed[u] + 1 ELSE pushed[u]
  BY <1>1 DEF TypeOK
<1> HIDE DEF new
<1>4. \A j \in queue' : j.n < pushed'[j.from]
  BY <1>1, <1>2, <1>3
<1>5. \A j \in queue : ~(j.from = new.from /\ j.n = new.n)
  BY <1>1, <1>2, <1>3
<1>6. \A j, k \in queue' : j.from = k.from /\ j.n = k.n => j = k
  BY <1>1, <1>5 DEF UniqueJobs
<1> QED
  BY <1>4, <1>6 DEF UniqueJobs

(* The steps that change the queue.                                          *)
LEMMA QueueChanges ==
  ASSUME [Next]_vars,
         ~(\E t \in Pushers : PushPacket(t)),
         ~PushShutdownJob,
         ~(\E w \in Workers : PopJob(w))
  PROVE  UNCHANGED <<queue, pushed>>
<1> USE DEF pushVars
<1>1. CASE \E t \in Pushers : BeginHandler(t) \/ IoThread(t)
  BY <1>1 DEF BeginHandler, IoThread, NotifyOne, RunReturns
<1>2. CASE Signal
  BY <1>2 DEF Signal
<1>3. CASE \E w \in Workers : WorkerLoop(w) \/ SpuriousWakeup(w)
  BY <1>3 DEF WorkerLoop, SpuriousWakeup, Wait, FinishPacket, TestShuttingDown,
              PushGameCommand
<1>4. CASE GameLoop
  BY <1>4 DEF GameLoop, TestRunning, TryPopGameCommand, StopCollecting, ProcessBatch
<1>5. CASE MainThread
  BY <1>5 DEF MainThread, ClearRunning, ShutdownGameQueue, JoinGameThread,
              StopSignalling, JoinWorkers
<1>6. CASE UNCHANGED vars
  BY <1>6 DEF vars
<1> QED
  BY <1>1, <1>2, <1>3, <1>4, <1>5, <1>6 DEF Next

LEMMA UniqueStep ==
  ASSUME TypeOK, UniqueJobs, [Next]_vars
  PROVE  UniqueJobs'
<1>1. CASE \E t \in Pushers : PushPacket(t)
  BY <1>1, EnqueueUnique DEF PushPacket
<1>2. CASE PushShutdownJob
  BY <1>2, EnqueueUnique, MainIsPusher DEF PushShutdownJob
<1>3. CASE \E w \in Workers : PopJob(w)
  <2>1. queue' \subseteq queue /\ pushed' = pushed
    BY <1>3 DEF PopJob
  <2> QED
    BY <2>1 DEF UniqueJobs
<1>4. CASE UNCHANGED <<queue, pushed>>
  BY <1>4 DEF UniqueJobs
<1> QED
  BY <1>1, <1>2, <1>3, <1>4, QueueChanges

-----------------------------------------------------------------------------
(* No lost wakeup.                                                           *)

LEMMA Finite ==
  ASSUME TypeOK
  PROVE  /\ IsFiniteSet(Awake) /\ Cardinality(Awake) \in Nat
         /\ IsFiniteSet(Notifying) /\ Cardinality(Notifying) \in Nat
         /\ IsFiniteSet(Exited) /\ Cardinality(Exited) \in Nat
         /\ IsFiniteSet(Signals) /\ Cardinality(Signals) \in Nat
         /\ IsFiniteSet(queue) /\ Cardinality(queue) \in Nat
<1>1. /\ Awake \in SUBSET Workers
      /\ Notifying \in SUBSET Pushers
      /\ Exited \in SUBSET Workers
      /\ Signals \in SUBSET queue
      /\ IsFiniteSet(queue)
  BY DEF Awake, Notifying, Exited, Signals, TypeOK
<1>2. IsFiniteSet(Awake) /\ IsFiniteSet(Exited)
  BY <1>1, FS_Subset
<1>3. IsFiniteSet(Notifying)
  BY <1>1, FS_Subset, PushersFinite
<1>4. IsFiniteSet(Signals)
  BY <1>1, FS_Subset
<1> QED
  BY <1>1, <1>2, <1>3, <1>4, FS_CardinalityType

(* Jobs that are not notified yet are no more than the threads between an    *)
(* enqueue and its notification.                                             *)
LEMMA UnnotifiedBound ==
  ASSUME TypeOK, UniqueJobs, \A j \in queue : Unnotified(j)
  PROVE  Cardinality(queue) <= Cardinality(Notifying)
<1> DEFINE f == [j \in queue |-> j.from]
<1>1. \A j \in queue : j.from \in Notifying /\ j.n + 1 = pushed[j.from] /\ j.n \in Nat
  BY DEF Unnotified, Notifying, TypeOK, Job
<1>2. \A j, k \in queue : f[j] = f[k] => j = k
  BY <1>1 DEF UniqueJobs
<1>3. f \in Injection(queue, Notifying)
  BY <1>1, <1>2 DEF Injection, IsInjective
<1> QED
  BY <1>3, Finite, FS_Injection

(* An enqueue adds one job and one pending notification.                     *)
LEMMA EnqueueCounts ==
  ASSUME TypeOK, UniqueJobs, NEW t \in Pushers, NEW kind \in {"packet", "shutdown"},
         stage[t] # "notify", Enqueue(t, kind)
  PROVE  /\ Cardinality(queue') = Cardinality(queue) + 1
         /\ Cardinality(Notifying') = Cardinality(Notifying) + 1
<1> DEFINE new == [from |-> t, n |-> pushed[t], kind |-> kind]
<1>1. new \notin queue
  <2>1. pushed[t] \in Nat
    BY DEF TypeOK
  <2> QED
    BY <2>1 DEF UniqueJobs
<1>2. queue' = queue \cup {new}
  BY DEF Enqueue
<1>3. Notifying' = Notifying \cup {t} /\ t \notin Notifying
  BY DEF Enqueue, Notifying, TypeOK
<1> HIDE DEF new
<1> QED
  BY <1>1, <1>2, <1>3, Finite, FS_AddElement

LEMMA InitWakeup == Init => UniqueJobs /\ WakeupInv
BY DEF Init, UniqueJobs, WakeupInv, Waiting

(* Steps that leave the queue, the workers and the pushing threads alone.    *)
LEMMA WakeupSame ==
  ASSUME WakeupInv, Waiting' = Waiting, Awake' = Awake, Notifying' = Notifying,
         queue' = queue
  PROVE  WakeupInv'
BY DEF WakeupInv

(* A worker w goes from asleep to awake.                                     *)
LEMMA Wakes ==
  ASSUME TypeOK, NEW w \in Waiting, worker' = [worker EXCEPT ![w] = "ready"]
  PROVE  /\ Cardinality(Awake') = Cardinality(Awake) + 1
         /\ Waiting' \subseteq Waiting
<1>1. Awake' = Awake \cup {w} /\ w \notin Awake
  BY DEF Awake, Waiting, TypeOK
<1>2. Waiting' \subseteq Waiting
  BY DEF Waiting, TypeOK
<1> QED
  BY <1>1, <1>2, Finite, FS_AddElement

LEMMA PushWakeup ==
  ASSUME TypeOK, UniqueJobs, WakeupInv, NEW t \in Pushers,
         BeginHandler(t) \/ IoThread(t)
  PROVE  WakeupInv'
<1>1. CASE BeginHandler(t) \/ RunReturns(t)
  <2>1. queue' = queue /\ worker' = worker
    BY <1>1 DEF BeginHandler, RunReturns, poolVars
  <2>2. Notifying' = Notifying
    BY <1>1 DEF BeginHandler, RunReturns, Notifying, TypeOK
  <2>3. Waiting' = Waiting /\ Awake' = Awake
    BY <2>1 DEF Waiting, Awake
  <2> QED
    BY <2>1, <2>2, <2>3, WakeupSame
<1>2. CASE PushPacket(t)
  <2>1. Waiting' = Waiting /\ Awake' = Awake
    BY <1>2 DEF PushPacket, poolVars, Waiting, Awake
  <2>2. stage[t] # "notify" /\ Enqueue(t, "packet")
    BY <1>2 DEF PushPacket
  <2> QED
    BY <2>1, <2>2, EnqueueCounts, Finite DEF WakeupInv
<1>3. CASE NotifyOne(t)
  <2>1. queue' = queue
    BY <1>3 DEF NotifyOne
  <2>2. Notifying' = Notifying \ {t} /\ t \in Notifying
    BY <1>3 DEF NotifyOne, Notifying, TypeOK
  <2>3. Cardinality(Notifying') = Cardinality(Notifying) - 1
    BY <2>2, Finite, FS_RemoveElement
  <2>4. CASE Waiting = {} /\ worker' = worker
    BY <2>4 DEF WakeupInv, Waiting
  <2>5. CASE \E w \in Waiting : worker' = [worker EXCEPT ![w] = "ready"]
    <3>1. Cardinality(Awake') = Cardinality(Awake) + 1 /\ Waiting # {}
      BY <2>5, Wakes
    <3> QED
      BY <2>1, <2>3, <3>1, Finite DEF WakeupInv
  <2> QED
    BY <1>3, <2>4, <2>5 DEF NotifyOne
<1> QED
  BY <1>1, <1>2, <1>3 DEF IoThread

LEMMA WorkerWakeup ==
  ASSUME TypeOK, UniqueJobs, WakeupInv, NEW w \in Workers,
         WorkerLoop(w) \/ SpuriousWakeup(w)
  PROVE  WakeupInv'
<1>0. Notifying' = Notifying
  BY DEF WorkerLoop, SpuriousWakeup, PopJob, Wait, FinishPacket, TestShuttingDown,
         PushGameCommand, Notifying, pushVars
<1>1. CASE PopJob(w)
  <2>1. PICK j \in queue :
          /\ queue' = queue \ {j}
          /\ IF j.kind = "shutdown"
             THEN worker' = [worker EXCEPT ![w] = "exited"]
             ELSE worker' = [worker EXCEPT ![w] = "busy"]
    BY <1>1 DEF PopJob
  <2>2. Cardinality(queue') = Cardinality(queue) - 1
    BY <2>1, Finite, FS_RemoveElement
  <2>3. worker[w] = "ready"
    BY <1>1 DEF PopJob
  <2>4. Waiting' = Waiting
    BY <2>1, <2>3 DEF Waiting, TypeOK
  <2>5. Awake' = Awake \/ Awake' = Awake \ {w}
    BY <2>1, <2>3 DEF Awake, TypeOK
  <2>6. w \in Awake
    BY <2>3 DEF Awake
  <2>7. Cardinality(Awake \ {w}) = Cardinality(Awake) - 1
    BY <2>6, Finite, FS_RemoveElement
  <2>8. Cardinality(Awake') \in {Cardinality(Awake), Cardinality(Awake) - 1}
    BY <2>5, <2>7
  <2> QED
    BY <1>0, <2>2, <2>4, <2>7, <2>8, Finite DEF WakeupInv
<1>2. CASE Wait(w)
  <2>1. Cardinality(queue) <= Cardinality(Notifying)
    BY <1>2, UnnotifiedBound DEF Wait
  <2>2. queue' = queue
    BY <1>2 DEF Wait, pushVars
  <2>3. Awake' = Awake \ {w}
    BY <1>2 DEF Wait, Awake, TypeOK
  <2>4. Cardinality(Awake') \in Nat
    BY <2>3, Finite, FS_RemoveElement, FS_CardinalityType
  <2> QED
    BY <1>0, <2>1, <2>2, <2>4, Finite DEF WakeupInv
<1>3. CASE FinishPacket(w) \/ TestShuttingDown(w) \/ PushGameCommand(w)
  <2>1. queue' = queue
    BY <1>3 DEF FinishPacket, TestShuttingDown, PushGameCommand, pushVars
  <2>2. Waiting' = Waiting /\ Awake' = Awake
    BY <1>3 DEF FinishPacket, TestShuttingDown, PushGameCommand, Waiting, Awake, TypeOK
  <2> QED
    BY <1>0, <2>1, <2>2, WakeupSame
<1>4. CASE SpuriousWakeup(w)
  <2>1. queue' = queue
    BY <1>4 DEF SpuriousWakeup, pushVars
  <2>2. w \in Waiting
    BY <1>4 DEF SpuriousWakeup, Waiting
  <2>3. worker' = [worker EXCEPT ![w] = "ready"]
    BY <1>4 DEF SpuriousWakeup
  <2>4. Cardinality(Awake') = Cardinality(Awake) + 1
    BY <2>2, <2>3, Wakes
  <2> QED
    BY <1>0, <2>1, <2>2, <2>4, Finite DEF WakeupInv
<1> QED
  BY <1>1, <1>2, <1>3, <1>4 DEF WorkerLoop

LEMMA StopWakeup ==
  ASSUME TypeOK, UniqueJobs, WakeupInv, Signal \/ GameLoop \/ MainThread
  PROVE  WakeupInv'
<1>1. CASE PushShutdownJob
  <2>1. Waiting' = Waiting /\ Awake' = Awake
    BY <1>1 DEF PushShutdownJob, poolVars, Waiting, Awake
  <2>2. stage[Main] # "notify" /\ Enqueue(Main, "shutdown")
    BY <1>1 DEF PushShutdownJob
  <2> QED
    BY <2>1, <2>2, MainIsPusher, EnqueueCounts, Finite DEF WakeupInv
<1>2. CASE ~PushShutdownJob
  <2>1. UNCHANGED <<stage, queue, worker>>
    BY <1>2 DEF Signal, GameLoop, TestRunning, TryPopGameCommand, StopCollecting,
                ProcessBatch, MainThread, ClearRunning, ShutdownGameQueue,
                JoinGameThread, StopSignalling, JoinWorkers, pushVars, poolVars
  <2>2. Waiting' = Waiting /\ Awake' = Awake /\ Notifying' = Notifying
    BY <2>1 DEF Waiting, Awake, Notifying
  <2> QED
    BY <2>1, <2>2, WakeupSame
<1> QED
  BY <1>1, <1>2

LEMMA WakeupStep ==
  ASSUME TypeOK, UniqueJobs, WakeupInv, [Next]_vars
  PROVE  WakeupInv'
<1>1. CASE UNCHANGED vars
  BY <1>1 DEF WakeupInv, Waiting, Awake, Notifying, vars, pushVars, poolVars
<1> QED
  BY <1>1, PushWakeup, WorkerWakeup, StopWakeup DEF Next

LEMMA WakeupEnough ==
  ASSUME TypeOK, WakeupInv
  PROVE  NoLostWakeup
<1> SUFFICES ASSUME queue # {}, Exited # Workers, Awake = {}, Notifying = {}
             PROVE  FALSE
  BY DEF NoLostWakeup
<1>1. Waiting # {}
  BY DEF Waiting, Awake, Exited, TypeOK
<1>2. Cardinality(queue) # 0
  BY Finite, FS_EmptySet
<1>3. Cardinality(Awake) = 0 /\ Cardinality(Notifying) = 0
  BY FS_EmptySet
<1> QED
  BY <1>1, <1>2, <1>3, Finite DEF WakeupInv

(* With any number of workers and pushing threads, jobs never lie in the     *)
(* queue while every remaining worker sleeps and nobody is about to notify   *)
(* (JobQueue::PushJob, JobQueue::PopJob).                                    *)
THEOREM WakeupsAreNotLost == Spec => []NoLostWakeup
<1> DEFINE Inv == TypeOK /\ UniqueJobs /\ WakeupInv
<1>1. Init => Inv
  BY InitType, InitWakeup
<1>2. Inv /\ [Next]_vars => Inv'
  BY NextType, UniqueStep, WakeupStep
<1>3. Inv => NoLostWakeup
  BY WakeupEnough
<1> QED
  BY <1>1, <1>2, <1>3, PTL DEF Spec

-----------------------------------------------------------------------------
(* One shutdown job per worker.                                              *)

(* The number of shutdown jobs in the queue, after an enqueue.               *)
LEMMA SignalEnqueued ==
  ASSUME TypeOK, UniqueJobs, Enqueue(Main, "shutdown")
  PROVE  Cardinality(Signals') = Cardinality(Signals) + 1
<1> DEFINE new == [from |-> Main, n |-> pushed[Main], kind |-> "shutdown"]
<1>1. new \notin queue
  <2>1. pushed[Main] \in Nat
    BY MainIsPusher DEF TypeOK
  <2> QED
    BY <2>1 DEF UniqueJobs
<1>2. queue' = queue \cup {new} /\ new.kind = "shutdown"
  BY DEF Enqueue
<1> HIDE DEF new
<1>3. Signals' = Signals \cup {new} /\ new \notin Signals
  BY <1>1, <1>2 DEF Signals
<1> QED
  BY <1>3, Finite, FS_AddElement

LEMMA PacketEnqueued ==
  ASSUME NEW t \in Pushers, Enqueue(t, "packet")
  PROVE  Signals' = Signals
<1> DEFINE new == [from |-> t, n |-> pushed[t], kind |-> "packet"]
<1>1. queue' = queue \cup {new} /\ new.kind # "shutdown"
  BY DEF Enqueue
<1> HIDE DEF new
<1> QED
  BY <1>1 DEF Signals

(* A worker that takes a shutdown job exits; one that takes a packet does    *)
(* not.                                                                      *)
LEMMA PopSignal ==
  ASSUME TypeOK, NEW w \in Workers, PopJob(w)
  PROVE  Cardinality(Signals') + Cardinality(Exited')
           = Cardinality(Signals) + Cardinality(Exited)
<1>1. PICK j \in queue :
        /\ queue' = queue \ {j}
        /\ IF j.kind = "shutdown"
           THEN worker' = [worker EXCEPT ![w] = "exited"]
           ELSE worker' = [worker EXCEPT ![w] = "busy"]
  BY DEF PopJob
<1>2. worker[w] = "ready"
  BY DEF PopJob
<1>3. CASE j.kind = "shutdown"
  <2>1. Signals' = Signals \ {j} /\ j \in Signals
    BY <1>1, <1>3 DEF Signals
  <2>2. worker' = [worker EXCEPT ![w] = "exited"]
    BY <1>1, <1>3
  <2>3. Exited' = Exited \cup {w} /\ w \notin Exited
    BY <1>2, <2>2 DEF Exited, TypeOK
  <2>4. Cardinality(Signals') = Cardinality(Signals) - 1
    BY <2>1, Finite, FS_RemoveElement
  <2>5. Cardinality(Exited') = Cardinality(Exited) + 1
    BY <2>3, Finite, FS_AddElement
  <2> QED
    BY <2>4, <2>5, Finite
<1>4. CASE j.kind # "shutdown"
  <2>1. Signals' = Signals
    BY <1>1, <1>4 DEF Signals
  <2>2. worker' = [worker EXCEPT ![w] = "busy"]
    BY <1>1, <1>4
  <2>3. Exited' = Exited
    BY <1>2, <2>2 DEF Exited, TypeOK
  <2> QED
    BY <2>1, <2>3
<1> QED
  BY <1>3, <1>4

LEMMA SignalStep ==
  ASSUME TypeOK, UniqueJobs, SignalPerWorker, [Next]_vars
  PROVE  SignalPerWorker'
<1>0. ASSUME Signals' = Signals, signals' = signals, Exited' = Exited
      PROVE  SignalPerWorker'
  BY <1>0 DEF SignalPerWorker
<1>1. ASSUME NEW t \in Pushers, BeginHandler(t) \/ RunReturns(t)
      PROVE  SignalPerWorker'
  <2>1. UNCHANGED <<queue, worker, signals>>
    BY <1>1 DEF BeginHandler, RunReturns, poolVars, mainVars
  <2> QED
    BY <1>0, <2>1 DEF Signals, Exited
<1>2. ASSUME NEW t \in Pushers, PushPacket(t)
      PROVE  SignalPerWorker'
  <2>1. UNCHANGED <<worker, signals>> /\ Enqueue(t, "packet")
    BY <1>2 DEF PushPacket, poolVars, mainVars
  <2> QED
    BY <1>0, <2>1, PacketEnqueued DEF Exited
<1>3. ASSUME NEW t \in Pushers, NotifyOne(t)
      PROVE  SignalPerWorker'
  <2>1. UNCHANGED <<queue, signals>>
    BY <1>3 DEF NotifyOne, mainVars
  <2>2. Exited' = Exited
    BY <1>3 DEF NotifyOne, Waiting, Exited, TypeOK
  <2> QED
    BY <1>0, <2>1, <2>2 DEF Signals
<1>4. ASSUME NEW w \in Workers, PopJob(w)
      PROVE  SignalPerWorker'
  <2>1. signals' = signals
    BY <1>4 DEF PopJob, mainVars
  <2>2. TypeOK'
    BY NextType
  <2>3. Cardinality(Signals') \in Nat /\ Cardinality(Exited') \in Nat
    <3>1. Exited' \in SUBSET Workers /\ Signals' \in SUBSET queue' /\ IsFiniteSet(queue')
      BY <2>2 DEF Exited, Signals, TypeOK
    <3> QED
      BY <3>1, FS_Subset, FS_CardinalityType
  <2> QED
    BY <1>4, <2>1, <2>3, PopSignal, Finite DEF SignalPerWorker, TypeOK
<1>5. ASSUME NEW w \in Workers,
             \/ Wait(w) \/ FinishPacket(w) \/ TestShuttingDown(w)
             \/ PushGameCommand(w) \/ SpuriousWakeup(w)
      PROVE  SignalPerWorker'
  <2>1. UNCHANGED <<queue, signals>>
    BY <1>5 DEF Wait, FinishPacket, TestShuttingDown, PushGameCommand, SpuriousWakeup,
                pushVars, mainVars
  <2>2. Exited' = Exited
    BY <1>5 DEF Wait, FinishPacket, TestShuttingDown, PushGameCommand, SpuriousWakeup,
                Exited, TypeOK
  <2> QED
    BY <1>0, <2>1, <2>2 DEF Signals
<1>6. CASE PushShutdownJob
  <2>1. signals \in Nat \ {0} /\ signals' = signals - 1 /\ Exited' = Exited
    BY <1>6 DEF PushShutdownJob, poolVars, Exited, TypeOK
  <2>2. Cardinality(Signals') = Cardinality(Signals) + 1
    BY <1>6, SignalEnqueued DEF PushShutdownJob
  <2> QED
    BY <2>1, <2>2, Finite DEF SignalPerWorker
<1>7. CASE (Signal \/ GameLoop \/ MainThread) /\ ~PushShutdownJob
  <2>1. UNCHANGED <<queue, worker, signals>>
    BY <1>7 DEF Signal, GameLoop, TestRunning, TryPopGameCommand, StopCollecting,
                ProcessBatch, MainThread, ClearRunning, ShutdownGameQueue,
                JoinGameThread, StopSignalling, JoinWorkers, pushVars, poolVars, mainVars
  <2> QED
    BY <1>0, <2>1 DEF Signals, Exited
<1>8. CASE UNCHANGED vars
  BY <1>0, <1>8 DEF Signals, Exited, vars, pushVars, poolVars, mainVars
<1> QED
  BY <1>1, <1>2, <1>3, <1>4, <1>5, <1>6, <1>7, <1>8 DEF Next, IoThread, WorkerLoop

LEMMA InitSignals == Init => SignalPerWorker
<1> SUFFICES ASSUME Init PROVE SignalPerWorker
  OBVIOUS
<1>1. Signals = {} /\ Exited = {} /\ signals = Cardinality(Workers)
  BY DEF Init, Signals, Exited
<1>2. Cardinality(Workers) \in Nat /\ Cardinality({}) = 0
  BY FS_CardinalityType, FS_EmptySet
<1> QED
  BY <1>1, <1>2 DEF SignalPerWorker

(* For any number of workers: every worker that has not exited has exactly   *)
(* one shutdown job, in the queue or still to be pushed, so the join of the  *)
(* workers waits for no thread that nobody stops (JobProcessor::Stop,        *)
(* JobProcessor::WorkerLoop).                                                *)
THEOREM EveryWorkerIsSignalled == Spec => []SignalPerWorker
<1> DEFINE Inv == TypeOK /\ UniqueJobs /\ SignalPerWorker
<1>1. Init => Inv
  BY InitType, InitWakeup, InitSignals
<1>2. Inv /\ [Next]_vars => Inv'
  BY NextType, UniqueStep, SignalStep
<1>3. Inv => SignalPerWorker
  OBVIOUS
<1> QED
  BY <1>1, <1>2, <1>3, PTL DEF Spec

-----------------------------------------------------------------------------
(* Every packet is accounted for.                                            *)

LEMMA StopsAre ==
  ASSUME NEW j
  PROVE  /\ Stops(j) \subseteq 1..6
         /\ 1 \in Stops(j) <=> j \in queue
         /\ 2 \in Stops(j) <=> j \in commands
         /\ 3 \in Stops(j) <=> j \in batch
         /\ 4 \in Stops(j) <=> j \in applied
         /\ 5 \in Stops(j) <=> j \in finished
         /\ 6 \in Stops(j) <=> j \in dropped
BY DEF Stops

(* The same after a step.                                                    *)
LEMMA StopsThen ==
  ASSUME NEW j
  PROVE  /\ Stops(j)' \subseteq 1..6
         /\ 1 \in Stops(j)' <=> j \in queue'
         /\ 2 \in Stops(j)' <=> j \in commands'
         /\ 3 \in Stops(j)' <=> j \in batch'
         /\ 4 \in Stops(j)' <=> j \in applied'
         /\ 5 \in Stops(j)' <=> j \in finished'
         /\ 6 \in Stops(j)' <=> j \in dropped'
BY DEF Stops

LEMMA SixStops == \A i \in 1..6 : i = 1 \/ i = 2 \/ i = 3 \/ i = 4 \/ i = 5 \/ i = 6
OBVIOUS

(* What a step does to the stops of a job: nothing, ...                      *)
LEMMA StopsSame ==
  ASSUME NEW j,
         j \in queue' <=> j \in queue,
         j \in commands' <=> j \in commands,
         j \in batch' <=> j \in batch,
         j \in applied' <=> j \in applied,
         j \in finished' <=> j \in finished,
         j \in dropped' <=> j \in dropped
  PROVE  Stops(j)' = Stops(j)
<1>1. \A i \in 1..6 : i \in Stops(j)' <=> i \in Stops(j)
  BY StopsAre, StopsThen, SixStops
<1> QED
  BY <1>1, StopsAre, StopsThen

(* A job in one place is in one place after a step that leaves it there, ... *)
LEMMA Stays ==
  ASSUME NEW j, Stops(j)' = Stops(j), Holders(j)' = Holders(j)
  PROVE  /\ OnePlace(j) => OnePlace(j)'
         /\ NoPlace(j) => NoPlace(j)'
BY DEF OnePlace, NoPlace

(* ... that takes it from one stop to another, ...                           *)
LEMMA Moves ==
  ASSUME NEW j, OnePlace(j), NEW a \in Stops(j), NEW b \in 1..6,
         \A i \in 1..6 : i \in Stops(j)' <=> i = b \/ i \in Stops(j) \ {a},
         Holders(j)' = Holders(j)
  PROVE  OnePlace(j)'
<1>1. Stops(j) = {a} /\ Holders(j) = {}
  BY DEF OnePlace
<1>2. Stops(j)' = {b}
  BY <1>1, StopsThen
<1> QED
  BY <1>1, <1>2 DEF OnePlace

(* ... that gives it to a worker, ...                                        *)
LEMMA Taken ==
  ASSUME NEW j, OnePlace(j), 1 \in Stops(j), NEW w \in Workers,
         \A i \in 1..6 : i \in Stops(j)' <=> i \in Stops(j) \ {1},
         Holders(j)' = Holders(j) \cup {w}
  PROVE  OnePlace(j)'
<1>1. Stops(j) = {1} /\ Holders(j) = {}
  BY DEF OnePlace
<1>2. Stops(j)' = {}
  BY <1>1, StopsThen
<1> QED
  BY <1>1, <1>2 DEF OnePlace

(* ... or by which its worker passes it on.                                  *)
LEMMA PassedOn ==
  ASSUME NEW j, OnePlace(j), NEW w \in Holders(j), NEW b \in 1..6,
         \A i \in 1..6 : i \in Stops(j)' <=> i = b \/ i \in Stops(j),
         Holders(j)' = Holders(j) \ {w}
  PROVE  OnePlace(j)'
<1>1. Stops(j) = {} /\ Holders(j) = {w}
  BY DEF OnePlace
<1>2. Stops(j)' = {b}
  BY <1>1, StopsThen
<1> QED
  BY <1>1, <1>2 DEF OnePlace

(* The path of one packet: j is number k of thread t.                        *)
OnPath(j, t, k) == IF k < pushed[t] THEN OnePlace(j) ELSE NoPlace(j)

LEMMA PathKept ==
  ASSUME NEW j, NEW t \in IoThreads, NEW k, OnPath(j, t, k), pushed' = pushed,
         Stops(j)' = Stops(j), Holders(j)' = Holders(j)
  PROVE  OnPath(j, t, k)'
BY Stays DEF OnPath

(* A job that is somewhere was pushed.                                       *)
LEMMA PathFollowed ==
  ASSUME NEW j, NEW t \in IoThreads, NEW k, OnPath(j, t, k), pushed' = pushed,
         Stops(j) # {} \/ Holders(j) # {}
  PROVE  OnePlace(j) /\ (OnePlace(j)' => OnPath(j, t, k)')
BY DEF OnPath, NoPlace

LEMMA PathPush ==
  ASSUME TypeOK, NEW t \in IoThreads, NEW k \in Nat,
         NEW u \in Pushers, NEW kind \in {"packet", "shutdown"}, Enqueue(u, kind),
         kind = "shutdown" => u = Main,
         UNCHANGED <<held, commands, batch, applied, finished, dropped>>,
         OnPath([from |-> t, n |-> k, kind |-> "packet"], t, k)
  PROVE  OnPath([from |-> t, n |-> k, kind |-> "packet"], t, k)'
<1> DEFINE j == [from |-> t, n |-> k, kind |-> "packet"]
           new == [from |-> u, n |-> pushed[u], kind |-> kind]
<1>1. t \in Pushers /\ t # Main /\ pushed[t] \in Nat
  BY DEF Pushers, TypeOK
<1>2. queue' = queue \cup {new} /\ pushed' = [pushed EXCEPT ![u] = @ + 1]
  BY DEF Enqueue
<1>3. pushed'[t] = IF t = u THEN pushed[t] + 1 ELSE pushed[t]
  BY <1>1, <1>2 DEF TypeOK
<1>4. j = new <=> t = u /\ k = pushed[t]
  <2>1. j = new => j.from = new.from /\ j.n = new.n
    OBVIOUS
  <2>2. t = u => kind = "packet"
    BY <1>1
  <2> QED
    BY <2>1, <2>2
<1> HIDE DEF j, new
<1>5. Holders(j)' = Holders(j)
  BY DEF Holders
<1>6. CASE j = new
  <2>1. k = pushed[t] /\ k < pushed'[t]
    BY <1>1, <1>3, <1>4, <1>6
  <2>2. NoPlace(j)
    BY <2>1, <1>1 DEF OnPath, j
  <2>3. \A i \in 1..6 : i \in Stops(j)' <=> i = 1
    BY <1>2, <1>6, <2>2, StopsAre, StopsThen, SixStops DEF NoPlace
  <2>4. Stops(j)' = {1} /\ Holders(j)' = {}
    BY <1>5, <2>2, <2>3, StopsThen DEF NoPlace
  <2> QED
    BY <2>1, <2>4 DEF OnPath, OnePlace, j
<1>7. CASE j # new
  <2>1. k < pushed'[t] <=> k < pushed[t]
    BY <1>1, <1>3, <1>4, <1>7
  <2>2. Stops(j)' = Stops(j)
    BY <1>2, <1>7, StopsSame
  <2> QED
    BY <1>5, <2>1, <2>2, Stays DEF OnPath, j
<1> QED
  BY <1>6, <1>7

LEMMA PathPop ==
  ASSUME TypeOK, IdleInv, NEW t \in IoThreads, NEW k, NEW w \in Workers, PopJob(w),
         NEW j, j.kind = "packet", OnPath(j, t, k)
  PROVE  OnPath(j, t, k)'
<1>1. UNCHANGED <<pushed, commands, batch, applied, finished, dropped>>
  BY DEF PopJob, gameVars
<1>2. PICK c \in queue :
        /\ queue' = queue \ {c}
        /\ IF c.kind = "shutdown"
           THEN held' = held
           ELSE held' = [held EXCEPT ![w] = {c}]
  BY DEF PopJob
<1>3. held[w] = {}
  BY DEF PopJob, IdleInv
<1>4. CASE c = j
  <2>1. 1 \in Stops(j)
    BY <1>4, StopsAre
  <2>2. Holders(j)' = Holders(j) \cup {w}
    BY <1>2, <1>4 DEF Holders, TypeOK
  <2>3. \A i \in 1..6 : i \in Stops(j)' <=> i \in Stops(j) \ {1}
    BY <1>1, <1>2, <1>4, StopsAre, StopsThen, SixStops
  <2>4. OnePlace(j)
    BY <1>1, <2>1, PathFollowed
  <2>5. OnePlace(j)'
    BY <2>1, <2>2, <2>3, <2>4, Taken
  <2> QED
    BY <1>1, <2>1, <2>5, PathFollowed
<1>5. CASE c # j
  <2>1. Stops(j)' = Stops(j)
    BY <1>1, <1>2, <1>5, StopsSame
  <2>2. Holders(j)' = Holders(j)
    BY <1>2, <1>3, <1>5 DEF Holders, TypeOK
  <2> QED
    BY <1>1, <2>1, <2>2, PathKept
<1> QED
  BY <1>4, <1>5

(* A worker is done with the job it holds, and adds it to stop b.            *)
LEMMA PathDone ==
  ASSUME TypeOK, NEW t \in IoThreads, NEW k, NEW w \in Workers,
         UNCHANGED <<pushed, queue, batch, applied>>,
         held' = [held EXCEPT ![w] = {}],
         \/ commands' = commands \cup held[w] /\ UNCHANGED <<finished, dropped>>
         \/ finished' = finished \cup held[w] /\ UNCHANGED <<commands, dropped>>
         \/ dropped' = dropped \cup held[w] /\ UNCHANGED <<commands, finished>>,
         NEW j, OnPath(j, t, k)
  PROVE  OnPath(j, t, k)'
<1>1. Holders(j)' = Holders(j) \ {w}
  BY DEF Holders, TypeOK
<1>2. CASE j \in held[w]
  <2>1. w \in Holders(j)
    BY <1>2 DEF Holders
  <2>2. OnePlace(j)
    BY <2>1, PathFollowed
  <2>3. \E b \in 1..6 : \A i \in 1..6 : i \in Stops(j)' <=> i = b \/ i \in Stops(j)
    <3>1. CASE commands' = commands \cup held[w] /\ UNCHANGED <<finished, dropped>>
      <4>1. \A i \in 1..6 : i \in Stops(j)' <=> i = 2 \/ i \in Stops(j)
        BY <1>2, <3>1, StopsAre, StopsThen, SixStops
      <4> QED
        BY <4>1
    <3>2. CASE finished' = finished \cup held[w] /\ UNCHANGED <<commands, dropped>>
      <4>1. \A i \in 1..6 : i \in Stops(j)' <=> i = 5 \/ i \in Stops(j)
        BY <1>2, <3>2, StopsAre, StopsThen, SixStops
      <4> QED
        BY <4>1
    <3>3. CASE dropped' = dropped \cup held[w] /\ UNCHANGED <<commands, finished>>
      <4>1. \A i \in 1..6 : i \in Stops(j)' <=> i = 6 \/ i \in Stops(j)
        BY <1>2, <3>3, StopsAre, StopsThen, SixStops
      <4> QED
        BY <4>1
    <3> QED
      BY <3>1, <3>2, <3>3
  <2>4. OnePlace(j)'
    BY <1>1, <2>1, <2>2, <2>3, PassedOn
  <2> QED
    BY <2>1, <2>4, PathFollowed
<1>3. CASE j \notin held[w]
  <2>1. Holders(j)' = Holders(j)
    BY <1>1, <1>3 DEF Holders
  <2>2. Stops(j)' = Stops(j)
    BY <1>3, StopsSame
  <2> QED
    BY <2>1, <2>2, PathKept
<1> QED
  BY <1>2, <1>3

LEMMA PathWorker ==
  ASSUME TypeOK, IdleInv, NEW t \in IoThreads, NEW k, NEW w \in Workers,
         WorkerLoop(w) \/ SpuriousWakeup(w),
         NEW j, j.kind = "packet", OnPath(j, t, k)
  PROVE  OnPath(j, t, k)'
<1> USE DEF pushVars, gameVars
<1>1. CASE \/ Wait(w) \/ SpuriousWakeup(w)
           \/ TestShuttingDown(w) /\ closed = "no"
  <2>1. UNCHANGED <<pushed, queue, held, commands, batch, applied, finished, dropped>>
    BY <1>1 DEF Wait, SpuriousWakeup, TestShuttingDown
  <2>2. Stops(j)' = Stops(j) /\ Holders(j)' = Holders(j)
    BY <2>1, StopsSame DEF Holders
  <2> QED
    BY <2>1, <2>2, PathKept
<1>2. CASE PopJob(w)
  BY <1>2, PathPop
<1>3. CASE FinishPacket(w)
  BY <1>3, PathDone DEF FinishPacket
<1>4. CASE TestShuttingDown(w) /\ closed # "no"
  BY <1>4, PathDone DEF TestShuttingDown
<1>5. CASE PushGameCommand(w)
  BY <1>5, PathDone DEF PushGameCommand
<1> QED
  BY <1>1, <1>2, <1>3, <1>4, <1>5 DEF WorkerLoop

LEMMA PathGame ==
  ASSUME TypeOK, NEW t \in IoThreads, NEW k, GameLoop, NEW j, OnPath(j, t, k)
  PROVE  OnPath(j, t, k)'
<1>1. UNCHANGED <<pushed, queue, held, finished>>
  BY DEF GameLoop, TestRunning, TryPopGameCommand, StopCollecting, ProcessBatch,
         pushVars, poolVars
<1>2. Holders(j)' = Holders(j)
  BY <1>1 DEF Holders
<1>3. CASE TestRunning \/ StopCollecting
  <2>1. UNCHANGED <<commands, batch, applied, dropped>>
    BY <1>3 DEF TestRunning, StopCollecting
  <2> QED
    BY <1>1, <1>2, <2>1, StopsSame, PathKept
<1>4. CASE TryPopGameCommand
  <2>1. PICK c \in commands :
          /\ commands' = commands \ {c}
          /\ \/ batch' = batch \cup {c} /\ UNCHANGED dropped
             \/ dropped' = dropped \cup {c} /\ UNCHANGED batch
    BY <1>4 DEF TryPopGameCommand
  <2>2. UNCHANGED applied
    BY <1>4 DEF TryPopGameCommand
  <2>3. CASE c = j
    <3>1. 2 \in Stops(j)
      BY <2>3, StopsAre
    <3>2. OnePlace(j)
      BY <1>1, <3>1, PathFollowed
    <3>3. \E b \in 1..6 :
            \A i \in 1..6 : i \in Stops(j)' <=> i = b \/ i \in Stops(j) \ {2}
      <4>1. CASE batch' = batch \cup {c} /\ UNCHANGED dropped
        <5>1. \A i \in 1..6 : i \in Stops(j)' <=> i = 3 \/ i \in Stops(j) \ {2}
          BY <1>1, <2>1, <2>2, <2>3, <4>1, StopsAre, StopsThen, SixStops
        <5> QED
          BY <5>1
      <4>2. CASE dropped' = dropped \cup {c} /\ UNCHANGED batch
        <5>1. \A i \in 1..6 : i \in Stops(j)' <=> i = 6 \/ i \in Stops(j) \ {2}
          BY <1>1, <2>1, <2>2, <2>3, <4>2, StopsAre, StopsThen, SixStops
        <5> QED
          BY <5>1
      <4> QED
        BY <2>1, <4>1, <4>2
    <3>4. OnePlace(j)'
      BY <1>2, <3>1, <3>2, <3>3, Moves
    <3> QED
      BY <1>1, <3>1, <3>4, PathFollowed
  <2>4. CASE c # j
    BY <1>1, <1>2, <2>1, <2>2, <2>4, StopsSame, PathKept
  <2> QED
    BY <2>3, <2>4
<1>5. CASE ProcessBatch
  <2>1. applied' = applied \cup batch /\ batch' = {} /\ UNCHANGED <<commands, dropped>>
    BY <1>5 DEF ProcessBatch
  <2>2. CASE j \in batch
    <3>1. 3 \in Stops(j)
      BY <2>2, StopsAre
    <3>2. OnePlace(j)
      BY <1>1, <3>1, PathFollowed
    <3>3. \A i \in 1..6 : i \in Stops(j)' <=> i = 4 \/ i \in Stops(j) \ {3}
      BY <1>1, <2>1, <2>2, StopsAre, StopsThen, SixStops
    <3>4. OnePlace(j)'
      BY <1>2, <3>1, <3>2, <3>3, Moves
    <3> QED
      BY <1>1, <3>1, <3>4, PathFollowed
  <2>3. CASE j \notin batch
    BY <1>1, <1>2, <2>1, <2>3, StopsSame, PathKept
  <2> QED
    BY <2>2, <2>3
<1> QED
  BY <1>3, <1>4, <1>5 DEF GameLoop

LEMMA PathStep ==
  ASSUME TypeOK, IdleInv, PathInv, [Next]_vars
  PROVE  PathInv'
<1> SUFFICES ASSUME NEW t \in IoThreads, NEW k \in 0..(MaxJobs - 1)
             PROVE  OnPath([from |-> t, n |-> k, kind |-> "packet"], t, k)'
  BY DEF PathInv, OnPath
<1> DEFINE j == [from |-> t, n |-> k, kind |-> "packet"]
<1>1. OnPath(j, t, k)
  BY DEF PathInv, OnPath
<1>2. k \in Nat /\ j.kind = "packet"
  OBVIOUS
<1>3. ASSUME NEW u \in Pushers, PushPacket(u)
      PROVE  OnPath(j, t, k)'
  <2>1. /\ Enqueue(u, "packet")
        /\ UNCHANGED <<held, commands, batch, applied, finished, dropped>>
    BY <1>3 DEF PushPacket, poolVars, gameVars
  <2> QED
    BY <1>1, <1>2, <2>1, PathPush
<1>4. CASE PushShutdownJob
  <2>1. /\ Enqueue(Main, "shutdown")
        /\ UNCHANGED <<held, commands, batch, applied, finished, dropped>>
    BY <1>4 DEF PushShutdownJob, poolVars, gameVars
  <2> QED
    BY <1>1, <1>2, <2>1, MainIsPusher, PathPush
<1> HIDE DEF j
<1>5. ASSUME NEW w \in Workers, WorkerLoop(w) \/ SpuriousWakeup(w)
      PROVE  OnPath(j, t, k)'
  BY <1>1, <1>2, <1>5, PathWorker
<1>6. ASSUME GameLoop
      PROVE  OnPath(j, t, k)'
  BY <1>1, <1>6, PathGame
<1>7. ASSUME \/ UNCHANGED vars
             \/ \E u \in Pushers : BeginHandler(u) \/ NotifyOne(u) \/ RunReturns(u)
             \/ Signal
             \/ ClearRunning \/ ShutdownGameQueue \/ JoinGameThread
             \/ StopSignalling \/ JoinWorkers
      PROVE  OnPath(j, t, k)'
  <2>1. UNCHANGED <<pushed, queue, held, commands, batch, applied, finished, dropped>>
    BY <1>7 DEF BeginHandler, NotifyOne, RunReturns, Signal, ClearRunning,
                ShutdownGameQueue, JoinGameThread, StopSignalling, JoinWorkers,
                vars, pushVars, poolVars, gameVars
  <2>2. Stops(j)' = Stops(j) /\ Holders(j)' = Holders(j)
    BY <2>1, StopsSame DEF Holders
  <2> QED
    BY <1>1, <2>1, <2>2, PathKept
<1> QED
  BY <1>3, <1>4, <1>5, <1>6, <1>7 DEF Next, IoThread, MainThread, j

LEMMA IdleStep ==
  ASSUME TypeOK, IdleInv, [Next]_vars
  PROVE  IdleInv'
<1>1. ASSUME NEW w \in Workers, WorkerLoop(w) \/ SpuriousWakeup(w)
      PROVE  IdleInv'
  <2>1. CASE PopJob(w)
    BY <2>1 DEF PopJob, IdleInv, TypeOK
  <2>2. CASE Wait(w) \/ SpuriousWakeup(w)
    BY <2>2 DEF Wait, SpuriousWakeup, IdleInv, TypeOK
  <2>3. CASE FinishPacket(w) \/ TestShuttingDown(w) \/ PushGameCommand(w)
    BY <2>3 DEF FinishPacket, TestShuttingDown, PushGameCommand, IdleInv, TypeOK
  <2> QED
    BY <1>1, <2>1, <2>2, <2>3 DEF WorkerLoop
<1>2. ASSUME NEW t \in Pushers, BeginHandler(t) \/ IoThread(t)
      PROVE  IdleInv'
  <2>1. CASE NotifyOne(t)
    BY <2>1 DEF NotifyOne, Waiting, IdleInv, TypeOK
  <2>2. CASE BeginHandler(t) \/ PushPacket(t) \/ RunReturns(t)
    BY <2>2 DEF BeginHandler, PushPacket, RunReturns, poolVars, IdleInv
  <2> QED
    BY <1>2, <2>1, <2>2 DEF IoThread
<1>3. CASE UNCHANGED vars \/ Signal \/ GameLoop \/ MainThread
  <2>1. UNCHANGED <<worker, held>>
    BY <1>3 DEF Signal, GameLoop, TestRunning, TryPopGameCommand, StopCollecting,
                ProcessBatch, MainThread, ClearRunning, ShutdownGameQueue,
                JoinGameThread, PushShutdownJob, StopSignalling, JoinWorkers,
                vars, poolVars
  <2> QED
    BY <2>1 DEF IdleInv
<1> QED
  BY <1>1, <1>2, <1>3 DEF Next

LEMMA StopStep ==
  ASSUME TypeOK, StopInv, [Next]_vars
  PROVE  StopInv'
<1> USE DEF StopInv
<1>1. CASE \E w \in Workers : WorkerLoop(w) \/ SpuriousWakeup(w)
  <2>1. UNCHANGED <<main, running, closed>>
    BY <1>1 DEF WorkerLoop, SpuriousWakeup, PopJob, Wait, FinishPacket,
                TestShuttingDown, PushGameCommand, mainVars
  <2>2. dropped' = dropped \/ closed = "yes"
    BY <1>1 DEF WorkerLoop, SpuriousWakeup, PopJob, Wait, FinishPacket,
                TestShuttingDown, PushGameCommand
  <2> QED
    BY <2>1, <2>2
<1>2. CASE GameLoop
  <2>1. UNCHANGED <<main, running, closed>>
    BY <1>2 DEF GameLoop, TestRunning, TryPopGameCommand, StopCollecting,
                ProcessBatch, mainVars
  <2>2. dropped' = dropped \/ running = "no"
    BY <1>2 DEF GameLoop, TestRunning, TryPopGameCommand, StopCollecting, ProcessBatch
  <2> QED
    BY <2>1, <2>2
<1>3. CASE \E t \in Pushers : BeginHandler(t) \/ IoThread(t)
  <2>1. /\ UNCHANGED <<running, closed, dropped>>
        /\ main' = main \/ main' = "flag"
    BY <1>3 DEF BeginHandler, IoThread, PushPacket, NotifyOne, RunReturns, mainVars
  <2> QED
    BY <2>1
<1>4. CASE MainThread
  BY <1>4 DEF MainThread, ClearRunning, ShutdownGameQueue, JoinGameThread,
              PushShutdownJob, StopSignalling, JoinWorkers
<1>5. CASE Signal \/ UNCHANGED vars
  BY <1>5 DEF Signal, vars, mainVars
<1> QED
  BY <1>1, <1>2, <1>3, <1>4, <1>5 DEF Next

LEMMA InitPath == Init => StopInv /\ IdleInv /\ PathInv
<1> SUFFICES ASSUME Init PROVE StopInv /\ IdleInv /\ PathInv
  OBVIOUS
<1>1. StopInv /\ IdleInv
  BY DEF Init, StopInv, IdleInv
<1>2. ASSUME NEW t \in IoThreads, NEW k \in 0..(MaxJobs - 1)
      PROVE  LET j == [from |-> t, n |-> k, kind |-> "packet"]
             IN IF k < pushed[t] THEN OnePlace(j) ELSE NoPlace(j)
  <2> DEFINE j == [from |-> t, n |-> k, kind |-> "packet"]
  <2> HIDE DEF j
  <2>1. pushed[t] = 0
    BY DEF Init, Pushers
  <2>2. \A i \in 1..6 : i \notin Stops(j)
    BY StopsAre, SixStops DEF Init
  <2>3. Holders(j) = {}
    BY DEF Init, Holders
  <2>4. NoPlace(j)
    BY <2>2, <2>3, StopsAre DEF NoPlace
  <2> QED
    BY <2>1, <2>4 DEF j
<1> QED
  BY <1>1, <1>2 DEF PathInv

LEMMA OnePlaceCounts ==
  ASSUME NEW j, OnePlace(j)
  PROVE  Places(j) = 1
<1>1. \A x : Cardinality({x}) = 1
  BY FS_Singleton
<1>2. Cardinality({}) = 0
  BY FS_EmptySet
<1>3. CASE Holders(j) = {} /\ \E i \in 1..6 : Stops(j) = {i}
  <2>1. Cardinality(Holders(j)) = 0 /\ Cardinality(Stops(j)) = 1
    BY <1>1, <1>2, <1>3
  <2> QED
    BY <2>1 DEF Places
<1>4. CASE Stops(j) = {} /\ \E w \in Workers : Holders(j) = {w}
  <2>1. Cardinality(Stops(j)) = 0 /\ Cardinality(Holders(j)) = 1
    BY <1>1, <1>2, <1>4
  <2> QED
    BY <2>1 DEF Places
<1> QED
  BY <1>3, <1>4 DEF OnePlace

(* For any number of threads, workers and packets: each packet an io thread  *)
(* has pushed is at every moment in exactly one place - the JobQueue, the    *)
(* hands of one worker, the GameLogicQueue, the batch of the game thread or  *)
(* the end of its way - and none is thrown away while the server runs        *)
(* (PopJob, PushGameCommand, ProcessPendingCommands, GameManager::Stop).     *)
THEOREM PacketsAreAccounted == Spec => []Accounted
<1> DEFINE Inv == TypeOK /\ StopInv /\ IdleInv /\ PathInv
<1>1. Init => Inv
  BY InitType, InitPath
<1>2. Inv /\ [Next]_vars => Inv'
  BY NextType, StopStep, IdleStep, PathStep
<1>3. Inv => Accounted
  BY OnePlaceCounts DEF StopInv, PathInv, Accounted
<1> QED
  BY <1>1, <1>2, <1>3, PTL DEF Spec

-----------------------------------------------------------------------------
(* The joins of the stop end.                                                *)

LEMMA InitJoin == Init => JoinInv
BY DEF Init, JoinInv

LEMMA JoinStep ==
  ASSUME TypeOK, JoinInv, [Next]_vars
  PROVE  JoinInv'
<1> USE DEF JoinInv
<1>1. CASE \E w \in Workers : WorkerLoop(w) \/ SpuriousWakeup(w)
  <2>1. PICK w \in Workers : WorkerLoop(w) \/ SpuriousWakeup(w)
    BY <1>1
  <2>2. UNCHANGED <<main, running, game, signals>> /\ worker[w] # "exited"
    BY <2>1 DEF WorkerLoop, SpuriousWakeup, PopJob, Wait, FinishPacket,
                TestShuttingDown, PushGameCommand, mainVars, gameVars
  <2>3. main # "stopped"
    BY <2>2 DEF Exited
  <2> QED
    BY <2>2, <2>3
<1>2. CASE GameLoop
  <2>1. UNCHANGED <<main, running, signals, worker>> /\ game # "exited"
    BY <1>2 DEF GameLoop, TestRunning, TryPopGameCommand, StopCollecting,
                ProcessBatch, mainVars, poolVars
  <2> QED
    BY <2>1 DEF Exited
<1>3. ASSUME NEW t \in Pushers, BeginHandler(t) \/ PushPacket(t) \/ RunReturns(t)
      PROVE  JoinInv'
  <2>1. /\ UNCHANGED <<running, game, signals, worker>>
        /\ main' = main \/ main' = "flag"
    BY <1>3 DEF BeginHandler, PushPacket, RunReturns, mainVars, gameVars, poolVars
  <2> QED
    BY <2>1 DEF Exited
<1>4. ASSUME NEW t \in Pushers, NotifyOne(t)
      PROVE  JoinInv'
  <2>1. UNCHANGED <<main, running, game, signals>>
    BY <1>4 DEF NotifyOne, mainVars, gameVars
  <2>2. Exited' = Exited
    BY <1>4 DEF NotifyOne, Waiting, Exited, TypeOK
  <2> QED
    BY <2>1, <2>2
<1>5. CASE MainThread
  <2>1. UNCHANGED <<game, worker>>
    BY <1>5 DEF MainThread, ClearRunning, ShutdownGameQueue, JoinGameThread,
                PushShutdownJob, StopSignalling, JoinWorkers, gameVars, poolVars
  <2>2. Exited' = Exited
    BY <2>1 DEF Exited
  <2>3. CASE JoinWorkers
    BY <2>1, <2>2, <2>3 DEF JoinWorkers, Exited
  <2> QED
    BY <1>5, <2>1, <2>2, <2>3 DEF MainThread, ClearRunning, ShutdownGameQueue,
       JoinGameThread, PushShutdownJob, StopSignalling
<1>6. CASE Signal \/ UNCHANGED vars
  BY <1>6 DEF Signal, vars, mainVars, gameVars, poolVars, Exited
<1> QED
  BY <1>1, <1>2, <1>3, <1>4, <1>5, <1>6 DEF Next, IoThread

(* A worker that is left has its shutdown job in the queue, and no job lies  *)
(* there while everyone sleeps.                                              *)
LEMMA JoinsFollow ==
  ASSUME TypeOK, NoLostWakeup, SignalPerWorker, StopInv, JoinInv
  PROVE  JoinsEnd
<1>1. ASSUME main = "joinWorkers", Exited # Workers
      PROVE  Awake # {} \/ Notifying # {}
  <2>1. signals = 0
    BY <1>1 DEF JoinInv
  <2>2. Cardinality(Exited) < Cardinality(Workers)
    <3>1. Exited \subseteq Workers
      BY DEF Exited
    <3> QED
      BY <1>1, <3>1, FS_Subset, FS_CardinalityType, PipelineAssumption
  <2>3. Cardinality(Signals) # 0
    BY <2>1, <2>2, Finite DEF SignalPerWorker
  <2>4. queue # {}
    BY <2>3, FS_EmptySet DEF Signals
  <2> QED
    BY <1>1, <2>4 DEF NoLostWakeup
<1> QED
  BY <1>1 DEF JoinsEnd, JoinInv, StopInv

(* For any number of workers and io threads: the stop of the server never    *)
(* waits for a thread that nobody ends, and main returns when the game       *)
(* thread and all workers are gone (GameManager::Stop, JobProcessor::Stop).  *)
THEOREM JoinsAlwaysEnd == Spec => []JoinsEnd
<1>1. Init => StopInv /\ JoinInv
  BY InitPath, InitJoin
<1>2. TypeOK /\ StopInv /\ JoinInv /\ [Next]_vars => StopInv' /\ JoinInv'
  BY StopStep, JoinStep
<1>3. TypeOK /\ NoLostWakeup /\ SignalPerWorker /\ StopInv /\ JoinInv => JoinsEnd
  BY JoinsFollow
<1> QED
  BY <1>1, <1>2, <1>3, PipelineTypeCorrect, WakeupsAreNotLost,
     EveryWorkerIsSignalled, PTL DEF Spec

-----------------------------------------------------------------------------
(* The pipeline implements PacketFlow.                                       *)

LEMMA HeldStep ==
  ASSUME TypeOK, HeldInv, [Next]_vars
  PROVE  HeldInv'
<1> USE DEF HeldInv
<1>1. ASSUME NEW w \in Workers, PopJob(w)
      PROVE  HeldInv'
  <2>1. held' = held \/ \E j \in queue : held' = [held EXCEPT ![w] = {j}]
    BY <1>1 DEF PopJob
  <2> QED
    BY <2>1 DEF TypeOK
<1>2. ASSUME NEW w \in Workers,
             FinishPacket(w) \/ TestShuttingDown(w) \/ PushGameCommand(w)
      PROVE  HeldInv'
  <2>1. held' = held \/ held' = [held EXCEPT ![w] = {}]
    BY <1>2 DEF FinishPacket, TestShuttingDown, PushGameCommand
  <2> QED
    BY <2>1 DEF TypeOK
<1>3. ASSUME \/ UNCHANGED vars \/ Signal \/ GameLoop \/ MainThread
             \/ \E t \in Pushers : BeginHandler(t) \/ IoThread(t)
             \/ \E w \in Workers : Wait(w) \/ SpuriousWakeup(w)
      PROVE  HeldInv'
  <2>1. held' = held
    BY <1>3 DEF Signal, GameLoop, TestRunning, TryPopGameCommand, StopCollecting,
                ProcessBatch, MainThread, ClearRunning, ShutdownGameQueue,
                JoinGameThread, PushShutdownJob, StopSignalling, JoinWorkers,
                BeginHandler, IoThread, PushPacket, NotifyOne, RunReturns, Wait,
                SpuriousWakeup, vars, poolVars
  <2> QED
    BY <2>1
<1> QED
  BY <1>1, <1>2, <1>3 DEF Next, WorkerLoop

(* A packet is in one place or none, so the place it is found at is its only *)
(* one.                                                                      *)
LEMMA PlaceOf ==
  ASSUME PathInv, NEW j \in IoPackets
  PROVE  /\ ~(j.n < pushed[j.from]) => NoPlace(j)
         /\ \A i \in Stops(j) : Stops(j) = {i} /\ Holders(j) = {}
         /\ \A w \in Holders(j) : Stops(j) = {} /\ Holders(j) = {w}
<1>1. /\ j.from \in IoThreads /\ j.n \in 0..(MaxJobs - 1)
      /\ j = [from |-> j.from, n |-> j.n, kind |-> "packet"]
  BY DEF IoPackets
<1>2. IF j.n < pushed[j.from] THEN OnePlace(j) ELSE NoPlace(j)
  BY <1>1 DEF PathInv
<1>3. OnePlace(j) \/ NoPlace(j)
  BY <1>2
<1>4. /\ \A i \in Stops(j) : Stops(j) = {i} /\ Holders(j) = {}
      /\ \A w \in Holders(j) : Stops(j) = {} /\ Holders(j) = {w}
  BY <1>3 DEF OnePlace, NoPlace
<1> QED
  BY <1>2, <1>4

(* Steps of PacketFlow, by what they do to the places of the packets.        *)
LEMMA FlowStutters ==
  ASSUME \A j \in IoPackets : Stops(j)' = Stops(j) /\ Holders(j)' = Holders(j),
         running' = running
  PROVE  UNCHANGED Flow!vars
BY DEF Flow!vars

LEMMA PlacesKept ==
  ASSUME UNCHANGED <<queue, held, running, commands, batch, applied, finished, dropped>>
  PROVE  UNCHANGED Flow!vars
<1>1. \A j \in IoPackets : Stops(j)' = Stops(j)
  BY StopsSame
<1>2. \A j \in IoPackets : Holders(j)' = Holders(j)
  BY DEF Holders
<1> QED
  BY <1>1, <1>2, FlowStutters

LEMMA FlowGoes ==
  ASSUME NEW j \in IoPackets, NEW here, NEW there,
         Stops(j) = here, Holders(j) = {}, Stops(j)' = there,
         \A i \in IoPackets \ {j} : Stops(i)' = Stops(i),
         \A i \in IoPackets : Holders(i)' = Holders(i),
         running' = running
  PROVE  Flow!Goes(j, here, there)
BY DEF Flow!Goes

LEMMA FlowTakes ==
  ASSUME NEW j \in IoPackets, NEW w \in Workers,
         Stops(j) = {1}, Holders(j) = {}, Stops(j)' = {}, Holders(j)' = {w},
         \A i \in IoPackets \ {j} : Stops(i)' = Stops(i) /\ Holders(i)' = Holders(i),
         running' = running
  PROVE  Flow!Take(j, w)
BY DEF Flow!Take, Flow!Queue

LEMMA FlowPasses ==
  ASSUME NEW j \in IoPackets, NEW w \in Workers, NEW stop,
         stop = 6 => running = "no",
         Stops(j) = {}, Holders(j) = {w}, Stops(j)' = {stop}, Holders(j)' = {},
         \A i \in IoPackets \ {j} : Stops(i)' = Stops(i) /\ Holders(i)' = Holders(i),
         running' = running
  PROVE  Flow!PassOn(j, w, stop)
BY DEF Flow!PassOn, Flow!Dropped

LEMMA PushFlows ==
  ASSUME TypeOK, PathInv, NEW u \in Pushers, NEW kind, Enqueue(u, kind),
         UNCHANGED <<held, running, commands, batch, applied, finished, dropped>>
  PROVE  [Flow!Next]_(Flow!vars)
<1>0. PICK new : new = [from |-> u, n |-> pushed[u], kind |-> kind]
  OBVIOUS
<1>1. queue' = queue \cup {new}
  BY <1>0 DEF Enqueue
<1>2. ~(new.n < pushed[new.from])
  BY <1>0 DEF TypeOK
<1>3. \A j \in IoPackets : Holders(j)' = Holders(j)
  BY DEF Holders
<1>4. \A j \in IoPackets \ {new} : Stops(j)' = Stops(j)
  BY <1>1, StopsSame
<1>5. CASE new \in IoPackets
  <2>1. Stops(new) = {} /\ Holders(new) = {}
    BY <1>2, <1>5, PlaceOf DEF NoPlace
  <2>2. \A i \in 1..6 : i \in Stops(new)' <=> i = 1
    BY <1>1, <2>1, StopsAre, StopsThen, SixStops
  <2>3. Stops(new)' = {1}
    BY <2>2, StopsThen
  <2>4. Flow!Read(new)
    BY <1>3, <1>4, <1>5, <2>1, <2>3, FlowGoes DEF Flow!Read, Flow!Queue
  <2> QED
    BY <1>5, <2>4 DEF Flow!Next
<1>6. CASE new \notin IoPackets
  BY <1>3, <1>4, <1>6, FlowStutters
<1> QED
  BY <1>5, <1>6

LEMMA PopFlows ==
  ASSUME TypeOK, IdleInv, PathInv, NEW w \in Workers, PopJob(w)
  PROVE  [Flow!Next]_(Flow!vars)
<1>1. UNCHANGED <<running, commands, batch, applied, finished, dropped>>
  BY DEF PopJob, gameVars, mainVars
<1>2. PICK c \in queue :
        /\ queue' = queue \ {c}
        /\ IF c.kind = "shutdown"
           THEN held' = held
           ELSE held' = [held EXCEPT ![w] = {c}]
  BY DEF PopJob
<1>3. held[w] = {}
  BY DEF PopJob, IdleInv
<1>4. \A j \in IoPackets \ {c} : Stops(j)' = Stops(j)
  BY <1>1, <1>2, StopsSame
<1>5. \A j \in IoPackets \ {c} : Holders(j)' = Holders(j)
  BY <1>2, <1>3 DEF Holders, TypeOK
<1>6. CASE c \in IoPackets
  <2>1. Stops(c) = {1} /\ Holders(c) = {}
    BY <1>6, StopsAre, PlaceOf
  <2>2. \A i \in 1..6 : i \notin Stops(c)'
    BY <1>1, <1>2, <2>1, StopsAre, StopsThen, SixStops
  <2>3. Stops(c)' = {}
    BY <2>2, StopsThen
  <2>4. c.kind = "packet"
    BY <1>6 DEF IoPackets
  <2>5. Holders(c)' = {w}
    BY <1>2, <2>1, <2>4 DEF Holders, TypeOK
  <2>6. Flow!Take(c, w)
    BY <1>1, <1>4, <1>5, <1>6, <2>1, <2>3, <2>5, FlowTakes
  <2> QED
    BY <1>6, <2>6 DEF Flow!Next
<1>7. CASE c \notin IoPackets
  BY <1>1, <1>4, <1>5, <1>7, FlowStutters
<1> QED
  BY <1>6, <1>7

(* A worker passes on what it holds, to the stop of its case.                *)
LEMMA PassFlows ==
  ASSUME TypeOK, PathInv, HeldInv, NEW w \in Workers, NEW b \in {2, 5, 6},
         b = 6 => running = "no",
         held' = [held EXCEPT ![w] = {}],
         queue' = queue, batch' = batch, applied' = applied, running' = running,
         commands' = IF b = 2 THEN commands \cup held[w] ELSE commands,
         finished' = IF b = 5 THEN finished \cup held[w] ELSE finished,
         dropped' = IF b = 6 THEN dropped \cup held[w] ELSE dropped
  PROVE  [Flow!Next]_(Flow!vars)
<1>1. \A j \in IoPackets : j \notin held[w] =>
        Stops(j)' = Stops(j) /\ Holders(j)' = Holders(j)
  <2> SUFFICES ASSUME NEW j \in IoPackets, j \notin held[w]
               PROVE  Stops(j)' = Stops(j) /\ Holders(j)' = Holders(j)
    OBVIOUS
  <2>1. Stops(j)' = Stops(j)
    BY StopsSame
  <2>2. Holders(j)' = Holders(j)
    BY DEF Holders, TypeOK
  <2> QED
    BY <2>1, <2>2
<1>2. CASE \A j \in IoPackets : j \notin held[w]
  BY <1>1, <1>2, FlowStutters
<1>3. ASSUME NEW j \in IoPackets, j \in held[w]
      PROVE  [Flow!Next]_(Flow!vars)
  <2>1. w \in Holders(j)
    BY <1>3 DEF Holders
  <2>2. Stops(j) = {} /\ Holders(j) = {w}
    BY <2>1, PlaceOf
  <2>3. \A i \in IoPackets \ {j} : i \notin held[w]
    BY <1>3 DEF HeldInv
  <2>4. \A i \in 1..6 : i \in Stops(j)' <=> i = b
    BY <1>3, <2>2, StopsAre, StopsThen, SixStops
  <2>5. Stops(j)' = {b}
    BY <2>4, StopsThen
  <2>6. Holders(j)' = {}
    BY <2>2 DEF Holders, TypeOK
  <2>7. Flow!PassOn(j, w, b)
    BY <1>1, <2>2, <2>3, <2>5, <2>6, FlowPasses
  <2> QED
    BY <2>7 DEF Flow!Next, Flow!Commands, Flow!Finished, Flow!Dropped
<1> QED
  BY <1>2, <1>3

LEMMA WorkerFlows ==
  ASSUME TypeOK, StopInv, IdleInv, PathInv, HeldInv, NEW w \in Workers,
         WorkerLoop(w) \/ SpuriousWakeup(w)
  PROVE  [Flow!Next]_(Flow!vars)
<1>1. CASE PopJob(w)
  BY <1>1, PopFlows
<1>2. CASE FinishPacket(w)
  <2>1. /\ UNCHANGED <<queue, running, commands, batch, applied, dropped>>
        /\ held' = [held EXCEPT ![w] = {}]
        /\ finished' = finished \cup held[w]
    BY <1>2 DEF FinishPacket, pushVars, mainVars, gameVars
  <2>2. PICK b \in {2, 5, 6} : b = 5
    OBVIOUS
  <2>3. /\ b = 6 => running = "no"
        /\ commands' = IF b = 2 THEN commands \cup held[w] ELSE commands
        /\ finished' = IF b = 5 THEN finished \cup held[w] ELSE finished
        /\ dropped' = IF b = 6 THEN dropped \cup held[w] ELSE dropped
    BY <2>1, <2>2
  <2> QED
    BY <2>1, <2>3, PassFlows
<1>3. CASE PushGameCommand(w)
  <2>1. /\ UNCHANGED <<queue, running, batch, applied, finished, dropped>>
        /\ held' = [held EXCEPT ![w] = {}]
        /\ commands' = commands \cup held[w]
    BY <1>3 DEF PushGameCommand, pushVars, mainVars
  <2>2. PICK b \in {2, 5, 6} : b = 2
    OBVIOUS
  <2>3. /\ b = 6 => running = "no"
        /\ commands' = IF b = 2 THEN commands \cup held[w] ELSE commands
        /\ finished' = IF b = 5 THEN finished \cup held[w] ELSE finished
        /\ dropped' = IF b = 6 THEN dropped \cup held[w] ELSE dropped
    BY <2>1, <2>2
  <2> QED
    BY <2>1, <2>3, PassFlows
<1>4. CASE TestShuttingDown(w) /\ closed = "yes"
  BY <1>4, PassFlows DEF TestShuttingDown, StopInv, pushVars, mainVars, gameVars
<1>5. CASE \/ Wait(w) \/ SpuriousWakeup(w)
           \/ TestShuttingDown(w) /\ closed # "yes"
  <2>1. UNCHANGED <<queue, held, running, commands, batch, applied, finished, dropped>>
    BY <1>5 DEF Wait, SpuriousWakeup, TestShuttingDown, pushVars, mainVars, gameVars
  <2> QED
    BY <2>1, PlacesKept
<1> QED
  BY <1>1, <1>2, <1>3, <1>4, <1>5 DEF WorkerLoop

(* The game thread takes a command: it joins the batch, or is thrown away.   *)
LEMMA CommandFlows ==
  ASSUME TypeOK, PathInv, TryPopGameCommand
  PROVE  [Flow!Next]_(Flow!vars)
<1>1. UNCHANGED <<queue, held, running, applied, finished>>
  BY DEF TryPopGameCommand, pushVars, poolVars, mainVars
<1>2. PICK c \in commands :
        /\ commands' = commands \ {c}
        /\ \/ running = "yes" /\ batch' = batch \cup {c} /\ dropped' = dropped
           \/ running = "no" /\ dropped' = dropped \cup {c} /\ batch' = batch
  BY DEF TryPopGameCommand
<1>3. \A j \in IoPackets \ {c} : Stops(j)' = Stops(j)
  BY <1>1, <1>2, StopsSame
<1>4. \A j \in IoPackets : Holders(j)' = Holders(j)
  BY <1>1 DEF Holders
<1>5. CASE c \in IoPackets
  <2>1. Stops(c) = {2} /\ Holders(c) = {}
    BY <1>2, <1>5, StopsAre, PlaceOf
  <2>2. CASE running = "yes"
    <3>1. \A i \in 1..6 : i \in Stops(c)' <=> i = 3
      BY <1>1, <1>2, <2>1, <2>2, StopsAre, StopsThen, SixStops
    <3>2. Stops(c)' = {3}
      BY <3>1, StopsThen
    <3>3. Flow!Collect(c)
      BY <1>1, <1>3, <1>4, <1>5, <2>1, <2>2, <3>2, FlowGoes
         DEF Flow!Collect, Flow!Commands, Flow!Batch
    <3> QED
      BY <1>5, <3>3 DEF Flow!Next
  <2>3. CASE running = "no"
    <3>1. \A i \in 1..6 : i \in Stops(c)' <=> i = 6
      BY <1>1, <1>2, <2>1, <2>3, StopsAre, StopsThen, SixStops
    <3>2. Stops(c)' = {6}
      BY <3>1, StopsThen
    <3>3. Flow!Discard(c)
      BY <1>1, <1>3, <1>4, <1>5, <2>1, <2>3, <3>2, FlowGoes
         DEF Flow!Discard, Flow!Commands, Flow!Dropped
    <3> QED
      BY <1>5, <3>3 DEF Flow!Next
  <2> QED
    BY <1>2, <2>2, <2>3
<1>6. CASE c \notin IoPackets
  BY <1>1, <1>3, <1>4, <1>6, FlowStutters
<1> QED
  BY <1>5, <1>6

(* What was collected is applied, all at once.                               *)
LEMMA BatchFlows ==
  ASSUME TypeOK, PathInv, ProcessBatch
  PROVE  Flow!Apply
<1>1. /\ UNCHANGED <<queue, held, running, commands, finished, dropped>>
      /\ applied' = applied \cup batch /\ batch' = {}
  BY DEF ProcessBatch, pushVars, poolVars, mainVars
<1>2. \A j \in IoPackets : Holders(j)' = Holders(j)
  BY <1>1 DEF Holders
<1>3. ASSUME NEW j \in IoPackets
      PROVE  Stops(j)' = IF Stops(j) = {3} THEN {4} ELSE Stops(j)
  <2>1. CASE j \in batch
    <3>1. Stops(j) = {3}
      BY <2>1, StopsAre, PlaceOf
    <3>2. \A i \in 1..6 : i \in Stops(j)' <=> i = 4
      BY <1>1, <2>1, <3>1, StopsAre, StopsThen, SixStops
    <3>3. Stops(j)' = {4}
      BY <3>2, StopsThen
    <3> QED
      BY <3>1, <3>3
  <2>2. CASE j \notin batch
    <3>1. Stops(j) # {3}
      BY <2>2, StopsAre
    <3>2. Stops(j)' = Stops(j)
      BY <1>1, <2>2, StopsSame
    <3> QED
      BY <3>1, <3>2
  <2> QED
    BY <2>1, <2>2
<1> QED
  BY <1>1, <1>2, <1>3 DEF Flow!Apply, Flow!Batch, Flow!Applied

LEMMA GameFlows ==
  ASSUME TypeOK, PathInv, GameLoop
  PROVE  [Flow!Next]_(Flow!vars)
<1>1. CASE TestRunning \/ StopCollecting
  <2>1. UNCHANGED <<queue, held, running, commands, batch, applied, finished, dropped>>
    BY <1>1 DEF TestRunning, StopCollecting, pushVars, poolVars, mainVars
  <2> QED
    BY <2>1, PlacesKept
<1>2. CASE ProcessBatch
  BY <1>2, BatchFlows DEF Flow!Next
<1> QED
  BY <1>1, <1>2, CommandFlows DEF GameLoop

LEMMA MainFlows ==
  ASSUME TypeOK, PathInv, MainThread
  PROVE  [Flow!Next]_(Flow!vars)
<1>1. CASE PushShutdownJob
  <2>1. UNCHANGED <<held, running, commands, batch, applied, finished, dropped>>
    BY <1>1 DEF PushShutdownJob, poolVars, gameVars
  <2> QED
    BY <1>1, <2>1, MainIsPusher, PushFlows DEF PushShutdownJob
<1>2. CASE ClearRunning
  <2>1. /\ UNCHANGED <<queue, held, commands, batch, applied, finished, dropped>>
        /\ running' = "no"
    BY <1>2 DEF ClearRunning, pushVars, poolVars, gameVars
  <2>2. \A j \in IoPackets : Stops(j)' = Stops(j) /\ Holders(j)' = Holders(j)
    BY <2>1, StopsSame DEF Holders
  <2>3. Flow!Stop
    BY <2>1, <2>2 DEF Flow!Stop
  <2> QED
    BY <2>3 DEF Flow!Next
<1>3. CASE ShutdownGameQueue \/ JoinGameThread \/ StopSignalling \/ JoinWorkers
  <2>1. UNCHANGED <<queue, held, running, commands, batch, applied, finished, dropped>>
    BY <1>3 DEF ShutdownGameQueue, JoinGameThread, StopSignalling, JoinWorkers,
                pushVars, poolVars, gameVars
  <2> QED
    BY <2>1, PlacesKept
<1> QED
  BY <1>1, <1>2, <1>3 DEF MainThread

LEMMA IoFlows ==
  ASSUME TypeOK, PathInv, NEW t \in Pushers, BeginHandler(t) \/ IoThread(t)
  PROVE  [Flow!Next]_(Flow!vars)
<1>1. CASE PushPacket(t)
  <2>1. UNCHANGED <<held, running, commands, batch, applied, finished, dropped>>
    BY <1>1 DEF PushPacket, poolVars, mainVars, gameVars
  <2> QED
    BY <1>1, <2>1, PushFlows DEF PushPacket
<1>2. CASE BeginHandler(t) \/ NotifyOne(t) \/ RunReturns(t)
  <2>1. UNCHANGED <<queue, held, running, commands, batch, applied, finished, dropped>>
    BY <1>2 DEF BeginHandler, NotifyOne, RunReturns, poolVars, mainVars, gameVars
  <2> QED
    BY <2>1, PlacesKept
<1> QED
  BY <1>1, <1>2 DEF IoThread

(* For any number of threads and packets: every step of a thread is a step   *)
(* of PacketFlow or none, so packets go their way once, in its order, and    *)
(* what was collected is applied (WorkerLoop, PushGameCommand,               *)
(* ProcessPendingCommands, GameManager::Stop).                               *)
THEOREM PipelineImplementsFlow == Spec => ImplementsFlow
<1> DEFINE FlowInv == TypeOK /\ StopInv /\ IdleInv /\ PathInv /\ HeldInv
<1>1. Init => FlowInv
  BY InitType, InitPath DEF Init, HeldInv
<1>2. FlowInv /\ [Next]_vars => FlowInv'
  BY NextType, StopStep, IdleStep, PathStep, HeldStep
<1>3. Init => Flow!Init
  <2> SUFFICES ASSUME Init PROVE Flow!Init
    OBVIOUS
  <2>1. \A j \in IoPackets : Stops(j) = {}
    <3> SUFFICES ASSUME NEW j \in IoPackets PROVE Stops(j) = {}
      OBVIOUS
    <3>1. \A i \in 1..6 : i \notin Stops(j)
      BY StopsAre, SixStops DEF Init
    <3> QED
      BY <3>1, StopsAre
  <2>2. \A j \in IoPackets : Holders(j) = {}
    BY DEF Init, Holders
  <2> QED
    BY <2>1, <2>2 DEF Init, Flow!Init
<1>4. FlowInv /\ [Next]_vars => [Flow!Next]_(Flow!vars)
  <2> SUFFICES ASSUME FlowInv, [Next]_vars PROVE [Flow!Next]_(Flow!vars)
    OBVIOUS
  <2>1. CASE Signal \/ UNCHANGED vars
    <3>1. UNCHANGED <<queue, held, running, commands, batch, applied, finished, dropped>>
      BY <2>1 DEF Signal, vars, pushVars, poolVars, mainVars, gameVars
    <3> QED
      BY <3>1, PlacesKept
  <2> QED
    BY <2>1, IoFlows, WorkerFlows, GameFlows, MainFlows DEF Next
<1> QED
  BY <1>1, <1>2, <1>3, <1>4, PTL DEF Spec, ImplementsFlow, Flow!Spec
=============================================================================
