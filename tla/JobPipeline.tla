---------------------------- MODULE JobPipeline ----------------------------
(***************************************************************************)
(* The worker pool and the orderly stop of the server: JobQueue with its   *)
(* mutex and condition variable, the threads of the JobProcessor, the      *)
(* GameLogicQueue with the game thread that polls it, and the main thread, *)
(* which runs the io_context, stops the GameManager and then the           *)
(* JobProcessor with one shutdown job per worker.                          *)
(*                                                                         *)
(* A job is known by the thread that pushed it and a number.  The queues   *)
(* are sets: moodycamel::ConcurrentQueue orders the jobs of one producer   *)
(* only, and nothing here depends on that order.  JobQueue::Shutdown has   *)
(* no caller, so m_shuttingDown of the JobQueue is never set.              *)
(***************************************************************************)
EXTENDS Naturals, FiniteSets

CONSTANTS
  IoThreads,   \* m_workerThreads of the TcpServer
  Main,        \* the main thread, which runs the io_context too
  Workers,     \* m_workerThreads of the JobProcessor
  MaxJobs      \* bound: the packets one thread reads

ASSUME PipelineAssumption ==
  /\ Main \notin IoThreads
  /\ IsFiniteSet(IoThreads)
  /\ IsFiniteSet(Workers)
  /\ MaxJobs \in Nat

VARIABLES
  context,    \* whether the io_context runs
  stage,      \* where a pushing thread is
  pushed,     \* jobs pushed so far by each thread
  queue,      \* JobQueue::m_jobQueue
  worker,     \* where a worker is
  held,       \* the job a worker processes (a set of at most one)
  main,       \* where the main thread is
  signals,    \* shutdown jobs the main thread has still to push
  running,    \* GameManager::m_running
  closed,     \* GameLogicQueue::m_shuttingDown
  commands,   \* GameLogicQueue: the jobs whose command waits
  game,       \* where the game thread is
  batch,      \* commandBatch
  applied,    \* jobs whose command was processed
  finished,   \* jobs that were dispatched to a handler or are malformed
  dropped     \* jobs whose command was thrown away by the shutdown

pushVars == <<stage, pushed, queue>>
poolVars == <<worker, held>>
mainVars == <<context, main, signals, running, closed>>
gameVars == <<commands, game, batch, applied>>
vars == <<pushVars, poolVars, mainVars, gameVars, finished, dropped>>

Pushers == IoThreads \cup {Main}
Job == [from : Pushers, n : Nat, kind : {"packet", "shutdown"}]

TypeOK ==
  /\ context \in {"running", "stopped"}
  /\ stage \in [Pushers -> {"idle", "handling", "notify", "out"}]
  /\ pushed \in [Pushers -> Nat]
  /\ queue \subseteq Job /\ IsFiniteSet(queue)
  /\ worker \in [Workers -> {"ready", "waiting", "busy", "checked", "exited"}]
  /\ held \in [Workers -> SUBSET Job]
  /\ main \in {"run", "flag", "close", "joinGame", "signal", "joinWorkers", "stopped"}
  /\ signals \in Nat
  /\ running \in {"yes", "no"}
  /\ closed \in {"yes", "no"}
  /\ commands \subseteq Job
  /\ game \in {"top", "collect", "process", "exited"}
  /\ batch \subseteq Job
  /\ applied \subseteq Job
  /\ finished \subseteq Job
  /\ dropped \subseteq Job

Init ==
  /\ context = "running"
  /\ stage = [t \in Pushers |-> "idle"]
  /\ pushed = [t \in Pushers |-> 0]
  /\ queue = {}
  /\ worker = [w \in Workers |-> "ready"]
  /\ held = [w \in Workers |-> {}]
  /\ main = "run"
  /\ signals = Cardinality(Workers)
  /\ running = "yes"
  /\ closed = "no"
  /\ commands = {}
  /\ game = "top"
  /\ batch = {}
  /\ applied = {}
  /\ finished = {}
  /\ dropped = {}

-----------------------------------------------------------------------------
(* PushJob: enqueue, and then, holding the mutex, notify_one.               *)

Enqueue(t, kind) ==
  /\ pushed' = [pushed EXCEPT ![t] = @ + 1]
  /\ queue' = queue \cup {[from |-> t, n |-> pushed[t], kind |-> kind]}
  /\ stage' = [stage EXCEPT ![t] = "notify"]

Waiting == {w \in Workers : worker[w] = "waiting"}

(* Mutant: PushJob does not notify.                                         *)
NotifyNobody(t) ==
  /\ stage[t] = "notify"
  /\ stage' = [stage EXCEPT ![t] = IF t = Main /\ main # "run" THEN "out" ELSE "idle"]
  /\ UNCHANGED <<pushed, queue, poolVars, mainVars, gameVars, finished, dropped>>

(* notify_one wakes one waiting thread, if there is one.                    *)
NotifyOne(t) ==
  /\ stage[t] = "notify"
  /\ stage' = [stage EXCEPT ![t] = IF t = Main /\ main # "run" THEN "out" ELSE "idle"]
  /\ \/ Waiting = {} /\ UNCHANGED worker
     \/ \E w \in Waiting : worker' = [worker EXCEPT ![w] = "ready"]
  /\ UNCHANGED <<pushed, queue, held, mainVars, gameVars, finished, dropped>>

(* A thread of the io_context completes a read: ReadLoop hands the packet    *)
(* to PacketManager::HandlePacket, which pushes it.                          *)
BeginHandler(t) ==
  /\ context = "running"
  /\ stage[t] = "idle"
  /\ pushed[t] < MaxJobs
  /\ stage' = [stage EXCEPT ![t] = "handling"]
  /\ UNCHANGED <<pushed, queue, poolVars, mainVars, gameVars, finished, dropped>>

PushPacket(t) ==
  /\ stage[t] = "handling"
  /\ Enqueue(t, "packet")
  /\ UNCHANGED <<poolVars, mainVars, gameVars, finished, dropped>>

(* SIGINT or SIGTERM: the handler of m_signals stops the io_context.        *)
Signal ==
  /\ context = "running"
  /\ context' = "stopped"
  /\ UNCHANGED <<main, signals, running, closed, pushVars, poolVars, gameVars,
                 finished, dropped>>

(* run() returns in a thread that is not in a handler.                      *)
RunReturns(t) ==
  /\ context = "stopped"
  /\ stage[t] = "idle"
  /\ stage' = [stage EXCEPT ![t] = "out"]
  /\ main' = IF t = Main THEN "flag" ELSE main
  /\ UNCHANGED <<pushed, queue, poolVars, context, signals, running, closed,
                 gameVars, finished, dropped>>

-----------------------------------------------------------------------------
(* PopJob: the predicate is evaluated under the mutex, and the wait releases *)
(* it; a PushJob that has not notified yet may have come too late for the    *)
(* predicate to see its job.                                                 *)

Unnotified(j) == stage[j.from] = "notify" /\ j.n + 1 = pushed[j.from]

(* Mutant: the job is copied out of the queue and stays in it.              *)
PopJobPeeks(w) ==
  /\ worker[w] = "ready"
  /\ \E j \in queue :
       IF j.kind = "shutdown"
       THEN /\ worker' = [worker EXCEPT ![w] = "exited"]
            /\ held' = held
       ELSE /\ worker' = [worker EXCEPT ![w] = "busy"]
            /\ held' = [held EXCEPT ![w] = {j}]
  /\ UNCHANGED <<pushVars, mainVars, gameVars, finished, dropped>>

PopJob(w) ==
  /\ worker[w] = "ready"
  /\ \E j \in queue :
       /\ queue' = queue \ {j}
       /\ IF j.kind = "shutdown"
          THEN /\ worker' = [worker EXCEPT ![w] = "exited"]
               /\ held' = held
          ELSE /\ worker' = [worker EXCEPT ![w] = "busy"]
               /\ held' = [held EXCEPT ![w] = {j}]
  /\ UNCHANGED <<stage, pushed, mainVars, gameVars, finished, dropped>>

Wait(w) ==
  /\ worker[w] = "ready"
  /\ \A j \in queue : Unnotified(j)
  /\ worker' = [worker EXCEPT ![w] = "waiting"]
  /\ UNCHANGED <<held, pushVars, mainVars, gameVars, finished, dropped>>

SpuriousWakeup(w) ==
  /\ worker[w] = "waiting"
  /\ worker' = [worker EXCEPT ![w] = "ready"]
  /\ UNCHANGED <<held, pushVars, mainVars, gameVars, finished, dropped>>

(* WorkerLoop: a malformed packet, or one for a handler of the PacketManager. *)
FinishPacket(w) ==
  /\ worker[w] = "busy"
  /\ worker' = [worker EXCEPT ![w] = "ready"]
  /\ held' = [held EXCEPT ![w] = {}]
  /\ finished' = finished \cup held[w]
  /\ UNCHANGED <<pushVars, mainVars, gameVars, dropped>>

(* PushGameCommand tests m_shuttingDown before it enqueues.                  *)
TestShuttingDown(w) ==
  /\ worker[w] = "busy"
  /\ \/ /\ closed = "no"
        /\ worker' = [worker EXCEPT ![w] = "checked"]
        /\ UNCHANGED <<held, dropped>>
     \/ /\ closed = "yes"
        /\ worker' = [worker EXCEPT ![w] = "ready"]
        /\ held' = [held EXCEPT ![w] = {}]
        /\ dropped' = dropped \cup held[w]
  /\ UNCHANGED <<pushVars, mainVars, gameVars, finished>>

PushGameCommand(w) ==
  /\ worker[w] = "checked"
  /\ worker' = [worker EXCEPT ![w] = "ready"]
  /\ held' = [held EXCEPT ![w] = {}]
  /\ commands' = commands \cup held[w]
  /\ UNCHANGED <<game, batch, applied, pushVars, mainVars, finished, dropped>>

-----------------------------------------------------------------------------
(* The game thread.                                                          *)

TestRunning ==
  /\ game = "top"
  /\ game' = IF running = "yes" THEN "collect" ELSE "exited"
  /\ UNCHANGED <<commands, batch, applied, pushVars, poolVars, mainVars,
                 finished, dropped>>

(* A command that is popped once m_running is cleared is thrown away.        *)
TryPopGameCommand ==
  /\ game = "collect"
  /\ \E c \in commands :
       /\ commands' = commands \ {c}
       /\ \/ /\ running = "yes"
             /\ batch' = batch \cup {c}
             /\ UNCHANGED <<game, dropped>>
          \/ /\ running = "no"
             /\ game' = "process"
             /\ dropped' = dropped \cup {c}
             /\ UNCHANGED batch
  /\ UNCHANGED <<applied, pushVars, poolVars, mainVars, finished>>

(* The queue was found empty, the batch is full or the time is over.         *)
StopCollecting ==
  /\ game = "collect"
  /\ game' = "process"
  /\ UNCHANGED <<commands, batch, applied, pushVars, poolVars, mainVars,
                 finished, dropped>>

(* Mutant: what was collected is not applied once m_running is cleared.      *)
ProcessBatchIfRunning ==
  /\ game = "process"
  /\ game' = "top"
  /\ IF running = "yes" THEN applied' = applied \cup batch /\ UNCHANGED dropped
     ELSE dropped' = dropped \cup batch /\ UNCHANGED applied
  /\ batch' = {}
  /\ UNCHANGED <<commands, pushVars, poolVars, mainVars, finished>>

ProcessBatch ==
  /\ game = "process"
  /\ game' = "top"
  /\ applied' = applied \cup batch
  /\ batch' = {}
  /\ UNCHANGED <<commands, pushVars, poolVars, mainVars, finished, dropped>>

-----------------------------------------------------------------------------
(* The main thread after run(): GameManager::Stop, JobProcessor::Stop.       *)

ClearRunning ==
  /\ main = "flag"
  /\ main' = "close"
  /\ running' = "no"
  /\ UNCHANGED <<context, signals, closed, pushVars, poolVars, gameVars,
                 finished, dropped>>

ShutdownGameQueue ==
  /\ main = "close"
  /\ main' = "joinGame"
  /\ closed' = "yes"
  /\ UNCHANGED <<context, signals, running, pushVars, poolVars, gameVars,
                 finished, dropped>>

JoinGameThread ==
  /\ main = "joinGame"
  /\ game = "exited"
  /\ main' = "signal"
  /\ UNCHANGED <<context, signals, running, closed, pushVars, poolVars,
                 gameVars, finished, dropped>>

(* Mutant: one shutdown job for the whole pool.                              *)
PushOneShutdownJob ==
  /\ main = "signal"
  /\ stage[Main] = "out"
  /\ signals > 0
  /\ signals' = 0
  /\ Enqueue(Main, "shutdown")
  /\ UNCHANGED <<main, context, running, closed, poolVars, gameVars, finished,
                 dropped>>

PushShutdownJob ==
  /\ main = "signal"
  /\ stage[Main] = "out"
  /\ signals > 0
  /\ signals' = signals - 1
  /\ Enqueue(Main, "shutdown")
  /\ UNCHANGED <<main, context, running, closed, poolVars, gameVars, finished,
                 dropped>>

StopSignalling ==
  /\ main = "signal"
  /\ stage[Main] = "out"
  /\ signals = 0
  /\ main' = "joinWorkers"
  /\ UNCHANGED <<context, signals, running, closed, pushVars, poolVars,
                 gameVars, finished, dropped>>

JoinWorkers ==
  /\ main = "joinWorkers"
  /\ \A w \in Workers : worker[w] = "exited"
  /\ main' = "stopped"
  /\ UNCHANGED <<context, signals, running, closed, pushVars, poolVars,
                 gameVars, finished, dropped>>

-----------------------------------------------------------------------------
IoThread(t) == PushPacket(t) \/ NotifyOne(t) \/ RunReturns(t)

WorkerLoop(w) ==
  \/ PopJob(w)
  \/ Wait(w)
  \/ FinishPacket(w)
  \/ TestShuttingDown(w)
  \/ PushGameCommand(w)

GameLoop == TestRunning \/ TryPopGameCommand \/ StopCollecting \/ ProcessBatch

MainThread ==
  \/ ClearRunning
  \/ ShutdownGameQueue
  \/ JoinGameThread
  \/ PushShutdownJob
  \/ StopSignalling
  \/ JoinWorkers

Next ==
  \/ \E t \in Pushers : BeginHandler(t) \/ IoThread(t)
  \/ Signal
  \/ \E w \in Workers : WorkerLoop(w) \/ SpuriousWakeup(w)
  \/ GameLoop
  \/ MainThread

Spec == Init /\ [][Next]_vars

(* Threads that can go on do.  Nothing forces a packet, a signal or a        *)
(* spurious wakeup.                                                          *)
Fairness ==
  /\ \A t \in Pushers : WF_vars(IoThread(t))
  /\ \A w \in Workers : WF_vars(WorkerLoop(w))
  /\ WF_vars(GameLoop)
  /\ WF_vars(MainThread)

FairSpec == Spec /\ Fairness

-----------------------------------------------------------------------------
Notifying == {t \in Pushers : stage[t] = "notify"}
Exited == {w \in Workers : worker[w] = "exited"}
Awake == {w \in Workers : worker[w] \in {"ready", "busy", "checked"}}
Signals == {j \in queue : j.kind = "shutdown"}

(* No lost wakeup: jobs never lie in the queue while every remaining worker  *)
(* sleeps and nobody is about to notify, although PushJob enqueues outside   *)
(* the mutex and a shutdown job takes an awake worker out of the pool        *)
(* (JobQueue::PushJob, PopJob).                                              *)
NoLostWakeup ==
  queue # {} /\ Exited # Workers /\ Awake = {} => Notifying # {}

(* Every worker that has not exited has a shutdown job of its own, in the    *)
(* queue or still to be pushed: none exits twice over and none is left       *)
(* behind for the join (JobProcessor::Stop).                                 *)
SignalPerWorker ==
  Cardinality(Signals) + signals + Cardinality(Exited) = Cardinality(Workers)

(* The stops of job j on its way, the workers that hold it, and in how many  *)
(* places that makes it.                                                     *)
Stops(j) ==
  {i \in 1..6 : j \in <<queue, commands, batch, applied, finished, dropped>>[i]}
Holders(j) == {w \in Workers : j \in held[w]}
Places(j) == Cardinality(Stops(j)) + Cardinality(Holders(j))

(* Each packet pushed is in exactly one place on its way to its handler or   *)
(* to the game thread: none is lost or processed twice, and none is thrown   *)
(* away until m_running is cleared (PopJob, PushGameCommand,                 *)
(* ProcessPendingCommands, GameManager::Stop).                               *)
Accounted ==
  /\ running = "yes" => dropped = {}
  /\ \A t \in IoThreads : \A k \in 0..(MaxJobs - 1) :
       k < pushed[t] => Places([from |-> t, n |-> k, kind |-> "packet"]) = 1

(* The packets of the io threads as the abstract specification PacketFlow    *)
(* sees them: main's are numbered together with its shutdown jobs.           *)
IoPackets == [from : IoThreads, n : 0..(MaxJobs - 1), kind : {"packet"}]

Flow == INSTANCE PacketFlow WITH
  Packets <- IoPackets,
  stops <- [j \in IoPackets |-> Stops(j)],
  holders <- [j \in IoPackets |-> Holders(j)]

(* All threads together implement PacketFlow: a packet moves from place to   *)
(* place in its order, is never handled twice, and what the game thread has  *)
(* collected is applied even if the stop comes in between (WorkerLoop,       *)
(* PushGameCommand, ProcessPendingCommands, GameManager::Stop).              *)
ImplementsFlow == Flow!Spec

(* Neither join of the stop waits for a thread that nobody ends: the game    *)
(* thread will find m_running cleared, and while a worker is left, one is    *)
(* awake or about to be woken; main returns when all are gone                *)
(* (GameManager::Stop, JobProcessor::Stop).                                  *)
JoinsEnd ==
  /\ main = "joinGame" => running = "no"
  /\ main = "joinWorkers" => Exited = Workers \/ Awake # {} \/ Notifying # {}
  /\ main = "stopped" => Exited = Workers /\ game = "exited"

(* Once the io_context is stopped, main joins the game thread and every      *)
(* worker and returns (main).                                                *)
ShutdownCompletes == context = "stopped" ~> main = "stopped"

(* A packet does not stay in the queue while the server runs.                *)
PacketsAreTaken ==
  \A t \in Pushers : \A k \in 0..MaxJobs :
    LET j == [from |-> t, n |-> k, kind |-> "packet"]
    IN j \in queue ~> j \notin queue \/ context = "stopped"

-----------------------------------------------------------------------------
(* The inductive invariants behind NoLostWakeup.                             *)

(* A job in the queue is known by its thread and its number, and the latter  *)
(* is below the count of its thread.                                         *)
UniqueJobs ==
  /\ \A j \in queue : j.n < pushed[j.from]
  /\ \A j, k \in queue : j.from = k.from /\ j.n = k.n => j = k

(* While a worker sleeps, there is an awake worker or a notification on its  *)
(* way for every job in the queue.                                           *)
WakeupInv ==
  Waiting # {} => Cardinality(queue) <= Cardinality(Awake) + Cardinality(Notifying)

(* The inductive invariant behind JoinsEnd, with SignalPerWorker and StopInv:*)
(* main joins when all shutdown jobs are pushed; what has exited stays so.   *)
JoinInv ==
  /\ main \in {"signal", "joinWorkers", "stopped"} => game = "exited"
  /\ main \in {"joinWorkers", "stopped"} => signals = 0
  /\ main = "stopped" => Exited = Workers

(* The inductive invariants behind Accounted.                                *)

(* The GameLogicQueue is closed by a main thread that has cleared m_running, *)
(* and nothing is thrown away before.                                        *)
StopInv ==
  /\ main \notin {"run", "flag"} => running = "no"
  /\ closed = "yes" => running = "no"
  /\ running = "yes" => dropped = {}

(* A worker holds a job only while it processes it.                          *)
IdleInv == \A w \in Workers : worker[w] \notin {"busy", "checked"} => held[w] = {}

OnePlace(j) ==
  \/ Holders(j) = {} /\ \E i \in 1..6 : Stops(j) = {i}
  \/ Stops(j) = {} /\ \E w \in Workers : Holders(j) = {w}

NoPlace(j) == Stops(j) = {} /\ Holders(j) = {}

(* The packets that were pushed are in one place each, the others in none.   *)
PathInv ==
  \A t \in IoThreads : \A k \in 0..(MaxJobs - 1) :
    LET j == [from |-> t, n |-> k, kind |-> "packet"]
    IN IF k < pushed[t] THEN OnePlace(j) ELSE NoPlace(j)

(* What ImplementsFlow needs besides: a worker holds one job at a time.      *)
HeldInv == \A w \in Workers : \A i, j \in held[w] : i = j
=============================================================================
