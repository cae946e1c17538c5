# Verification of the CppMMO game server

This directory holds TLA+ models of the CppMMO game server (C++20, Boost.Asio
coroutines, moodycamel queues), the TLC runs that check them on small instances,
and TLAPS proofs for every size. `PROJECT.json` lists the components, the runs,
the definitions with the source lines they model, the findings, the hazards and
the theorems. Paths below are relative to the repository; the C++ code is in
`src/`.

## 1. The system

| Part | State | Operations |
|---|---|---|
| `TcpServer` | acceptor, io threads, two callbacks | `AcceptLoop` (limit of 600), `OnSessionDisconnectedInternal`, stop on SIGINT/SIGTERM |
| `Session` | socket, player id, write queue | coroutines `ReadLoop` and `WriteLoop`, `Disconnect`, `Send`, `SendBatch` |
| `SessionManager` | map of active sessions under a mutex | `AddSession`, `RemoveSession`, `GetSession`, `OnSessionDisconnected` |
| `PacketManager` | table of handlers | `HandlePacket` (push a job), `DispatchPacket` |
| `JobQueue` | lock-free queue, mutex, condition variable | `PushJob`, `PopJob` |
| `JobProcessor` | worker threads | `WorkerLoop`, `ProcessJobPacket`, `Stop` (one shutdown job per worker) |
| `LoginPacketHandler`, `AuthService` | one HTTP request per login | verification, and a callback posted to the io_context |
| `GameLogicQueue` | lock-free queue, shutdown flag | `PushGameCommand`, `TryPopGameCommand`, `Shutdown` |
| `GameManager` | world, quadtree, AOI cache, batches, tick number | `GameLoop`: commands, `UpdateWorld`, `SendWorldSnapshots`, `FlushAllBatches` |
| `World`, `Player` | players by id: position, velocity, active, session, last input | setters, called by the game thread only |
| `QuadTree` | tree of nodes, positions by id | `Insert`, `Remove`, `Update`, `Query`, `Clear` |
| `ChatManager`, `RedisChatService` | table of sessions, subscriber thread | session callbacks, publish, broadcast |
| `MemoryPool` | pools of builders and vectors | acquire, release |
| auth server (C#) | users, characters, login tickets | register, login, verify, characters |

How they interact: a packet is read on an io thread, becomes a job, is taken by
a worker and becomes either a game command (enter, input) or a verification
whose callback sets the player id of the session, on an io thread again. The end
of a session pushes a disconnect command from an io thread. The game thread
takes commands in batches, moves the players and sends snapshots. Nothing
orders the three routes (worker, login callback, disconnect) against each
other, and both queues are ordered per producing thread only. That is where the
behaviours lie that tests hardly reach; `PROJECT.json` lists them as hazards,
each at its line.

What makes each part correct:

* sessions: every session that ends is removed and announced exactly once;
  the server goes on accepting;
* players: a player is in the world as long as its session lives and no longer
  (which this code does not keep, see finding 3); its inputs are applied in
  order; others learn that it came and went;
* job pipeline: no packet is lost or handled twice, no worker sleeps over a
  job, the stop of the server ends;
* tick: snapshots show who is near, soon enough, and reach whoever is connected;
* quadtree: queries agree with the positions;
* outgoing packets: each arrives whole and in its sender's order, none waits
  for ever, and a closed session keeps nothing worth speaking of;
* login: one answer for each request, and a session gets a character only of the user
  its ticket belongs to;
* chat: one bad message or one closed session does not end it for the others;
* auth server: concurrent requests leave the tables consistent.

## 2. Modules

| Module | Models | Proofs |
|---|---|---|
| `PlayerLifecycle` | accept loop, sessions, session manager, workers, login callback, the commands of the game thread | `PlayerLifecycleProofs` |
| `Presence` | abstract: who is in the world, without threads and queues | `PresenceProofs` (refinement) |
| `JobPipeline` | job queue with its condition variable, workers, game queue, stop of the server | `JobPipelineProofs` |
| `PacketFlow` | abstract: the way of a packet, without threads, locks and wakeups | in `JobPipelineProofs` (refinement) |
| `WorldTick` | the tick: commands, movement, AOI cache, snapshots, batches | `WorldTickProofs` |
| `Bounds` | the square of a node: containment, intersection with a circle | in `QuadDescentProofs` |
| `QuadTree` | the quadtree with the recursive functions of the code | (recursive; TLC only) |
| `QuadDescent` | the quadtree with one step per call of `InsertIntoNode` | `QuadDescentProofs` |
| `MemoryPool` | a pool of builders or vectors | in `ChatProofs` |
| `SessionOutput` | threads that send, write queue, `WriteLoop`, `Disconnect`; two instances of `MemoryPool` | in `ChatProofs` |
| `Chat` | `SessionOutput` with the `ChatManager`'s table and the Redis thread | `ChatProofs` |
| `AuthServer` | users, characters and tickets under concurrent requests | `AuthServerProofs` |
| `Login` | `AuthServer` with the `AuthService`'s request, its callback and the answer to the client | `LoginProofs` |
| `MC...` | instances of these for TLC | |

They fit together as follows. `PlayerLifecycle` composes all threads, with
queues as FIFOs per thread; `JobPipeline` looks into the one thing it takes for
granted, that a pushed job is taken, and into the stop, which it leaves out.
`WorldTick` looks into the game thread's tick with a set-valued index; its
`GetPlayersInAOI` is justified by `AnswersAreExact` of `QuadDescent`, whose
callers insert only ids that are not in the tree by `TreeHoldsActive` of
`PlayerLifecycle`. `PlayerLifecycle` takes a login as answered at some time or
dropped, which `Login` looks into, and takes the delivery of packets to clients
for granted, which `SessionOutput` looks into. `Chat` and `Login` extend
`SessionOutput` and `AuthServer`: their steps interleave with all steps of the
module below.

### PlayerLifecycle

State: where each coroutine is (`loop`), the open sockets, the registered
sessions, the player ids, the two queues, the job of each worker, the logins
under way, the batch of the game thread and, per player, presence, session and
last sequence number; `tree` is the set of ids in the spatial index. Two history
variables: `view`, what the packets sent to a client tell it about who is
present, and `named`, the players a session was ever logged in as.

Player 0 (`NoPlayer`) is the id of a session that has not logged in. Such a
session may enter the zone, and player 0 is then in the world like any other;
`OnSessionDisconnected` queues no disconnect for it. A session may also log in
again, as any player of its `Accounts`.

The points where the code can be interrupted are kept: `Start` and `AddSession`
are two steps, and so are closing the socket, erasing the entry and announcing
the end; the test of `IsConnected` and `SetPlayerId`; finding a command's
session and handling the command. The exceptions of `remote_endpoint()` on a
closed connection are kept as well: they end the accept loop, drop a login on
its worker, and make `ReadLoop` call `Disconnect` a second time (its first call
is inside its own `try`, and the callback of the `ChatManager` throws on the
closed socket). A second call after the announcement finds nothing, and is not a
step of its own.

Merged into one step: reading a packet and pushing it (the two touch one
thread's queue only), `AddSession` and the connected callback after it, and the
whole of a handler of the game thread, which alone touches the world. Packets
carry what a property tells apart: kind, session, account, sequence number.
Any io thread may run any step of any coroutine. The logins that end the process
(`Login`) are left out here: after them there is nothing to say.

### JobPipeline

`PushJob` is three steps (enter, enqueue, notify under the mutex), `PopJob` two
(take, or wait when every job in the queue came too late for the predicate to
see); wakeups may be spurious. `PushGameCommand` tests the flag before it
enqueues. The main thread goes through `GameManager::Stop` and
`JobProcessor::Stop` line by line. The queues are sets: nothing here depends on
order.

### PacketFlow

What `JobPipeline` promises a packet: it is read, taken by one worker, finished
by it or made a command, collected into a batch and applied. It is dropped only
once the server stops, by a worker in place of making the command or by the game
thread in place of collecting it; what was collected is applied. `JobPipeline`
maps to it by `Stops` and `Holders`, the places where a job is found: the six
sets it may be in and the workers that hold it. A packet found in two places, in
none, or going back would be no step of `PacketFlow`. The mapping shows the
packets of the io threads; those main reads before the signal are numbered
together with its shutdown jobs.

### WorldTick

Positions lie on a line, since both axes are treated alike. A tick moves a
player by 1 to `Speed`, because `deltaTime` is the time that really passed.
Sessions end at any moment between the phases of a tick. `since` and
`delivered` are history variables.

### QuadTree and QuadDescent

In `QuadTree` a node is a record with bounds, ids and children, and the recursive
functions of the code are recursive operators.

Nothing can be proved about recursive operators here, so `QuadDescent` says the
same without them. The tree is the set `divided` of the squares that have
children, with their depths; `entries` are the pairs of an id and the leaf that
holds it, and `calls` the calls of `InsertIntoNode` still to be made. One call is
one step: it goes on to the child that contains the position, keeps the id in the
leaf, or divides the leaf and calls for each of its ids. The code makes these
calls depth first; the model lets them come in any order, so that what is shown
does not depend on it. An operation starts when the calls of the last one are
done, as on the single game thread. Removal and query, which change no node on
their way, are one step: a leaf is reached if the bounds of every node above it
pass the test. Halving is exact: `DescentAssumption` gives the sizes of the
depths, as 200 units divided by two six times are exact in floats.

`MCQuadDescent` makes every operation on both models. `SameTree` says that they
have the same nodes with the same ids, and give the same answers, whenever the
calls are done; `AnswersAreExact` compares the answers with their definition for
every point and radius given.

### Presence

Four variables: the players present, the session each entered through, the
players each session was logged in as, and the stage of each session (new, up,
ended, gone). A player enters through a session that was logged in as that
player, and when the end of a session is applied, one of the players it was
logged in as leaves, and nobody else. The contract has the code's three gaps,
and says that there is no fourth: player 0 enters through any session and never
leaves, the other players of a session that was logged in as several stay, and
the player that leaves may have entered through another session of its own.
`PlayerLifecycle` maps to it by `active`, `sessionOf`, `named` and `Stage`: a
session is new until it is registered, up while it is, ended when its entry is
erased and the announcement or the disconnect command is still on the way, and
gone afterwards. No player is left out of the mapping.

### MemoryPool and SessionOutput

A pool is a queue of objects, the object each thread's wrapper owns and the
content of each object. `Acquire` beyond the size of the pool creates an object,
`Release` into a full pool destroys it. A sending thread builds a packet in a
pooled builder, tests `IsConnected` and sends, session by session; the test and
the `Send` are two steps, because `Disconnect` runs on another thread. Snapshots
are copied to a batch first. `WriteLoop` tests, dequeues, writes or waits, one
step each; `Disconnect` closes the socket, empties the queue packet by packet
and calls back, and `ReadLoop` goes through it twice. A packet carries its
sender, its number and the copied content of its builder. `sent`, `written` and
the number are history.

### Chat

The accept loop stores the session in the `ChatManager`'s table after its
coroutines run, the callback of `Disconnect` takes it out. The Redis thread
broadcasts to the table under its mutex, without `IsConnected`. Messages may be
malformed, and the connection to Redis may fail, which ends the thread for good.
Redis is external: published messages are consumed in order. What the thread has
not taken when it ends stays untaken (`consumed` < `published`), and publishing
goes on without it. `Traffic` bounds the packets built and the messages
published together.

### AuthServer and Login

Every `await` of a handler of `AuthController` is one step, and any of them may
fail. Constraints of the tables (`UNIQUE`, `FOREIGN KEY ... ON DELETE CASCADE`
of `init.sql`) are part of the steps that write. Ids and tickets are never given
out twice. Requests that are refused at their first access change nothing and
are left out. A login packet is handled in one of four ways (`HandleLogin`): it
starts the request; it is refused, having no `C_Login`; it is dropped by an
exception the worker swallows, because its connection is lost or because
`dump()` cannot put its ticket into JSON; or it has no ticket and ends the
process. The request goes through resolve, connect, write and read, each of
which may fail, gets a response, posts its handler, and the handler tests
`IsConnected` before it answers. `reset` is the set of connections the peer has
reset: their sockets are open, but `remote_endpoint()` throws.

## 3. Runs

| Run | Instance | Shows |
|---|---|---|
| `lifecycle_own` | 2 connections with a player each, 2 packets and 1 | `TreeHoldsActive`, `OneDeadEntry`, `ViewsAreCurrent`, `LeavesWithOwnSession`, `ImplementsPresence` |
| `lifecycle_relogin` | 1 connection of 2 players, 3 packets, 2 workers, both coroutines fail | `AnnouncedOnce`, `OnlyKnownGhosts`, `InputsAdvance`, `ImplementsPresence` |
| `lifecycle_live` | 2 connections, one of 2 players, limit 1, one may be reset while accepted, fairness | `EndsAreHandled` |
| `pipeline` | 3 workers, an io thread and main, one packet each, fairness | no lost wakeup, exact accounting, no join without end, `ImplementsFlow`, the stop completes |
| `world_ticks` | 2 players on 8 positions, 3 ticks | freshness of the AOI cache, delivery of snapshots |
| `quad_descent` | 3 players on 6 points, 1 per node, depth 2, both models of the tree, fairness | exact queries, one entry per id, limits of leaves, only nodes over the limit are divided, insertions end, same tree and answers in both models |
| `outgoing` | 1 session, game, io and Redis thread, up to 2, 1 and 2 packets and 3 together, pools of 1, both coroutines fail, fairness | packets whole and in order, pools sound, queue emptied, table of the chat, chat goes on until Redis is lost |
| `auth` | 2 users, 2 characters, 2 tickets, limit 1, 2 requests at once | no orphans, how far the limit is exceeded |
| `login` | 1 login, 1 request of a client, 2 users, 1 character, fairness | only owners, one answer, which logins are answered |
| `second_session` | violation | a second connection's end removes the player |
| `accept_ends` | violation | one bad connection ends the accept loop |
| `ghost_player` | violation | who enters before a login stays for ever |

Bounds, and why they are enough for the cases in question:

* `Sessions`: two connections are what an observer of another's coming and going
  needs; a second connection of the same player is in `second_session`, and in
  the proof that `Presence` is implemented. `MaxPackets`: a login and an entry,
  one of the two for the second connection, which enters as player 0 or nobody;
  three for a second login, or for two inputs after an entry. `MaxSeq` 2: two
  inputs can be reordered. `BatchSize` 1 or 2 instead of 500: the batch is filled
  and left over commands wait.
* `FailingLoops`: which coroutines may meet an error. Both fail in
  `lifecycle_relogin`, which checks what they do to each other; elsewhere one is
  enough to end a session, and which of them it is does not matter to the
  properties. `ResetPeers`: connections that may be reset during the accept.
* `MaxJobs` 1: per thread; with three workers every mix of sleeping, awake and
  exiting workers meets a packet and three shutdown jobs.
* `Width` 8, `AoiRange` 3, `UpdateInterval` 2, `PositionThreshold` 2, `Speed` 2:
  a player can get out of range by the drift allowed and one more, and come
  back into it, within `MaxTick` 3, which is one refresh and the tick after it.
* `Points`: on both sides of the lines that divide the map at each depth, and
  its corners. `quad_descent` has two of them in one square of the greatest
  depth, and one player per node, so that two players close together divide the
  map down to there.
* `outgoing`: one session is enough, because sessions share only the pools and
  the accept loop; the pools are shared by the threads of this one, and a second
  builder is needed beyond `PoolSize` 1. `MaxTraffic` 3: two packets of the game
  thread and one of another thread, or one of each, meet every state of
  `WriteLoop` and `Disconnect`. `MaxMessages` 2: there is a message behind the
  one that cannot be parsed, and one that is not taken when Redis is lost.
* `auth`: the limit is 1 in place of 3, so that two requests overtake each other
  at it. `login`: a client can register, log in, create a character and delete
  its account while the one login is verified; the second user and ticket are
  what `OnlyOwners` needs to fail.

`CHECK_DEADLOCK FALSE` is set where the bounds or the stop of the server let
everything come to rest.

The type invariants of `PlayerLifecycle`, `JobPipeline`, `AuthServer`, `Login`,
`Chat` and `QuadDescent` are proved and not repeated in their runs; that of
`WorldTick`, which says that positions stay inside the map, is both.

Symmetry is used where the players, connections or workers exchanged are alike
and no liveness is checked.

Fairness: each thread and each coroutine that can take a step eventually does
(weak fairness per thread or per group of steps of one thread): the operating
system schedules the threads, the io_context runs its handlers, and a worker or
the game thread never blocks but in the waits that are modelled; the calls of
an operation of the quadtree are run by it one after the other. In
`PlayerLifecycle` a login is answered at some time or dropped. `Login` assumes
that the network steps end and that the auth server answers: the code has no
timeout that would do without, so `LoginsAreAnswered` is about the game server's
part only. `Chat` assumes that a write completes or fails, hence a peer that
reads or goes away; a peer that does neither stops `WriteLoop`, and its queue
grows. Nothing makes clients connect, send or close, nothing makes a message be
published and nothing forces a signal.

## 4. Findings

With a run:

1. A disconnect command names no session (`GameManager.cpp:468`). The end of one
   of two connections of a player removes the player from the other
   (`second_session`).
2. The `try` of `AcceptLoop` is outside its loop, and its callback throws on a
   connection that is closed (`TcpServer.cpp:152`, `ChatManager.cpp:115`): the
   server stops accepting (`accept_ends`).
3. Players stay in the world without a session, although the repository's README
   has them leave with their connection (`README.md:91`). A session that enters
   before it has logged in enters as player 0 (`JobProcessor.cpp:187`), for whom
   `SessionManager.cpp:85` queues no disconnect (`ghost_player`); whoever tries
   this next is refused, because player 0 is active. And a session that has
   entered and then logs in as another player (`LoginPacketHandler.cpp:73`)
   leaves the first one behind, since its disconnect names the second.
   `OnlyKnownGhosts` says that there is no third kind.

Behaviours the models show and their properties take as they are:

* A refused login whose connection is lost by then ends the process: the log
  line at `LoginPacketHandler.cpp:96` calls `remote_endpoint()` in a posted
  handler, and the thread lambda of `TcpServer.cpp:63` has no handler for the
  exception.
* A login without a ticket ends the process, too: `LoginPacketHandler.cpp:43`
  dereferences `session_ticket()`, which `protocol.fbs:89` does not require.
  `LoginsAreAnswered` excepts both (`~up`).
* A login whose ticket is not UTF-8 is never answered: `dump()` throws
  (`AuthService.cpp:43`) and the worker swallows the exception
  (`JobProcessor.cpp:117`). `LoginsAreAnswered` says that no other login of a
  live client remains without an answer.
* A session that ends while it is accepted was started before it is registered
  (`TcpServer.cpp:145`, `:148`), so that its removal can be tried too early: it
  then stays registered. `OneDeadEntry` and `OneStaleEntry` say that there is at
  most one such session, since the accept loop ends with it.
* A reconnect that is faster than the disconnect command of the old session is
  refused without an answer (`GameManager.cpp:428`), although the repository's
  README promises five minutes (`README.md:35`).
* Requests that overtake each other exceed the limit on characters
  (`AuthController.cs:217`): `OvershootBounded` says by how many.
* Deleting a user leaves the other tickets of that user in Redis
  (`AuthController.cs:275`); by `NoOrphans` and `OnlyOwners` they are of no use.
* An error of `consume()` ends chat until the server is restarted
  (`RedisChatService.cpp:107`): messages that are published and not yet taken,
  and all later ones, reach nobody on this server. `ChatGoesOn` excepts this case
  and no other.
* A broadcast of chat does not ask `IsConnected` (`ChatManager.cpp:106`), so a
  session on its way out may keep chat packets; the other threads leave at most
  one packet each (`ResidueBounded`).

Seen while modelling, without a model of it: the comment of `QuadTree::Insert`
says that a known id is updated, and the code adds it a second time (no caller
does this); the comment of `GetSpawnPosition` gives another range than its code;
the snapshot passes `IsActive` where the schema has a rotation
(`GameManager.cpp:695`); the repository's README gives two AOI ranges, two tick
rates and a chat with a range of 25 units, while chat goes to everybody;
`cancel_one` is called on a timer that another thread may use (`Session.cpp:98`).

## 5. Proofs

All theorems hold for every value of the constants under the named assumptions
of the modules (`ConstantsAssumption`, `PipelineAssumption`, `TickAssumption`,
`DescentAssumption`, `AuthAssumption`, `LoginAssumption`, `OutputAssumption`,
`ChatAssumption`).

`PlayerLifecycleProofs`:

* `TypeCorrect`: the type invariant.
* `EndsAnnouncedOnce`: by `NetInv`. `AnnouncedOnce` is not inductive alone: one
  has to know that a session is fresh, being accepted or registered but never
  two of these, and that coroutines of fresh sessions have not started.
* `TreeFollowsActive`: inductive with the types.
* `ViewsStayCurrent`: with `EntryInv`, which says that players in the world came
  through a session that had been registered at the lookup.
* `GhostsAreKnown`, for any accounts, shared or several per connection: the chain
  `AccountInv` (logins on their way name an account of their session, and a
  session has a player id exactly if it was logged in), `CommandInv` (queued
  commands carry player 0 or a player their session was logged in as, and a
  disconnect command means that the session is gone) and `HandleInv` (the session
  found by the lookup is registered, or its end is on the way). `named` only
  grows, so a session that was logged in as one player has that id when its end
  is announced.
* `PlayersLeaveWithOwnSession`, under `ExclusiveAccounts` (no player is shared by
  two connections): from the same invariant; finding 1 shows that the assumption
  is needed.
* `OneEntryStays`: by `DeadInv`. A registered session whose coroutines are both
  over was registered after its removal was tried, hence by an `AddSession` that
  ended the accept loop; `NetInv` says that at most one session is being
  accepted at a time.
* `InputsNeverGoBack`: with `SeqInv`, that the number of a player the world does
  not know yet is 0, so that entering never lowers it.

`PresenceProofs`:

* `LifecycleImplementsPresence`, without further assumptions: every step of
  `PlayerLifecycle` is a step of `Presence` or leaves its variables alone, action
  by action, from the invariant of `GhostsAreKnown`. The hard step is
  `HandlePlayerDisconnect`: the player it removes is one the session that ended
  was logged in as, and the session still counts as ended at that time.

`JobPipelineProofs`:

* `PipelineTypeCorrect`.
* `WakeupsAreNotLost`: by counting. While a worker sleeps, the queue holds no
  more jobs than there are awake workers and notifications on their way
  (`WakeupInv`); jobs are told apart by thread and number (`UniqueJobs`).
* `EveryWorkerIsSignalled`: shutdown jobs in the queue, those to come and the
  workers that exited always add up to the number of workers.
* `PacketsAreAccounted`: by `PathInv`, that a packet pushed is in one place and
  a packet not yet pushed in none; each step moves a job between two of the
  places. It needs `IdleInv`, that a worker that takes a job holds none, and
  `StopInv`, that nobody throws a command away before `m_running` is cleared.
* `JoinsAlwaysEnd`, the safe half of `ShutdownCompletes`: main joins the workers
  when no shutdown job is left to push (`JoinInv`), so by `SignalPerWorker` a
  worker that has not exited has its job in the queue, and by `NoLostWakeup`
  somebody is awake or about to be woken for it. `StopInv` gives the game thread
  its end.
* `PipelineImplementsFlow`: step by step. By `PathInv` the place where a packet
  is found is its only one, so that the step of `PacketFlow` applies to it; by
  `HeldInv`, that a worker holds one job at a time, a worker passes on one packet
  in a step; by `StopInv` it drops one only when the server stops.

`WorldTickProofs`, for any map, range, speed, refresh interval and threshold:

* `TickTypeCorrect`, with positions inside the map, and `IndexFollowsWorld`:
  inductive together.
* `SnapshotsAreDelivered`: by `BatchInv`. Batches are empty but between the
  snapshots and the flush, where each present player has exactly the snapshot of
  this tick, made from a cache that `ShouldUpdateAOI` has found fresh.
* `DepartedSoonUnlisted`: by `VisibleInv`, which dates the leaving of a listed
  player after the cache was filled, and the freshness in `BatchInv`.
* `ListedWithinDrift` and `InsideAreListed`: by `NearInv` and `FarInv`. Every
  tick since a cache was filled moves a player by at most `Speed`, so what was in
  the range then is out of it by no more than these moves, and what was outside
  is inside by no more. The owner's own way is bounded by the threshold; the
  triangle inequality joins the two. `Now` counts a tick whose moves are made and
  whose number is not yet increased: without it neither invariant is inductive.

`QuadDescentProofs`, for any number of players, limit per node, depth, points and
radii:

* `DescentTypeCorrect`: with `ShapeInv`. A node's size is that of its depth, and
  only nodes above the greatest depth are divided.
* `OneEntryPerId`: by `PlaceInv`. An id with a position is at exactly one node,
  as an entry or as a call on its way, and that node contains the position. The
  children of a node cover it without overlap (`KidsCover`, `OneKid`), so a call
  goes on to exactly one; `RemoveFromNode` finds an entry, because every node
  above its leaf contains the position too.
* `QueriesAreExact`: from the same invariant and `PruningIsSafe`. A node that
  contains a point within the radius meets the circle, because the point `Clamp`
  chooses is the nearest of the node: no node above the player is skipped.
* `LeavesStayWithinLimit`: with the fact that new children are empty; an id is
  kept only where the limit allows it or nothing may be divided.
* `OnlyFullNodesDivide`: by `PlaceInv`. The ids a node hands down have positions
  in its square, so the players there are at least as many as the ids counted:
  no stale entry ever divides a node.
* `InsertionsGoDown` (`CallsGoDown`), the safe half of `InsertionsEnd`: a step
  finishes its call, and what it starts is for ids of the same node, one level
  further down, within its square. With the greatest depth of `ShapeInv` this
  bounds the steps of an insertion.

`AuthServerProofs`:

* `AuthTypeCorrect`.
* `CharactersHaveUsers`: inductive with the types; the insertion checks the
  foreign key in the same step, and the deletion of the user cascades.
* `LimitOvershoot`: by counting for each user. A request that passes the count
  has found fewer characters than the limit; from then on a character that is
  created takes one request out of those about to insert.

`LoginProofs`:

* `LoginTypeCorrect`.
* `OneAnswer`: by `ChainInv`: before the chain is over nothing was called back,
  and afterwards at most one response is posted, found connected or answered;
  and by `ForgottenInv`: it vanishes only where the handler has found the
  connection lost, and a lost connection stays lost. This is the safe half of
  `LoginsAreAnswered`.
* `OwnersOnly`: by `RequestInv` and `PlayInv`: a verification that goes on, or
  was answered with success, carries the user its ticket was issued to, and its
  character was created for that user; neither ever changes, whatever is
  deleted.

`ChatProofs`, about `Chat` with all steps of `SessionOutput` and of its two
pools, for any number of sessions and threads (of io threads a finite one):

* `ChatTypeCorrect`: with `TaskInv`, what a sending thread has in its hands at
  each stage, and `LoopInv`, that both coroutines start together.
* `OneStaleSession`: by `TableInv`. ReadLoop takes its session off the table
  with its last step, so a session that is stored later finds its socket closed
  and its callback ends the accept loop; no other session is being accepted.
* `PoolsStaySound`: `Sound`, stated once for both pools; `Conserved` counts the
  threads that hold an object.
* `PacketsIntact`: by `ContentInv`. A held builder contains what its holder
  wrote, because by `Sound` nobody else can take or clear it; a batch is filled
  only for the session the game thread is at.
* `ResidueStaysBounded`: by `ResidueInv`. After a drain, a thread whose test had
  passed has nothing in the queue, and `OpenInv` says that no later test passes.
* `WireStaysInOrder`: by `WireInv`. Until the socket is closed the numbers in
  the queue continue those on the wire; afterwards only a write that began
  before the close can complete, and it is the next in order.
* `OpenSessionsLoseNothing` (`OpenLosesNothing`), the safe half of
  `QueuesAreEmptied`: from the same invariant and `OpenInv`. While the socket is
  open, what was sent is on the wire, with `WriteLoop` or in the queue, and
  `WriteLoop` has not ended.

Only model-checked: liveness (`EndsAreHandled`, `ShutdownCompletes`,
`PacketsAreTaken`, `QueuesAreEmptied`, `ChatGoesOn`, `LoginsAreAnswered`), which
needs fairness, and so does `InsertionsEnd`; `SameTree`, which ties `QuadTree`,
whose operators are recursive, to the model the proofs are about. That the order
of the calls does not matter for the tree that results is also only checked, by
`SameTree`. Most of the temporal ones have a safe half that is proved, that
no state is reached from which the promise cannot be kept: `WakeupsAreNotLost` for
`PacketsAreTaken`, `JoinsAlwaysEnd` for `ShutdownCompletes`, `GhostsAreKnown` for
`EndsAreHandled`, `OneAnswer` for `LoginsAreAnswered`, `OpenSessionsLoseNothing`
for `QueuesAreEmptied` and `InsertionsGoDown` for `InsertionsEnd`.

`CallsGoDown` and `OpenLosesNothing` are proved and in no run; TLC finds them
true on the instances of `quad_descent` and `outgoing` as well.

## 6. Not modelled, and what could follow

Left out for good: logging, statistics, the wire format and generated code, the
configuration, the load tests; functions without a caller (`JobQueue::Shutdown`,
`PopGameCommand`, `World::RemovePlayer`, `Player::ShouldRemove`, `ObjectPool`,
the move operations of the pooled wrappers); the cache of player names, which is
a function of the id; the table of input directions, constant floats for which
`WorldTick` takes any direction; rounding of floats; the list of characters of
the auth server, which is only read; `RedisChatService::Disconnect`, which runs
in a destructor after `main`.

What could follow: that `WorldTick`, for the players it shares with
`PlayerLifecycle`, makes only the entries and exits `Presence` allows; and a
model of `RedisChatService::Disconnect` together with the exit of the process,
should it get a caller before `main` returns.
