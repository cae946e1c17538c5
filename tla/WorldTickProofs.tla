-------------------------- MODULE WorldTickProofs --------------------------
(***************************************************************************)
(* Proofs about WorldTick, for any number of players, any map, speed, AOI  *)
(* range, refresh interval and threshold: type correctness, the agreement  *)
(* of the spatial index with the world, the delivery of every snapshot,    *)
(* and how far a cached AOI may be from the real one.                      *)
(***************************************************************************)
EXTENDS WorldTick, TLAPS

USE TickAssumption

-----------------------------------------------------------------------------
(* Distances and moves.                                                      *)

LEMMA PositionsAreInts == Positions \subseteq Int
BY DEF Positions

LEMMA DistanceLaws ==
  ASSUME NEW x \in Int, NEW y \in Int, NEW z \in Int
  PROVE  /\ Distance(x, y) \in Nat
         /\ Distance(x, y) = Distance(y, x)
         /\ Distance(x, z) <= Distance(x, y) + Distance(y, z)
BY DEF Distance

(* One more tick is one more move.                                           *)
LEMMA OneMore ==
  ASSUME NEW a \in Int, NEW b \in Int
  PROVE  (a + 1) * b = a * b + b /\ a * b \in Int
OBVIOUS

LEMMA ScaleMonotone ==
  ASSUME NEW a \in Int, NEW k \in Int, NEW b \in Nat, a <= k
  PROVE  a * b <= k * b
OBVIOUS

(* A step of -1, 0 or 1 times d is no longer than d.                         *)
LEMMA StepBound ==
  ASSUME NEW v \in {-1, 0, 1}, NEW d \in Nat, NEW x \in Int
  PROVE  x + v * d \in Int /\ Distance(x + v * d, x) <= d
<1>1. CASE v = -1
  BY <1>1 DEF Distance
<1>2. CASE v = 0
  BY <1>2 DEF Distance
<1>3. CASE v = 1
  BY <1>3 DEF Distance
<1> QED
  BY <1>1, <1>2, <1>3

LEMMA MovedBound ==
  ASSUME TypeOK, NEW p \in Players, NEW d \in 1..Speed
  PROVE  /\ Moved(p, d) \in Positions
         /\ Distance(Moved(p, d), position[p]) <= Speed
<1>1. position[p] \in Positions /\ position[p] \in Int
  BY PositionsAreInts DEF TypeOK
<1>2. velocity[p] \in {-1, 0, 1}
  BY DEF TypeOK
<1>3. d \in Nat /\ d <= Speed /\ Speed \in Nat
  OBVIOUS
<1> DEFINE new == position[p] + velocity[p] * d
<1>4. new \in Int /\ Distance(new, position[p]) <= d
  BY <1>1, <1>2, <1>3, StepBound
<1>5. Distance(new, position[p]) \in Nat
  BY <1>1, <1>4, DistanceLaws
<1>6. Moved(p, d) = IF p \in active /\ IsValidPosition(new) THEN new ELSE position[p]
  BY DEF Moved
<1> HIDE DEF new
<1>7. CASE p \in active /\ IsValidPosition(new)
  <2>1. new \in Positions
    BY <1>4, <1>7 DEF IsValidPosition, Positions
  <2> QED
    BY <1>3, <1>4, <1>5, <1>6, <1>7, <2>1
<1>8. CASE ~(p \in active /\ IsValidPosition(new))
  <2>1. Distance(position[p], position[p]) = 0
    BY <1>1 DEF Distance
  <2> QED
    BY <1>1, <1>3, <1>6, <1>8, <2>1
<1> QED
  BY <1>7, <1>8

-----------------------------------------------------------------------------
(* Type correctness, and the index.                                          *)

LEMMA SpawnInside == GetSpawnPosition \subseteq Positions
BY DEF GetSpawnPosition, Positions

LEMMA InitType == Init => TypeOK /\ IndexAgrees
BY DEF Init, TypeOK, IndexAgrees, Positions, Cache, Snapshot

LEMMA EnterType ==
  ASSUME TypeOK, IndexAgrees, NEW p \in Players, HandleEnterZone(p)
  PROVE  TypeOK' /\ IndexAgrees'
<1>1. PICK x \in Positions :
        /\ position' = [position EXCEPT ![p] = x]
        /\ index' = [index EXCEPT ![p] = x]
  BY SpawnInside DEF HandleEnterZone, TypeOK
<1>2. TypeOK'
  BY <1>1 DEF HandleEnterZone, TypeOK, sendVars, Cache, Snapshot
<1>3. IndexAgrees'
  BY <1>1 DEF HandleEnterZone, TypeOK, IndexAgrees
<1> QED
  BY <1>2, <1>3

LEMMA CommandType ==
  ASSUME TypeOK, IndexAgrees, NEW p \in Players,
         (\E v \in Directions : HandlePlayerInput(p, v)) \/ HandlePlayerDisconnect(p)
           \/ SessionEnds(p)
  PROVE  TypeOK' /\ IndexAgrees'
<1> USE DEF worldVars, sendVars
<1>1. CASE \E v \in Directions : HandlePlayerInput(p, v)
  BY <1>1 DEF HandlePlayerInput, TypeOK, IndexAgrees
<1>2. CASE HandlePlayerDisconnect(p)
  BY <1>2 DEF HandlePlayerDisconnect, TypeOK, IndexAgrees
<1>3. CASE SessionEnds(p)
  BY <1>3 DEF SessionEnds, TypeOK, IndexAgrees
<1> QED
  BY <1>1, <1>2, <1>3

LEMMA UpdateType ==
  ASSUME TypeOK, IndexAgrees, NEW d \in 1..Speed, UpdateWorld(d)
  PROVE  TypeOK' /\ IndexAgrees'
<1>1. \A p \in Players : Moved(p, d) \in Positions
  BY MovedBound
<1>2. TypeOK'
  BY <1>1 DEF UpdateWorld, TypeOK, sendVars, Cache, Snapshot
<1>3. ASSUME NEW p \in Players
      PROVE  index'[p] = IF p \in active' THEN position'[p] ELSE Nowhere
  BY <1>3 DEF UpdateWorld, IndexAgrees, TypeOK
<1> QED
  BY <1>2, <1>3 DEF IndexAgrees

LEMMA CacheType ==
  ASSUME TypeOK, NEW p \in Players
  PROVE  CacheAt(p, tick + 1) \in Cache
<1>1. cache[p] \in Cache /\ tick + 1 \in Nat /\ position[p] \in Positions
  BY DEF TypeOK
<1>2. GetPlayersInAOI(position[p]) \in SUBSET Players
  BY DEF GetPlayersInAOI
<1> QED
  BY <1>1, <1>2 DEF CacheAt, Cache

LEMMA SendType ==
  ASSUME TypeOK, IndexAgrees, SendWorldSnapshots
  PROVE  TypeOK' /\ IndexAgrees'
<1>1. cache' \in [Players -> Cache]
  BY CacheType DEF SendWorldSnapshots, TypeOK
<1>2. ASSUME NEW p \in Players
      PROVE  [tick |-> tick + 1, players |-> CacheAt(p, tick + 1).visible] \in Snapshot
  BY CacheType DEF TypeOK, Cache, Snapshot
<1>3. batches' \in [Players -> SUBSET Snapshot]
  BY <1>2 DEF SendWorldSnapshots, TypeOK
<1>4. TypeOK'
  BY <1>1, <1>3 DEF SendWorldSnapshots, TypeOK, worldVars
<1>5. IndexAgrees'
  BY DEF SendWorldSnapshots, IndexAgrees, worldVars
<1> QED
  BY <1>4, <1>5

LEMMA FlushType ==
  ASSUME TypeOK, IndexAgrees, FlushAllBatches
  PROVE  TypeOK' /\ IndexAgrees'
BY DEF FlushAllBatches, TypeOK, IndexAgrees, worldVars

LEMMA NextType ==
  ASSUME TypeOK, IndexAgrees, [Next]_vars
  PROVE  TypeOK' /\ IndexAgrees'
<1>1. CASE UNCHANGED vars
  BY <1>1 DEF TypeOK, IndexAgrees, vars, worldVars, sendVars
<1> QED
  BY <1>1, EnterType, CommandType, UpdateType, SendType, FlushType
     DEF Next, Commands, GameLoop

(* Every variable of a tick keeps its type: no player is ever moved off the  *)
(* map, whatever its speed and the time the tick took (UpdateWorld,          *)
(* GetSpawnPosition).                                                        *)
THEOREM TickTypeCorrect == Spec => []TypeOK
<1>1. TypeOK /\ IndexAgrees /\ [Next]_vars => TypeOK' /\ IndexAgrees'
  BY NextType
<1> QED
  BY InitType, <1>1, PTL DEF Spec

(* The spatial index holds the present players and no others, each where the *)
(* world has it, after every command and every step of a tick                *)
(* (HandleEnterZone, HandlePlayerDisconnect, UpdateWorld).                   *)
THEOREM IndexFollowsWorld == Spec => []IndexAgrees
<1>1. TypeOK /\ IndexAgrees /\ [Next]_vars => TypeOK' /\ IndexAgrees'
  BY NextType
<1> QED
  BY InitType, <1>1, PTL DEF Spec

-----------------------------------------------------------------------------
(* Ticks are counted up, and every snapshot is sent.                         *)

LEMMA CacheTick ==
  ASSUME TypeOK, NEW p \in Players
  PROVE  cache[p].tick \in Nat /\ cache[p].visible \subseteq Players
         /\ cache[p].position \in Positions /\ cache[p].position \in Int
BY PositionsAreInts DEF TypeOK, Cache

(* The entry a player has after SendWorldSnapshots: a new one of this tick,  *)
(* or the old one, young enough and taken near enough.                       *)
LEMMA CacheChoice ==
  ASSUME TypeOK, ClockInv, NEW p \in Players
  PROVE  \/ /\ CacheAt(p, tick + 1).visible = GetPlayersInAOI(position[p])
            /\ CacheAt(p, tick + 1).tick = tick + 1
            /\ CacheAt(p, tick + 1).position = position[p]
         \/ /\ CacheAt(p, tick + 1) = cache[p]
            /\ p \in cached
            /\ tick + 1 - cache[p].tick < UpdateInterval
            /\ Distance(position[p], cache[p].position) < PositionThreshold
<1>1. position[p] \in Int
  BY PositionsAreInts DEF TypeOK
<1>2. Distance(position[p], cache[p].position) \in Nat
  BY <1>1, CacheTick, DistanceLaws
<1>3. tick \in Nat /\ cache[p].tick \in Nat /\ UpdateInterval \in Nat
  BY CacheTick DEF TypeOK
<1>4. CASE ShouldUpdateAOI(p, tick + 1)
  BY <1>4 DEF CacheAt
<1>5. CASE ~ShouldUpdateAOI(p, tick + 1)
  <2>1. CacheAt(p, tick + 1) = cache[p]
    BY <1>5 DEF CacheAt
  <2>2. p \in cached /\ tick + 1 - cache[p].tick < UpdateInterval
    BY <1>3, <1>5 DEF ShouldUpdateAOI
  <2>3. Distance(position[p], cache[p].position) < PositionThreshold
    BY <1>2, <1>5 DEF ShouldUpdateAOI
  <2> QED
    BY <2>1, <2>2, <2>3
<1> QED
  BY <1>4, <1>5

LEMMA CacheAfter ==
  ASSUME TypeOK, SendWorldSnapshots, NEW p \in Players
  PROVE  cache'[p] = IF p \in active THEN CacheAt(p, tick + 1) ELSE cache[p]
BY DEF SendWorldSnapshots

LEMMA ClockStep ==
  ASSUME TypeOK, ClockInv, [Next]_vars
  PROVE  ClockInv'
<1>1. CASE UNCHANGED vars
  BY <1>1 DEF ClockInv, vars, worldVars, sendVars
<1>2. CASE Commands
  <2>1. UNCHANGED <<tick, cached, cache>>
    BY <1>2 DEF Commands, HandleEnterZone, HandlePlayerInput, HandlePlayerDisconnect,
                sendVars
  <2>2. \A q \in Players : since'[q] \in {since[q], tick}
    BY <1>2 DEF Commands, HandleEnterZone, HandlePlayerInput, HandlePlayerDisconnect,
                TypeOK
  <2> QED
    BY <2>1, <2>2 DEF ClockInv, TypeOK
<1>3. CASE \/ \E d \in 1..Speed : UpdateWorld(d)
           \/ FlushAllBatches
           \/ \E p \in Players : SessionEnds(p)
  <2>1. UNCHANGED <<tick, since, cached, cache>>
    BY <1>3 DEF UpdateWorld, FlushAllBatches, SessionEnds, worldVars, sendVars
  <2> QED
    BY <2>1 DEF ClockInv
<1>4. CASE SendWorldSnapshots
  <2>1. tick' = tick + 1 /\ since' = since /\ cached' = cached \cup active
    BY <1>4 DEF SendWorldSnapshots, worldVars
  <2>2. ASSUME NEW p \in cached'
        PROVE  cache'[p].tick <= tick'
    <3>1. p \in Players /\ tick \in Nat
      BY <2>1, <2>2 DEF TypeOK
    <3>2. p \in cached => cache[p].tick <= tick /\ cache[p].tick \in Nat
      BY <3>1, CacheTick DEF ClockInv
    <3>3. CASE p \in active
      <4>1. cache'[p] = CacheAt(p, tick + 1)
        BY <1>4, <3>1, <3>3, CacheAfter
      <4>2. \/ cache'[p].tick = tick + 1
            \/ cache'[p] = cache[p] /\ p \in cached
        BY <3>1, <4>1, CacheChoice
      <4> QED
        BY <2>1, <3>1, <3>2, <4>2
    <3>4. CASE p \notin active
      BY <1>4, <2>1, <2>2, <3>1, <3>2, <3>4, CacheAfter
    <3> QED
      BY <3>3, <3>4
  <2> QED
    BY <2>1, <2>2 DEF ClockInv, TypeOK
<1> QED
  BY <1>1, <1>2, <1>3, <1>4 DEF Next, GameLoop

LEMMA SendBatches ==
  ASSUME TypeOK, ClockInv, BatchInv, SendWorldSnapshots
  PROVE  BatchInv'
<1>1. /\ phase = "snapshots" /\ phase' = "flush" /\ tick' = tick + 1
      /\ cached' = cached \cup active /\ active' = active /\ position' = position
  BY DEF SendWorldSnapshots, worldVars
<1>2. ASSUME NEW p \in active
      PROVE  /\ batches'[p] = {[tick |-> tick', players |-> cache'[p].visible]}
             /\ tick' - cache'[p].tick < UpdateInterval
             /\ Distance(position'[p], cache'[p].position) < PositionThreshold
  <2>1. p \in Players /\ batches[p] = {}
    BY <1>1, <1>2 DEF TypeOK, BatchInv
  <2>2. cache'[p] = CacheAt(p, tick + 1)
    BY <1>2, <2>1, CacheAfter
  <2>3. batches'[p] = {[tick |-> tick', players |-> cache'[p].visible]}
    BY <1>1, <1>2, <2>1, <2>2 DEF SendWorldSnapshots
  <2>a. position[p] \in Int
    BY <2>1, PositionsAreInts DEF TypeOK
  <2>4. Distance(position[p], position[p]) = 0
    BY <2>a DEF Distance
  <2>5. tick + 1 - (tick + 1) = 0
    BY DEF TypeOK
  <2>6. /\ tick' - cache'[p].tick < UpdateInterval
        /\ Distance(position'[p], cache'[p].position) < PositionThreshold
    <3>1. CASE cache'[p].tick = tick + 1 /\ cache'[p].position = position[p]
      <4>1. tick' - cache'[p].tick = 0
        BY <1>1, <2>5, <3>1
      <4>2. Distance(position'[p], cache'[p].position) = 0
        BY <1>1, <2>4, <3>1
      <4> QED
        BY <4>1, <4>2
    <3>2. CASE /\ cache'[p] = cache[p]
               /\ tick + 1 - cache[p].tick < UpdateInterval
               /\ Distance(position[p], cache[p].position) < PositionThreshold
      <4>1. tick' - cache'[p].tick < UpdateInterval
        BY <1>1, <2>1, <3>2, CacheTick DEF TypeOK
      <4>2. Distance(position'[p], cache'[p].position) < PositionThreshold
        BY <1>1, <3>2
      <4> QED
        BY <4>1, <4>2
    <3> QED
      BY <2>1, <2>2, <3>1, <3>2, CacheChoice
  <2> QED
    BY <2>3, <2>6
<1> QED
  BY <1>1, <1>2 DEF BatchInv

LEMMA BatchStep ==
  ASSUME TypeOK, ClockInv, BatchInv, [Next]_vars
  PROVE  BatchInv'
<1>1. CASE UNCHANGED vars \/ \E p \in Players : SessionEnds(p)
  BY <1>1 DEF BatchInv, SessionEnds, vars, worldVars, sendVars
<1>2. CASE Commands \/ \E d \in 1..Speed : UpdateWorld(d)
  <2>1. phase = "commands" /\ phase' # "flush" /\ batches' = batches
    BY <1>2 DEF Commands, HandleEnterZone, HandlePlayerInput, HandlePlayerDisconnect,
                UpdateWorld, sendVars
  <2> QED
    BY <2>1 DEF BatchInv
<1>3. CASE FlushAllBatches
  BY <1>3 DEF BatchInv, FlushAllBatches
<1> QED
  BY <1>1, <1>2, <1>3, SendBatches DEF Next, GameLoop

(* Once the batches are flushed, everyone present and connected got one.     *)
LEMMA DeliveryStep ==
  ASSUME TypeOK, TypeOK', BatchInv, BatchInv', SnapshotsKeepUp, [Next]_vars
  PROVE  SnapshotsKeepUp'
<1> SUFFICES ASSUME phase' = "commands", NEW p \in Players,
                    p \in active', p \in connected', since'[p] < tick'
             PROVE  p \in delivered'
  BY DEF BatchInv, SnapshotsKeepUp
<1>1. CASE UNCHANGED vars
  BY <1>1 DEF SnapshotsKeepUp, vars, worldVars, sendVars
<1>2. CASE Commands
  <2>1. UNCHANGED <<phase, tick, delivered>>
    BY <1>2 DEF Commands, HandleEnterZone, HandlePlayerInput, HandlePlayerDisconnect,
                sendVars
  <2>2. since'[p] # tick'
    BY DEF TypeOK
  <2>3. PICK q \in Players :
          \/ HandleEnterZone(q)
          \/ \E v \in Directions : HandlePlayerInput(q, v)
          \/ HandlePlayerDisconnect(q)
    BY <1>2 DEF Commands
  <2>4. p \in active /\ p \in connected /\ since'[p] = since[p]
    BY <2>1, <2>2, <2>3 DEF HandleEnterZone, HandlePlayerInput, HandlePlayerDisconnect,
                TypeOK
  <2> QED
    BY <2>1, <2>4 DEF SnapshotsKeepUp
<1>3. CASE \E q \in Players : SessionEnds(q)
  BY <1>3 DEF SessionEnds, SnapshotsKeepUp, worldVars, sendVars
<1>4. CASE FlushAllBatches
  BY <1>4 DEF FlushAllBatches, BatchInv, worldVars
<1>5. CASE SendWorldSnapshots \/ \E d \in 1..Speed : UpdateWorld(d)
  BY <1>5 DEF SendWorldSnapshots, UpdateWorld
<1> QED
  BY <1>1, <1>2, <1>3, <1>4, <1>5 DEF Next, GameLoop

LEMMA InitDelivery == Init => ClockInv /\ BatchInv /\ SnapshotsKeepUp
BY DEF Init, ClockInv, BatchInv, SnapshotsKeepUp

(* For any number of players: when a tick is over, every player that was     *)
(* present and connected all through it has been sent the snapshot of that   *)
(* tick, and no packet waits for whoever connects next, although sessions    *)
(* end between the making of a batch and its flush (AddToPlayerBatch,        *)
(* FlushAllBatches).                                                         *)
THEOREM SnapshotsAreDelivered == Spec => []SnapshotsKeepUp
<1> DEFINE Inv == TypeOK /\ IndexAgrees /\ ClockInv /\ BatchInv /\ SnapshotsKeepUp
<1>1. Init => Inv
  BY InitType, InitDelivery
<1>2. Inv /\ [Next]_vars => Inv'
  BY NextType, ClockStep, BatchStep, DeliveryStep
<1>3. Inv => SnapshotsKeepUp
  OBVIOUS
<1> QED
  BY <1>1, <1>2, <1>3, PTL DEF Spec

-----------------------------------------------------------------------------
(* The cached AOI.                                                           *)

AoiInv == VisibleInv /\ NearInv /\ FarInv

LEMMA InAOI ==
  ASSUME TypeOK, IndexAgrees, NEW x, NEW q \in Players
  PROVE  q \in GetPlayersInAOI(x)
           <=> q \in active /\ Distance(position[q], x) <= AoiRange
<1>1. index[q] = IF q \in active THEN position[q] ELSE Nowhere
  BY DEF IndexAgrees
<1>2. position[q] # Nowhere
  BY PositionsAreInts DEF TypeOK
<1> QED
  BY <1>1, <1>2 DEF GetPlayersInAOI

(* Steps that neither move a player nor touch the cache.  A known player     *)
(* enters where it was.                                                      *)
LEMMA AoiCommand ==
  ASSUME TypeOK, ClockInv, AoiInv, Commands
  PROVE  AoiInv'
<1>1. UNCHANGED <<phase, tick, cached, cache>>
  BY DEF Commands, HandleEnterZone, HandlePlayerInput, HandlePlayerDisconnect, sendVars
<1>2. Now' = Now
  BY <1>1 DEF Now
<1>3. PICK p \in Players :
        \/ HandleEnterZone(p)
        \/ \E v \in Directions : HandlePlayerInput(p, v)
        \/ HandlePlayerDisconnect(p)
  BY DEF Commands
<1>4. known \subseteq known'
  BY <1>3 DEF HandleEnterZone, HandlePlayerInput, HandlePlayerDisconnect
<1>5. ASSUME NEW q \in known
      PROVE  position'[q] = position[q]
  BY <1>3, <1>5 DEF HandleEnterZone, HandlePlayerInput, HandlePlayerDisconnect, TypeOK
<1>6. ASSUME NEW q \in Players
      PROVE  \/ q \in active' /\ (q \in active => since'[q] = since[q])
             \/ q \notin active' /\ q \notin active /\ since'[q] = since[q]
             \/ q \notin active' /\ since'[q] = tick
  BY <1>3, <1>6 DEF HandleEnterZone, HandlePlayerInput, HandlePlayerDisconnect, TypeOK
<1>7. ASSUME NEW q \in Players, q \in active'
      PROVE  q \in active \/ since'[q] = tick
  BY <1>3, <1>7 DEF HandleEnterZone, HandlePlayerInput, HandlePlayerDisconnect, TypeOK
<1>8. VisibleInv'
  <2> SUFFICES ASSUME NEW r \in cached, NEW q \in cache[r].visible, q \notin active'
               PROVE  since'[q] >= cache[r].tick
    BY <1>1 DEF VisibleInv
  <2>1. r \in Players /\ q \in Players /\ cache[r].tick \in Nat /\ tick \in Nat
    BY CacheTick DEF TypeOK
  <2>2. cache[r].tick <= tick
    BY DEF ClockInv
  <2>3. q \in active \/ since[q] >= cache[r].tick
    BY DEF AoiInv, VisibleInv
  <2> QED
    BY <1>6, <2>1, <2>2, <2>3
<1>9. NearInv'
  BY <1>1, <1>2, <1>4, <1>5 DEF AoiInv, NearInv
<1>10. FarInv'
  <2> SUFFICES ASSUME NEW r \in cached, NEW q \in active', q \notin cache[r].visible,
                      since'[q] < cache[r].tick
               PROVE  Distance(position'[q], cache[r].position)
                        > AoiRange - (Now - cache[r].tick) * Speed
    BY <1>1, <1>2 DEF FarInv
  <2>1. /\ r \in Players /\ cache[r].tick \in Nat /\ tick \in Nat
        /\ cache[r].tick <= tick
    BY CacheTick DEF TypeOK, ClockInv
  <2>2. q \in Players
    BY <1>3 DEF HandleEnterZone, HandlePlayerInput, HandlePlayerDisconnect, TypeOK
  <2>3. since'[q] # tick
    BY <2>1
  <2>4. q \in active /\ since'[q] = since[q]
    BY <1>6, <1>7, <2>2, <2>3
  <2>5. position'[q] = position[q]
    BY <1>5, <2>4 DEF TypeOK
  <2> QED
    BY <2>4, <2>5 DEF AoiInv, FarInv
<1> QED
  BY <1>8, <1>9, <1>10 DEF AoiInv

(* One tick of moves.                                                        *)
LEMMA AoiUpdate ==
  ASSUME TypeOK, ClockInv, AoiInv, NEW d \in 1..Speed, UpdateWorld(d)
  PROVE  AoiInv'
<1>1. /\ UNCHANGED <<tick, known, active, since, cached, cache>>
      /\ phase = "commands" /\ phase' = "snapshots"
  BY DEF UpdateWorld, sendVars
<1>2. Now = tick /\ Now' = tick + 1 /\ tick \in Nat
  BY <1>1 DEF Now, TypeOK
<1>3. ASSUME NEW r \in cached, NEW q \in Players
      PROVE  LET old == Distance(position[q], cache[r].position)
                 new == Distance(position'[q], cache[r].position)
                 range == (Now - cache[r].tick) * Speed
             IN /\ old \in Nat /\ new \in Nat /\ range \in Int
                /\ new <= old + Speed /\ old <= new + Speed
                /\ (Now' - cache[r].tick) * Speed = range + Speed
  <2>1. r \in Players /\ cache[r].tick \in Nat /\ cache[r].position \in Int
    BY CacheTick DEF TypeOK
  <2>2. position'[q] = Moved(q, d)
    BY DEF UpdateWorld
  <2>3. position[q] \in Int /\ position'[q] \in Int
    BY <2>2, MovedBound, PositionsAreInts DEF TypeOK
  <2>4. Distance(position'[q], position[q]) <= Speed
    BY <2>2, MovedBound
  <2>5. Now - cache[r].tick \in Int /\ Now' - cache[r].tick = (Now - cache[r].tick) + 1
    BY <1>2, <2>1
  <2>6. /\ (Now' - cache[r].tick) * Speed = (Now - cache[r].tick) * Speed + Speed
        /\ (Now - cache[r].tick) * Speed \in Int
    <3> DEFINE age == Now - cache[r].tick
               next == Now' - cache[r].tick
    <3>1. age \in Int /\ next = age + 1 /\ Speed \in Int
      BY <2>5
    <3> HIDE DEF age, next
    <3>2. next * Speed = age * Speed + Speed /\ age * Speed \in Int
      BY <3>1, OneMore
    <3> QED
      BY <3>2 DEF age, next
  <2>7. /\ Distance(position[q], cache[r].position) \in Nat
        /\ Distance(position'[q], cache[r].position) \in Nat
        /\ Distance(position'[q], position[q]) \in Nat
        /\ Distance(position'[q], position[q]) = Distance(position[q], position'[q])
    BY <2>1, <2>3, DistanceLaws
  <2>8. Distance(position'[q], cache[r].position)
          <= Distance(position'[q], position[q]) + Distance(position[q], cache[r].position)
    BY <2>1, <2>3, DistanceLaws
  <2>9. Distance(position[q], cache[r].position)
          <= Distance(position[q], position'[q]) + Distance(position'[q], cache[r].position)
    BY <2>1, <2>3, DistanceLaws
  <2> QED
    BY <2>4, <2>6, <2>7, <2>8, <2>9
<1>4. VisibleInv'
  BY <1>1 DEF AoiInv, VisibleInv
<1>5. NearInv'
  <2> SUFFICES ASSUME NEW r \in cached, NEW q \in cache[r].visible
               PROVE  /\ q \in known
                      /\ Distance(position'[q], cache[r].position)
                           <= AoiRange + (Now' - cache[r].tick) * Speed
    BY <1>1 DEF NearInv
  <2>1. /\ q \in known /\ q \in Players
        /\ Distance(position[q], cache[r].position)
             <= AoiRange + (Now - cache[r].tick) * Speed
    BY DEF AoiInv, NearInv, TypeOK
  <2> QED
    BY <1>3, <2>1
<1>6. FarInv'
  <2> SUFFICES ASSUME NEW r \in cached, NEW q \in active, q \notin cache[r].visible,
                      since[q] < cache[r].tick
               PROVE  Distance(position'[q], cache[r].position)
                        > AoiRange - (Now' - cache[r].tick) * Speed
    BY <1>1 DEF FarInv
  <2>1. /\ q \in Players
        /\ Distance(position[q], cache[r].position)
             > AoiRange - (Now - cache[r].tick) * Speed
    BY DEF AoiInv, FarInv, TypeOK
  <2> QED
    BY <1>3, <2>1
<1> QED
  BY <1>4, <1>5, <1>6 DEF AoiInv

(* The refresh of the caches.                                                *)
LEMMA AoiSend ==
  ASSUME TypeOK, IndexAgrees, ClockInv, AoiInv, SendWorldSnapshots
  PROVE  AoiInv'
<1>1. /\ UNCHANGED <<known, active, position, since>>
      /\ phase = "snapshots" /\ phase' = "flush"
      /\ tick' = tick + 1 /\ cached' = cached \cup active
  BY DEF SendWorldSnapshots, worldVars
<1>2. Now = tick + 1 /\ Now' = tick + 1 /\ tick \in Nat
  BY <1>1 DEF Now, TypeOK
<1>3. ASSUME NEW r \in cached'
      PROVE  /\ r \in Players
             /\ \/ cache'[r] = cache[r] /\ r \in cached
                \/ /\ cache'[r].visible = GetPlayersInAOI(position[r])
                   /\ cache'[r].tick = tick + 1
                   /\ cache'[r].position = position[r]
  <2>1. r \in Players
    BY <1>1, <1>3 DEF TypeOK
  <2>2. CASE r \in active
    BY <2>1, <2>2, CacheAfter, CacheChoice
  <2>3. CASE r \notin active
    BY <1>1, <1>3, <2>1, <2>3, CacheAfter
  <2> QED
    BY <2>1, <2>2, <2>3
<1>4. VisibleInv'
  BY <1>1, <1>3, InAOI DEF AoiInv, VisibleInv, GetPlayersInAOI
<1>5. (Now' - (tick + 1)) * Speed = 0
  BY <1>2
<1>6. NearInv'
  <2> SUFFICES ASSUME NEW r \in cached', NEW q \in cache'[r].visible
               PROVE  /\ q \in known
                      /\ Distance(position[q], cache'[r].position)
                           <= AoiRange + (Now' - cache'[r].tick) * Speed
    BY <1>1 DEF NearInv
  <2>1. CASE cache'[r] = cache[r] /\ r \in cached
    BY <1>2, <2>1 DEF AoiInv, NearInv
  <2>2. CASE /\ cache'[r].visible = GetPlayersInAOI(position[r])
             /\ cache'[r].tick = tick + 1
             /\ cache'[r].position = position[r]
    <3>1. q \in active /\ Distance(position[q], position[r]) <= AoiRange
      BY <2>2, InAOI DEF GetPlayersInAOI
    <3> QED
      BY <1>5, <2>2, <3>1 DEF TypeOK
  <2> QED
    BY <1>3, <2>1, <2>2
<1>7. FarInv'
  <2> SUFFICES ASSUME NEW r \in cached', NEW q \in active, q \notin cache'[r].visible,
                      since[q] < cache'[r].tick
               PROVE  Distance(position[q], cache'[r].position)
                        > AoiRange - (Now' - cache'[r].tick) * Speed
    BY <1>1 DEF FarInv
  <2>1. CASE cache'[r] = cache[r] /\ r \in cached
    BY <1>2, <2>1 DEF AoiInv, FarInv
  <2>2. CASE /\ cache'[r].visible = GetPlayersInAOI(position[r])
             /\ cache'[r].tick = tick + 1
             /\ cache'[r].position = position[r]
    <3>1. q \in Players /\ r \in Players
      BY <1>3 DEF TypeOK
    <3>2. ~(Distance(position[q], position[r]) <= AoiRange)
      BY <2>2, <3>1, InAOI
    <3>3. Distance(position[q], position[r]) \in Nat
      BY <3>1, PositionsAreInts, DistanceLaws DEF TypeOK
    <3> QED
      BY <1>5, <2>2, <3>2, <3>3
  <2> QED
    BY <1>3, <2>1, <2>2
<1> QED
  BY <1>4, <1>6, <1>7 DEF AoiInv

LEMMA AoiStep ==
  ASSUME TypeOK, IndexAgrees, ClockInv, AoiInv, [Next]_vars
  PROVE  AoiInv'
<1>1. CASE \/ UNCHANGED vars
           \/ \E p \in Players : SessionEnds(p)
           \/ FlushAllBatches
  <2>1. UNCHANGED <<Now, known, active, position, since, cached, cache>>
    BY <1>1 DEF SessionEnds, FlushAllBatches, Now, vars, worldVars, sendVars
  <2> QED
    BY <2>1 DEF AoiInv, VisibleInv, NearInv, FarInv
<1> QED
  BY <1>1, AoiCommand, AoiUpdate, AoiSend DEF Next, GameLoop

LEMMA InitAoi == Init => AoiInv
BY DEF Init, AoiInv, VisibleInv, NearInv, FarInv

-----------------------------------------------------------------------------
(* What the invariants say of the snapshots.                                 *)

TickInv ==
  /\ TypeOK
  /\ IndexAgrees
  /\ ClockInv
  /\ BatchInv
  /\ AoiInv

LEMMA InitTick == Init => TickInv
BY InitType, InitDelivery, InitAoi DEF TickInv

LEMMA TickStep == TickInv /\ [Next]_vars => TickInv'
BY NextType, ClockStep, BatchStep, AoiStep DEF TickInv

(* The snapshot that waits for a present player lists its cached AOI, which  *)
(* is less than UpdateInterval ticks old and was taken near by.              *)
LEMMA FreshSnapshot ==
  ASSUME TickInv, phase = "flush", NEW p \in active
  PROVE  /\ p \in cached /\ p \in Players /\ Now = tick
         /\ Listed(p) = cache[p].visible
         /\ tick - cache[p].tick \in Nat
         /\ tick - cache[p].tick <= UpdateInterval - 1
         /\ position[p] \in Int /\ cache[p].position \in Int
         /\ Distance(position[p], cache[p].position) \in Nat
         /\ Distance(position[p], cache[p].position) <= PositionThreshold - 1
<1>1. p \in cached /\ p \in Players /\ Now = tick
  BY DEF TickInv, BatchInv, TypeOK, Now
<1>2. batches[p] = {[tick |-> tick, players |-> cache[p].visible]}
  BY DEF TickInv, BatchInv
<1>3. Listed(p) = cache[p].visible
  BY <1>2 DEF Listed
<1>4. cache[p].tick \in Nat /\ cache[p].tick <= tick /\ tick \in Nat
  BY <1>1, CacheTick DEF TickInv, ClockInv, TypeOK
<1>5. tick - cache[p].tick < UpdateInterval
  BY DEF TickInv, BatchInv
<1>6. position[p] \in Int /\ cache[p].position \in Int
  BY <1>1, CacheTick, PositionsAreInts DEF TickInv, TypeOK
<1>7. Distance(position[p], cache[p].position) \in Nat
  BY <1>6, DistanceLaws
<1>8. Distance(position[p], cache[p].position) < PositionThreshold
  BY DEF TickInv, BatchInv
<1>9. tick - cache[p].tick \in Nat /\ tick - cache[p].tick <= UpdateInterval - 1
  BY <1>4, <1>5
<1>10. Distance(position[p], cache[p].position) <= PositionThreshold - 1
  BY <1>7, <1>8
<1> QED
  BY <1>1, <1>3, <1>6, <1>7, <1>9, <1>10

(* Player q and the place where the cache of p was filled: how far p itself  *)
(* can be from q, and how far q can have gone.                               *)
LEMMA DriftBound ==
  ASSUME TickInv, phase = "flush", NEW p \in active, NEW q \in Players
  PROVE  LET near == Distance(position[p], position[q])
             far == Distance(position[q], cache[p].position)
             gone == (tick - cache[p].tick) * Speed
         IN /\ near \in Nat /\ far \in Nat /\ gone \in Int /\ Drift \in Int
            /\ near <= (PositionThreshold - 1) + far
            /\ far <= (PositionThreshold - 1) + near
            /\ (PositionThreshold - 1) + gone <= Drift
<1>1. position[q] \in Int
  BY PositionsAreInts DEF TickInv, TypeOK
<1>2. /\ position[p] \in Int /\ cache[p].position \in Int
      /\ Distance(position[p], cache[p].position) \in Nat
      /\ Distance(position[p], cache[p].position) <= PositionThreshold - 1
  BY FreshSnapshot
<1>3. /\ Distance(position[p], position[q]) \in Nat
      /\ Distance(position[q], position[p]) = Distance(position[p], position[q])
      /\ Distance(position[q], cache[p].position) \in Nat
      /\ Distance(cache[p].position, position[q]) = Distance(position[q], cache[p].position)
  BY <1>1, <1>2, DistanceLaws
<1>4. Distance(position[p], position[q])
        <= Distance(position[p], cache[p].position) + Distance(cache[p].position, position[q])
  BY <1>1, <1>2, DistanceLaws
<1>5. Distance(position[q], cache[p].position)
        <= Distance(position[q], position[p]) + Distance(position[p], cache[p].position)
  BY <1>1, <1>2, DistanceLaws
<1> DEFINE age == tick - cache[p].tick
           oldest == UpdateInterval - 1
<1>6. age \in Int /\ oldest \in Int /\ age <= oldest
  BY FreshSnapshot
<1>7. PositionThreshold - 1 \in Int /\ Speed \in Nat
  OBVIOUS
<1>8. Drift = (PositionThreshold - 1) + oldest * Speed
  BY DEF Drift
<1> HIDE DEF age, oldest
<1>9. age * Speed \in Int /\ oldest * Speed \in Int
  BY <1>6, <1>7, OneMore
<1>10. age * Speed <= oldest * Speed
  BY <1>6, <1>7, ScaleMonotone
<1>11. /\ age * Speed \in Int /\ Drift \in Int
       /\ (PositionThreshold - 1) + age * Speed <= Drift
  BY <1>7, <1>8, <1>9, <1>10
<1>12. Distance(position[p], position[q])
         <= (PositionThreshold - 1) + Distance(position[q], cache[p].position)
  BY <1>2, <1>3, <1>4
<1>13. Distance(position[q], cache[p].position)
         <= (PositionThreshold - 1) + Distance(position[p], position[q])
  BY <1>2, <1>3, <1>5
<1> QED
  BY <1>3, <1>11, <1>12, <1>13 DEF age

LEMMA DepartedFollows == TickInv => DepartedListedBriefly
<1> SUFFICES ASSUME TickInv, phase = "flush", NEW p \in active,
                    NEW q \in Listed(p), q \notin active
             PROVE  tick - since[q] < UpdateInterval
  BY DEF DepartedListedBriefly
<1>1. /\ p \in cached /\ p \in Players
      /\ Listed(p) = cache[p].visible
      /\ tick - cache[p].tick <= UpdateInterval - 1
  BY FreshSnapshot
<1>2. q \in Players /\ cache[p].tick \in Nat
  BY <1>1, CacheTick DEF TickInv
<1>3. since[q] \in Nat /\ tick \in Nat
  BY <1>2 DEF TickInv, TypeOK
<1>4. since[q] >= cache[p].tick
  BY <1>1 DEF TickInv, AoiInv, VisibleInv
<1> QED
  BY <1>1, <1>2, <1>3, <1>4

LEMMA NearFollows == TickInv => ListedAreNear
<1> SUFFICES ASSUME TickInv, phase = "flush", NEW p \in active,
                    NEW q \in Listed(p), q \in active
             PROVE  Distance(position[p], position[q]) <= AoiRange + Drift
  BY DEF ListedAreNear
<1>1. p \in cached /\ Listed(p) = cache[p].visible /\ Now = tick
  BY FreshSnapshot
<1>2. q \in Players
  BY DEF TickInv, TypeOK
<1>3. Distance(position[q], cache[p].position)
        <= AoiRange + (tick - cache[p].tick) * Speed
  BY <1>1 DEF TickInv, AoiInv, NearInv
<1> QED
  BY <1>2, <1>3, DriftBound

LEMMA FarFollows == TickInv => NearAreListed
<1> SUFFICES ASSUME TickInv, phase = "flush", NEW p \in active, NEW q \in active,
                    tick - since[q] >= UpdateInterval,
                    Distance(position[p], position[q]) + Drift <= AoiRange,
                    q \notin Listed(p)
             PROVE  FALSE
  BY DEF NearAreListed
<1>1. /\ p \in cached /\ p \in Players /\ Now = tick
      /\ Listed(p) = cache[p].visible
      /\ tick - cache[p].tick <= UpdateInterval - 1
  BY FreshSnapshot
<1>2. q \in Players
  BY DEF TickInv, TypeOK
<1>3. since[q] \in Nat /\ tick \in Nat /\ cache[p].tick \in Nat
  BY <1>1, <1>2, CacheTick DEF TickInv, TypeOK
<1>4. since[q] < cache[p].tick
  BY <1>1, <1>3
<1>5. Distance(position[q], cache[p].position)
        > AoiRange - (tick - cache[p].tick) * Speed
  BY <1>1, <1>4 DEF TickInv, AoiInv, FarInv
<1> QED
  BY <1>2, <1>5, DriftBound

(* For any interval of refresh: a player that has left is listed for less    *)
(* than UpdateInterval ticks, whatever the cache held and whenever its owner *)
(* came back (GetCachedPlayersInAOI, ShouldUpdateAOI).                       *)
THEOREM DepartedSoonUnlisted == Spec => []DepartedListedBriefly
BY InitTick, TickStep, DepartedFollows, PTL DEF Spec

(* For any map, speed, range, interval and threshold: a listed player that   *)
(* is present is out of the AOI by no more than the drift                    *)
(* (GetPlayersInAOI, ShouldUpdateAOI, UpdateWorld).                          *)
THEOREM ListedWithinDrift == Spec => []ListedAreNear
BY InitTick, TickStep, NearFollows, PTL DEF Spec

(* And one that has been present for UpdateInterval ticks and is inside the  *)
(* AOI by at least the drift is listed (GetPlayersInAOI, ShouldUpdateAOI,    *)
(* UpdateWorld).                                                             *)
THEOREM InsideAreListed == Spec => []NearAreListed
BY InitTick, TickStep, FarFollows, PTL DEF Spec
=============================================================================
