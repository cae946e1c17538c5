----------------------------- MODULE WorldTick -----------------------------
(***************************************************************************)
(* One tick of the game thread after another: the commands that were       *)
(* pending, UpdateWorld, SendWorldSnapshots with its cache of the players  *)
(* in the area of interest (AOI), and FlushAllBatches.                     *)
(*                                                                         *)
(* Positions lie on a line: the two axes of the map are treated alike.     *)
(* A tick is run when at least m_tickDuration has passed, and moves a      *)
(* player by m_moveSpeed for the time that really has: by 1 to Speed.  A   *)
(* player and the session it entered with are one thing here;              *)
(* PlayerLifecycle tells them apart.                                       *)
(* A snapshot is the set of the players it lists and its tick number.      *)
(***************************************************************************)
EXTENDS Integers

CONSTANTS
  Players,
  Nowhere,             \* not in the spatial index
  Width,               \* m_mapWidth
  SpawnMargin,         \* the 20 units GetSpawnPosition keeps from the border
  Speed,               \* bound: m_moveSpeed * deltaTime, for the latest tick
  Directions,          \* bound: the directions the clients choose
  AoiRange,            \* m_aoiRange
  UpdateInterval,      \* m_aoiUpdateInterval
  PositionThreshold,   \* m_aoiPositionThreshold
  MaxTick              \* bound on m_tickNumber

ASSUME TickAssumption ==
  /\ Width \in Nat \ {0}
  /\ Nowhere \notin Int
  /\ SpawnMargin \in Nat /\ 2 * SpawnMargin < Width
  /\ Speed \in Nat \ {0}
  /\ Directions \subseteq {-1, 0, 1}
  /\ AoiRange \in Nat
  /\ UpdateInterval \in Nat \ {0}
  /\ PositionThreshold \in Nat \ {0}
  /\ MaxTick \in Nat

VARIABLES
  phase,       \* what the game thread does next
  tick,        \* m_tickNumber
  known,       \* the keys of World::m_players
  active,      \* players whose m_isActive is set
  position,    \* Player::m_position
  velocity,    \* Player::m_velocity, in steps per tick
  index,       \* QuadTree::m_playerPositions
  cached,      \* the keys of m_aoiCache
  cache,       \* m_aoiCache
  batches,     \* m_playerBatches: the snapshots to be sent
  connected,   \* players whose session is registered and open
  delivered,   \* history: players whose batch of this tick went to SendBatch
  since        \* history: m_tickNumber when the player last entered or left

worldVars == <<known, active, position, velocity, index, since>>
sendVars == <<cached, cache, batches, delivered>>
vars == <<phase, tick, worldVars, sendVars, connected>>

Positions == 0..(Width - 1)
Snapshot == [tick : Nat, players : SUBSET Players]
Cache == [visible : SUBSET Players, tick : Nat, position : Positions]

TypeOK ==
  /\ phase \in {"commands", "snapshots", "flush"}
  /\ tick \in Nat
  /\ known \subseteq Players
  /\ active \subseteq known
  /\ position \in [Players -> Positions]
  /\ velocity \in [Players -> {-1, 0, 1}]
  /\ index \in [Players -> Positions \cup {Nowhere}]
  /\ cached \subseteq Players
  /\ cache \in [Players -> Cache]
  /\ batches \in [Players -> SUBSET Snapshot]
  /\ connected \subseteq Players
  /\ delivered \subseteq Players
  /\ since \in [Players -> Nat]

Init ==
  /\ phase = "commands"
  /\ tick = 0
  /\ known = {}
  /\ active = {}
  /\ position = [p \in Players |-> 0]
  /\ velocity = [p \in Players |-> 0]
  /\ index = [p \in Players |-> Nowhere]
  /\ cached = {}
  /\ cache = [p \in Players |-> [visible |-> {}, tick |-> 0, position |-> 0]]
  /\ batches = [p \in Players |-> {}]
  /\ connected = {}
  /\ delivered = {}
  /\ since = [p \in Players |-> 0]

-----------------------------------------------------------------------------
(* The commands.                                                            *)

GetSpawnPosition == SpawnMargin..(Width - 1 - SpawnMargin)

(* HandleEnterZone: a known player comes back where it was, and as fast; a   *)
(* new one starts at a random place.                                         *)
HandleEnterZone(p) ==
  /\ phase = "commands"
  /\ p \notin active
  /\ known' = known \cup {p}
  /\ active' = active \cup {p}
  /\ \E x \in IF p \in known THEN {position[p]} ELSE GetSpawnPosition :
       /\ position' = [position EXCEPT ![p] = x]
       /\ index' = [index EXCEPT ![p] = x]
  /\ connected' = connected \cup {p}
  /\ since' = [since EXCEPT ![p] = tick]
  /\ UNCHANGED <<phase, tick, velocity, sendVars>>

(* HandlePlayerInput, once its sequence number and rate are accepted.        *)
HandlePlayerInput(p, v) ==
  /\ phase = "commands"
  /\ p \in known
  /\ velocity' = [velocity EXCEPT ![p] = v]
  /\ UNCHANGED <<phase, tick, known, active, position, index, since,
                 sendVars, connected>>

(* Mutant: the player stays in the index.                                    *)
HandlePlayerDisconnectKeepsIndex(p) ==
  /\ phase = "commands"
  /\ p \in known \ connected
  /\ active' = active \ {p}
  /\ since' = IF p \in active THEN [since EXCEPT ![p] = tick] ELSE since
  /\ UNCHANGED <<phase, tick, known, position, velocity, index, sendVars, connected>>

HandlePlayerDisconnect(p) ==
  /\ phase = "commands"
  /\ p \in known \ connected
  /\ active' = active \ {p}
  /\ index' = [index EXCEPT ![p] = Nowhere]
  /\ since' = IF p \in active THEN [since EXCEPT ![p] = tick] ELSE since
  /\ UNCHANGED <<phase, tick, known, position, velocity, sendVars, connected>>

(* A session ends, on an io thread, at any time.                            *)
SessionEnds(p) ==
  /\ p \in connected
  /\ connected' = connected \ {p}
  /\ UNCHANGED <<phase, tick, worldVars, sendVars>>

-----------------------------------------------------------------------------
(* UpdateWorld.                                                             *)

(* Mutant: the border counts as inside.                                      *)
IsValidPositionInclusive(x) == 0 <= x /\ x <= Width

IsValidPosition(x) == 0 <= x /\ x < Width

(* Where p is after a move by d; a move across the border is not made.       *)
Moved(p, d) ==
  LET new == position[p] + velocity[p] * d
  IN IF p \in active /\ IsValidPosition(new) THEN new ELSE position[p]

UpdateWorld(d) ==
  /\ phase = "commands"
  /\ tick < MaxTick
  /\ phase' = "snapshots"
  /\ position' = [p \in Players |-> Moved(p, d)]
  /\ index' = [p \in Players |-> IF p \in active THEN Moved(p, d) ELSE index[p]]
  /\ UNCHANGED <<tick, known, active, velocity, since, sendVars, connected>>

-----------------------------------------------------------------------------
(* SendWorldSnapshots.                                                      *)

Distance(x, y) == IF x < y THEN y - x ELSE x - y

(* QuadTree::Query.                                                         *)
GetPlayersInAOI(x) ==
  {q \in Players : index[q] # Nowhere /\ Distance(index[q], x) <= AoiRange}

(* Mutant: the cache is refreshed one tick late.                             *)
ShouldUpdateAOILate(p, n) ==
  \/ p \notin cached
  \/ n - cache[p].tick > UpdateInterval
  \/ Distance(position[p], cache[p].position) >= PositionThreshold

(* ShouldUpdateAOI, for the snapshot with number n.                         *)
ShouldUpdateAOI(p, n) ==
  \/ p \notin cached
  \/ n - cache[p].tick >= UpdateInterval
  \/ Distance(position[p], cache[p].position) >= PositionThreshold

(* GetCachedPlayersInAOI and UpdateAOICache: the entry p has afterwards.     *)
CacheAt(p, n) ==
  IF ShouldUpdateAOI(p, n)
  THEN [visible |-> GetPlayersInAOI(position[p]), tick |-> n, position |-> position[p]]
  ELSE cache[p]

SendWorldSnapshots ==
  /\ phase = "snapshots"
  /\ phase' = "flush"
  /\ tick' = tick + 1
  /\ cached' = cached \cup active
  /\ cache' = [p \in Players |-> IF p \in active THEN CacheAt(p, tick + 1) ELSE cache[p]]
  /\ batches' = [p \in Players |->
                   IF p \in active
                   THEN batches[p] \cup {[tick |-> tick + 1,
                                          players |-> CacheAt(p, tick + 1).visible]}
                   ELSE batches[p]]
  /\ delivered' = {}
  /\ UNCHANGED <<worldVars, connected>>

(* Mutant: the batch of a session that is gone is kept.                      *)
FlushOpenBatches ==
  /\ phase = "flush"
  /\ phase' = "commands"
  /\ delivered' = {p \in connected : batches[p] # {}}
  /\ batches' = [p \in Players |-> IF p \in connected THEN {} ELSE batches[p]]
  /\ UNCHANGED <<tick, worldVars, cached, cache, connected>>

(* A batch is passed to SendBatch, or cleared when the session is gone.      *)
FlushAllBatches ==
  /\ phase = "flush"
  /\ phase' = "commands"
  /\ delivered' = {p \in connected : batches[p] # {}}
  /\ batches' = [p \in Players |-> {}]
  /\ UNCHANGED <<tick, worldVars, cached, cache, connected>>

-----------------------------------------------------------------------------
Commands ==
  \E p \in Players :
    \/ HandleEnterZone(p)
    \/ \E v \in Directions : HandlePlayerInput(p, v)
    \/ HandlePlayerDisconnect(p)

GameLoop ==
  \/ \E d \in 1..Speed : UpdateWorld(d)
  \/ SendWorldSnapshots
  \/ FlushAllBatches

Next == Commands \/ GameLoop \/ \E p \in Players : SessionEnds(p)

Spec == Init /\ [][Next]_vars

-----------------------------------------------------------------------------
(* The players that the snapshot made in this tick for p lists.             *)
Listed(p) == UNION {b.players : b \in batches[p]}

(* A snapshot lists a player that has left for less than UpdateInterval      *)
(* ticks only, however the cache of its reader was filled: by an entry of an *)
(* earlier stay, say (GetCachedPlayersInAOI, ShouldUpdateAOI).               *)
DepartedListedBriefly ==
  phase = "flush" =>
    \A p \in active : \A q \in Listed(p) \ active : tick - since[q] < UpdateInterval

(* The way two players can go apart before the cache of one is refreshed:    *)
(* less than the threshold for its owner, UpdateInterval - 1 moves for the   *)
(* other one.                                                                *)
Drift == (PositionThreshold - 1) + (UpdateInterval - 1) * Speed

(* Listed players are near: out of the AOI by no more than the drift.        *)
ListedAreNear ==
  phase = "flush" =>
    \A p \in active : \A q \in Listed(p) \cap active :
      Distance(position[p], position[q]) <= AoiRange + Drift

(* A player well inside the AOI that entered UpdateInterval ticks ago or     *)
(* more is listed.                                                           *)
NearAreListed ==
  phase = "flush" =>
    \A p, q \in active :
      /\ tick - since[q] >= UpdateInterval
      /\ Distance(position[p], position[q]) + Drift <= AoiRange
      => q \in Listed(p)

(* Every tick sends each player that is present and connected the snapshot   *)
(* of that tick, and leaves no packet behind for a later session             *)
(* (AddToPlayerBatch, FlushAllBatches).                                      *)
SnapshotsKeepUp ==
  phase = "commands" =>
    \A p \in Players :
      /\ batches[p] = {}
      /\ p \in active \cap connected /\ since[p] < tick => p \in delivered

(* The index the AOI queries read agrees with the world at any time          *)
(* (HandleEnterZone, HandlePlayerDisconnect, UpdateWorld).                   *)
IndexAgrees ==
  \A p \in Players : index[p] = IF p \in active THEN position[p] ELSE Nowhere

-----------------------------------------------------------------------------
(* The inductive invariants behind these properties.                         *)

(* The number of the last tick whose moves are made.                         *)
Now == IF phase = "snapshots" THEN tick + 1 ELSE tick

(* Neither the history nor the cache is ahead of the ticks.                  *)
ClockInv ==
  /\ \A p \in Players : since[p] <= tick
  /\ \A p \in cached : cache[p].tick <= tick

(* Batches are filled by SendWorldSnapshots and emptied before the next      *)
(* commands; while they wait, the cache of every present player is fresh and *)
(* its batch is the one snapshot made from it.                               *)
BatchInv ==
  /\ phase # "flush" => \A p \in Players : batches[p] = {}
  /\ phase = "flush" =>
       /\ active \subseteq cached
       /\ \A p \in active :
            /\ batches[p] = {[tick |-> tick, players |-> cache[p].visible]}
            /\ tick - cache[p].tick < UpdateInterval
            /\ Distance(position[p], cache[p].position) < PositionThreshold

(* Who has left since a cache was filled is in it no longer than that.       *)
VisibleInv ==
  \A p \in cached : \A q \in cache[p].visible :
    q \in active \/ since[q] >= cache[p].tick

(* What was in the AOI when the cache was filled is out of it by no more     *)
(* than the moves made since ...                                             *)
NearInv ==
  \A p \in cached : \A q \in cache[p].visible :
    /\ q \in known
    /\ Distance(position[q], cache[p].position)
         <= AoiRange + (Now - cache[p].tick) * Speed

(* ... and what was present and outside is inside by no more than those.     *)
FarInv ==
  \A p \in cached : \A q \in active \ cache[p].visible :
    since[q] < cache[p].tick =>
      Distance(position[q], cache[p].position)
        > AoiRange - (Now - cache[p].tick) * Speed
=============================================================================
