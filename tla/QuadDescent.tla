---------------------------- MODULE QuadDescent ----------------------------
(***************************************************************************)
(* The spatial index again, with one step for each call of InsertIntoNode: *)
(* the recursion of QuadTree is a set of calls that are still to be made,  *)
(* and the tree is the set of its squares.  The game thread runs the calls *)
(* of one operation to their end before the next operation; their order is *)
(* left open here.                                                         *)
(*                                                                         *)
(* A cell is the square of a node with the depth of the node.  A pair      *)
(* <<id, cell>> is an id in the playerIds of a leaf, or the id and the     *)
(* node a call is made with.                                               *)
(***************************************************************************)
EXTENDS Bounds, FiniteSets

CONSTANTS
  Players,             \* player ids
  Size,                \* width of the nodes of each depth; the root's is Size[0]
  Points,              \* bound: the positions of players and of queries
  Radii,               \* bound: the radii of queries
  MaxPlayersPerNode,   \* MAX_PLAYERS_PER_NODE
  MaxDepth             \* MAX_DEPTH

(* Halving the bounds is exact, as it is for floats and the map's 200 units. *)
ASSUME DescentAssumption ==
  /\ IsFiniteSet(Players)
  /\ MaxDepth \in Nat
  /\ MaxPlayersPerNode \in Nat
  /\ Size \in [0..MaxDepth -> Nat \ {0}]
  /\ \A d \in 0..(MaxDepth - 1) : Size[d] = 2 * Size[d + 1]
  /\ Points \subseteq (0..(Size[0] - 1)) \X (0..(Size[0] - 1))
  /\ Radii \subseteq Nat

VARIABLES
  positions,   \* m_playerPositions
  divided,     \* the nodes that have children
  entries,     \* the ids in the nodes
  calls        \* calls of InsertIntoNode still to be made

vars == <<positions, divided, entries, calls>>

Cell == [x : Nat, y : Nat, size : Nat, depth : 0..MaxDepth]

TypeOK ==
  /\ DOMAIN positions \subseteq Players
  /\ positions \in [DOMAIN positions -> Points]
  /\ divided \subseteq Cell
  /\ entries \subseteq Players \X Cell
  /\ calls \subseteq Players \X Cell

-----------------------------------------------------------------------------
Root == [x |-> 0, y |-> 0, size |-> Size[0], depth |-> 0]

(* The children of a node: nw, ne, sw, se.                                   *)
Kid(n, k) ==
  LET half == n.size \div 2
  IN [x |-> IF k \in {2, 4} THEN n.x + half ELSE n.x,
      y |-> IF k \in {3, 4} THEN n.y + half ELSE n.y,
      size |-> half,
      depth |-> n.depth + 1]

Nodes == {Root} \cup {Kid(n, k) : n \in divided, k \in 1..4}
Leaves == Nodes \ divided
Ids(n) == {p \in Players : <<p, n>> \in entries}

(* The first child whose bounds contain the point, if there is one.          *)
KidFor(n, point) ==
  {Kid(n, k) : k \in {i \in 1..4 : /\ Contains(Kid(n, i), point)
                                   /\ \A h \in 1..(i - 1) : ~Contains(Kid(n, h), point)}}

CallsBelow(n, ids) ==
  UNION {{<<p, kid>> : kid \in KidFor(n, positions[p])} : p \in ids}

(* Node m is n or above it: a call that has come to n went through m.        *)
Within(n, m) ==
  /\ m.x <= n.x /\ n.x + n.size <= m.x + m.size
  /\ m.y <= n.y /\ n.y + n.size <= m.y + m.size

Init ==
  /\ positions = <<>>
  /\ divided = {}
  /\ entries = {}
  /\ calls = {}

-----------------------------------------------------------------------------
(* InsertIntoNode.                                                           *)

(* A node with children: on to one of them.                                  *)
Descend(id, n) ==
  /\ <<id, n>> \in calls
  /\ n \in divided
  /\ calls' = (calls \ {<<id, n>>}) \cup CallsBelow(n, {id})
  /\ UNCHANGED <<positions, divided, entries>>

(* Mutant: a full node takes one id more.                                    *)
OverfullLate(id, n) ==
  Cardinality(Ids(n) \cup {id}) > MaxPlayersPerNode + 1 /\ n.depth < MaxDepth

(* Mutant: a node is divided when it is full.                                *)
OverfullEarly(id, n) ==
  Cardinality(Ids(n) \cup {id}) >= MaxPlayersPerNode /\ n.depth < MaxDepth

Overfull(id, n) ==
  Cardinality(Ids(n) \cup {id}) > MaxPlayersPerNode /\ n.depth < MaxDepth

(* A leaf with room, or one that may not be divided any more.                *)
Keep(id, n) ==
  /\ <<id, n>> \in calls
  /\ n \notin divided
  /\ ~Overfull(id, n)
  /\ entries' = entries \cup {<<id, n>>}
  /\ calls' = calls \ {<<id, n>>}
  /\ UNCHANGED <<positions, divided>>

(* Mutant: the ids are inserted into the node itself again, before it has    *)
(* its children.                                                             *)
SubdivideInPlace(id, n) ==
  /\ <<id, n>> \in calls
  /\ n \notin divided
  /\ Overfull(id, n)
  /\ entries' = {e \in entries : e[2] # n}
  /\ calls' = calls \cup {<<p, n>> : p \in Ids(n)}
  /\ UNCHANGED <<positions, divided>>

(* SubdivideNode: the ids of the node are inserted into its children.        *)
Subdivide(id, n) ==
  /\ <<id, n>> \in calls
  /\ n \notin divided
  /\ Overfull(id, n)
  /\ divided' = divided \cup {n}
  /\ entries' = {e \in entries : e[2] # n}
  /\ calls' = (calls \ {<<id, n>>}) \cup CallsBelow(n, Ids(n) \cup {id})
  /\ UNCHANGED positions

-----------------------------------------------------------------------------
(* The public operations, each when the calls of the last one are done.      *)

(* RemoveFromNode: the entries it finds, through nodes that contain the      *)
(* point; it erases one of them.                                             *)
Found(id, point) ==
  {e \in entries : /\ e[1] = id
                   /\ e[2] \in Leaves
                   /\ \A m \in Nodes : Within(e[2], m) => Contains(m, point)}

RemoveFromNode(id, point) ==
  IF Found(id, point) = {}
  THEN entries' = entries
  ELSE \E e \in Found(id, point) : entries' = entries \ {e}

With(id, point) ==
  [p \in DOMAIN positions \cup {id} |-> IF p = id THEN point ELSE positions[p]]

(* Callers insert an id that the tree does not hold (see QuadTree).          *)
Insert(id, point) ==
  /\ calls = {}
  /\ id \notin DOMAIN positions
  /\ positions' = With(id, point)
  /\ calls' = {<<id, Root>>}
  /\ UNCHANGED <<divided, entries>>

Remove(id) ==
  /\ calls = {}
  /\ id \in DOMAIN positions
  /\ positions' = [p \in DOMAIN positions \ {id} |-> positions[p]]
  /\ RemoveFromNode(id, positions[id])
  /\ UNCHANGED <<divided, calls>>

(* Mutant: the old entry is looked for where the player is now.              *)
UpdateRemovesAtNew(id, point) ==
  /\ calls = {}
  /\ positions' = With(id, point)
  /\ IF id \in DOMAIN positions THEN RemoveFromNode(id, point) ELSE UNCHANGED entries
  /\ calls' = {<<id, Root>>}
  /\ UNCHANGED divided

(* Remove, which does nothing when the id is not there, and Insert.          *)
Update(id, point) ==
  /\ calls = {}
  /\ positions' = With(id, point)
  /\ IF id \in DOMAIN positions
     THEN RemoveFromNode(id, positions[id])
     ELSE UNCHANGED entries
  /\ calls' = {<<id, Root>>}
  /\ UNCHANGED divided

Clear ==
  /\ calls = {}
  /\ positions' = <<>>
  /\ divided' = {}
  /\ entries' = {}
  /\ UNCHANGED calls

Call == \E c \in calls : Descend(c[1], c[2]) \/ Keep(c[1], c[2]) \/ Subdivide(c[1], c[2])

Operation ==
  \/ \E id \in Players, point \in Points : Insert(id, point) \/ Update(id, point)
  \/ \E id \in Players : Remove(id)
  \/ Clear

Next == Call \/ Operation

Spec == Init /\ [][Next]_vars

(* QueryNode looks into the leaves all of whose nodes above, and which       *)
(* themselves, meet the circle.                                              *)
Query(center, radius) ==
  {p \in DOMAIN positions :
     /\ DistanceSquared(positions[p], center) <= Square(radius)
     /\ \E n \in Leaves : /\ <<p, n>> \in entries
                          /\ \A m \in Nodes : Within(n, m) => Intersects(m, center, radius)}

-----------------------------------------------------------------------------
(* Between two operations, a query returns the players within its radius,    *)
(* the border included, whatever nodes the operations before it have divided *)
(* (QueryNode with InsertIntoNode, RemoveFromNode).                          *)
AnswersAreExact ==
  calls = {} =>
    \A center \in Points, radius \in Radii :
      Query(center, radius) =
        {p \in DOMAIN positions : DistanceSquared(positions[p], center) <= Square(radius)}

(* Then every id that has a position is in one leaf, and no other id is in   *)
(* any node, where QueryNode would skip it without a trace (Remove, Update). *)
EachIdOnce ==
  calls = {} =>
    /\ \A p \in DOMAIN positions : \E e \in entries : e[1] = p
    /\ \A e \in entries : e[1] \in DOMAIN positions /\ e[2] \in Leaves
    /\ \A e, f \in entries : e[1] = f[1] => e = f

(* At no step of an insertion is a leaf over its limit, except at the        *)
(* greatest depth, below which nothing is divided (InsertIntoNode).          *)
LeavesWithinLimit ==
  /\ \A n \in Leaves : Cardinality(Ids(n)) <= MaxPlayersPerNode \/ n.depth = MaxDepth
  /\ \A n \in divided : n.depth < MaxDepth /\ Ids(n) = {}

(* A node is divided only while more players than the limit are in its       *)
(* square: what Remove and Update have left behind never divides one, and    *)
(* one at the greatest depth stays whole (InsertIntoNode).                   *)
DividedOnlyWhenFull ==
  [][\A n \in divided' \ divided :
       /\ n.depth < MaxDepth
       /\ Cardinality({p \in DOMAIN positions : Contains(n, positions[p])})
            > MaxPlayersPerNode]_vars

(* A step of an insertion finishes the call it makes, and every id it moves  *)
(* goes from a node to a child that contains it: this is why an insertion    *)
(* has an end (InsertIntoNode, SubdivideNode).                               *)
CallsGoDown ==
  [][calls # {} =>
       /\ calls \ calls' # {}
       /\ UNCHANGED positions
       /\ \A c \in calls' \ calls :
            \E e \in entries \cup calls :
              /\ e[1] = c[1]
              /\ c[2].depth = e[2].depth + 1
              /\ Within(c[2], e[2])]_vars

(* Every insertion comes to its end, however many players there are at one   *)
(* point: the depth bounds the divisions (InsertIntoNode).                   *)
InsertionsEnd == []<>(calls = {})

-----------------------------------------------------------------------------
(* The inductive invariant behind these properties.                          *)

(* The ids in the nodes and the ids on their way.                            *)
Located == entries \cup calls

(* Each id with a position is on its way or in a leaf, at one node, whose    *)
(* bounds contain the position.                                              *)
PlaceInv ==
  /\ \A p \in DOMAIN positions : \E e \in Located : e[1] = p
  /\ \A e \in Located : /\ e[1] \in DOMAIN positions
                        /\ e[2] \in Nodes
                        /\ Contains(e[2], positions[e[1]])
  /\ \A e, f \in Located : e[1] = f[1] => e = f
  /\ entries \cap calls = {}
  /\ \A e \in entries : e[2] \notin divided

(* The size of a node is that of its depth.                                  *)
ShapeInv ==
  /\ \A n \in divided : n \in Nodes /\ n.depth < MaxDepth
  /\ \A n \in Nodes : n.size = Size[n.depth]
=============================================================================
