------------------------------ MODULE QuadTree ------------------------------
(***************************************************************************)
(* The spatial index, Game/Spatial/QuadTree, with its recursive functions. *)
(*                                                                         *)
(* A node is a record of its bounds, its playerIds and its children, which *)
(* are <<>> for a leaf and <<nw, ne, sw, se>> otherwise.  Coordinates are  *)
(* integers, and Width is a multiple of 2^MaxDepth, so that halving the    *)
(* bounds is exact, as it is for floats and the 200 units of the map.      *)
(***************************************************************************)
EXTENDS Bounds, Sequences, FiniteSets

Seqs == INSTANCE SequencesExt

CONSTANTS
  Width,               \* width and height of the root's bounds
  MaxPlayersPerNode,   \* MAX_PLAYERS_PER_NODE
  MaxDepth             \* MAX_DEPTH

VARIABLES
  root,        \* m_root
  positions    \* m_playerPositions

-----------------------------------------------------------------------------
(* Nodes.                                                                   *)

CreateNode(x, y, size) ==
  [bounds |-> [x |-> x, y |-> y, size |-> size], playerIds |-> <<>>, kids |-> <<>>]

IsLeaf(node) == node.kids = <<>>

(* Mutant: the ids are kept in the node that was divided.                    *)
SubdivideKeepsIds(node) ==
  LET b == node.bounds
      half == b.size \div 2
  IN [node EXCEPT !.kids = <<CreateNode(b.x, b.y, half),
                             CreateNode(b.x + half, b.y, half),
                             CreateNode(b.x, b.y + half, half),
                             CreateNode(b.x + half, b.y + half, half)>>]

(* SubdivideNode, and playerIds.clear() after it.                            *)
SubdivideNode(node) ==
  LET b == node.bounds
      half == b.size \div 2
  IN [node EXCEPT !.playerIds = <<>>,
                  !.kids = <<CreateNode(b.x, b.y, half),
                             CreateNode(b.x + half, b.y, half),
                             CreateNode(b.x, b.y + half, half),
                             CreateNode(b.x + half, b.y + half, half)>>]

RECURSIVE InsertIntoNode(_, _, _, _)

(* Into the first child whose bounds contain the point, if there is one.     *)
InsertIntoKids(node, id, at, depth) ==
  LET k == Seqs!SelectInSeq(node.kids, LAMBDA kid : Contains(kid.bounds, at[id]))
  IN IF k = 0 THEN node
     ELSE [node EXCEPT !.kids[k] = InsertIntoNode(@, id, at, depth + 1)]

(* `at` is m_playerPositions, in which Insert has stored the new position.   *)
(* Every id in a node is a key of it, as EachIdOnce of QuadDescent says with   *)
(* SameTree; operator[] would add a missing one.                             *)
InsertIntoNode(node, id, at, depth) ==
  LET ids == Append(node.playerIds, id)
  IN IF ~IsLeaf(node)
     THEN InsertIntoKids(node, id, at, depth)
     ELSE IF Len(ids) > MaxPlayersPerNode /\ depth < MaxDepth
     THEN Seqs!FoldLeft(LAMBDA n, pid : InsertIntoKids(n, pid, at, depth),
                        SubdivideNode(node), ids)
     ELSE [node EXCEPT !.playerIds = ids]

RECURSIVE RemoveFromNode(_, _, _)

(* The || of the four calls stops at the first child that had the id.        *)
RemoveFromNode(node, id, point) ==
  IF ~Contains(node.bounds, point) THEN node
  ELSE IF IsLeaf(node) THEN [node EXCEPT !.playerIds = Seqs!RemoveFirst(@, id)]
  ELSE LET k == Seqs!SelectInSeq(node.kids,
                                 LAMBDA kid : RemoveFromNode(kid, id, point) # kid)
       IN IF k = 0 THEN node
          ELSE [node EXCEPT !.kids[k] = RemoveFromNode(@, id, point)]

RECURSIVE QueryNode(_, _, _)

QueryNode(node, center, radius) ==
  IF ~Intersects(node.bounds, center, radius) THEN <<>>
  ELSE IF IsLeaf(node)
  THEN SelectSeq(node.playerIds,
                 LAMBDA id : /\ id \in DOMAIN positions
                             /\ DistanceSquared(positions[id], center) <= Square(radius))
  ELSE Seqs!FlattenSeq([k \in DOMAIN node.kids |-> QueryNode(node.kids[k], center, radius)])

Query(center, radius) == QueryNode(root, center, radius)

RECURSIVE NodesBelow(_, _)

(* The nodes at and below a node of the given depth, with their depths.      *)
NodesBelow(node, depth) ==
  {<<node, depth>>} \cup
  UNION {NodesBelow(node.kids[k], depth + 1) : k \in DOMAIN node.kids}

-----------------------------------------------------------------------------
(* The public operations.                                                   *)

Init ==
  /\ root = CreateNode(0, 0, Width)
  /\ positions = <<>>

Without(id) == [p \in DOMAIN positions \ {id} |-> positions[p]]
With(id, point) ==
  [p \in DOMAIN positions \cup {id} |-> IF p = id THEN point ELSE positions[p]]

(* Callers insert an id that the tree does not hold: HandleEnterZone only     *)
(* inserts players that are not active, and TreeHoldsActive of                *)
(* PlayerLifecycle says that the tree holds no others.                        *)
Insert(id, point) ==
  /\ id \notin DOMAIN positions
  /\ positions' = With(id, point)
  /\ root' = InsertIntoNode(root, id, With(id, point), 0)

Removed(id) ==
  IF id \in DOMAIN positions THEN RemoveFromNode(root, id, positions[id]) ELSE root

Remove(id) ==
  /\ positions' = Without(id)
  /\ root' = Removed(id)

Update(id, point) ==
  /\ positions' = With(id, point)
  /\ root' = InsertIntoNode(Removed(id), id, With(id, point), 0)

Clear ==
  /\ positions' = <<>>
  /\ root' = [root EXCEPT !.playerIds = <<>>, !.kids = <<>>]
=============================================================================
