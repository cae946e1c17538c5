--------------------------- MODULE MCQuadDescent ---------------------------
(***************************************************************************)
(* An instance of QuadDescent for TLC, in step with QuadTree, which has    *)
(* the recursion of the code: every operation is made on both.             *)
(***************************************************************************)
EXTENDS QuadDescent

VARIABLE root   \* the tree of QuadTree

Func == INSTANCE Functions
Tree == INSTANCE QuadTree WITH Width <- Size[0]

\* A map of width 8 that can be divided twice.
Halves == <<8, 4, 2>>
EightFourTwo == [d \in 0..2 |-> Halves[d + 1]]

\* Points on both sides of the lines that divide it, two of them in one of the
\* smallest squares.
BorderPoints == {<<0, 0>>, <<2, 2>>, <<3, 3>>, <<3, 4>>, <<4, 3>>, <<7, 7>>}

BothInit == Init /\ Tree!Init

BothOperate ==
  \/ \E id \in Players, point \in Points :
       \/ Insert(id, point) /\ Tree!Insert(id, point)
       \/ Update(id, point) /\ Tree!Update(id, point)
  \/ \E id \in Players : Remove(id) /\ Tree!Remove(id)
  \/ Clear /\ Tree!Clear

BothNext == BothOperate \/ (Call /\ UNCHANGED root)

(* The thread that runs an operation goes on with its calls.                 *)
BothSpec ==
  BothInit /\ [][BothNext]_<<vars, root>> /\ WF_<<vars, root>>(Call /\ UNCHANGED root)

(* When the calls of an operation are done, the nodes, and the ids in each,  *)
(* are those of the tree the recursive functions build, where an id is in a  *)
(* node once, and so are the answers (InsertIntoNode, RemoveFromNode,        *)
(* SubdivideNode, QueryNode).                                                *)
SameTree ==
  calls = {} =>
    LET below == Tree!NodesBelow(root, 0)
    IN /\ {<<n, Ids(n)>> : n \in Nodes}
            = {<<[x |-> e[1].bounds.x, y |-> e[1].bounds.y, size |-> e[1].bounds.size,
                  depth |-> e[2]], Tree!Seqs!ToSet(e[1].playerIds)>> : e \in below}
       /\ \A e \in below : Func!IsInjective(e[1].playerIds)
       /\ \A center \in Points, radius \in Radii :
            Tree!Seqs!ToSet(Tree!Query(center, radius)) = Query(center, radius)
=============================================================================
