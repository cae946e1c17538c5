------------------------- MODULE QuadDescentProofs -------------------------
(***************************************************************************)
(* Proofs about QuadDescent, for any number of players, any depth, any     *)
(* limit per node and any points of the map: type correctness, exact       *)
(* answers, one entry for each id, and no leaf over its limit.             *)
(***************************************************************************)
EXTENDS QuadDescent, FiniteSetTheorems, TLAPS

-----------------------------------------------------------------------------
(* Squares and circles.                                                      *)

LEMMA ProductMonotone ==
  ASSUME NEW a \in Nat, NEW b \in Nat, a <= b
  PROVE  a * a <= b * b
<1>1. a * a <= a * b
  OBVIOUS
<1>2. a * b <= b * b
  OBVIOUS
<1> DEFINE aa == a * a
           ab == a * b
           bb == b * b
<1>3. aa \in Int /\ ab \in Int /\ bb \in Int
  OBVIOUS
<1>4. aa <= ab /\ ab <= bb
  BY <1>1, <1>2
<1> HIDE DEF aa, ab, bb
<1>5. aa <= bb
  BY <1>3, <1>4
<1> QED
  BY <1>5 DEF aa, bb

(* The square of the shorter way is the smaller one.                         *)
LEMMA SquareMonotone ==
  ASSUME NEW a \in Int, NEW b \in Int,
         \/ 0 <= a /\ a <= b
         \/ a <= 0 /\ b <= a
  PROVE  Square(a) <= Square(b) /\ Square(a) \in Int /\ Square(b) \in Int
<1>1. CASE 0 <= a /\ a <= b
  <2>1. a \in Nat /\ b \in Nat /\ a <= b
    BY <1>1
  <2>2. a * a <= b * b
    BY <2>1, ProductMonotone
  <2> QED
    BY <2>2 DEF Square
<1>2. CASE a <= 0 /\ b <= a
  <2>1. -a \in Nat /\ -b \in Nat /\ -a <= -b
    BY <1>2
  <2>2. (-a) * (-a) <= (-b) * (-b)
    BY <2>1, ProductMonotone
  <2>3. (-a) * (-a) = a * a /\ (-b) * (-b) = b * b
    OBVIOUS
  <2> QED
    BY <2>2, <2>3 DEF Square
<1> QED
  BY <1>1, <1>2

(* On one axis, the nearest value of an interval is no farther from c than   *)
(* any value p in it.                                                        *)
LEMMA ClampNearest ==
  ASSUME NEW c \in Int, NEW low \in Int, NEW high \in Int, NEW p \in Int,
         low <= p, p < high
  PROVE  /\ Clamp(c, low, high) \in Int
         /\ Square(c - Clamp(c, low, high)) <= Square(p - c)
         /\ Square(c - Clamp(c, low, high)) \in Int /\ Square(p - c) \in Int
<1> DEFINE q == Clamp(c, low, high)
<1>1. q \in Int /\ (q = c \/ (c < q /\ q <= p) \/ (q < c /\ p < q))
  BY DEF Clamp
<1> HIDE DEF q
<1>2. Square(p - c) = Square(c - p)
  <2>1. p - c = -(c - p) /\ c - p \in Int
    OBVIOUS
  <2> DEFINE u == c - p
  <2>2. u \in Int
    OBVIOUS
  <2> HIDE DEF u
  <2>3. (-u) * (-u) = u * u
    BY <2>2
  <2> QED
    BY <2>1, <2>3 DEF Square, u
<1>3. c - q \in Int /\ c - p \in Int
  BY <1>1
<1>4. \/ 0 <= c - q /\ c - q <= c - p
      \/ c - q <= 0 /\ c - p <= c - q
  BY <1>1
<1>5. Square(c - q) <= Square(c - p) /\ Square(c - q) \in Int /\ Square(c - p) \in Int
  BY <1>3, <1>4, SquareMonotone
<1> QED
  BY <1>1, <1>2, <1>5 DEF q

(* The node of a point in the circle meets the circle: the search does not   *)
(* leave out a node it needs.                                                *)
LEMMA PruningIsSafe ==
  ASSUME NEW b, b.x \in Int, b.y \in Int, b.size \in Int,
         NEW point \in Int \X Int, NEW center \in Int \X Int, NEW radius \in Int,
         Contains(b, point),
         DistanceSquared(point, center) <= Square(radius)
  PROVE  Intersects(b, center, radius)
<1>1. /\ point[1] \in Int /\ point[2] \in Int
      /\ center[1] \in Int /\ center[2] \in Int
      /\ b.x + b.size \in Int /\ b.y + b.size \in Int
  OBVIOUS
<1> DEFINE cx == Clamp(center[1], b.x, b.x + b.size)
           cy == Clamp(center[2], b.y, b.y + b.size)
<1>2. /\ Square(center[1] - cx) <= Square(point[1] - center[1])
      /\ Square(center[1] - cx) \in Int /\ Square(point[1] - center[1]) \in Int
  BY <1>1, ClampNearest DEF Contains
<1>3. /\ Square(center[2] - cy) <= Square(point[2] - center[2])
      /\ Square(center[2] - cy) \in Int /\ Square(point[2] - center[2]) \in Int
  BY <1>1, ClampNearest DEF Contains
<1>4. Closest(b, center)[1] = cx /\ Closest(b, center)[2] = cy
  BY DEF Closest
<1> HIDE DEF cx, cy
<1>5. DistanceSquared(center, Closest(b, center)) =
        Square(center[1] - cx) + Square(center[2] - cy)
  BY <1>4 DEF DistanceSquared
<1>6. Square(radius) \in Int
  BY DEF Square
<1> QED
  BY <1>2, <1>3, <1>5, <1>6 DEF DistanceSquared, Intersects

-----------------------------------------------------------------------------
(* Nodes and their children.                                                 *)

LEMMA Sizes ==
  /\ MaxDepth \in Nat
  /\ \A d \in 0..MaxDepth : Size[d] \in Nat
  /\ \A d \in 0..(MaxDepth - 1) : Size[d] = 2 * Size[d + 1]
BY DescentAssumption

LEMMA PointsAreInts == Points \subseteq Int \X Int
BY DescentAssumption

LEMMA RootShape ==
  /\ Root \in Cell
  /\ Root.size = Size[Root.depth]
  /\ Root.depth = 0
  /\ \A point \in Points : Contains(Root, point)
<1>1. Size[0] \in Nat /\ 0 \in 0..MaxDepth
  BY Sizes
<1>2. Root \in Cell /\ Root.size = Size[Root.depth] /\ Root.depth = 0
  BY <1>1 DEF Root, Cell
<1>3. ASSUME NEW point \in Points
      PROVE  Contains(Root, point)
  <2>1. point[1] \in 0..(Size[0] - 1) /\ point[2] \in 0..(Size[0] - 1)
    BY DescentAssumption
  <2>2. Root.x = 0 /\ Root.y = 0 /\ Root.size = Size[0]
    BY DEF Root
  <2> QED
    BY <1>1, <2>1, <2>2 DEF Contains
<1> QED
  BY <1>2, <1>3

LEMMA KidShape ==
  ASSUME NEW n \in Cell, n.size = Size[n.depth], n.depth < MaxDepth, NEW k \in 1..4
  PROVE  /\ Kid(n, k) \in Cell
         /\ Kid(n, k).size = Size[Kid(n, k).depth]
         /\ Kid(n, k).depth = n.depth + 1
<1>1. /\ n.x \in Nat /\ n.y \in Nat /\ n.depth \in 0..MaxDepth
      /\ n.depth \in 0..(MaxDepth - 1) /\ n.depth + 1 \in 0..MaxDepth
  BY Sizes DEF Cell
<1>2. n.size = 2 * Size[n.depth + 1] /\ Size[n.depth + 1] \in Nat
  BY <1>1, Sizes
<1>3. n.size \div 2 = Size[n.depth + 1]
  BY <1>2
<1>4. /\ Kid(n, k).x \in Nat /\ Kid(n, k).y \in Nat
      /\ Kid(n, k).size = Size[n.depth + 1] /\ Kid(n, k).depth = n.depth + 1
  BY <1>1, <1>2, <1>3 DEF Kid
<1>5. Kid(n, k) = [x |-> Kid(n, k).x, y |-> Kid(n, k).y,
                   size |-> Kid(n, k).size, depth |-> Kid(n, k).depth]
  BY DEF Kid
<1>6. Kid(n, k) \in Cell
  BY <1>1, <1>2, <1>4, <1>5 DEF Cell
<1> QED
  BY <1>4, <1>6

(* A point of a node is in one of the four quarters.                         *)
LEMMA KidsCover ==
  ASSUME NEW n \in Cell, n.size = Size[n.depth], n.depth < MaxDepth,
         NEW point \in Int \X Int, Contains(n, point)
  PROVE  \E k \in 1..4 : Contains(Kid(n, k), point)
<1>1. /\ n.x \in Nat /\ n.y \in Nat /\ n.depth \in 0..(MaxDepth - 1)
      /\ n.depth + 1 \in 0..MaxDepth
  BY Sizes DEF Cell
<1>2. point[1] \in Int /\ point[2] \in Int
  OBVIOUS
<1> DEFINE h == n.size \div 2
<1>3. n.size = h + h /\ h \in Nat
  <2>1. n.size = 2 * Size[n.depth + 1] /\ Size[n.depth + 1] \in Nat
    BY <1>1, Sizes
  <2> QED
    BY <2>1
<1>4. \A k \in 1..4 : /\ Kid(n, k).x = IF k \in {2, 4} THEN n.x + h ELSE n.x
                      /\ Kid(n, k).y = IF k \in {3, 4} THEN n.y + h ELSE n.y
                      /\ Kid(n, k).size = h
  BY DEF Kid
<1> HIDE DEF h
<1>5. /\ n.x <= point[1] /\ point[1] < n.x + h + h
      /\ n.y <= point[2] /\ point[2] < n.y + h + h
  BY <1>1, <1>2, <1>3 DEF Contains
<1>6. CASE point[1] < n.x + h /\ point[2] < n.y + h
  BY <1>1, <1>2, <1>3, <1>4, <1>5, <1>6 DEF Contains
<1>7. CASE point[1] >= n.x + h /\ point[2] < n.y + h
  <2>1. Contains(Kid(n, 2), point)
    BY <1>1, <1>2, <1>3, <1>4, <1>5, <1>7 DEF Contains
  <2> QED
    BY <2>1
<1>8. CASE point[1] < n.x + h /\ point[2] >= n.y + h
  <2>1. Contains(Kid(n, 3), point)
    BY <1>1, <1>2, <1>3, <1>4, <1>5, <1>8 DEF Contains
  <2> QED
    BY <2>1
<1>9. CASE point[1] >= n.x + h /\ point[2] >= n.y + h
  <2>1. Contains(Kid(n, 4), point)
    BY <1>1, <1>2, <1>3, <1>4, <1>5, <1>9 DEF Contains
  <2> QED
    BY <2>1
<1> QED
  BY <1>1, <1>2, <1>3, <1>6, <1>7, <1>8, <1>9

(* There is one child for it, which contains it.                             *)
LEMMA OneKid ==
  ASSUME NEW n \in Cell, n.size = Size[n.depth], n.depth < MaxDepth,
         NEW point \in Int \X Int, Contains(n, point)
  PROVE  \E k \in 1..4 : KidFor(n, point) = {Kid(n, k)} /\ Contains(Kid(n, k), point)
<1> DEFINE In(i) == Contains(Kid(n, i), point)
<1>1. KidFor(n, point) =
        {Kid(n, k) : k \in {i \in 1..4 : In(i) /\ \A h \in 1..(i - 1) : ~In(h)}}
  BY DEF KidFor
<1>2. In(1) \/ In(2) \/ In(3) \/ In(4)
  BY KidsCover
<1> HIDE DEF In
<1>3. \E k \in 1..4 : {i \in 1..4 : In(i) /\ \A h \in 1..(i - 1) : ~In(h)} = {k} /\ In(k)
  <2>1. CASE In(1)
    BY <2>1
  <2>2. CASE ~In(1) /\ In(2)
    BY <2>2
  <2>3. CASE ~In(1) /\ ~In(2) /\ In(3)
    BY <2>3
  <2>4. CASE ~In(1) /\ ~In(2) /\ ~In(3) /\ In(4)
    BY <2>4
  <2> QED
    BY <1>2, <2>1, <2>2, <2>3, <2>4
<1> QED
  BY <1>1, <1>3 DEF In

-----------------------------------------------------------------------------
(* Types and shapes.                                                         *)

LEMMA Pairs ==
  ASSUME TypeOK
  PROVE  \A e \in Located : e = <<e[1], e[2]>> /\ e[1] \in Players /\ e[2] \in Cell
BY DEF TypeOK, Located

(* The nodes of the tree are cells of the right size.                        *)
LEMMA NodesShape ==
  ASSUME TypeOK, ShapeInv, NEW n \in Nodes
  PROVE  n \in Cell /\ n.size = Size[n.depth] /\ n.depth \in 0..MaxDepth
<1>1. n.size = Size[n.depth]
  BY DEF ShapeInv
<1>2. n \in Cell
  <2>1. CASE n = Root
    BY <2>1, RootShape
  <2>2. CASE \E m \in divided, k \in 1..4 : n = Kid(m, k)
    <3>1. PICK m \in divided, k \in 1..4 : n = Kid(m, k)
      BY <2>2
    <3>2. m \in Cell /\ m.size = Size[m.depth] /\ m.depth < MaxDepth
      BY DEF TypeOK, ShapeInv
    <3> QED
      BY <3>1, <3>2, KidShape
  <2> QED
    BY <2>1, <2>2 DEF Nodes
<1> QED
  BY <1>1, <1>2 DEF Cell

LEMMA PositionIsPoint ==
  ASSUME TypeOK, NEW p \in DOMAIN positions
  PROVE  positions[p] \in Points /\ positions[p] \in Int \X Int
BY PointsAreInts DEF TypeOK

(* The calls made for the ids of a node: one for each, with a child that     *)
(* contains its position.                                                    *)
LEMMA CallsBelowAre ==
  ASSUME TypeOK, NEW n \in Cell, n.size = Size[n.depth], n.depth < MaxDepth,
         NEW ids \in SUBSET DOMAIN positions,
         \A p \in ids : Contains(n, positions[p])
  PROVE  /\ \A e \in CallsBelow(n, ids) :
              /\ e[1] \in ids /\ e = <<e[1], e[2]>>
              /\ \E k \in 1..4 : e[2] = Kid(n, k)
              /\ Contains(e[2], positions[e[1]])
         /\ \A p \in ids : \E e \in CallsBelow(n, ids) : e[1] = p
         /\ \A e, f \in CallsBelow(n, ids) : e[1] = f[1] => e = f
<1>1. \A p \in ids : \E k \in 1..4 :
        KidFor(n, positions[p]) = {Kid(n, k)} /\ Contains(Kid(n, k), positions[p])
  BY OneKid, PositionIsPoint
<1>2. ASSUME NEW e
      PROVE  e \in CallsBelow(n, ids) <=>
               \E p \in ids : \E kid \in KidFor(n, positions[p]) : e = <<p, kid>>
  BY DEF CallsBelow
<1>3. ASSUME NEW e \in CallsBelow(n, ids)
      PROVE  /\ e[1] \in ids /\ e = <<e[1], e[2]>>
             /\ \E k \in 1..4 : e[2] = Kid(n, k)
             /\ Contains(e[2], positions[e[1]])
             /\ KidFor(n, positions[e[1]]) = {e[2]}
  <2>1. PICK p \in ids : \E kid \in KidFor(n, positions[p]) : e = <<p, kid>>
    BY <1>2, <1>3
  <2>2. PICK k \in 1..4 :
          KidFor(n, positions[p]) = {Kid(n, k)} /\ Contains(Kid(n, k), positions[p])
    BY <1>1
  <2>3. e = <<p, Kid(n, k)>>
    BY <2>1, <2>2
  <2>4. e[1] = p /\ e[2] = Kid(n, k)
    BY <2>3
  <2> QED
    BY <2>2, <2>3, <2>4
<1>4. ASSUME NEW p \in ids
      PROVE  \E e \in CallsBelow(n, ids) : e[1] = p
  <2>1. PICK k \in 1..4 : KidFor(n, positions[p]) = {Kid(n, k)}
    BY <1>1
  <2>2. <<p, Kid(n, k)>> \in CallsBelow(n, ids) /\ <<p, Kid(n, k)>>[1] = p
    BY <1>2, <2>1
  <2> QED
    BY <2>2
<1>5. ASSUME NEW e \in CallsBelow(n, ids), NEW f \in CallsBelow(n, ids), e[1] = f[1]
      PROVE  e = f
  <2>1. {e[2]} = {f[2]}
    BY <1>3, <1>5
  <2> QED
    BY <1>3, <1>5, <2>1
<1> QED
  BY <1>3, <1>4, <1>5

(* A call in progress is for an id of the index, at a node that contains it. *)
LEMMA CallIsPlaced ==
  ASSUME TypeOK, ShapeInv, PlaceInv, NEW id, NEW n, <<id, n>> \in Located
  PROVE  /\ id \in Players /\ id \in DOMAIN positions
         /\ n \in Nodes /\ n \in Cell /\ n.size = Size[n.depth]
         /\ n.depth \in 0..MaxDepth
         /\ Contains(n, positions[id])
<1> DEFINE e == <<id, n>>
<1>1. e \in Located /\ e[1] = id /\ e[2] = n
  OBVIOUS
<1>2. e[1] \in Players
  BY <1>1, Pairs
<1> HIDE DEF e
<1>3. id \in DOMAIN positions /\ n \in Nodes /\ Contains(n, positions[id])
  BY <1>1 DEF PlaceInv
<1> QED
  BY <1>1, <1>2, <1>3, NodesShape

-----------------------------------------------------------------------------
(* The calls.                                                                *)

(* Ids at a divided node n go on to its children; nothing else moves.        *)
LEMMA Redirect ==
  ASSUME TypeOK, ShapeInv, PlaceInv, NEW n \in Cell, NEW ids \in SUBSET Players,
         ids # {}, \A p \in ids : <<p, n>> \in Located,
         n.depth < MaxDepth, n \in divided', divided \subseteq divided',
         positions' = positions,
         entries' \subseteq entries,
         \A e \in entries : e \in entries' <=> e[1] \notin ids,
         \A e : e \in calls' <=> (e \in calls /\ e[1] \notin ids) \/ e \in CallsBelow(n, ids),
         \A e \in entries' : e[2] \notin divided'
  PROVE  PlaceInv'
<1>1. /\ ids \subseteq DOMAIN positions /\ n.size = Size[n.depth]
      /\ \A p \in ids : Contains(n, positions[p])
  BY CallIsPlaced
<1>2. /\ \A e \in CallsBelow(n, ids) :
           /\ e[1] \in ids /\ e = <<e[1], e[2]>>
           /\ \E k \in 1..4 : e[2] = Kid(n, k)
           /\ Contains(e[2], positions[e[1]])
      /\ \A p \in ids : \E e \in CallsBelow(n, ids) : e[1] = p
      /\ \A e, f \in CallsBelow(n, ids) : e[1] = f[1] => e = f
  BY <1>1, CallsBelowAre
<1>3. \A e : e \in Located' <=> (e \in Located /\ e[1] \notin ids) \/ e \in CallsBelow(n, ids)
  BY DEF Located
<1>4. Nodes \subseteq Nodes' /\ \A k \in 1..4 : Kid(n, k) \in Nodes'
  BY DEF Nodes
<1>5. \A p \in DOMAIN positions' : \E e \in Located' : e[1] = p
  BY <1>2, <1>3 DEF PlaceInv
<1>6. \A e \in Located' : /\ e[1] \in DOMAIN positions'
                          /\ e[2] \in Nodes'
                          /\ Contains(e[2], positions'[e[1]])
  BY <1>1, <1>2, <1>3, <1>4 DEF PlaceInv
<1>7. \A e, f \in Located' : e[1] = f[1] => e = f
  BY <1>2, <1>3 DEF PlaceInv
<1>8. entries' \cap calls' = {}
  BY <1>2 DEF PlaceInv
<1> QED
  BY <1>5, <1>6, <1>7, <1>8 DEF PlaceInv

LEMMA DescendPlaced ==
  ASSUME TypeOK, ShapeInv, PlaceInv, NEW id, NEW n, Descend(id, n)
  PROVE  PlaceInv'
<1>1. /\ <<id, n>> \in calls /\ n \in divided
      /\ calls' = (calls \ {<<id, n>>}) \cup CallsBelow(n, {id})
      /\ UNCHANGED <<positions, divided, entries>>
  BY DEF Descend
<1>2. <<id, n>> \in Located /\ <<id, n>> \notin entries
  BY <1>1 DEF Located, PlaceInv
<1>3. id \in Players /\ n \in Cell
  BY <1>2, CallIsPlaced
<1>4. n.depth < MaxDepth
  BY <1>1 DEF ShapeInv
<1>5. \A e \in Located : e[1] = id <=> e = <<id, n>>
  <2>1. <<id, n>>[1] = id
    OBVIOUS
  <2> QED
    BY <1>2, <2>1 DEF PlaceInv
<1>6. \A e \in entries : e[1] # id
  BY <1>2, <1>5 DEF Located
<1>7. \A e : e \in calls' <=> (e \in calls /\ e[1] \notin {id}) \/ e \in CallsBelow(n, {id})
  BY <1>1, <1>5 DEF Located
<1>8. \A e \in entries' : e[2] \notin divided'
  BY <1>1 DEF PlaceInv
<1> QED
  BY <1>1, <1>2, <1>3, <1>4, <1>6, <1>7, <1>8, Redirect

LEMMA KeepPlaced ==
  ASSUME TypeOK, ShapeInv, PlaceInv, NEW id, NEW n, Keep(id, n)
  PROVE  PlaceInv'
<1>1. /\ <<id, n>> \in calls /\ n \notin divided
      /\ entries' = entries \cup {<<id, n>>}
      /\ calls' = calls \ {<<id, n>>}
      /\ UNCHANGED <<positions, divided>>
  BY DEF Keep
<1>2. Located' = Located /\ Nodes' = Nodes
  BY <1>1 DEF Located, Nodes
<1>3. entries' \cap calls' = {}
  BY <1>1 DEF PlaceInv
<1>4. \A e \in entries' : e[2] \notin divided'
  BY <1>1 DEF PlaceInv
<1> QED
  BY <1>1, <1>2, <1>3, <1>4 DEF PlaceInv

LEMMA SubdividePlaced ==
  ASSUME TypeOK, ShapeInv, PlaceInv, NEW id, NEW n, Subdivide(id, n)
  PROVE  PlaceInv'
<1> DEFINE ids == Ids(n) \cup {id}
<1>1. /\ <<id, n>> \in calls /\ n \notin divided
      /\ divided' = divided \cup {n}
      /\ entries' = {e \in entries : e[2] # n}
      /\ calls' = (calls \ {<<id, n>>}) \cup CallsBelow(n, ids)
      /\ positions' = positions
  BY DEF Subdivide
<1>2. <<id, n>> \in Located /\ <<id, n>> \notin entries
  BY <1>1 DEF Located, PlaceInv
<1>3. id \in Players /\ n \in Cell
  BY <1>2, CallIsPlaced
<1>4. n.depth < MaxDepth
  BY DEF Subdivide, Overfull
<1>5. ids \in SUBSET Players /\ ids # {} /\ \A p \in ids : <<p, n>> \in Located
  BY <1>2, <1>3 DEF Ids, Located
<1>6. ASSUME NEW e \in Located, e[1] \in ids
      PROVE  e = <<e[1], n>>
  <2>1. <<e[1], n>> \in Located /\ <<e[1], n>>[1] = e[1]
    BY <1>5, <1>6
  <2> QED
    BY <2>1 DEF PlaceInv
<1>7. \A e \in entries : e \in entries' <=> e[1] \notin ids
  <2>1. ASSUME NEW e \in entries, e[1] \in ids
        PROVE  e[2] = n
    BY <1>6, <2>1 DEF Located
  <2>2. ASSUME NEW e \in entries, e[2] = n
        PROVE  e[1] \in ids
    <3>1. e = <<e[1], n>> /\ e[1] \in Players
      BY <2>2, Pairs DEF Located
    <3> QED
      BY <3>1 DEF Ids
  <2> QED
    BY <1>1, <2>1, <2>2
<1>8. \A e \in calls : e[1] \in ids <=> e = <<id, n>>
  <2>1. ASSUME NEW e \in calls, e[1] \in ids
        PROVE  e = <<id, n>>
    <3>1. e = <<e[1], n>>
      BY <1>6, <2>1 DEF Located
    <3>2. e \notin entries
      BY <2>1 DEF PlaceInv
    <3>3. e[1] \notin Ids(n)
      BY <3>1, <3>2 DEF Ids
    <3> QED
      BY <2>1, <3>1, <3>3
  <2> QED
    BY <2>1
<1>9. \A e : e \in calls' <=> (e \in calls /\ e[1] \notin ids) \/ e \in CallsBelow(n, ids)
  BY <1>1, <1>8
<1>10. \A e \in entries' : e[2] \notin divided'
  BY <1>1 DEF PlaceInv
<1> HIDE DEF ids
<1>11. entries' \subseteq entries /\ n \in divided' /\ divided \subseteq divided'
  BY <1>1
<1> QED
  BY <1>1, <1>3, <1>4, <1>5, <1>7, <1>9, <1>10, <1>11, Redirect

-----------------------------------------------------------------------------
(* The operations.                                                           *)

(* The nodes on the way to a node contain what it contains.                  *)
LEMMA AboveContains ==
  ASSUME NEW n \in Cell, NEW m \in Cell, Within(n, m),
         NEW point \in Int \X Int, Contains(n, point)
  PROVE  Contains(m, point)
<1>1. /\ n.x \in Nat /\ n.y \in Nat /\ n.size \in Nat
      /\ m.x \in Nat /\ m.y \in Nat /\ m.size \in Nat
  BY DEF Cell
<1>2. point[1] \in Int /\ point[2] \in Int
  OBVIOUS
<1> QED
  BY <1>1, <1>2 DEF Within, Contains

(* RemoveFromNode finds the entry of an id and leaves the others.            *)
LEMMA RemovesEntry ==
  ASSUME TypeOK, ShapeInv, PlaceInv, calls = {}, NEW id \in DOMAIN positions,
         RemoveFromNode(id, positions[id])
  PROVE  \A e : e \in entries' <=> e \in entries /\ e[1] # id
<1>1. PICK e \in entries : e[1] = id
  BY DEF PlaceInv, Located
<1>2. \A f \in entries : f[1] = id => f = e
  BY <1>1 DEF PlaceInv, Located
<1>3. e[2] \in Nodes /\ e[2] \notin divided /\ Contains(e[2], positions[id])
  BY <1>1 DEF PlaceInv, Located
<1>4. \A m \in Nodes : Within(e[2], m) => Contains(m, positions[id])
  BY <1>3, NodesShape, AboveContains, PositionIsPoint
<1>5. e \in Found(id, positions[id])
  BY <1>1, <1>3, <1>4 DEF Found, Leaves
<1>6. \A f \in Found(id, positions[id]) : f = e
  BY <1>2 DEF Found
<1>7. entries' = entries \ {e}
  BY <1>5, <1>6 DEF RemoveFromNode
<1> QED
  BY <1>1, <1>2, <1>7

(* A new call for id at the root, once id has no entry.                      *)
LEMMA StartsAtRoot ==
  ASSUME TypeOK, PlaceInv, calls = {}, NEW id \in Players, NEW point \in Points,
         positions' = With(id, point), calls' = {<<id, Root>>}, divided' = divided,
         \A e : e \in entries' <=> e \in entries /\ e[1] # id
  PROVE  PlaceInv'
<1>1. /\ DOMAIN positions' = DOMAIN positions \cup {id}
      /\ positions'[id] = point
      /\ \A p \in DOMAIN positions : p # id => positions'[p] = positions[p]
  BY DEF With
<1> DEFINE new == <<id, Root>>
<1>2. new[1] = id /\ new[2] = Root /\ calls' = {new}
  OBVIOUS
<1> HIDE DEF new
<1>3. Root \in Nodes /\ Nodes' = Nodes /\ Contains(Root, point)
  BY RootShape DEF Nodes
<1>4. \A e : e \in Located' <=> (e \in Located /\ e[1] # id) \/ e = new
  BY <1>2 DEF Located
<1>5. \A p \in DOMAIN positions' : \E e \in Located' : e[1] = p
  BY <1>1, <1>2, <1>4 DEF PlaceInv
<1>6. \A e \in Located' : /\ e[1] \in DOMAIN positions'
                          /\ e[2] \in Nodes'
                          /\ Contains(e[2], positions'[e[1]])
  BY <1>1, <1>2, <1>3, <1>4 DEF PlaceInv
<1>7. \A e, f \in Located' : e[1] = f[1] => e = f
  BY <1>2, <1>4 DEF PlaceInv
<1>8. entries' \cap calls' = {} /\ \A e \in entries' : e[2] \notin divided'
  BY <1>2 DEF PlaceInv
<1> QED
  BY <1>5, <1>6, <1>7, <1>8 DEF PlaceInv

LEMMA InsertPlaced ==
  ASSUME TypeOK, PlaceInv, NEW id \in Players, NEW point \in Points, Insert(id, point)
  PROVE  PlaceInv'
<1>1. \A e \in entries : e[1] # id
  BY DEF Insert, PlaceInv, Located
<1> QED
  BY <1>1, StartsAtRoot DEF Insert

LEMMA UpdatePlaced ==
  ASSUME TypeOK, ShapeInv, PlaceInv, NEW id \in Players, NEW point \in Points,
         Update(id, point)
  PROVE  PlaceInv'
<1>1. \A e : e \in entries' <=> e \in entries /\ e[1] # id
  <2>1. CASE id \in DOMAIN positions
    BY <2>1, RemovesEntry DEF Update
  <2>2. CASE id \notin DOMAIN positions
    BY <2>2 DEF Update, PlaceInv, Located
  <2> QED
    BY <2>1, <2>2
<1> QED
  BY <1>1, StartsAtRoot DEF Update

LEMMA RemovePlaced ==
  ASSUME TypeOK, ShapeInv, PlaceInv, NEW id \in Players, Remove(id)
  PROVE  PlaceInv'
<1>1. /\ calls = {} /\ calls' = {} /\ divided' = divided
      /\ DOMAIN positions' = DOMAIN positions \ {id}
      /\ \A p \in DOMAIN positions \ {id} : positions'[p] = positions[p]
  BY DEF Remove
<1>2. \A e : e \in entries' <=> e \in entries /\ e[1] # id
  BY RemovesEntry DEF Remove
<1>3. \A e : e \in Located' <=> e \in Located /\ e[1] # id
  BY <1>1, <1>2 DEF Located
<1>4. Nodes' = Nodes
  BY <1>1 DEF Nodes
<1>5. \A p \in DOMAIN positions' : \E e \in Located' : e[1] = p
  BY <1>1, <1>3 DEF PlaceInv
<1>6. \A e \in Located' : /\ e[1] \in DOMAIN positions'
                          /\ e[2] \in Nodes'
                          /\ Contains(e[2], positions'[e[1]])
  BY <1>1, <1>3, <1>4 DEF PlaceInv
<1>7. \A e, f \in Located' : e[1] = f[1] => e = f
  BY <1>3 DEF PlaceInv
<1>8. entries' \cap calls' = {} /\ \A e \in entries' : e[2] \notin divided'
  BY <1>1, <1>2 DEF PlaceInv
<1> QED
  BY <1>5, <1>6, <1>7, <1>8 DEF PlaceInv

LEMMA NoPositions == DOMAIN <<>> = {} /\ <<>> \in [{} -> Points]
OBVIOUS

LEMMA ClearPlaced ==
  ASSUME Clear
  PROVE  PlaceInv'
<1>1. Located' = {} /\ entries' = {} /\ DOMAIN positions' = {}
  BY NoPositions DEF Clear, Located
<1> QED
  BY <1>1 DEF PlaceInv

LEMMA PlaceStep ==
  ASSUME TypeOK, ShapeInv, PlaceInv, [Next]_vars
  PROVE  PlaceInv'
<1>1. CASE UNCHANGED vars
  <2>1. UNCHANGED <<positions, divided, entries, calls>>
    BY <1>1 DEF vars
  <2>2. Located' = Located /\ Nodes' = Nodes
    BY <2>1 DEF Located, Nodes
  <2> QED
    BY <2>1, <2>2 DEF PlaceInv
<1>2. CASE Call
  BY <1>2, DescendPlaced, KeepPlaced, SubdividePlaced DEF Call
<1>3. CASE Operation
  BY <1>3, InsertPlaced, UpdatePlaced, RemovePlaced, ClearPlaced DEF Operation
<1> QED
  BY <1>1, <1>2, <1>3 DEF Next

-----------------------------------------------------------------------------
(* Types, sizes and limits.                                                  *)

LEMMA CallsBelowType ==
  ASSUME TypeOK, NEW n \in Cell, n.size = Size[n.depth], n.depth < MaxDepth,
         NEW ids \in SUBSET DOMAIN positions,
         \A p \in ids : Contains(n, positions[p])
  PROVE  CallsBelow(n, ids) \subseteq Players \X Cell
<1>1. ASSUME NEW e \in CallsBelow(n, ids)
      PROVE  e \in Players \X Cell
  <2>1. /\ e[1] \in ids /\ e = <<e[1], e[2]>>
        /\ \E k \in 1..4 : e[2] = Kid(n, k)
    BY CallsBelowAre
  <2>2. e[1] \in Players /\ e[2] \in Cell
    BY <2>1, KidShape DEF TypeOK
  <2> QED
    BY <2>1, <2>2
<1> QED
  BY <1>1

LEMMA CallType ==
  ASSUME TypeOK, ShapeInv, PlaceInv, Call
  PROVE  TypeOK'
<1>1. PICK c \in calls : Descend(c[1], c[2]) \/ Keep(c[1], c[2]) \/ Subdivide(c[1], c[2])
  BY DEF Call
<1> DEFINE id == c[1]
           n == c[2]
<1>2. c = <<id, n>> /\ c \in Located /\ c \in Players \X Cell
  BY DEF TypeOK, Located
<1> HIDE DEF id, n
<1>3. /\ id \in Players /\ id \in DOMAIN positions /\ n \in Cell
      /\ n.size = Size[n.depth] /\ Contains(n, positions[id])
  BY <1>2, CallIsPlaced
<1>4. CASE Descend(id, n)
  <2>1. n.depth < MaxDepth
    BY <1>4 DEF Descend, ShapeInv
  <2>2. CallsBelow(n, {id}) \subseteq Players \X Cell
    BY <1>3, <2>1, CallsBelowType
  <2> QED
    BY <1>4, <2>2 DEF Descend, TypeOK
<1>5. CASE Keep(id, n)
  BY <1>2, <1>5 DEF Keep, TypeOK
<1>6. CASE Subdivide(id, n)
  <2>1. n.depth < MaxDepth
    BY <1>6 DEF Subdivide, Overfull
  <2>2. ASSUME NEW p \in Ids(n) \cup {id}
        PROVE  p \in DOMAIN positions /\ Contains(n, positions[p])
    <3>1. <<p, n>> \in Located
      BY <1>2, <2>2 DEF Ids, Located
    <3> QED
      BY <3>1, CallIsPlaced
  <2>3. CallsBelow(n, Ids(n) \cup {id}) \subseteq Players \X Cell
    BY <1>3, <2>1, <2>2, CallsBelowType
  <2> QED
    BY <1>3, <1>6, <2>3 DEF Subdivide, TypeOK
<1> QED
  BY <1>1, <1>4, <1>5, <1>6 DEF id, n

LEMMA WithType ==
  ASSUME TypeOK, NEW id \in Players, NEW point \in Points, positions' = With(id, point)
  PROVE  DOMAIN positions' \subseteq Players /\ positions' \in [DOMAIN positions' -> Points]
<1>1. DOMAIN positions' = DOMAIN positions \cup {id}
  BY DEF With
<1>2. positions' \in [DOMAIN positions \cup {id} -> Points]
  BY DEF With, TypeOK
<1> QED
  BY <1>1, <1>2 DEF TypeOK

LEMMA OperationType ==
  ASSUME TypeOK, Operation
  PROVE  TypeOK'
<1>1. ASSUME NEW id \in Players
      PROVE  <<id, Root>> \in Players \X Cell
  BY RootShape
<1>2. ASSUME NEW id \in Players, NEW point \in Points, Insert(id, point)
      PROVE  TypeOK'
  BY <1>1, <1>2, WithType DEF Insert, TypeOK
<1>3. ASSUME NEW id \in Players, NEW point \in Points, Update(id, point)
      PROVE  TypeOK'
  <2>1. entries' \subseteq entries
    BY <1>3 DEF Update, RemoveFromNode
  <2> QED
    BY <1>1, <1>3, <2>1, WithType DEF Update, TypeOK
<1>4. ASSUME NEW id \in Players, Remove(id)
      PROVE  TypeOK'
  <2>1. entries' \subseteq entries
    BY <1>4 DEF Remove, RemoveFromNode
  <2>2. DOMAIN positions' = DOMAIN positions \ {id}
    BY <1>4 DEF Remove
  <2>3. positions' \in [DOMAIN positions \ {id} -> Points]
    BY <1>4 DEF Remove, TypeOK
  <2> QED
    BY <1>4, <2>1, <2>2, <2>3 DEF Remove, TypeOK
<1>5. CASE Clear
  BY <1>5, NoPositions DEF Clear, TypeOK
<1> QED
  BY <1>2, <1>3, <1>4, <1>5 DEF Operation

LEMMA NextType ==
  ASSUME TypeOK, ShapeInv, PlaceInv, [Next]_vars
  PROVE  TypeOK'
<1>1. CASE UNCHANGED vars
  BY <1>1 DEF vars, TypeOK
<1> QED
  BY <1>1, CallType, OperationType DEF Next

(* A step keeps the tree, divides one leaf, or starts again from the root.   *)
LEMMA TreeSteps ==
  ASSUME TypeOK, [Next]_vars
  PROVE  \/ divided' = divided
         \/ Clear
         \/ \E c \in calls : Subdivide(c[1], c[2])
<1>1. CASE Call
  BY <1>1 DEF Call, Descend, Keep
<1>2. CASE Operation
  BY <1>2 DEF Operation, Insert, Update, Remove
<1>3. CASE UNCHANGED vars
  BY <1>3 DEF vars
<1> QED
  BY <1>1, <1>2, <1>3 DEF Next

LEMMA ShapeStep ==
  ASSUME TypeOK, ShapeInv, PlaceInv, [Next]_vars
  PROVE  ShapeInv'
<1>1. CASE divided' = divided
  BY <1>1 DEF ShapeInv, Nodes
<1>2. CASE Clear
  <2>1. divided' = {} /\ Nodes' = {Root}
    BY <1>2 DEF Clear, Nodes
  <2> QED
    BY <2>1, RootShape DEF ShapeInv
<1>3. ASSUME NEW c \in calls, Subdivide(c[1], c[2])
      PROVE  ShapeInv'
  <2> DEFINE id == c[1]
             n == c[2]
  <2>1. c = <<id, n>> /\ c \in Located
    BY DEF TypeOK, Located
  <2>2. n.depth < MaxDepth /\ divided' = divided \cup {n}
    BY <1>3 DEF Subdivide, Overfull
  <2> HIDE DEF id, n
  <2>3. n \in Nodes /\ n \in Cell /\ n.size = Size[n.depth]
    BY <2>1, CallIsPlaced
  <2>4. Nodes' = Nodes \cup {Kid(n, k) : k \in 1..4}
    BY <2>2 DEF Nodes
  <2>5. \A k \in 1..4 : Kid(n, k).size = Size[Kid(n, k).depth]
    BY <2>2, <2>3, KidShape
  <2> QED
    BY <2>2, <2>3, <2>4, <2>5 DEF ShapeInv
<1> QED
  BY <1>1, <1>2, <1>3, TreeSteps

(* What a leaf may hold.                                                     *)
WithinLimit(n) == Cardinality(Ids(n)) <= MaxPlayersPerNode \/ n.depth = MaxDepth

LEMMA IdsFinite ==
  \A n : IsFiniteSet(Ids(n)) /\ Cardinality(Ids(n)) \in Nat
<1>1. ASSUME NEW n
      PROVE  IsFiniteSet(Ids(n)) /\ Cardinality(Ids(n)) \in Nat
  <2>1. Ids(n) \in SUBSET Players /\ IsFiniteSet(Players)
    BY DescentAssumption DEF Ids
  <2> QED
    BY <2>1, FS_Subset, FS_CardinalityType
<1> QED
  BY <1>1

(* A leaf that only loses ids stays within the limit.                        *)
LEMMA FewerIds ==
  ASSUME NEW n, WithinLimit(n), Ids(n)' \subseteq Ids(n)
  PROVE  WithinLimit(n)'
<1>1. IsFiniteSet(Ids(n)) /\ Cardinality(Ids(n)) \in Nat
  BY IdsFinite
<1>2. Cardinality(Ids(n)') <= Cardinality(Ids(n)) /\ Cardinality(Ids(n)') \in Nat
  BY <1>1, FS_Subset, FS_CardinalityType
<1>3. MaxPlayersPerNode \in Nat
  BY DescentAssumption
<1> QED
  BY <1>1, <1>2, <1>3 DEF WithinLimit

(* A node that is new in the tree holds nothing.                             *)
LEMMA NewNodeEmpty ==
  ASSUME PlaceInv, NEW n, n \notin Nodes
  PROVE  WithinLimit(n)
<1>1. Ids(n) = {}
  <2>1. ASSUME NEW p, <<p, n>> \in entries
        PROVE  FALSE
    <3>1. <<p, n>> \in Located /\ <<p, n>>[2] = n
      BY <2>1 DEF Located
    <3> QED
      BY <3>1 DEF PlaceInv
  <2> QED
    BY <2>1 DEF Ids
<1>2. Cardinality(Ids(n)) = 0
  BY <1>1, FS_EmptySet
<1>3. MaxPlayersPerNode \in Nat
  BY DescentAssumption
<1> QED
  BY <1>2, <1>3 DEF WithinLimit

LEMMA KeepLimit ==
  ASSUME TypeOK, PlaceInv, \A n \in Leaves : WithinLimit(n),
         NEW id \in Players, NEW m \in Cell, Keep(id, m), NEW n \in Leaves
  PROVE  WithinLimit(n)'
<1>1. entries' = entries \cup {<<id, m>>} /\ ~Overfull(id, m)
  BY DEF Keep
<1>2. CASE n = m
  <2>1. Ids(n)' = Ids(m) \cup {id}
    BY <1>1, <1>2 DEF Ids
  <2>2. IsFiniteSet(Ids(m) \cup {id})
    BY IdsFinite, FS_AddElement
  <2>3. Cardinality(Ids(m) \cup {id}) \in Nat /\ MaxPlayersPerNode \in Nat /\ MaxDepth \in Nat
    BY <2>2, FS_CardinalityType, DescentAssumption
  <2>4. m.depth \in 0..MaxDepth
    BY DEF Cell
  <2>5. Cardinality(Ids(m) \cup {id}) <= MaxPlayersPerNode \/ m.depth = MaxDepth
    BY <1>1, <2>3, <2>4 DEF Overfull
  <2> QED
    BY <1>2, <2>1, <2>5 DEF WithinLimit
<1>3. CASE n # m
  <2>1. Ids(n)' \subseteq Ids(n)
    BY <1>1, <1>3 DEF Ids
  <2> QED
    BY <2>1, FewerIds
<1> QED
  BY <1>2, <1>3

LEMMA LimitStep ==
  ASSUME TypeOK, ShapeInv, PlaceInv, \A n \in Leaves : WithinLimit(n), [Next]_vars
  PROVE  \A n \in Leaves' : WithinLimit(n)'
<1>1. ASSUME NEW c \in calls, Keep(c[1], c[2])
      PROVE  \A n \in Leaves' : WithinLimit(n)'
  <2>1. c[1] \in Players /\ c[2] \in Cell
    BY DEF TypeOK
  <2>2. Leaves' = Leaves
    BY <1>1 DEF Keep, Leaves, Nodes
  <2> QED
    BY <1>1, <2>1, <2>2, KeepLimit
<1>2. ASSUME \A c \in calls : ~Keep(c[1], c[2]), NEW n \in Leaves'
      PROVE  WithinLimit(n)'
  <2>1. entries' \subseteq entries
    <3>1. CASE Call
      BY <1>2, <3>1 DEF Call, Descend, Subdivide
    <3>2. CASE Operation
      BY <3>2 DEF Operation, Insert, Update, Remove, Clear, RemoveFromNode
    <3>3. CASE UNCHANGED vars
      BY <3>3 DEF vars
    <3> QED
      BY <3>1, <3>2, <3>3 DEF Next
  <2>2. Ids(n)' \subseteq Ids(n)
    BY <2>1 DEF Ids
  <2>3. CASE n \notin Nodes \/ n \in Leaves
    BY <2>2, <2>3, NewNodeEmpty, FewerIds
  <2>4. CASE n \in Nodes /\ n \notin Leaves
    <3>1. n \in divided /\ n \notin divided'
      BY <1>2, <2>4 DEF Leaves
    <3>2. Clear
      BY <3>1, TreeSteps DEF Subdivide
    <3>3. Ids(n)' = {} /\ Cardinality({}) = 0 /\ MaxPlayersPerNode \in Nat
      BY <3>2, FS_EmptySet, DescentAssumption DEF Clear, Ids
    <3> QED
      BY <3>3 DEF WithinLimit
  <2> QED
    BY <2>3, <2>4
<1> QED
  BY <1>1, <1>2

-----------------------------------------------------------------------------
(* The theorems.                                                             *)

TreeInv ==
  /\ TypeOK
  /\ ShapeInv
  /\ PlaceInv
  /\ \A n \in Leaves : WithinLimit(n)

LEMMA InitTree == Init => TreeInv
<1> SUFFICES ASSUME Init PROVE TreeInv
  OBVIOUS
<1>1. /\ divided = {} /\ entries = {} /\ calls = {} /\ positions = <<>>
      /\ Nodes = {Root} /\ Located = {} /\ DOMAIN positions = {}
  BY NoPositions DEF Init, Nodes, Located
<1>2. TypeOK
  BY <1>1, NoPositions DEF TypeOK
<1>3. ShapeInv
  BY <1>1, RootShape DEF ShapeInv
<1>4. PlaceInv
  BY <1>1 DEF PlaceInv
<1>5. ASSUME NEW n \in Leaves
      PROVE  WithinLimit(n)
  <2>1. Ids(n) = {} /\ Cardinality({}) = 0 /\ MaxPlayersPerNode \in Nat
    BY <1>1, FS_EmptySet, DescentAssumption DEF Ids
  <2> QED
    BY <2>1 DEF WithinLimit
<1> QED
  BY <1>2, <1>3, <1>4, <1>5 DEF TreeInv

LEMMA TreeStep == TreeInv /\ [Next]_vars => TreeInv'
BY NextType, ShapeStep, PlaceStep, LimitStep DEF TreeInv

LEMMA ExactFollows == TreeInv => AnswersAreExact
<1> SUFFICES ASSUME TreeInv, calls = {}, NEW center \in Points, NEW radius \in Radii,
                    NEW p \in DOMAIN positions,
                    DistanceSquared(positions[p], center) <= Square(radius)
             PROVE  p \in Query(center, radius)
  BY DEF AnswersAreExact, Query
<1>1. PICK e \in entries : e[1] = p
  BY DEF TreeInv, PlaceInv, Located
<1> DEFINE n == e[2]
<1>2. e = <<p, n>>
  BY <1>1, Pairs DEF TreeInv, Located
<1>3. n \in Nodes /\ n \notin divided /\ Contains(n, positions[p])
  BY <1>1 DEF TreeInv, PlaceInv, Located
<1> HIDE DEF n
<1>4. positions[p] \in Int \X Int /\ center \in Int \X Int /\ radius \in Int
  BY PositionIsPoint, PointsAreInts, DescentAssumption DEF TreeInv
<1>5. ASSUME NEW m \in Nodes, Within(n, m)
      PROVE  Intersects(m, center, radius)
  <2>1. n \in Cell /\ m \in Cell
    BY <1>3, NodesShape DEF TreeInv
  <2>2. Contains(m, positions[p])
    BY <1>3, <1>4, <1>5, <2>1, AboveContains
  <2>3. m.x \in Int /\ m.y \in Int /\ m.size \in Int
    BY <2>1 DEF Cell
  <2> QED
    BY <1>4, <2>2, <2>3, PruningIsSafe
<1>6. n \in Leaves /\ <<p, n>> \in entries
  BY <1>2, <1>3 DEF Leaves
<1> QED
  BY <1>5, <1>6 DEF Query

LEMMA OnceFollows == TreeInv => EachIdOnce
BY DEF TreeInv, PlaceInv, Located, Leaves, EachIdOnce

LEMMA LimitFollows == TreeInv => LeavesWithinLimit
<1> SUFFICES ASSUME TreeInv PROVE LeavesWithinLimit
  OBVIOUS
<1>1. ASSUME NEW n \in divided
      PROVE  n.depth < MaxDepth /\ Ids(n) = {}
  <2>1. n.depth < MaxDepth
    BY DEF TreeInv, ShapeInv
  <2>2. ASSUME NEW p, <<p, n>> \in entries
        PROVE  FALSE
    <3>1. <<p, n>>[2] = n
      OBVIOUS
    <3> QED
      BY <2>2, <3>1 DEF TreeInv, PlaceInv
  <2> QED
    BY <2>1, <2>2 DEF Ids
<1> QED
  BY <1>1 DEF TreeInv, WithinLimit, LeavesWithinLimit

(* Every variable of the index keeps its type: no node is deeper than the    *)
(* greatest depth and none has a negative corner (QuadTree::SubdivideNode).  *)
THEOREM DescentTypeCorrect == Spec => []TypeOK
<1>1. TreeInv => TypeOK
  BY DEF TreeInv
<1> QED
  BY <1>1, InitTree, TreeStep, PTL DEF Spec

(* For any number of players, any depth and any limit: after any sequence of *)
(* operations a query finds exactly the players within its radius, although  *)
(* it visits only the nodes that meet the circle (QueryNode, Intersects,     *)
(* InsertIntoNode, RemoveFromNode).                                          *)
THEOREM QueriesAreExact == Spec => []AnswersAreExact
BY InitTree, TreeStep, ExactFollows, PTL DEF Spec

(* Every id with a position is in one leaf and nothing else is in the tree:  *)
(* no operation leaves an id behind or puts one into two nodes               *)
(* (InsertIntoNode, RemoveFromNode, Update).                                 *)
THEOREM OneEntryPerId == Spec => []EachIdOnce
BY InitTree, TreeStep, OnceFollows, PTL DEF Spec

(* No leaf above the greatest depth holds more ids than a node may, not even *)
(* between two calls of one insertion (InsertIntoNode, SubdivideNode).       *)
THEOREM LeavesStayWithinLimit == Spec => []LeavesWithinLimit
BY InitTree, TreeStep, LimitFollows, PTL DEF Spec

-----------------------------------------------------------------------------
(* What a step may do to the tree.                                           *)

(* The ids a division hands down are players in the square of the node.      *)
LEMMA DividesFull ==
  ASSUME TypeOK, ShapeInv, PlaceInv, NEW id, NEW n, Subdivide(id, n)
  PROVE  /\ n.depth < MaxDepth
         /\ Cardinality({p \in DOMAIN positions : Contains(n, positions[p])})
              > MaxPlayersPerNode
<1> DEFINE inside == {p \in DOMAIN positions : Contains(n, positions[p])}
           ids == Ids(n) \cup {id}
<1>1. n.depth < MaxDepth /\ Cardinality(ids) > MaxPlayersPerNode /\ <<id, n>> \in calls
  BY DEF Subdivide, Overfull
<1>2. \A p \in ids : <<p, n>> \in Located
  BY <1>1 DEF Ids, Located
<1>3. ids \subseteq inside
  BY <1>2, CallIsPlaced
<1>4. IsFiniteSet(inside)
  <2>1. inside \in SUBSET Players /\ IsFiniteSet(Players)
    BY DescentAssumption DEF TypeOK
  <2> QED
    BY <2>1, FS_Subset
<1> HIDE DEF inside, ids
<1>5. IsFiniteSet(ids) /\ Cardinality(ids) <= Cardinality(inside)
  BY <1>3, <1>4, FS_Subset
<1>6. Cardinality(ids) \in Nat /\ Cardinality(inside) \in Nat /\ MaxPlayersPerNode \in Nat
  BY <1>4, <1>5, FS_CardinalityType, DescentAssumption
<1>7. Cardinality(inside) > MaxPlayersPerNode
  BY <1>1, <1>5, <1>6
<1> QED
  BY <1>1, <1>7 DEF inside

(* For any depth and limit, a node is divided only while more players than   *)
(* the limit are in its square (InsertIntoNode, SubdivideNode).              *)
THEOREM OnlyFullNodesDivide == Spec => DividedOnlyWhenFull
<1>1. TreeInv /\ [Next]_vars =>
        [\A n \in divided' \ divided :
           /\ n.depth < MaxDepth
           /\ Cardinality({p \in DOMAIN positions : Contains(n, positions[p])})
                > MaxPlayersPerNode]_vars
  <2> SUFFICES ASSUME TreeInv, [Next]_vars, NEW n \in divided' \ divided
               PROVE  /\ n.depth < MaxDepth
                      /\ Cardinality({p \in DOMAIN positions : Contains(n, positions[p])})
                           > MaxPlayersPerNode
    OBVIOUS
  <2>1. PICK c \in calls : Subdivide(c[1], c[2])
    BY TreeSteps DEF TreeInv, Clear
  <2>2. n = c[2]
    BY <2>1 DEF Subdivide
  <2> QED
    BY <2>1, <2>2, DividesFull DEF TreeInv
<1> QED
  BY <1>1, InitTree, TreeStep, PTL DEF Spec, DividedOnlyWhenFull

(* The square of a child is within that of its node.                         *)
LEMMA KidWithin ==
  ASSUME NEW n \in Cell, n.size = Size[n.depth], n.depth < MaxDepth, NEW k \in 1..4
  PROVE  Within(Kid(n, k), n) /\ Kid(n, k).depth = n.depth + 1
<1>1. /\ n.x \in Nat /\ n.y \in Nat /\ n.depth \in 0..(MaxDepth - 1)
      /\ n.depth + 1 \in 0..MaxDepth
  BY Sizes DEF Cell
<1> DEFINE h == n.size \div 2
<1>2. n.size = h + h /\ h \in Nat
  <2>1. n.size = 2 * Size[n.depth + 1] /\ Size[n.depth + 1] \in Nat
    BY <1>1, Sizes
  <2> QED
    BY <2>1
<1>3. /\ Kid(n, k).x \in {n.x, n.x + h}
      /\ Kid(n, k).y \in {n.y, n.y + h}
      /\ Kid(n, k).size = h
      /\ Kid(n, k).depth = n.depth + 1
  BY DEF Kid
<1> HIDE DEF h
<1> QED
  BY <1>1, <1>2, <1>3 DEF Within

(* Ids at a node that are handed down to its children.                       *)
LEMMA HandedDown ==
  ASSUME TypeOK, ShapeInv, PlaceInv, NEW id, NEW n, <<id, n>> \in calls,
         n.depth < MaxDepth, NEW ids, id \in ids, \A p \in ids : <<p, n>> \in Located,
         calls' = (calls \ {<<id, n>>}) \cup CallsBelow(n, ids)
  PROVE  /\ calls \ calls' # {}
         /\ \A c \in calls' \ calls :
              \E e \in entries \cup calls :
                /\ e[1] = c[1]
                /\ c[2].depth = e[2].depth + 1
                /\ Within(c[2], e[2])
<1>1. /\ n \in Cell /\ n.size = Size[n.depth] /\ n.depth \in Nat
      /\ ids \in SUBSET DOMAIN positions
      /\ \A p \in ids : Contains(n, positions[p])
  <2>1. <<id, n>> \in Located
    OBVIOUS
  <2>2. n \in Cell /\ n.size = Size[n.depth] /\ n.depth \in 0..MaxDepth
    BY <2>1, CallIsPlaced
  <2>3. \A p \in ids : p \in DOMAIN positions /\ Contains(n, positions[p])
    BY CallIsPlaced
  <2> QED
    BY <2>2, <2>3
<1>2. \A e \in CallsBelow(n, ids) :
        e[1] \in ids /\ e = <<e[1], e[2]>> /\ \E k \in 1..4 : e[2] = Kid(n, k)
  BY <1>1, CallsBelowAre
<1>3. ASSUME NEW c \in CallsBelow(n, ids)
      PROVE  c[1] \in ids /\ c[2].depth = n.depth + 1 /\ Within(c[2], n)
  BY <1>1, <1>2, <1>3, KidWithin
<1>4. <<id, n>> \notin CallsBelow(n, ids)
  <2>1. <<id, n>>[2].depth # n.depth + 1
    BY <1>1
  <2> QED
    BY <1>3, <2>1
<1>5. ASSUME NEW c \in calls' \ calls
      PROVE  \E e \in entries \cup calls :
               /\ e[1] = c[1]
               /\ c[2].depth = e[2].depth + 1
               /\ Within(c[2], e[2])
  <2>1. c[1] \in ids /\ c[2].depth = n.depth + 1 /\ Within(c[2], n)
    BY <1>3, <1>5
  <2>2. PICK e \in entries \cup calls : e = <<c[1], n>>
    BY <2>1 DEF Located
  <2>3. e[1] = c[1] /\ e[2] = n
    BY <2>2
  <2> QED
    BY <2>1, <2>3
<1> QED
  BY <1>4, <1>5

(* For any depth and limit, each step of an insertion finishes a call, and   *)
(* the calls it starts are for ids of the same node, one level further down  *)
(* (InsertIntoNode, SubdivideNode).  No id goes below the greatest depth, so *)
(* there are only so many steps.                                             *)
THEOREM InsertionsGoDown == Spec => CallsGoDown
<1> DEFINE Down ==
      calls # {} =>
        /\ calls \ calls' # {}
        /\ UNCHANGED positions
        /\ \A c \in calls' \ calls :
             \E e \in entries \cup calls :
               /\ e[1] = c[1]
               /\ c[2].depth = e[2].depth + 1
               /\ Within(c[2], e[2])
<1>1. TreeInv /\ [Next]_vars => [Down]_vars
  <2> SUFFICES ASSUME TreeInv, Next, calls # {} PROVE Down
    OBVIOUS
  <2>1. PICK b \in calls : Descend(b[1], b[2]) \/ Keep(b[1], b[2]) \/ Subdivide(b[1], b[2])
    BY DEF Next, Operation, Insert, Update, Remove, Clear, Call
  <2>2. PICK id, n : b = <<id, n>> /\ id = b[1] /\ n = b[2]
    BY Pairs DEF TreeInv, Located
  <2>3. <<id, n>> \in calls /\ positions' = positions
    BY <2>1, <2>2 DEF Descend, Keep, Subdivide
  <2>4. CASE Keep(id, n)
    BY <2>3, <2>4 DEF Keep
  <2>5. CASE Descend(id, n)
    <3>1. calls' = (calls \ {<<id, n>>}) \cup CallsBelow(n, {id}) /\ n.depth < MaxDepth
      BY <2>5 DEF Descend, TreeInv, ShapeInv
    <3>2. id \in {id} /\ \A p \in {id} : <<p, n>> \in Located
      BY <2>3 DEF Located
    <3> QED
      BY <2>3, <3>1, <3>2, HandedDown DEF TreeInv
  <2>6. CASE Subdivide(id, n)
    <3>1. /\ calls' = (calls \ {<<id, n>>}) \cup CallsBelow(n, Ids(n) \cup {id})
          /\ n.depth < MaxDepth
      BY <2>6 DEF Subdivide, Overfull
    <3>2. \A p \in Ids(n) \cup {id} : <<p, n>> \in Located
      BY <2>3 DEF Ids, Located
    <3> QED
      BY <2>3, <3>1, <3>2, HandedDown DEF TreeInv
  <2> QED
    BY <2>1, <2>2, <2>4, <2>5, <2>6
<1> QED
  BY <1>1, InitTree, TreeStep, PTL DEF Spec, CallsGoDown
=============================================================================
