------------------------------- MODULE Bounds -------------------------------
(***************************************************************************)
(* The square of a quadtree node: QuadTree::Bounds.  It is a record with   *)
(* the fields x, y and size; a point is a pair <<x, y>>.                   *)
(***************************************************************************)
EXTENDS Integers

Contains(b, point) ==
  /\ b.x <= point[1] /\ point[1] < b.x + b.size
  /\ b.y <= point[2] /\ point[2] < b.y + b.size

Square(x) == x * x

DistanceSquared(p, q) == Square(p[1] - q[1]) + Square(p[2] - q[2])

(* The value of [low, high] nearest to x.                                    *)
Clamp(x, low, high) == IF x < low THEN low ELSE IF x > high THEN high ELSE x

Closest(b, center) == <<Clamp(center[1], b.x, b.x + b.size),
                        Clamp(center[2], b.y, b.y + b.size)>>

(* Mutant: bounds that touch the circle do not count.                        *)
IntersectsStrictly(b, center, radius) ==
  DistanceSquared(center, Closest(b, center)) < Square(radius)

Intersects(b, center, radius) ==
  DistanceSquared(center, Closest(b, center)) <= Square(radius)
=============================================================================
