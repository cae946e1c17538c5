---------------------------- MODULE MCWorldTick ----------------------------
(***************************************************************************)
(* An instance of WorldTick for TLC: two players on a short map.           *)
(***************************************************************************)
EXTENDS WorldTick, TLC

\* To the left, standing, to the right.
ThreeWays == {-1, 0, 1}

PlayerSymmetry == Permutations(Players)
=============================================================================
