CONSTANTS
  Players = {p1, p2, p3}
  Size <- EightFourTwo
  Points <- BorderPoints
  Radii = {0, 1, 4}
  MaxPlayersPerNode = 1
  MaxDepth = 2
SPECIFICATION BothSpec
INVARIANTS AnswersAreExact EachIdOnce LeavesWithinLimit SameTree
PROPERTIES DividedOnlyWhenFull InsertionsEnd
