CONSTANTS
  Players = {p1, p2}
  Nowhere = Nowhere
  Width = 8
  SpawnMargin = 1
  Speed = 2
  Directions <- ThreeWays
  AoiRange = 3
  UpdateInterval = 2
  PositionThreshold = 2
  MaxTick = 3
SPECIFICATION Spec
SYMMETRY PlayerSymmetry
INVARIANTS TypeOK DepartedListedBriefly ListedAreNear NearAreListed SnapshotsKeepUp IndexAgrees
CHECK_DEADLOCK FALSE
