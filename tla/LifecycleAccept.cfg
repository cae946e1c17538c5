CONSTANTS
  s1 = s1
  s2 = s2
  p1 = p1
  p2 = p2
  i1 = i1
  w1 = w1
  w2 = w2
  NoPlayer = NoPlayer
  Sessions = {s1, s2}
  Players = {p1}
  Accounts <- SharedAccounts
  IoThreads = {i1}
  Workers = {w1}
  PacketTypes = {"login", "enter"}
  FailingLoops = {"read"}
  ResetPeers = {}
  MaxPackets <- None
  MaxSeq = 1
  BatchSize = 1
  MaxConnections = 2
SPECIFICATION Spec
INVARIANTS RefusedOnlyAtLimit
CHECK_DEADLOCK FALSE
