CONSTANTS
  s1 = s1
  s2 = s2
  p1 = p1
  p2 = p2
  i1 = i1
  w1 = w1
  w2 = w2
  NoPlayer = NoPlayer
  Sessions = {s1}
  Players = {p1, p2}
  Accounts <- SoloAccounts
  IoThreads = {i1}
  Workers = {w1}
  PacketTypes = {"login", "enter"}
  FailingLoops = {"read", "write"}
  ResetPeers = {}
  MaxPackets <- Three
  MaxSeq = 2
  BatchSize = 1
  MaxConnections = 1
SPECIFICATION Spec
INVARIANTS NoGhost
CHECK_DEADLOCK FALSE
