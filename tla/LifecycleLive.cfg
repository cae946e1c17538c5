CONSTANTS
  s1 = s1
  s2 = s2
  p1 = p1
  p2 = p2
  i1 = i1
  w1 = w1
  w2 = w2
  NoPlayer = NoPlayer
  Sessions = {s1, s2}
  Players = {p1, p2}
  Accounts <- ReloginAccounts
  IoThreads = {i1}
  Workers = {w1}
  PacketTypes = {"login", "enter", "other"}
  FailingLoops = {"read"}
  ResetPeers = {s2}
  MaxPackets <- TwoAndNone
  MaxSeq = 1
  BatchSize = 1
  MaxConnections = 1
SPECIFICATION FairSpec
PROPERTIES EndsAreHandled
CHECK_DEADLOCK FALSE
