CONSTANTS
  s1 = s1
  game = game
  io = io
  chat = chat
  None = None
  Sessions = {s1}
  GameThread = game
  IoThreads = {io}
  ChatThread = chat
  MaxSends <- Sends
  MaxObjects = 2
  PoolSize = 1
  FailingLoops = {"read", "write"}
  MaxMessages = 2
  MaxTraffic = 3
  RedisMayFail = TRUE
SPECIFICATION FairSpec
INVARIANTS Intact PoolsSound ResidueBounded OneStaleEntry
PROPERTIES WireHasNoGaps QueuesAreEmptied ChatGoesOn
CHECK_DEADLOCK FALSE
