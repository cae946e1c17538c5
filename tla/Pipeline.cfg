CONSTANTS
  w1 = w1
  w2 = w2
  w3 = w3
  IoThreads = {io}
  Main = main
  Workers = {w1, w2, w3}
  MaxJobs = 1
SPECIFICATION FairSpec
INVARIANTS NoLostWakeup JoinsEnd Accounted
PROPERTIES ImplementsFlow ShutdownCompletes PacketsAreTaken
CHECK_DEADLOCK FALSE
