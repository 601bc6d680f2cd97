SPECIFICATION PartsSpec
CONSTANTS
  s1 = s1
  Topics <- MCTopics
  Patterns <- MCPatterns
  NoPattern = NoPattern
  Subs <- MCSubs
  Match <- MCMatch
  Capacity = 2
  MaxPub = 4
  DRAIN_BUDGET = 3
  MaxChunks = 7
  c1 = c1
  c2 = c2
  Conns <- MCConns
  Stallers <- MCStallers
  MaxGen = 2
CHECK_DEADLOCK FALSE
INVARIANTS
  GapFree
  EndMeansOverrun
  BodyDecodes
  PendingMeansDelivered
  BoundedLag
  StaleSseCancelled
  DrainSseIsLateReload
  StoppedMeansDrained
PROPERTIES
  EventuallyYielded
  ForwarderReleased
  InterruptEndsIterators
  ImplementsFeed
  ChunkDelivered
  StaleSseEnds
  SignalStops
  AcceptsUnlessStalled
