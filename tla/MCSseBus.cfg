SPECIFICATION FairSseSpec
CONSTANTS
  s1 = s1
  Topics <- MCTopics
  Patterns <- MCPatterns
  NoPattern = NoPattern
  Subs <- MCSubs
  Match <- MCMatch
  Capacity = 1
  MaxPub = 4
  StreamCap = 1
INVARIANTS
  CleanEndMeansOverrun
PROPERTIES
  ImplementsClientFeed
  ThreadReleased
CHECK_DEADLOCK FALSE
