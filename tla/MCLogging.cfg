SPECIFICATION FairLogSpec
CONSTANTS
  MaxReqs = 3
  MaxLoad <- MCMaxLoad
  LogCap = 2
  Burst = 1
  Unit = 2
  MaxNotes = 1
INVARIANTS
  NoGhosts
  IdleMeansFlushed
  AccountedAtExit
PROPERTIES
  ExitsUnlessOverrun
CHECK_DEADLOCK FALSE
