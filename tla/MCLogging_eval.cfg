SPECIFICATION FairLogSpec
CONSTANTS
  MaxReqs = 1
  MaxLoad <- MCMaxLoad
  LogCap = 2
  Burst = 1
  Unit = 1
  MaxNotes = 1
CHECK_DEADLOCK FALSE
PROPERTY EvalExits
