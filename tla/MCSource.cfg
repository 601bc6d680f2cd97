SPECIFICATION FairSrcSpec
CONSTANTS
  Conns <- MCNoConns
  Stallers <- MCNoConns
  MaxGen = 4
  MaxScripts = 3
  MaxTouches = 1
INVARIANTS
  ScriptsAdvance
  PanicMeansNoScript
  AsleepMeansFresh
PROPERTIES
  ScriptServed
CHECK_DEADLOCK FALSE
