SPECIFICATION SlowBusSpec
CONSTANTS
  s1 = s1
  Topics <- MCTopics
  Patterns <- MCPatterns
  NoPattern = NoPattern
  Subs <- MCSubs
  Match <- MCMatch
  Capacity = 2
  MaxPub = 4
CHECK_DEADLOCK FALSE
PROPERTY SlowSubscribersEnd
