SPECIFICATION CallSpec
CONSTANTS
  Chars <- MCChars
  MaxGlob = 4
  Ips <- MCIps
  MaxHops = 3
  MaxText = 3
CHECK_DEADLOCK FALSE
INVARIANT ListIsJson
