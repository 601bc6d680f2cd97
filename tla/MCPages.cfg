SPECIFICATION PagesSpec
CONSTANTS
  t1 = t1
  t2 = t2
  Threads <- MCThreads
  Text <- MCText
  Dir <- MCDir
  BadTexts <- MCBadTexts
  MaxPage = 4
  MaxInclude = 2
  Chars <- MCChars
  MaxGlob = 4
  Ips <- MCIps
  MaxHops = 3
  MaxText = 3
SYMMETRY MCSymmetry
INVARIANTS
  RendersItsText
  StaleOnlyIfShown
  GlobCorrect
  TrustedIpCorrect
  SseRoundTrip
CHECK_DEADLOCK FALSE
