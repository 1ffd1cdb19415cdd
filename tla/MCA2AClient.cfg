\* Two calls of up to two artifacts on one URL; the clock passes the TTL twice.
SPECIFICATION FairSpec
CONSTANTS
  Calls = {c1, c2}
  TTL = 2
  MaxFetch = 1
  MaxTime = 5
  MaxTexts = 2
  None = None
INVARIANT TypeOK
INVARIANT CardIsRecent
PROPERTY CallsReturnAllText
CHECK_DEADLOCK FALSE
