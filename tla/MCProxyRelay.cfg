\* One call, as calls share nothing, of up to four chunks.
SPECIFICATION FairSpec
CONSTANTS
  Calls = {c1}
  MaxChunks = 4
INVARIANT TypeOK
PROPERTY RelayImplementsPipe
PROPERTY CallsEndAndFree
CHECK_DEADLOCK FALSE
