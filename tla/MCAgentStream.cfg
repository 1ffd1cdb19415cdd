\* Two requests; those of the gateway share one worker.
SPECIFICATION FairSpec
CONSTANTS
  Requests = {1, 2}
  Mixes <- Both
  Workers = 1
  MaxDeltas = 2
  MaxTools = 1
INVARIANT TypeOK
INVARIANT StreamClosesOnce
INVARIANT TaskArtifactsGrow
PROPERTY ChatImplementsPipe
PROPERTY EveryHandlerEnds
CHECK_DEADLOCK FALSE
