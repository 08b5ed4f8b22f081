SPECIFICATION FairSpec
CONSTANTS
  Handlers = {h1, h2}
  NoOne = NoOne
  PipeLines = 1
  MaxCalls = 3
  MaxProbes = 2
INVARIANT OwnAnswer
PROPERTIES StoppedMeansSilent CallReturns
CHECK_DEADLOCK FALSE
