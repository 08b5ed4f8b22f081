SPECIFICATION FairSpec
CONSTANTS
  n1 = n1
  n2 = n2
  n3 = n3
  NoNonce = NoNonce
  Conns = {c1}
  Nonces = {n1, n2}
  Lines <- FailureLines
  Skew = 1
  MinInterval = 1
  MaxReplayNonces = 2
  MaxFailures = 2
  MaxClock = 2
  MaxClockSteps = 1
  MaxTrips = 1
  MaxReads = 3
INVARIANTS ReplyBinding FailClosed
PROPERTY EveryLineAnswered
