SPECIFICATION Spec
CONSTANTS
  n1 = n1
  n2 = n2
  n3 = n3
  NoNonce = NoNonce
  Conns = {c1, c2}
  Nonces = {n1, n2, n3}
  Lines <- ReplayLines
  Skew = 1
  MinInterval = 1
  MaxReplayNonces = 2
  MaxFailures = 1
  MaxClock = 2
  MaxClockSteps = 0
  MaxTrips = 0
  MaxReads = 3
SYMMETRY ConnSymmetry
INVARIANTS ReplayWindow SecondAcceptNeedsClientAhead
PROPERTY NoEarlyEviction
