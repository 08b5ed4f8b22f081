SPECIFICATION FairSpec
CONSTANTS
  MaxRequests = 5
  MaxConnections = 3
PROPERTIES AcceptsOnlyInStep SendingReleased
