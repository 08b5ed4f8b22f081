SPECIFICATION FairSpec
CONSTANTS
  Channels <- MCChannels
  Games = {"g1"}
  GameTarget = 75
  Targets = {20, 100}
  InitialLevel = 10
  Readings = {0, 80, 93, 96}
  MaxChanges = 2
  MaxGames = 2
  MaxFailures = 1
  MaxUser = 1
PROPERTIES LatchedUntilCool GameIsAFloor EmergencyCools
