SPECIFICATION Spec
CONSTANTS
  Channels <- MCChannels
  Games = {}
  GameTarget = 75
  Targets = {20, 100}
  InitialLevel = 10
  Readings = {0, 80, 93, 96}
  MaxChanges = 3
  MaxGames = 0
  MaxFailures = 1
  MaxUser = 0
PROPERTIES AlarmHolds
