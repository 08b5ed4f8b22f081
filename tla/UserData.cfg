SPECIFICATION UserDataFairSpec
CONSTANTS
  Savers = {"s1", "s2"}
  Values = {"v1", "v2"}
  Default = "default"
  MaxSaves = 3
  MaxFaults = 2
  MaxCrashes = 1
  MaxEvents = 4
  Degrees = {10, 40, 60}
  Percents = {0, 100}
  MaxStored = 3
  MaxEdits = 2
  Readings = {0, 85, 86, 87, 88}
  MaxChanges = 4
  MaxFailures = 1
INVARIANTS CurveSafe NormalizedAsIntended CopyExists SuccessIsStored
PROPERTY RiseIsAnswered
CHECK_DEADLOCK FALSE
