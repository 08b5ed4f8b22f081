\* Every kind of host, two clients and one slot. Two instances that start three
\* times in all. Two files of two contents and a pool of up to two workers.
SPECIFICATION ServiceFairSpec
CONSTANTS
  Hosts = {"scm", "console", "unix"}
  Clients = {c1, c2}
  MaxConnections = 1
  MaxFaults = 1
  Platforms = {"unix", "windows"}
  Instances = {"i1", "i2"}
  MaxStarts = 3
  MaxFiles = 2
  Contents = {"a", "b"}
  MaxProcs = 2
  MaxChanges = 1
  MaxReboots = 2
INVARIANTS OnlyFailuresRestart KeyFileSound NoFalseAlarm
PROPERTIES RefusedOnlyWhenFull EndpointSound TamperEndsService DeviationStops ScanEnds
CHECK_DEADLOCK FALSE
