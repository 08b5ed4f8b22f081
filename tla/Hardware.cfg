\* One handler and two fans for the fan commands. Two handlers for the power
\* modes. Both thresholds of the health report from either side, and a reading
\* that is not valid. Each band of the temperature for the condition index;
\* counts up to where a penalty of 20 for each would overflow, and the largest.
SPECIFICATION HardwareSpec
CONSTANTS
  Handlers = {h1}
  Fans = {f1, f2}
  Values = {0, 500, 1000}
  Sensors = {"cpu", "gpu", "vendor"}
  SensorOrder <- OneEach
  MaxChanges = 2
  Platforms = {"linux", "windows"}
  Setters = {s1, s2}
  Profiles = {"balanced", "saver"}
  Foreign = "foreign"
  MaxUserSets = 1
  MaxFailures = 2
  Readings = {84, 94, 95, 126}
  MaxSensors = 2
  Outputs = {f1}
  Degrees = {70, 85, 94, 95, 100, 115}
  Limit = 100
  Counts = {0, 1, 2, 6, 12, 127}
  Vendors = {0, 55, 100}
  MaxInt = 127
INVARIANTS LowTargetSawItCool FirmwareFansUntouched TargetUnambiguous
INVARIANTS SuccessWasTrue HealthAgreesWithGate
PROPERTY IndexIsHonest
