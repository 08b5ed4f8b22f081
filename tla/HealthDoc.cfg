SPECIFICATION Spec
CONSTANTS
  Readings = {84, 94, 95, 126}
  MaxSensors = 2
  Fans = {f1}
INVARIANT CriticalRefusesLower
