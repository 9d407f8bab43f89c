CONSTANTS
  p1 = p1
  Absent = Absent
  Torn = Torn
  Processes = {p1}
  MaxFaults = 0
  MaxPowerLosses = 1
SPECIFICATION Spec
INVARIANTS GeneratedOnce
