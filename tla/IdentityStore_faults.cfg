CONSTANTS
  p1 = p1
  p2 = p2
  Absent = Absent
  Torn = Torn
  Processes = {p1, p2}
  MaxFaults = 2
  MaxPowerLosses = 1
SPECIFICATION FairSpec
INVARIANTS IdentityKept StoreInv
PROPERTIES AtomicSave ComesUp
