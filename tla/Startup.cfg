CONSTANTS
  p1 = p1
  p2 = p2
  Unset = Unset
  Processes = {p1, p2}
  Addresses <- MCAddresses
  Networks <- MCNetworks
  Starts <- MCStarts
  MaxFaults = 1
SPECIFICATION FairSpec
INVARIANTS AcceptedIsUsable ReadyMeansSigned ServesMigrated
PROPERTIES AtomicUpgrade ComesToServe
