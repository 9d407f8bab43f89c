CONSTANTS
  a1 = a1
  r1 = r1
  sweep = sweep
  NoAsset = NoAsset
  Assets = {a1}
  Requests = {r1}
  Sweep = sweep
  Second = 1
  Expires = 3
  Threshold = 2
  Grace = 1
  Base = 1
  MaxDelay = 2
  RejectedRetry = 3
  UnauthorizedRetry = 2
  Statuses = {200}
  MaxTime = 1
  MaxRescans = 0
  MaxFaults = 1
  MaxWire = 6
  Cleanups = FALSE
SPECIFICATION FairSpec
INVARIANTS AnnouncerInv OkRowAccepted
PROPERTIES SweepEnds
