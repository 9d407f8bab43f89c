CONSTANTS
  a1 = a1
  sweep = sweep
  NoAsset = NoAsset
  Assets = {a1}
  Requests = {}
  Sweep = sweep
  Second = 2
  Expires = 2
  Threshold = 1
  Grace = 1
  Base = 1
  MaxDelay = 2
  RejectedRetry = 3
  UnauthorizedRetry = 2
  Statuses = {200, 404, 503}
  MaxTime = 4
  MaxRescans = 2
  MaxFaults = 1
  MaxWire = 2
  Cleanups = TRUE
SPECIFICATION Spec
INVARIANTS MissingLeaseLapses DeferralBounded
PROPERTIES BackoffRespected ExpiredAfterGrace
VIEW View
