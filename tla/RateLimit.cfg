SPECIFICATION Spec
CONSTANTS
  Requests = {r1, r2, r3}
  IPs = {a}
  RPS = 2
  Burst = 2
  Second = 3
  MaxClock = 6
SYMMETRY Symmetry
INVARIANTS LimiterInv RateBounded
PROPERTY NotRefusedAfterPause
