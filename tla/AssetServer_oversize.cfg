CONSTANTS
  r1 = r1
  Requests = {r1}
  Mode = "proxy"
  Slots = 1
  MaxSegmentBytes = 1
  MaxInt64 = 127
  Signers = {"off"}
  OriginStatuses = {200, 404}
  Buffer = 2
  MaxBody = 2
  MaxFiles = 1
  MaxFaults = 0
SPECIFICATION Spec
INVARIANTS OversizeRejected
SYMMETRY Symmetry
