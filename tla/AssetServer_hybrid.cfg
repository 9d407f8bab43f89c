CONSTANTS
  r1 = r1
  r2 = r2
  Requests = {r1, r2}
  Mode = "hybrid"
  Slots = 1
  MaxSegmentBytes = 1
  MaxInt64 = 127
  Signers = {"ready"}
  OriginStatuses = {200}
  Buffer = 2
  MaxBody = 2
  MaxFiles = 2
  MaxFaults = 1
SPECIFICATION Spec
INVARIANTS ServerInv LimitRespected LoggedOkIsWhole SteadyFileServed
SYMMETRY Symmetry
