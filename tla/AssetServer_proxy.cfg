CONSTANTS
  r1 = r1
  r2 = r2
  Requests = {r1, r2}
  Mode = "proxy"
  Slots = 1
  MaxSegmentBytes = 1
  MaxInt64 = 127
  Signers = {"off", "nilptr"}
  OriginStatuses = {200}
  Buffer = 2
  MaxBody = 2
  MaxFiles = 1
  MaxFaults = 1
SPECIFICATION FairSpec
INVARIANTS UpstreamBounded CountedOrFailed
PROPERTIES GoneClientReleases
