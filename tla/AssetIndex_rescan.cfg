CONSTANTS
  a1 = a1
  job = job
  req = req
  Assets = {a1}
  Files = {"master", "segment", "link"}
  Contents = {{"master"}, {"master", "segment"}}
  Scanners = {job, req}
  Job = job
  MaxChanges = 2
  MaxFaults = 1
SPECIFICATION FairSpec
INVARIANTS IInv FreshIndexExact
PROPERTIES NeverDroppedWhileFit NeverAddedUnlooked EventuallyIndexed GaugesSettle
