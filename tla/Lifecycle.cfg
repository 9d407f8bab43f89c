\* All three jobs, two requests, signals that arrive before, during and after the select.
SPECIFICATION FairSpec
CONSTANTS
  rescan = rescan
  sweep = sweep
  cleanup = cleanup
  r1 = r1
  r2 = r2
  Jobs <- MCJobs
  Requests <- MCRequests
  MaxSignals = 3
INVARIANTS LifecycleInv DbOutlivesUsers CleanExit
PROPERTIES ShutdownEnds FailureEnds JobsKeepRunning
