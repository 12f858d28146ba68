SPECIFICATION Spec
CONSTANTS
  w1 = w1  w2 = w2  c1 = c1  x1 = x1
  Worker <- OneWorker
  Client <- OneClient
  Reconciler <- OneReconciler
  Nobody = nobody
  MaxRuns = 2
  MaxJobs = 1
  MaxChecks = 3
  Interfaces = {"cancellable"}
  ClientOps = {"cancel", "retry"}
  MaxStalls = 0
  MaxCrashes = 0
  MaxLapses = 0
INVARIANTS OnlySentRunsAreCharged
CHECK_DEADLOCK FALSE
