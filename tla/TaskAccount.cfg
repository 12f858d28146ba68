SPECIFICATION FairSpec
CONSTANTS
  w1 = w1  w2 = w2  c1 = c1  x1 = x1
  Worker <- OneWorker
  Client <- OneClient
  Reconciler <- OneReconciler
  Nobody = nobody
  MaxRuns = 1
  MaxJobs = 1
  MaxChecks = 3
  Interfaces = {"sync", "cancellable", "deferrable", "bridge"}
  ClientOps = {"cancel", "recover"}
  MaxStalls = 1
  MaxCrashes = 1
  MaxLapses = 1
INVARIANTS ConfirmedMeansRefunded OnlyDeliveredRunsAreCharged
PROPERTIES
    EveryRunIsAccounted
    EveryTaskEnds
CHECK_DEADLOCK FALSE
