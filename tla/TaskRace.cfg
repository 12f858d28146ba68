SPECIFICATION Spec
CONSTANTS
  w1 = w1  w2 = w2  c1 = c1  x1 = x1
  Worker <- TwoWorkers
  Client <- OneClient
  Reconciler <- NoReconciler
  Nobody = nobody
  MaxRuns = 2
  MaxJobs = 1
  MaxChecks = 3
  Interfaces = {"deferrable"}
  ClientOps = {"cancel", "retry"}
  MaxStalls = 1
  MaxCrashes = 0
  MaxLapses = 1
SYMMETRY Symmetry
INVARIANTS TypeOK LiveRunHoldsItsReservation DeliveredRunIsNotRefunded
CHECK_DEADLOCK FALSE
