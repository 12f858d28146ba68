SPECIFICATION Spec
CONSTANTS
    j1 = j1
    j2 = j2
    Job <- TwoJobs
    MaxRelease = 2
    MaxWrites = 0
    MaxChecks = 1
    GoesOn = FALSE
    SelfUpdate = FALSE
INVARIANT OneTask
