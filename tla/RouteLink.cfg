SPECIFICATION Spec
CONSTANTS
    r1 = r1
    r2 = r2
    r3 = r3
    Route <- TwoRoutes
    Answers = {"link"}
    MaxFaults = 0
INVARIANT OneJobPerRun
CHECK_DEADLOCK FALSE
