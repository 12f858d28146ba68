SPECIFICATION Spec
CONSTANTS
    r1 = r1
    r2 = r2
    r3 = r3
    Route <- ThreeRoutes
    Answers = {"polled", "inline"}
    MaxFaults = 2
INVARIANTS
    TypeOK
    OneJobPerRun
    JobsAreRemembered
    RequestsKeepTheirRoute
    PriceFollowsTheRoute
    RoutesAreTriedOnce
PROPERTY
    EveryRunEnds
CHECK_DEADLOCK FALSE
