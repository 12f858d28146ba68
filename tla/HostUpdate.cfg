SPECIFICATION Spec
CONSTANTS
    j1 = j1
    j2 = j2
    Job <- TwoJobs
    MaxRelease = 3
    MaxWrites = 1
    MaxChecks = 1
    GoesOn = FALSE
    SelfUpdate = TRUE
INVARIANTS
    TypeOK
    OneTaskUnlessOvertaken
    PhaseIsTrue
    LostDatabaseHasItsBackup
    RolledBackDatabaseIsTheBackup
PROPERTY
    KeepsUpdatePromise
