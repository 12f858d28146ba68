SPECIFICATION Spec
CONSTANTS
    a1 = a1
    h1 = h1
    h2 = h2
    Key = {"old", "u"}
    SizeOf <- LibrarySizes
    Resource <- LibraryRows
    Legacy <- OldRows
    KeyOf <- LibraryKeys
    Object = {"shared", "u1"}
    ObjectOf <- LibraryFiles
    StoredLimit = 4
    DailyLimit = 6
    Asset = {a1}
    Handler = {h1}
    CleanupLimit = 1
    Deletable <- LibraryRows
    MaxFaults = 2
INVARIANTS
    TypeOK
    CanvasMediaIsThere
    FilesAreOwned
PROPERTIES
    AbandonedUploadsGo
CHECK_DEADLOCK FALSE
