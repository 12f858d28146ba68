SPECIFICATION Spec
CONSTANTS
    a1 = a1
    h1 = h1
    h2 = h2
    Key = {"u", "v"}
    SizeOf <- UploadSizes
    Resource <- UploadRows
    Legacy = {}
    KeyOf <- UploadKeys
    Object = {"u1", "u2", "v1"}
    ObjectOf <- UploadFiles
    StoredLimit = 3
    DailyLimit = 5
    Asset = {}
    Handler = {h1, h2}
    CleanupLimit = 2
    Deletable = {}
    MaxFaults = 1
INVARIANTS
    StoredStaysBelowLimit
    UploadsCountAgainstTheDay
PROPERTY
    UnnamedFilesGo
CHECK_DEADLOCK FALSE
