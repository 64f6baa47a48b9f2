SPECIFICATION DesktopSpec
CONSTANTS
    Caller = {a, b}
    Upload = {u, v}
    None = None
    MaxGeneration = 3
    MaxCrashes = 1
    MaxEpoch = 4
    MaxGrants = 5
PROPERTIES
    DeletedStaysDeleted
CHECK_DEADLOCK FALSE
