SPECIFICATION DesktopSpec
CONSTANTS
    Caller = {a, b}
    Upload = {u}
    None = None
    MaxGeneration = 3
    MaxCrashes = 1
    MaxEpoch = 4
    MaxGrants = 5
INVARIANTS
    SessionKeysDie
    OneOwner
PROPERTIES
    PublishedIsNew
    DraftsUnderGrant
CHECK_DEADLOCK FALSE
