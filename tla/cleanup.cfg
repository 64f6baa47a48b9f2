SPECIFICATION FairSpec
CONSTANTS
    Backup = {b1}
    Part = {brief, database}
    Migrated = {m}
    Temporary = {t}
    Forensic = {x}
    None = None
    MaxRevision = 3
    MaxFaults = 2
INVARIANTS
    CompleteIsErased
    CompletedIsGone
PROPERTIES
    RemovedAsListed
    CleanupEnds
CHECK_DEADLOCK FALSE
