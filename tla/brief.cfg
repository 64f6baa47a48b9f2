SPECIFICATION FairSpec
CONSTANTS
    Process = {p1, p2}
    Foreign = {x}
    None = None
    MaxRevision = 3
    MaxEdits = 2
    MaxCrashes = 2
INVARIANTS
    OwnFileIsKnown
    ReadyIsTrue
PROPERTIES
    UnknownLostOnlyByRace
    Repairable
CHECK_DEADLOCK FALSE
