SPECIFICATION Spec
CONSTANTS
    Review = {r1, r2}
    Manifest = {m1, m2, m3}
    Memory = {}
    Command = {c1}
    Provider = {p1}
    None = None
    StorageFaults = TRUE
    MaxVersion = 60
SYMMETRY Symmetry
VIEW View
INVARIANTS
    TypeOK
    StatusMatchesAttempt
    SendsAreRecorded
PROPERTIES
    DirectionChangeStalesTheRest
    FinishedIsFinal
    StaleNeedsNewManifest
CHECK_DEADLOCK FALSE
