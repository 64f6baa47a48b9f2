SPECIFICATION FairSpec
CONSTANTS
    Review = {r1}
    Manifest = {m1, m2}
    Memory = {}
    Command = {c1}
    Provider = {p1, p2}
    None = None
    StorageFaults = FALSE
    MaxVersion = 4
INVARIANTS
    RunningHasCaller
PROPERTIES
    RunningSettles
    ProjectReopens
CHECK_DEADLOCK FALSE
