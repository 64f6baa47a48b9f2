SPECIFICATION Spec
CONSTANTS
    Review = {r1}
    Manifest = {m1, m2}
    Memory = {i1}
    Command = {c1}
    Provider = {p1}
    None = None
    StorageFaults = FALSE
    MaxVersion = 60
SYMMETRY Symmetry
VIEW View
INVARIANTS
    RunningAttemptsCurrent
CHECK_DEADLOCK FALSE
