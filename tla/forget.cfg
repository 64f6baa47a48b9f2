SPECIFICATION Spec
CONSTANTS
    Review = {r1, r2}
    Manifest = {m1, m2}
    Memory = {i1}
    Command = {c1}
    Provider = {p1}
    None = None
    StorageFaults = TRUE
    MaxVersion = 60
SYMMETRY Symmetry
VIEW View
INVARIANTS
    ForgottenIsErased
    StrandedOnlyByForget
CHECK_DEADLOCK FALSE
