SPECIFICATION Spec
CONSTANTS
    Review = {r1, r2}
    Manifest = {m1, m2}
    Memory = {i1}
    Command = {c1, c2, c3}
    Provider = {}
    None = None
    StorageFaults = TRUE
    MaxVersion = 60
SYMMETRY Symmetry
VIEW View
INVARIANTS
    PreviewBoundToManifest
    CommittedOnReviewedRevision
    EachDecisionOnce
PROPERTIES
    AuthoritySpec
CHECK_DEADLOCK FALSE
