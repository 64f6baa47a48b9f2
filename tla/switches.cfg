SPECIFICATION SwitchesSpec
CONSTANTS
    None = None
    Torn = Torn
    MaxCommits = 3
    MaxFaults = 3
INVARIANTS
    SwitchesTypeOK
    EveryPairWhole
    CommitsSurvive
    OriginalKept
    NeverResurrected
    UndoneIsOriginal
    EveryRecoverable
PROPERTIES
    EverySwitchSpec
    EverySwitchEnds
CHECK_DEADLOCK FALSE
