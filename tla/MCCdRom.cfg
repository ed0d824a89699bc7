SPECIFICATION FairSpec
CONSTANTS
    Drives <- MCDrives
    MaxForeign = 2
INVARIANTS
    TypeOK
    AwaitedIsComing
    UnlockIsReal
    UnlockIfPossible
PROPERTIES
    NeverStuck
    ImplementsCalls
CHECK_DEADLOCK FALSE
