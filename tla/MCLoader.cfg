SPECIFICATION FairSpec
CONSTANTS
    retail = retail
    import = import
    early = early
    blank = blank
    Disc = {retail, import, early, blank}
    NoDisc = NoDisc
    MaxIrqs = 2
    Name <- Names
    DefaultBoot = "PSX.EXE"
    LookupNames = {"PSX.EXE"}
    Info <- MCInfo
    Setups <- MCSetups
    MaxMeddle = 2
    MaxErrors = 2
INVARIANTS
    TypeOK
    CdCallsReady
    NoLeakedFile
    HandoffKernel
    HandoffOneDisc
    MemoryCleared
    SwapBeforeUnlockedBoot
PROPERTIES
    BootsEventually
    SwapBootsEventually
CHECK_DEADLOCK FALSE
