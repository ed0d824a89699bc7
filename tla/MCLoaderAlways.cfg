SPECIFICATION FairSpec
CONSTANTS
    retail = retail
    import = import
    early = early
    blank = blank
    Disc = {retail, import, early, blank}
    NoDisc = NoDisc
    MaxIrqs = 2
    Name <- Names
    DefaultBoot = "PSX.EXE"
    LookupNames = {"PSX.EXE"}
    Info <- MCInfo
    Setups <- SwapSetups
    MaxMeddle = 1
    MaxErrors = 1
INVARIANT
    SwapBeforeEveryBoot
CHECK_DEADLOCK FALSE
