SPECIFICATION Spec
CONSTANTS
    ScreenW = 64
    ScreenH = 76
    Title <- MCTitle
    Subtitle <- MCSubtitle
    Logs <- MCLogs
INVARIANTS
    TypeOK
    OneStandard
    ScreenReads
PROPERTIES
    CallsReturn
