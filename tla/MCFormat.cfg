SPECIFICATION LogSpec
CONSTANTS
    LogRows = 3
    LogCols = 2
    Char <- Code
    Newline = 10
    Messages <- MCMessages
    Calls <- MCCalls
    MaxLines = 5
INVARIANTS
    TypeOK
    ShowsLastRows
PROPERTIES
    FormattedRight
CHECK_DEADLOCK FALSE
