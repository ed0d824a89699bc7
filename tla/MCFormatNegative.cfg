SPECIFICATION LogSpec
CONSTANTS
    LogRows = 3
    LogCols = 2
    Char <- Code
    Newline = 10
    Messages <- MCMessages
    Calls <- MCCalls
    MaxLines = 5
PROPERTY
    PrintsAsDocumented
CHECK_DEADLOCK FALSE
