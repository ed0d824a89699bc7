SPECIFICATION Spec
CONSTANTS
    Char <- MCChar
    Separators = {":", "/"}
    Semicolon = ";"
    Lower <- MCLower
    Expected <- MCExpected
    Cdrom <- MCCdrom
    Scps <- MCScps
    Slps <- MCSlps
    Version <- MCVersion
    Size = 8
    Paths <- MCPaths
    Known = {"a", "b", "c", "d"}
    ScpsDiscs = {"a", "c"}
    Unknown = {"e"}
    SerialOf <- MCSerials
    NoSerial <- MCNoSerial
INVARIANTS
    TypeOK
    IdIsCanonical
    RefusedIfTooLong
CHECK_DEADLOCK FALSE
