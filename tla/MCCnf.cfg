SPECIFICATION Spec
CONSTANTS
    Char <- MCChar
    Newline = "n"
    Equals = "="
    Blank = {" ", "n"}
    Digit <- MCDigit
    Hex <- MCHex
    Boot <- MCBoot
    Nibbles = 2
    Texts <- MCTexts
INVARIANTS
    TypeOK
    StoredIfPresent
    ReadsFirstLine
CHECK_DEADLOCK FALSE
