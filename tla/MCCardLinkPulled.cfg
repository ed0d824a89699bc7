SPECIFICATION Spec
CONSTANTS
    GameId <- MCGameId
    Fits <- MCFits
    MaxGlitches = 0
    MaxLate = 0
INVARIANT TrueMeansAccepted
CHECK_DEADLOCK FALSE
