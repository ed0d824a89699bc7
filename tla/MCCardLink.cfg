SPECIFICATION FairSpec
CONSTANTS
    GameId <- MCGameId
    Fits <- MCFits
    MaxGlitches = 1
    MaxLate = 1
INVARIANTS
    TypeOK
    ReplyMatches
    TakenIdIsWhole
    PlainCardIsOnlyPinged
    ReportedIdIsTaken
PROPERTY Returns
CHECK_DEADLOCK FALSE
