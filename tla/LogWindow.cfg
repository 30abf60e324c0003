CONSTANTS
    Levels = {info}
    Silent = silent
    Setters = {s1}
    BufferSize = 2
    MaxPerPoll = 1
    PageSize = 2
    MaxEntries = 3
SPECIFICATION FairSpec
INVARIANTS
    TypeOK
    WindowIsRecent
    PageIsInOrder
    StaleStreamEnds
PROPERTIES
    LevelTakesEffect
    CloseReturns
