CONSTANTS
    Levels = {info}
    Silent = silent
    Setters = {s1}
    BufferSize = 3
    MaxPerPoll = 3
    PageSize = 3
    MaxEntries = 2
SPECIFICATION Spec
PROPERTIES
    NothingSkipped
