CONSTANTS
    Ids = {i1}
    NoSource = NoSource
    Contents = {v1, v2}
    Forms = {f1}
    Bases = {b1}
    Overrides = {o0, o1}
    NoOverride = o0
    Tokens = {t1}
    Calls = {c1, c2}
    MaxRevision = 1
    MaxVersion = 2

SPECIFICATION FairSpec

INVARIANTS
    TypeOK
    NothingDangles
    DeletedStaysDeleted

PROPERTIES
    CompiledAsStored
    NoLostUpdate
    FailureIsCurrent
    RefreshEnds
