CONSTANTS
    s1 = s1
    none = none
    legacy = legacy
    empty = empty
    ruled = ruled
    Sources = {s1}
    NoSource = none
    Legacy = legacy
    Bodies = {empty, ruled}
    EmptyBody = empty
    Ports <- MCPorts
    Reserved = {}
    FixedPorts <- MCFixedPorts
    RulePorts <- MCRulePorts
    MaxRevision = 1
    MaxCrashes = 1
SPECIFICATION FairSpec
INVARIANTS
    TypeOK
    AckedIsServing
    RestoredIsPrevious
    LastGoodIsProven
    LegacyStaysRetired
PROPERTIES
    AckIsTruthful
    Promise
    ChangeIsReconciled
    LockIsReleased
