CONSTANTS
    s1 = s1
    none = none
    legacy = legacy
    empty = empty
    ruled = ruled
    Sources = {s1}
    NoSource = none
    Legacy = legacy
    Bodies = {empty, ruled}
    EmptyBody = empty
    Ports <- MCPorts
    Reserved = {}
    FixedPorts <- MCFixedPorts
    RulePorts <- MCRulePorts
    MaxRevision = 2
    MaxCrashes = 0
SPECIFICATION Spec
PROPERTY
    AppliedMeansServing
