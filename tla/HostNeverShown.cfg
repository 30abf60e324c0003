CONSTANTS
    Nodes = {n1}
    Listeners = {l1}
    Ports = {p1}
    Direct = direct
    NoExit = noexit
    Requests = {r1}
    MaxRuns = 2
    MaxEdits = 1
SPECIFICATION Spec
INVARIANTS
    HostNeverShown
