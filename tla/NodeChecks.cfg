CONSTANTS
    Nodes = {n1, n2}
    Configs = {a, b}
    Usable = {a, b}
    Absent = absent
    Requests = {r1}
    Slots = 1
    MaxTasks = 2
    MaxBatches = 1
    MaxEdits = 2
SPECIFICATION Spec
INVARIANTS
    TypeOK
    OneLiveTask
    BatchAccounts
PROPERTIES
    StopSparesSingles
SYMMETRY Symmetry
