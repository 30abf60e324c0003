CONSTANTS
    Nodes = {n1}
    Configs = {a, b}
    Usable = {a, b}
    Absent = absent
    Requests = {r1}
    Slots = 1
    MaxTasks = 3
    MaxBatches = 1
    MaxEdits = 2
SPECIFICATION Spec
PROPERTIES
    RecheckIsServed
