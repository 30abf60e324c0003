CONSTANTS
    Nodes = {n1}
    Configs = {a, off}
    Usable = {a}
    Absent = absent
    Requests = {r1}
    Slots = 1
    MaxTasks = 3
    MaxBatches = 2
    MaxEdits = 1
SPECIFICATION FairSpec
PROPERTIES
    ChecksEnd
