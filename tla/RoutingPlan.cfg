CONSTANTS
    A = A
    B = B
    L = L
    M = M
    n = n
    h = h
    cn = cn
    Categories = {A, B, L, M}
    Nodes = {n}
    Hosts = {h, cn}
    Geo = {cn}
    Match = match
    MaxGroups = 3
    Direct = direct
    Reject = reject
    Missing = missing
    Slots = {1, 2}
    Documents <- MCDocuments
    Lists <- MCLists
    MaxRows = 2

SPECIFICATION Spec

SYMMETRY Symmetry

INVARIANTS
    TypeOK
    EditsCompile
    NothingLeaks
    DnsFollowsTraffic
