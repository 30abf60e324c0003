CONSTANTS
    a = a
    b = b
    c3 = c3
    NodeIds = {n1, n2, n3}
    Names = {a, b, c3}
    Rank <- MCRank
    Identities = {x, y}
    Subs = {s1}
    Manual = manual
    Urls = {u1, u2}
    Ports = {p1}
    Missing = missing
    Calls = {r1, r2}

SPECIFICATION Spec

INVARIANTS
    TypeOK
    NothingDangles
    SourceIsDocument

PROPERTIES
    BindingKeepsMeaning
    SyncIsCurrent

CONSTRAINT Few
SYMMETRY Symmetry
