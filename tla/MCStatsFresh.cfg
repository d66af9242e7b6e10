SPECIFICATION Spec
SYMMETRY Symmetry
CONSTANTS
    Paths = {p1, p2}
    Workers = {w1, w2}
    None = None
    TTL = 2
    MaxCall = 1
    MaxTime = 4
INVARIANTS
    TypeOK
    StatsFresh
