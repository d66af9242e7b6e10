SPECIFICATION Spec
SYMMETRY Symmetry
CONSTANTS
    Volumes = {a, b}
    Snapshots = {s}
    New = {b}
    Workers = {w1, w2}
    Classes <- MCClasses
    None = None
INVARIANTS
    ReportsHold
    LocksMatchMounts
PROPERTIES
    RefusedChangesNothing
