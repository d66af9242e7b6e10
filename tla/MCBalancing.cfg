SPECIFICATION Spec
SYMMETRY Symmetry
CONSTANTS
    Nodes = {n1, n2}
    Volumes = {v1, v2}
    IPs = {ip1, ip2}
    ForeignIPs = {other}
    Workers = {w1, w2}
    NoIP = NoIP
    Gone = Gone
    None = None
    Ops = {"publish", "unpublish"}
    Faults = {"crash", "signal"}
    MaxLag = 1
    MaxCount = 2
INVARIANTS
    TypeOK
    LocksMatchCalls
    CopiesTrue
    CountMatches
PROPERTIES
    ImplementsBalancer
    AssignNeverSkews
