SPECIFICATION Spec
SYMMETRY Symmetry
CONSTANTS
    Nodes = {n1, n2}
    Volumes = {v1}
    IPs = {ip1, ip2}
    ForeignIPs = {}
    Workers = {w1, w2}
    NoIP = NoIP
    Gone = Gone
    None = None
    Ops = {"publish", "unpublish"}
    Faults = {"crash", "churn"}
    MaxLag = 2
    MaxCount = 2
INVARIANTS
    CountCovers
