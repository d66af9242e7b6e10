SPECIFICATION Spec
SYMMETRY Symmetry
CONSTANTS
    Nodes = {n1, n2}
    Volumes = {v1, v2}
    IPs = {ip1, ip2}
    ForeignIPs = {other}
    Workers = {w1, w2}
    NoIP = NoIP
    Gone = Gone
    None = None
    Ops = {"publish"}
    Faults = {"crash", "lost", "touch", "signal", "unsynced"}
    MaxLag = 1
    MaxCount = 2
INVARIANTS
    PublishedIPStays
