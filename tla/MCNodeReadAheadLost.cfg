SPECIFICATION Spec
SYMMETRY Symmetry
CONSTANTS
    Targets = {t1, t2}
    IPs = {ip1, ip2}
    Workers = {w1, w2}
    ReadAheads = {ra1, ra2}
    Unset = Unset
    Invalid = Invalid
    Default = Default
    None = None
    NodeFaults = {"error"}
INVARIANTS
    ReadAheadApplied
