SPECIFICATION RetrySpec
CONSTANTS
    Targets = {t1, t2}
    IPs = {ip1}
    Workers = {w1, w2}
    ReadAheads = {ra1, ra2}
    Unset = Unset
    Invalid = Invalid
    Default = Default
    None = None
    NodeFaults = {"error", "crash"}
INVARIANTS
    TypeOK
    MountsNeverStack
    AnswersTrue
PROPERTIES
    UnpublishSucceeds
