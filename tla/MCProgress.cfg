SPECIFICATION RetrySpec
CONSTANTS
    Nodes = {n1}
    Volumes = {v1, v2}
    IPs = {ip1}
    ForeignIPs = {}
    Workers = {w1, w2}
    NoIP = NoIP
    Gone = Gone
    None = None
    Ops = {"publish", "unpublish"}
    Faults = {"lost"}
    MaxLag = 1
    MaxCount = 1
PROPERTIES
    CallsTerminate
    PublishSucceeds
