SPECIFICATION FairSpec
CONSTANTS
    ProcessFaults = {"kill", "error"}
INVARIANTS
    RestartsCleanly
PROPERTIES
    ServesEventually
    TermStops
