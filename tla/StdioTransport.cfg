SPECIFICATION StdioFairSpec
CONSTANTS
    Caller = {c1, c2}
    Nobody = Nobody
    StdinSize = 1
    StdoutSize = 1
    MaxHandlers = 1
INVARIANTS
    OwnAnswer
    NoOrphan
PROPERTIES
    WaitsEnd
CHECK_DEADLOCK FALSE
