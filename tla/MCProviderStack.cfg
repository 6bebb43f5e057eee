SPECIFICATION Spec
CONSTANTS
    Callers = {c1, c2}
    Plans <- SomePlans
    Errors <- SomeErrors
    Listed = {}
    MaxRetries = 1
    BaseDelay = 1
    MaxDelay = 2
    ParseRetries = 1
    MaxEntries = 1
    TTL = 1
    Events <- SomeEvents
    Capacity = 1
    c1 = c1
    c2 = c2
INVARIANTS
    OutcomeReported
    CacheHonest
    FallbackLast
PROPERTIES
    CallsEnd
CHECK_DEADLOCK FALSE
