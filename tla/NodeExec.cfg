SPECIFICATION FairSpec
CONSTANT Retries = 2
INVARIANTS
    LastAttemptDecides
    CancelStopsRetries
PROPERTIES
    ExecReturns
CHECK_DEADLOCK FALSE
