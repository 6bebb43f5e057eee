SPECIFICATION FanFairSpec
CONSTANT Branches = 3
INVARIANTS
    AllOrError
PROPERTIES
    FailureEndsFanOut
CHECK_DEADLOCK FALSE
