SPECIFICATION FairSpec
CONSTANTS
    plan = plan
    work = work
    review = review
    fix = fix
    ghost = ghost
    END = END
    NoNext = NoNext
    Entry = fix
    Node <- Nodes
    Name <- Names
    Edge <- Edges
    Route <- Routes
    Fan <- Fans
    Join <- Joins
    Override <- Overrides
    Asks <- Questions
    Retrying = {review}
    MaxSteps = 5
    MaxCalls = 4
INVARIANTS
    OneSuperstepAhead
    CallReports
    CallerInTouch
    DrainStopsRun
PROPERTIES
    WalkSpec
    CallReturns
CHECK_DEADLOCK FALSE
