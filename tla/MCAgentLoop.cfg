SPECIFICATION FairSpec
CONSTANTS
    a = a
    b = b
    Tool = {a, b}
    NoTool = NoTool
    Setups <- Agents
    MaxIterations = 3
    MaxCalls = 2
INVARIANTS
    SoundRequest
    HumanDecides
    LimitsKept
PROPERTIES
    EventsTellTheRun
    RunEnds
CHECK_DEADLOCK FALSE
