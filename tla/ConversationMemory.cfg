SPECIFICATION MemoryFairSpec
CONSTANTS
    Role = {"system", "user"}
    Size = {1, 3, 7}
    MaxMessages = 3
    MaxTokens = 5
    MaxAdds = 5
INVARIANTS
    TrimsRight
PROPERTIES
    PlainAddReturns
CHECK_DEADLOCK FALSE
