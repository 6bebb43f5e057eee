SPECIFICATION Spec
CONSTANTS
    Dialects = {"compat", "anthropic", "bedrock", "gemini", "responses"}
    Replies <- SomeReplies
    Capacity = 2
INVARIANTS
    StreamMatchesComplete
    CallsAreWhole
    EndIsTold
PROPERTIES
    StreamEnds
CHECK_DEADLOCK FALSE
