SPECIFICATION Spec
CONSTANTS
    Capacity = 1
    Window = 1
    MaxEvents = 3
INVARIANT AnswersArrive
PROPERTY StreamsEnd
CHECK_DEADLOCK FALSE
