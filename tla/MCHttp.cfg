SPECIFICATION Spec
CONSTANTS
    c1 = c1
    c2 = c2
    Procs = {m, c1, c2}
    Free = Free
    Main = m
    Authorizes = TRUE
    MaxTokens = 3
    Pages = 2
    Questions <- SomeQuestions
    MaxFaults = 2
INVARIANTS
    RetryEnough
    AskedOnce
    ElicitedOnce
PROPERTIES
    RequestsEnd
CHECK_DEADLOCK FALSE
