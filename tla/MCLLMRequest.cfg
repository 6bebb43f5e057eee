SPECIFICATION RequestSpec
CONSTANTS
    Dialects = {"compat", "anthropic", "bedrock", "gemini", "responses"}
    Answers <- SomeAnswers
    Ids <- SomeIds
    Parts = {"image url", "wav", "pdf url", "zip", "no data"}
    Options <- SomeOptions
    MaxMessages = 7
INVARIANTS
    CallsReplayed
    NothingLost
    RequestMeans
CHECK_DEADLOCK FALSE
