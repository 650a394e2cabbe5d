SPECIFICATION FairSpec
CONSTANTS
    Provider = {"claude", "openai", "responses"}
    JsonProvider = {"openai", "responses"}
    Call = {c1, c2}
    Pieces = 2
    MaxRetries = 2
INVARIANTS
    AttemptPure
    ToolsRunAsCalled
    AbortedNotRun
    CompleteMeansEnded
PROPERTIES
    RequestReturns
