SPECIFICATION FairSpec
CONSTANTS
    MaxTurns = 2
    MaxEvents = 4
    MaxStarts = 2
INVARIANTS
    FlushSafe
    NothingUnshown
    ShownIsLogged
    ReplayIsRecent
PROPERTIES
    FlushReturns
