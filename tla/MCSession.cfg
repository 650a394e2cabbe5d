SPECIFICATION Spec
CONSTANTS
    Plan = {p1}
    NoPlan = NoPlan
    MinKeepPercent = 25
    MaxLines = 6
    MaxTroubles = 1
INVARIANTS
    ConvStartsWithUser
    ResultsFollowCall
    RunsRecorded
    ConvIsSuffix
    HistoryKept
    SummaryCovers
    PlanPrefixKept
    CallsAnswered
    ForkSound

    
CHECK_DEADLOCK FALSE
