SPECIFICATION FairSpec
CONSTANTS
    Task = {t1}
    Inject = {x1}
    Main = Main
    Mode = {"interactive", "print"}
    Goal = {"interactive"}
    MaxTurns = 2
    MinInputs = 1
    MaxInputs = 2
PROPERTIES
    ResultsDelivered
    ProcessEnds
