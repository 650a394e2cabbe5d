SPECIFICATION Spec
CONSTANTS
    Task = {t1}
    Inject = {}
    Main = Main
    Mode = {"interactive"}
    Goal = {}
    MaxTurns = 2
    MinInputs = 0
    MaxInputs = 2
INVARIANTS
    NotifyQueueAlive
