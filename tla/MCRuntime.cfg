SPECIFICATION Spec
CONSTANTS
    Task = {t1, t2}
    Inject = {x1}
    Main = Main
    Mode = {"interactive", "print"}
    Goal = {"interactive", "print"}
    MaxTurns = 2
    MinInputs = 1
    MaxInputs = 2
INVARIANTS
    TaskAccounting
    QueueAliveWhileUsed
    AllTasksDelivered
    NothingLeftBehind
    InterruptStops
PROPERTIES
    ImplementsTaskDelivery
SYMMETRY Symmetry
