SPECIFICATION Spec
CONSTANTS
    Task = {t1}
    Inject = {}
    Main = Main
    Mode = {"print"}
    Goal = {"print"}
    MaxTurns = 2
    MinInputs = 1
    MaxInputs = 1
PROPERTIES
    GoalDoneEnds
