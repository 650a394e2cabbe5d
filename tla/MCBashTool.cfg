SPECIFICATION FairSpec
CONSTANTS
    Call = {c1}
    Byte = {"nul", "nl", "l2", "e0", "c8", "ca"}
    MaxBytes = 3
    TailLines = 1
    MarkerLen = 2
    MaxResult = 7
    SizeRange = 1000
    Garbage <- SomeGarbage
INVARIANTS
    
    TimeoutKillsGroup
    ResultSound
PROPERTIES
    ToolReturns
CHECK_DEADLOCK FALSE
