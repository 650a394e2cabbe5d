SPECIFICATION FairSpec
CONSTANTS
    Call = {c1, c2}
    Byte = {"nl"}
    MaxBytes = 0
    TailLines = 1
    MarkerLen = 2
    MaxResult = 7
    SizeRange = 1000
    Garbage <- SomeGarbage
PROPERTY
    TimedOutIsTrue
CHECK_DEADLOCK FALSE
