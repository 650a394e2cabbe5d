SPECIFICATION FairSpec
CONSTANTS
    Node = {n1, n2, n3}
    Data = {d1, d2}
    Popper = {p1, p2}
    Null = Null
    NoData = NoData
INVARIANTS
    ListOK
    NodeOwnedOnce
    NoLostWakeup
PROPERTIES
    ImplementsClosableQueue
    CloseReleasesPoppers
    MessagesTaken
CHECK_DEADLOCK FALSE
