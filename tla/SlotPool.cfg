SPECIFICATION FairSpec
CONSTANTS
    root = root  a = a  b = b  r1 = r1   a1 = a1  b1 = b1  none = none
    Node <- MCNode
    Root <- root
    Task <- MCTask
    Owner <- MCOwner
    Limit = 1
    MaxInputs = 2
    None <- none
INVARIANTS
    TypeOK
    LimitHolds
    NoIdleSlot
    TreeNeverStalls
PROPERTIES
    KeepsBudget
    WaitersGoOn
CHECK_DEADLOCK FALSE
