SPECIFICATION FairSpec
CONSTANTS
    Attempt <- MCAttempt
    Item <- MCItem
    Rough = {2}
    Days <- MCDays
    MaxTurns = 3
INVARIANTS TypeOK StopEndsAll
PROPERTIES ReadIsLast VerdictStands ChildrenEnd
CHECK_DEADLOCK FALSE
