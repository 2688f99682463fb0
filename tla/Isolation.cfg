SPECIFICATION FairSpec
CONSTANTS
    Task <- MCTask
    Repo <- MCRepo
    MaxWork = 3
    Days <- MCDays
    None = None
INVARIANTS TypeOK LandedWhole WorkSurvives StandsOnLanded AttemptKeepsPlace UserBranchHolds
PROPERTIES RevertsUnderNobody TurnsEnd
CHECK_DEADLOCK FALSE
