SPECIFICATION Spec
CONSTANTS
    Task <- MCTask
    Repo <- MCRepo
    MaxWork = 2
    Days <- MCCrashDays
    None = None
INVARIANTS LandedWorkStays
CHECK_DEADLOCK FALSE
