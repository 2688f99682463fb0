SPECIFICATION Spec
CONSTANTS
    t1 = t1  t2 = t2  t3 = t3  a1 = a1  a2 = a2  a3 = a3
    Task <- MCFan
    Deps <- MCFanDeps
    Before <- MCFanBefore
    MaxParallel = 1
    Attempt = {a1, a2}
    Controls = {"force", "skip", "stop"}
    MaxInputs = 4
    None = None
INVARIANTS StopHolds
CHECK_DEADLOCK FALSE
