SPECIFICATION Spec
CONSTANTS
    t1 = t1  t2 = t2  t3 = t3  a1 = a1  a2 = a2  a3 = a3
    Task <- MCPair
    Deps <- MCPairDeps
    Before <- MCPairBefore
    MaxParallel = 1
    Attempt = {a1, a2}
    Controls = {"execute", "stop", "cancel", "retry", "cancel resume", "force", "complete", "incomplete"}
    MaxInputs = 3
    None = None
INVARIANTS TypeOK WorkIsAccountedFor StopHolds LimitIsOwed SessionInOneProcess
PROPERTIES OrderHolds
CHECK_DEADLOCK FALSE
