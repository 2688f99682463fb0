SPECIFICATION FairSpec
CONSTANTS
    t1 = t1  t2 = t2  t3 = t3  a1 = a1  a2 = a2  a3 = a3
    Task <- MCPair
    Deps <- MCPairDeps
    Before <- MCPairBefore
    MaxParallel = 1
    Attempt = {a1, a2}
    Controls = {"execute", "turn", "skip", "retry", "cancel resume"}
    MaxInputs = 2
    None = None
INVARIANTS RestsRightly
PROPERTIES RunGoesOn
CHECK_DEADLOCK FALSE
