SPECIFICATION Spec
CONSTANTS
    p1 = p1  p2 = p2  p3 = p3
    Proc = {p1, p2, p3}
    Mortal = {p1}
    MaxPolls = 2
    MaxCalls = 2
    None = None
INVARIANTS OneSwap
CHECK_DEADLOCK FALSE
