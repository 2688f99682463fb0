SPECIFICATION Spec
CONSTANTS
    h1 = h1  h2 = h2  k1 = k1  k2 = k2  k3 = k3  f1 = f1  f2 = f2  g1 = g1  g2 = g2
    Host = {h1, h2}
    Handle = {k1, k2, k3}
    HostOf <- Both
    File = {f1}
    Group = {g1, g2}
    Acts = {"close", "op", "die", "disk"}
    None = None
INVARIANTS OneHostRuns HolderIsRecorded
CHECK_DEADLOCK FALSE
