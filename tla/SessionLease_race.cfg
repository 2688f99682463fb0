SPECIFICATION Spec
CONSTANTS
    h1 = h1  h2 = h2  k1 = k1  k2 = k2  k3 = k3  f1 = f1  f2 = f2  g1 = g1  g2 = g2
    Host = {h1, h2}
    Handle = {k1, k2}
    HostOf <- Apart
    File = {f1}
    Group = {}
    Acts = {"close"}
    None = None
INVARIANTS NoWorkLost
CHECK_DEADLOCK FALSE
