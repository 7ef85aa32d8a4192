SPECIFICATION FairSpec
CONSTANTS
    Servers = {s1}
    Addrs = {a1}
    Callers = {c1}
    Conns = {k1}
    GroupIds = {g1, g2}
    None = None
    AcceptMayFail = FALSE
    MaxCalls = 2
PROPERTY StoppingEnds
CHECK_DEADLOCK FALSE
