SPECIFICATION Spec
CONSTANTS
    Servers = {s1, s2}
    Addrs = {a1, a2}
    Callers = {c1}
    Conns = {k1}
    GroupIds = {g1, g2, g3}
    None = None
    AcceptMayFail = TRUE
    MaxCalls = 4
INVARIANTS
    RunningMeansRegistered
    StoppedMeansNotServed
PROPERTY
    ImplementsServedAddress
CHECK_DEADLOCK FALSE
