SPECIFICATION FairSpec
CONSTANTS
    Servers = {s1, s2}
    Addrs = {a1}
    Callers = {c1, c2}
    Conns = {k1}
    GroupIds = {g1, g2}
    None = None
    AcceptMayFail = FALSE
    MaxCalls = 3
INVARIANTS
    TypeOK
    CounterExact
    GroupsWellFormed
    ListenersOwnSockets
PROPERTY
    IdleListenerReleased
CHECK_DEADLOCK FALSE
