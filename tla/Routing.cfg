SPECIFICATION Spec
CONSTANTS
    s1 = s1
    s2 = s2
    h1 = h1
    u1 = u1
    u2 = u2
    u3 = u3
    u4 = u4
    g1 = g1
    Order <- TwoServers
    Hosts = {h1}
    Paths <- SmallPaths
    Configurations <- SmallConfigurations
    Upstreams = {u1, u2, u3, u4}
    Groups = {g1}
    Requests = {r1, r2}
    None = None
    Wrap = 256
    MaxPicks = 3
SYMMETRY Symmetry
INVARIANTS
    TypeOK
    BestRoute
    CandidatesComplete
    RotationIsEven
PROPERTY HostHonoured
CHECK_DEADLOCK FALSE
