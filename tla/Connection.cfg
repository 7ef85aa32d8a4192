SPECIFICATION FairSpec
CONSTANTS
    Upstreams = {u1, u2}
    Shapes <- SmallShapes
    MaxRequests = 3
    MaxBodySize = 2
    KeepaliveRequests = 2
    Pipelining = FALSE
    None = None
INVARIANTS
    TypeOK
    FramesKept
    ForwardedOnceAndWhole
    RequestsForwardedTruly
    CloseMeansClose
    CleanEndIsLogged
PROPERTY RequestConcluded
CHECK_DEADLOCK FALSE
