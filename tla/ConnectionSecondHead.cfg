SPECIFICATION Spec
CONSTANTS
    Upstreams = {u1}
    Shapes <- SmallShapes
    MaxRequests = 1
    MaxBodySize = 2
    KeepaliveRequests = 2
    Pipelining = FALSE
    None = None
INVARIANT OneResponseHead
CHECK_DEADLOCK FALSE
