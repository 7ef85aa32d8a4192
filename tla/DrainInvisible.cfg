SPECIFICATION Spec
CONSTANTS
    Upstreams = {u1, u2}
    Requests = {r1}
    Admins = {a1}
    None = None
    MayFail = FALSE
    MaxStarts = 1
INVARIANT RemovedActiveIsDeading
CHECK_DEADLOCK FALSE
