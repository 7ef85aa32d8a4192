SPECIFICATION FairSpec
CONSTANTS
    Upstreams = {u1, u2}
    Requests = {r1, r2}
    Admins = {a1}
    None = None
    MayFail = TRUE
    MaxStarts = 1
INVARIANTS
    TypeOK
    ActiveCountExact
    RuntimeFollowsStorage
    RetiredGetsNoNewRequests
PROPERTIES
    RetiredStaysVisible
    RetiredDrains
CHECK_DEADLOCK FALSE
