SPECIFICATION Spec
CONSTANTS
    Servers = {s1}
    UpstreamIds = {u1}
    RouteIds = {r1}
    Groups = {g1}
    Names = {n1}
    Matches = {m1}
    None = None
    Torn = Torn
INVARIANT MemoryIsPersisted
