SPECIFICATION FairSpec
CONSTANTS
    n1 = n1
    n2 = n2
    v1 = v1
    v2 = v2
    Names = {n1, n2}
    Values = {v1, v2}
    StaticTable <- OneStatic
    Octets <- SmallOctets
    Overhead = 1
    Width = 8
    GroupBits = 3
    LastShift = 6
    NoRange = NoRange
    MaxStreams = 2
    Requests <- SmallRequests
    Trailers <- OneTrailer
    TableSize = 2
    TableSizes = {1}
    Window = 2
    InFlight = 1
    MaxBodySize = 1
    FrameSize = 1
    Lengths = {0, 2}
    Found <- SmallFound
    Asked <- SmallAsked
    NoPath = NoPath
    Second = 2
    Upstreams = {u1, u2}
    None = None
INVARIANTS
    TypeOK
    TableInStep
    RequestsIntact
    ResponsesWellFormed
    CompletedAreAnswered
    RangesInside
    FilesServedTruly
    EncodingsExact
PROPERTY RequestConcluded
CHECK_DEADLOCK FALSE
