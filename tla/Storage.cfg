SPECIFICATION ProcessSpec
CONSTANTS
    Servers = {s1}
    UpstreamIds = {u1, u2}
    RouteIds = {r1, r2}
    Groups = {g1}
    Names = {n1}
    Matches = {m1}
    None = None
    Torn = Torn
    Unknown = Unknown
    MaxErrors = 2
SYMMETRY Symmetry
INVARIANTS
    ProcessTypeOK
    MainAlwaysLoads
    ConfigsSound
    AnswersHold
PROPERTY ImplementsConfigStore
