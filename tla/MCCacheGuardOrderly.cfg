\* Pages and assets: URLs with files of their own, each requested once at a
\* time, in runs that end in Close with no operation failing, on a site that may
\* go back, with an unsteady HEAD and starts that do not load the map.
CONSTANTS
    Worker = {w1, w2}
    u1 = u1
    u2 = u2
    p1 = p1
    p2 = p2
    Url = {u1, u2}
    Path = {p1, p2}
    PathOf <- OwnFiles
    Tagged = {u1, u2}
    MaxVersion = 2
    Allowed = {"rollback", "bare head", "no init"}
    None = None
    Empty = Empty
    Torn = Torn
    NoHash = NoHash
    NoUrl = NoUrl
SPECIFICATION Spec
INVARIANTS
    EntriesDescribeFiles
PROPERTIES
    HitIsValidated
