\* Two URLs that differ in the query only share a cache file.
CONSTANTS
    Worker = {w1, w2}
    u1 = u1
    u2 = u2
    p1 = p1
    p2 = p2
    Url = {u1, u2}
    Path = {p1, p2}
    PathOf <- OneFile
    Tagged = {u1, u2}
    MaxVersion = 1
    Allowed = {}
    None = None
    Empty = Empty
    Torn = Torn
    NoHash = NoHash
    NoUrl = NoUrl
SPECIFICATION Spec
INVARIANTS
    FreshRead
