\* One source map mentioned twice, on a site that never changes, in a daemon
\* that is shut down while it is at work.
CONSTANTS
    Worker = {w1, w2}
    u1 = u1
    u2 = u2
    p1 = p1
    p2 = p2
    Url = {u1}
    Path = {p1, p2}
    PathOf <- OwnFile
    Tagged = {u1}
    MaxVersion = 1
    Allowed = {"duplicates", "busy close"}
    None = None
    Empty = Empty
    Torn = Torn
    NoHash = NoHash
    NoUrl = NoUrl
SPECIFICATION Spec
PROPERTIES
    HitIsValidated
