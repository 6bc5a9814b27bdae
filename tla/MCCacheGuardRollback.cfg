\* A daemon that is killed at times, one page at a time, on a site that goes
\* back to an earlier deployment and on again.
CONSTANTS
    Worker = {w1}
    u1 = u1
    u2 = u2
    p1 = p1
    p2 = p2
    Url = {u1}
    Path = {p1, p2}
    PathOf <- OwnFile
    Tagged = {u1}
    MaxVersion = 2
    Allowed = {"crash", "rollback"}
    None = None
    Empty = Empty
    Torn = Torn
    NoHash = NoHash
    NoUrl = NoUrl
SPECIFICATION Spec
PROPERTIES
    HitIsValidated
