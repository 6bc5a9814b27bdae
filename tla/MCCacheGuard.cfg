\* Daemon mode: anything may fail or end the process at any time, but the site
\* never goes back and URLs have files of their own.
CONSTANTS
    Worker = {w1, w2}
    u1 = u1
    u2 = u2
    p1 = p1
    p2 = p2
    Url = {u1, u2}
    Path = {p1, p2}
    PathOf <- OwnFiles
    Tagged = {u1}
    MaxVersion = 2
    Allowed = {"give up", "failed write", "crash", "busy close"}
    None = None
    Empty = Empty
    Torn = Torn
    NoHash = NoHash
    NoUrl = NoUrl
SPECIFICATION Spec
INVARIANTS
    TypeOK
    FreshRead
PROPERTIES
    HitIsValidated
    ImplementsFetch
