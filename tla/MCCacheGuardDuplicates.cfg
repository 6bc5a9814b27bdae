\* Pulse mode on a site that does not change during a run: source maps are
\* requested up to three times at once.
CONSTANTS
    Worker = {w1, w2, w3}
    u1 = u1
    u2 = u2
    p1 = p1
    p2 = p2
    Url = {u1}
    Path = {p1, p2}
    PathOf <- OwnFile
    Tagged = {u1}
    MaxVersion = 1
    Allowed = {"duplicates", "give up", "crash"}
    None = None
    Empty = Empty
    Torn = Torn
    NoHash = NoHash
    NoUrl = NoUrl
SPECIFICATION Spec
INVARIANTS
    FreshWhenSettled
    MatchingEntriesDescribe
PROPERTIES
    HitIsValidated
