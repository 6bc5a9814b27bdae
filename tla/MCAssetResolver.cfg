\* Every graph over four assets, of which one or two are initial, any of the
\* others may be missing and one comes and goes, with errors.
CONSTANTS
    Asset = {a1, a2, a3, a4}
    Start = {a1, a2}
    First = a1
    Graphs <- LooplessGraphs
    Initials <- SomeInitials
    Missings <- AllMissings
    Flaky = {a4}
    MayFail = TRUE
SPECIFICATION Spec
INVARIANTS
    TypeOK
    CollectsReachable
    CollectsOnlyReachable
    AtMostTwoRequests
PROPERTIES
    ComesCloser
    Terminates
\* The resolver ends.
CHECK_DEADLOCK FALSE
