\* Pulses and daemons in any order, with failures, kills and --clear-cache; the
\* site goes back and forth between its builds.
CONSTANTS
    Build = {b1, b2, b3}
    NoBuild = NoBuild
    MayDie = TRUE
    MaxDeployments = 2
    MaxFailures = 1
    MaxClears = 1
SPECIFICATION LiveSpec
INVARIANTS
    TypeOK
    NoRepeatedAlert
PROPERTIES
    DrawsLevel
    CatchesUp
