\* A run fails after it has recorded the build ID.
CONSTANTS
    Build = {b1, b2, b3}
    NoBuild = NoBuild
    MayDie = FALSE
    MaxDeployments = 1
    MaxFailures = 1
    MaxClears = 0
SPECIFICATION Spec
PROPERTIES
    SkipOnlyAfterSuccess
