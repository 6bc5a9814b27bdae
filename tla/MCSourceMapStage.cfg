CONSTANTS
    m1 = m1
    m2 = m2
    Jobs = {"assets", "source maps"}
    Task = {1, 2, 3}
    Key = {m1, m2}
    Url = {m1, m2}
    UrlOf <- Mentioned
    Path <- Paths
    Prefix = {"webpack://", ""}
    Documents <- FourDocuments
    Trees <- OneTree
    MaxUnlucky = 1
    MaxSignals = 2
SPECIFICATION LiveSpec
INVARIANTS
    FanOutTypeOK
    WriterTypeOK
    ShutdownTypeOK
    NoCircularWait
    AllOrNothing
    LostOnlyToRivals
    GracefulStop
PROPERTIES
    ImplementsGather
    SignalEndsProcess
    StageEnds
CHECK_DEADLOCK FALSE
