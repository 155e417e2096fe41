SPECIFICATION FairSpec
CONSTANTS
    Process = {"p", "q"}
    NoTask = NoTask
    Task <- TwoProcesses
    Retrier <- Retriers
    ProcessOf <- MCProcessOf
    Registry <- FrozenRegistry
    FamilyOf <- Families
    Observation = {1, 2}
    Event = {1, 2}
    EventOf <- MCEventOf
    TopicOf <- OneTopic
    Unsupported = {}
    Arrivals = {"verified"}
    AnyOrder = FALSE
    Downgrades = FALSE
    MaxRevision = 1
    MaxBucket = 1
    MaxFaults = 1
PROPERTIES ScoresNeverForget RefreshOnlyAges EveryRevisionIsProcessed
CHECK_DEADLOCK FALSE
