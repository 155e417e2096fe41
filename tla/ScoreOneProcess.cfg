SPECIFICATION Spec
CONSTANTS
    Process = {"p"}
    NoTask = NoTask
    Task <- OneProcess
    Retrier <- Retriers
    ProcessOf <- MCProcessOf
    Registry <- FrozenRegistry
    FamilyOf <- Families
    Observation = {1, 2}
    Event = {1, 2}
    EventOf <- MCEventOf
    TopicOf <- OneTopic
    Unsupported = {2}
    Arrivals = {"unverified", "verified"}
    AnyOrder = TRUE
    Downgrades = FALSE
    MaxRevision = 2
    MaxBucket = 0
    MaxFaults = 1
INVARIANTS NoRevisionLost OneEventPerTopic OneHolder
CHECK_DEADLOCK FALSE
