SPECIFICATION FairSpec
CONSTANTS
    Publisher = {p1, p2}
    Consumer = {}
    Replayer = {}
    NoOne = NoOne
    Rows = 3
    Unregistered = {1}
    Limit = 2
    BatchSize = 1
    Windows = {}
    Drain = TRUE
    MaxLen = 6
    MaxFaults = 1
INVARIANT OnceWithoutFaults
PROPERTY EveryRowIsPublished
CHECK_DEADLOCK FALSE
