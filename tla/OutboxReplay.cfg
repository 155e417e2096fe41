SPECIFICATION Spec
CONSTANTS
    Publisher = {p1}
    Consumer = {c1}
    Replayer = {r1, r2}
    NoOne = NoOne
    Rows = 2
    Unregistered = {}
    Limit = 1
    BatchSize = 1
    Windows = {2}
    Drain = TRUE
    MaxLen = 4
    MaxFaults = 3
SYMMETRY RelaySymmetry
INVARIANTS PublishedIsInStream SavedProgressVerifies
CHECK_DEADLOCK FALSE
