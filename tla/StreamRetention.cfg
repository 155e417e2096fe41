SPECIFICATION Spec
CONSTANTS
    Publisher = {p1}
    Group = {g1, g2}
    Run = {x1}
    NoOne = NoOne
    Required = {g1}
    Row = {r1, r2}
    MaxLen = 2
    MaxFaults = 1
SYMMETRY RowSymmetry
INVARIANT NoGuardIsLeaked
PROPERTIES NothingUnreadIsTrimmed TrimmedIsRecoverable OnlyWhatWasReviewed
CHECK_DEADLOCK FALSE
