SPECIFICATION Spec
CONSTANTS
    Alert = {1, 2, 3}
    First = 1
    Second = 2
    Reviewed = {1}
    Reviewer = {ana, ben}
    Opening = 3
    Duty <- MCDuty
    Sla = 3
    Window = 5
    Quarter = 3
    Latency = 1
    MaxTime = 7
    Budget = 3
    Collector = {timer, operator}
    Timer = timer
    Cadence = 3
    Tolerance = 1
    MaxGap = 1
    Share = 50
    MinimumSpan = 3
INVARIANTS PassedMeansUp PassedMeansRemembered LoadableIsComplete HonestLedgersPass
PROPERTY CountedStaysCounted
SYMMETRY MCSymmetry
CHECK_DEADLOCK FALSE
