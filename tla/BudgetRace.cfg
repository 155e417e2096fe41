SPECIFICATION FairSpec
CONSTANTS
    Worker = {w1, w2}
    Connector = {"openalex", "github", "youtube"}
    Gets <- MCGets
    MaxAttempts <- MCMaxAttempts
    Hops = 2
    FamilyOf <- MCFamilyOf
    TotalLimit = 6
    ConnectorLimit <- MCConnectorLimit
    FamilyLimit <- MCFamilyLimit
    Months = 2
    MaxRuns = 2
    MonthEndRace = FALSE
    MaxFaults = 1
INVARIANTS WithinLimit ChargedOnce
PROPERTY NoReservationIsForgotten
CHECK_DEADLOCK FALSE
