SPECIFICATION FairSpec
CONSTANTS
    Worker = {w1}
    Messages = 2
    Rules = 2
    Webhook = {1}
    EventOf <- MCEventOf
    DomainOf <- MCDomainOf
    WorkspaceLimit = 2
    DomainLimit = 2
    MaxDeliveries = 3
    Aging = TRUE
    MaxFaults = 2
INVARIANTS NoReservationIsStranded
PROPERTY EveryMessageIsSettled
CHECK_DEADLOCK FALSE
