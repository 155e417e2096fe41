SPECIFICATION Spec
CONSTANTS
    Worker = {w1, w2}
    Messages = 2
    Rules = 1
    Webhook = {1}
    EventOf <- MCEventOf
    DomainOf <- MCDomainOf
    WorkspaceLimit = 1
    DomainLimit = 1
    MaxDeliveries = 2
    Aging = FALSE
    MaxFaults = 1
SYMMETRY WorkerSymmetry
INVARIANTS BudgetKept DeliveredWasSent
CHECK_DEADLOCK FALSE
