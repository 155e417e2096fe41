SPECIFICATION FairSpec
CONSTANTS
    o1 = o1
    o2 = o2
    s1 = s1
    s2 = s2
    e1 = e1
    e2 = e2
    Observation = {o1, o2}
    Source = {s1, s2}
    Erasable = {s2}
    SourceOf <- MCSourceOf
    Event = {e1, e2}
    EventOf <- MCEventOf
    Op = {1, 2}
    Scorer = {w1}
    Executor = {x1}
    Nowhere = Nowhere
    Erased = Erased
    Attempts = 2
    Budget = 3
INVARIANTS EveryRedirectEnds ScoredWhereItBelongs ErasureIsRedone
PROPERTIES NoEditOverAnother OutcomeStands EveryEditIsSettled
CHECK_DEADLOCK FALSE
