CONSTANTS
    o1 = o1
    o2 = o2
    o3 = o3
    A = A
    B = B
    Orders = {o1, o2}
    Products = {A, B}
    Items <- MCItems
    InitialStock <- MCStock
    Refused = {o2}
    Faults <- Redeliveries
    MaxFaults = 1
    MaxEdits = 0
SPECIFICATION FairSpec
INVARIANTS
    NoMixedOutcome
PROPERTIES
    StoredOrderSettled
    DecisionIsFinal
CHECK_DEADLOCK FALSE
