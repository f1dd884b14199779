CONSTANTS
    o1 = o1
    o2 = o2
    o3 = o3
    A = A
    B = B
    Orders = {o1, o2, o3}
    Products = {A, B}
    Items <- MCItems
    InitialStock <- MCStock
    Refused = {o2}
    Faults <- PlainFaults
    MaxFaults = 1
    MaxEdits = 0
SPECIFICATION Spec
INVARIANTS
    SagaTypeOK
    OnlyReservedOrdersAreStored
    PendingUnitsAreReserved
PROPERTIES
    ImplementsOrderPromise
CHECK_DEADLOCK FALSE
