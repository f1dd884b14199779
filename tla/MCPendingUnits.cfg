CONSTANTS
    o1 = o1
    o2 = o2
    o3 = o3
    A = A
    B = B
    Orders = {o1, o2}
    Products = {A, B}
    Items <- MCItems
    InitialStock <- MCStock
    Refused = {o1}
    Faults = {"crash"}
    MaxFaults = 1
    MaxEdits = 0
SPECIFICATION Spec
INVARIANTS
    PendingUnitsAreReserved
CHECK_DEADLOCK FALSE
