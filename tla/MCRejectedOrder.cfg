CONSTANTS
    o1 = o1
    o2 = o2
    o3 = o3
    A = A
    B = B
    Orders = {o1, o2, o3}
    Products = {A, B}
    Items <- MCItems
    InitialStock <- MCStock
    Refused = {}
    Faults = {}
    MaxFaults = 0
    MaxEdits = 0
SPECIFICATION Spec
INVARIANTS
    RejectedOrderHoldsNoStock
CHECK_DEADLOCK FALSE
