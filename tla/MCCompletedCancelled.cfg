CONSTANTS
    o1 = o1
    o2 = o2
    o3 = o3
    A = A
    B = B
    Orders = {o1}
    Products = {A, B}
    Items <- MCItems
    InitialStock <- MCStock
    Refused = {}
    Faults = {"db", "uncertain"}
    MaxFaults = 3
    MaxEdits = 0
SPECIFICATION Spec
PROPERTIES
    CompletedOrderIsNotCancelled
CHECK_DEADLOCK FALSE
