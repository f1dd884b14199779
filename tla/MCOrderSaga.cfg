CONSTANTS
    o1 = o1
    o2 = o2
    o3 = o3
    A = A
    B = B
    Orders = {o3}
    Products = {A, B}
    Items <- MCItems
    InitialStock <- MCStock
    Refused = {}
    Faults <- PaymentFaults
    MaxFaults = 3
    MaxEdits = 1
SPECIFICATION Spec
INVARIANTS
    SettlementHasCause
    PaymentEventsAreCaused
    HandledOrderIsSettled
CHECK_DEADLOCK FALSE
