CONSTANTS
    r1 = r1
    r2 = r2
    r3 = r3
    u = u
    p = p
    Calls = {r1, r2, r3}
    MethodOf <- MCMethodOf
SPECIFICATION ClientSpec
INVARIANTS
    OutageOpensCircuit
CHECK_DEADLOCK FALSE
