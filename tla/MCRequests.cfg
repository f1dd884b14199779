CONSTANTS
    r1 = r1
    r2 = r2
    c1 = c1
    c2 = c2
    gu = gu
    gp = gp
    Calls = {r1, r2, gu, gp}
    MethodOf <- MCMethodOf
    Requests = {c1, c2}
    Editors = {e1}
    HttpRequests = {h1, h2, h3}
    Clients = {k1, k2}
    MaxCategories = 3
SPECIFICATION Spec
SYMMETRY Symmetry
INVARIANTS
    RequestsTypeOK
    OneRowPerRequest
    RowHasDocument
    AnsweredUpdateWasMade
    ReservedAtMostOnce
    TrueIsReserved
    ChargesFollowPayments
    RefusedLeavesNothing
    AtMostOnePrimary
    FoundUnderAncestorsOnly
PROPERTIES
    DeletedStaysDeleted
CHECK_DEADLOCK FALSE
