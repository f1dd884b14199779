CONSTANTS
    Products = {p1}
    Sessions = {s1, s2, s3}
    Quantities = {1}
    Stocks = {2}
    NoSession = NoSession
SPECIFICATION FairSpec
INVARIANTS
    TypeOK
    NoOverselling
    NoLostUpdate
    LockDiscipline
PROPERTIES
    ImplementsAtomicInventory
    RowLockReleased
