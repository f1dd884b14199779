CONSTANTS
    Replicas = {r1, r2}
    Partitions = {p1, p2}
    NoOwner = NoOwner
    MaxEvents = 2
    MaxUpsets = 1
    Clients = {c1, c2}
    Secondaries = {s1, s2}
    MaxUsers = 3
    MaxFaults = 1
    a = a
    b = b
    Pods = {a, b}
    Deployments <- MCDeployments
    MaxOutages = 1
    MaxStops = 1
    operator = operator
    cron = cron
    Products = {d}
    Admins = {operator, cron}
    Asks <- MCAsks
    MaxChanges = 2
SPECIFICATION Spec
INVARIANTS
    ReplicasTypeOK
    CommitsOnlyFinished
    OneEventInFlight
    AliasOnMappedIndex
    ToldIdsAreFound
PROPERTIES
    MissedBeforeFirstCommit
    EventuallyFinished
    CreationRaceEnds
    RegisteredUsersAreFound
    EveryPodIsWired
    OutageCutsTraffic
    RaceLeavesTables
    FullReindexRepairs
CHECK_DEADLOCK FALSE
