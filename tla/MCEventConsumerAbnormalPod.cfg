CONSTANTS
    Replicas = {r1, r2}
    Partitions = {p1}
    NoOwner = NoOwner
    MaxEvents = 2
    MaxUpsets = 1
SPECIFICATION ConsumerFairSpec
PROPERTIES
    AbnormalPodIsRestarted
CHECK_DEADLOCK FALSE
