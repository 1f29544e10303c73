\* A host has both features that are asked for, and loses one of them.
SPECIFICATION FindSpec
CONSTANTS
    Features = {a, b}
    Hosts = {h1}
    Values = {v1}
    None = None
    MaxPasses = 1
    QueueCap = 3
    Names = {a, b}
INVARIANTS
    HostsFound
CHECK_DEADLOCK FALSE
