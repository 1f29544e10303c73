\* One feature with two hosts, left by an earlier process or not, and two
\* passes of the state loop.
SPECIFICATION Spec
CONSTANTS
    Features = {a}
    Hosts = {h1, h2}
    Values = {v1, v2}
    None = None
    MaxPasses = 2
    QueueCap = 2
INVARIANTS
    TypeOK
    ChangeDue
    BootComplete
\* The state loop may be done.
CHECK_DEADLOCK FALSE
PROPERTIES
    FollowsTree
    CloseEnds
