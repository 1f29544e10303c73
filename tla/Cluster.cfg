\* Two nodes, time enough for one to die, to be forgotten and to return, and
\* scans that take as long as the time between two puts.
SPECIFICATION Spec
CONSTANTS
    n1 = n1
    n2 = n2
    Nodes = {n1, n2}
    NoNode = NoNode
    S3 = S3
    Skew <- OneBehind
    Latency = 1
    ExpireTimeout = 3
    StorageInterval = 2
    MaxClock = 8
CONSTRAINT FewPackets
INVARIANTS
    TypeOK
    DeadForgotten
    StartedMeet
PROPERTIES
    NoResurrection
    LiveKept
    OnlyDeadChosen
