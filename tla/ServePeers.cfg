\* A peer joins, is expired and joins again while the configuration changes
\* and the service is stopped; the reply channel is full with one list.
\* Neither property is about the tree.
SPECIFICATION Spec
CONSTANTS
    Peers = {p1}
    Features = {Empty, f}
    FirstFeatures = {Empty}
    LocalFeatures = {Empty, f}
    RemoteFeatures = {Empty}
    Empty = Empty
    NoNode = NoNode
    Loopback = Loopback
    None = None
    Cancellable = TRUE
    MaxTime = 1
    ReplyCap = 1
VIEW WithoutStateLoop
INVARIANTS
    PeersHearLocal
    Farewell
\* The service may stop: Serve returns or fails.
CHECK_DEADLOCK FALSE
