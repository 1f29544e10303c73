\* A peer is learnt, by packet or by scan; the tree is empty at first.
SPECIFICATION CleanSpec
CONSTANTS
    Peers = {p1}
    Features = {Empty, f}
    FirstFeatures = {Empty}
    LocalFeatures = {Empty}
    RemoteFeatures = {f}
    Empty = Empty
    NoNode = NoNode
    Loopback = Loopback
    None = None
    Cancellable = FALSE
    MaxTime = 1
    ReplyCap = 1
PROPERTIES
    ScanReachesTree
\* The service may stop: Serve returns or fails.
CHECK_DEADLOCK FALSE
