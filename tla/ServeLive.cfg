\* A peer whose features change, learnt by packet or by scan, leftovers in the tree.
SPECIFICATION LiveSpec
CONSTANTS
    Peers = {p1}
    Features = {Empty, f}
    FirstFeatures = {Empty}
    LocalFeatures = {Empty}
    RemoteFeatures = {Empty, f}
    Empty = Empty
    NoNode = NoNode
    Loopback = Loopback
    None = None
    Cancellable = FALSE
    MaxTime = 2
    ReplyCap = 1
INVARIANTS
    TypeOK
    RemoteDue
PROPERTIES
    PacketReachesTree
    RepliesDrain
\* The service may stop: Serve returns or fails.
CHECK_DEADLOCK FALSE
