\* A node without peers whose configuration changes back and forth, with or
\* without features at first, until it is stopped.
SPECIFICATION LocalSpec
CONSTANTS
    Peers = {}
    Features = {Empty, f}
    FirstFeatures = {Empty, f}
    LocalFeatures = {Empty, f}
    RemoteFeatures = {Empty}
    Empty = Empty
    NoNode = NoNode
    Loopback = Loopback
    None = None
    Cancellable = TRUE
    MaxTime = 0
    ReplyCap = 1
INVARIANTS
    LocalDue
    StoredDue
PROPERTIES
    TreeFollowsLocal
    S3FollowsLocal
\* The service may stop: Serve returns or fails.
CHECK_DEADLOCK FALSE
