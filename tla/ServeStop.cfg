\* A peer joins, is expired and joins again while the service is stopped.
SPECIFICATION StopSpec
CONSTANTS
    Peers = {p1}
    Features = {Empty}
    FirstFeatures = {Empty}
    LocalFeatures = {Empty}
    RemoteFeatures = {Empty}
    Empty = Empty
    NoNode = NoNode
    Loopback = Loopback
    None = None
    Cancellable = TRUE
    MaxTime = 1
    ReplyCap = 1
PROPERTIES
    CancelReturns
\* The service may stop: Serve returns or fails.
CHECK_DEADLOCK FALSE
