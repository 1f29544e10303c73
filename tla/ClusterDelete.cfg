\* A node returns while the other is about to delete its old object.
SPECIFICATION Spec
CONSTANTS
    n1 = n1
    n2 = n2
    Nodes = {n1, n2}
    NoNode = NoNode
    S3 = S3
    Skew <- NoSkew
    Latency = 1
    ExpireTimeout = 2
    StorageInterval = 1
    MaxClock = 5
SYMMETRY Symmetry
PROPERTIES
    OnlyOldDeleted
