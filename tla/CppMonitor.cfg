\* One feature with one host, and one pass of the state loop.
SPECIFICATION CppSpec
CONSTANTS
    Features = {a}
    Hosts = {h1}
    Values = {v1}
    None = None
    MaxPasses = 1
    QueueCap = 2
INVARIANT ReadToEnd
\* The state loop may be done.
CHECK_DEADLOCK FALSE
