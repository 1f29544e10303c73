\* Two subscribers with buffers, one of them stalled, and one with a channel
\* for one feature.
SPECIFICATION Spec
CONSTANTS
    foo = foo
    bar1 = bar1
    bar2 = bar2
    Names <- MCNames
    Outputs <- MCOutputs
    Queues <- MCQueues
    Buffered = {foo, bar1}
    Capacity = 1
    Stalled = {bar1}
    MaxInput = 4
INVARIANTS
    TypeOK
    InOrder
PROPERTIES
    Implements
    OthersReceive
    OthersEnd
\* The example ends: all outputs are closed.
CHECK_DEADLOCK FALSE
