------------------------------- MODULE Demux -------------------------------
(***************************************************************************)
(* FeatureDemux and FeatureBuffer (go/demux.go): one goroutine takes the   *)
(* monitor's features from an unbuffered channel and sends each to the     *)
(* subscribers of its name, one after the other.  A subscriber gets them   *)
(* through a channel of its own, or through a FeatureBuffer, whose         *)
(* goroutine always takes the next feature and keeps it until the          *)
(* subscriber does.                                                        *)
(***************************************************************************)
EXTENDS Naturals, Sequences, FiniteSets, Functions

CONSTANTS
    Names,       \* feature names
    Outputs,     \* subscribers
    Queues,      \* the FeatureDemux map: per name, the array of its outputs
    Buffered,    \* the outputs added with a FeatureBuffer
    Capacity,    \* the capacity of the other outputs' channels
    Stalled,     \* the subscribers that may stop receiving at any time
    MaxInput     \* bound on the number of features

ASSUME QueuesAssumption == Queues \in [Names -> Seq(Outputs)]
\* Every output is a channel of its own: one that is added twice would be
\* closed twice.
ASSUME OutputsAssumption ==
    \A o \in Outputs : \E n \in Names : \E i \in DOMAIN Queues[n] :
        /\ Queues[n][i] = o
        /\ \A m \in Names : \A j \in DOMAIN Queues[m] :
               Queues[m][j] = o => m = n /\ j = i
ASSUME CapacityAssumption == Capacity \in Nat \ {0}
ASSUME InputAssumption == MaxInput \in Nat

Subscribed == [o \in Outputs |-> CHOOSE n \in Names : o \in Range(Queues[n])]

VARIABLES
    input,       \* the names of the features sent so far
    closed,      \* the input channel is closed
    pending,     \* the outputs that the feature at hand is yet to be sent to
    queue,       \* per output, what its channel or its FeatureBuffer holds
    shut,        \* the outputs that the demux has closed
    received,    \* per output, the features received from it
    ended        \* the outputs seen closed

vars == <<input, closed, pending, queue, shut, received, ended>>

TypeOK ==
    /\ input \in Seq(Names) /\ Len(input) <= MaxInput
    /\ closed \in BOOLEAN
    /\ pending \in Seq(Outputs)
    /\ queue \in [Outputs -> Seq(DOMAIN input)]
    /\ \A o \in Outputs \ Buffered : Len(queue[o]) <= Capacity
    /\ shut \subseteq Outputs
    /\ received \in [Outputs -> Seq(DOMAIN input)]
    /\ ended \subseteq shut

Init ==
    /\ input = <<>> /\ closed = FALSE
    /\ pending = <<>>
    /\ queue = [o \in Outputs |-> <<>>]
    /\ shut = {}
    /\ received = [o \in Outputs |-> <<>>]
    /\ ended = {}

\* The monitor's send and the demux's receive, with nothing left to forward.
Offer(name) ==
    /\ ~closed /\ pending = <<>> /\ Len(input) < MaxInput
    /\ input' = Append(input, name)
    /\ pending' = Queues[name]
    /\ UNCHANGED <<closed, queue, shut, received, ended>>

Close ==
    /\ ~closed
    /\ closed' = TRUE
    /\ UNCHANGED <<input, pending, queue, shut, received, ended>>

CanSendOneMore(o) ==        \* mutant: off by one
    o \in Buffered \/ Len(queue[o]) <= Capacity

CanSendBounded(o) ==        \* mutant: the buffer is bounded as well
    Len(queue[o]) < Capacity

\* A send to a FeatureBuffer never waits for the subscriber.
CanSend(o) == o \in Buffered \/ Len(queue[o]) < Capacity

Send ==
    /\ pending # <<>> /\ CanSend(Head(pending))
    /\ queue' = [queue EXCEPT ![Head(pending)] = Append(@, Len(input))]
    /\ pending' = Tail(pending)
    /\ UNCHANGED <<input, closed, shut, received, ended>>

ShutOne(o) ==               \* mutant: only one output is closed
    /\ closed /\ pending = <<>> /\ shut = {}
    /\ shut' = shut \cup {o}
    /\ UNCHANGED <<input, closed, pending, queue, received, ended>>

\* The deferred closing of the outputs, in the order of a map iteration.
Shut(o) ==
    /\ closed /\ pending = <<>> /\ o \notin shut
    /\ shut' = shut \cup {o}
    /\ UNCHANGED <<input, closed, pending, queue, received, ended>>

ReceiveNewest(o) ==         \* mutant: the buffer is a stack
    /\ queue[o] # <<>>
    /\ received' = [received EXCEPT ![o] = Append(@, queue[o][Len(queue[o])])]
    /\ queue' = [queue EXCEPT ![o] = SubSeq(@, 1, Len(@) - 1)]
    /\ UNCHANGED <<input, closed, pending, shut, ended>>

\* A subscriber receives what was queued first.
Receive(o) ==
    /\ queue[o] # <<>>
    /\ received' = [received EXCEPT ![o] = Append(@, Head(queue[o]))]
    /\ queue' = [queue EXCEPT ![o] = Tail(@)]
    /\ UNCHANGED <<input, closed, pending, shut, ended>>

EndEarly(o) ==              \* mutant: the buffer is not drained
    /\ o \in shut \ ended
    /\ ended' = ended \cup {o}
    /\ UNCHANGED <<input, closed, pending, queue, shut, received>>

\* A channel is seen closed, and a FeatureBuffer closes its output, when
\* nothing is left in it.
End(o) ==
    /\ o \in shut \ ended /\ queue[o] = <<>>
    /\ ended' = ended \cup {o}
    /\ UNCHANGED <<input, closed, pending, queue, shut, received>>

Next ==
    \/ \E name \in Names : Offer(name)
    \/ Close
    \/ Send
    \/ \E o \in Outputs : Shut(o) \/ Receive(o) \/ End(o)

\* Nobody has to send or close, and the stalled subscribers may stop.
Fairness ==
    /\ WF_vars(Send)
    /\ \A o \in Outputs : WF_vars(Shut(o))
    /\ \A o \in Outputs \ Stalled : WF_vars(Receive(o)) /\ WF_vars(End(o))

Spec == Init /\ [][Next]_vars /\ Fairness
----------------------------------------------------------------------------
\* Each subscriber receives its features, all, once, in order, and the end.
F == INSTANCE Fanout
Implements == F!Spec

\* What that comes to: nothing that a subscriber receives is out of order, was
\* received before or comes after one that is missing, and nothing is missing
\* when its channel is closed.
InOrder == F!InOrder

\* A subscriber that stops receiving, if it has a FeatureBuffer, holds back
\* neither the others nor the demux: they get every feature of theirs ...
OthersReceive ==
    \A o \in Outputs \ Stalled : \A i \in 1..MaxInput :
        i \in DOMAIN input /\ input[i] = Subscribed[o] ~>
            i \in Range(received[o])

\* ... and the end of the input.
OthersEnd == \A o \in Outputs \ Stalled : closed ~> o \in ended
=============================================================================
