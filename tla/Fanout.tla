------------------------------- MODULE Fanout -------------------------------
(***************************************************************************)
(* What a FeatureDemux (go/demux.go) promises its subscribers: each        *)
(* receives the features of its name, all of them, once and in order, and  *)
(* sees its channel closed after the last one.  A feature is its position  *)
(* in the input, which only has to remember the names.                     *)
(***************************************************************************)
EXTENDS Naturals, Sequences, Functions

CONSTANTS
    Names,       \* feature names
    Outputs,     \* subscribers
    Subscribed,  \* the name each of them is added under
    MaxInput     \* bound on the number of features

VARIABLES
    input,       \* the names of the features sent so far
    closed,      \* the input channel is closed
    received,    \* per output, the features received from it
    ended        \* the outputs seen closed

vars == <<input, closed, received, ended>>

Init ==
    /\ input = <<>> /\ closed = FALSE
    /\ received = [o \in Outputs |-> <<>>]
    /\ ended = {}

\* The features that are yet to be received from an output.
Due(o) ==
    {i \in DOMAIN input : input[i] = Subscribed[o]} \ Range(received[o])

Offer(name) ==
    /\ ~closed /\ Len(input) < MaxInput
    /\ input' = Append(input, name)
    /\ UNCHANGED <<closed, received, ended>>

Close ==
    /\ ~closed
    /\ closed' = TRUE
    /\ UNCHANGED <<input, received, ended>>

Deliver(o) ==
    /\ \E i \in Due(o) :
           /\ \A j \in Due(o) : i <= j
           /\ received' = [received EXCEPT ![o] = Append(@, i)]
    /\ UNCHANGED <<input, closed, ended>>

End(o) ==
    /\ closed /\ Due(o) = {}
    /\ ended' = ended \cup {o}
    /\ UNCHANGED <<input, closed, received>>

Next ==
    \/ \E name \in Names : Offer(name)
    \/ Close
    \/ \E o \in Outputs : Deliver(o) \/ End(o)

Spec == Init /\ [][Next]_vars
----------------------------------------------------------------------------
\* A subscriber has received the features of its name up to the last one it
\* has received, in order and each once, and all of them when it sees the end.
InOrder ==
    \A o \in Outputs :
        /\ \A i, j \in DOMAIN received[o] :
               i < j => received[o][i] < received[o][j]
        /\ \A last \in Range(received[o]) : \A i \in 1..last :
               input[i] = Subscribed[o] <=> i \in Range(received[o])
        /\ o \in ended => closed /\ Due(o) = {}
=============================================================================
