------------------------------ MODULE MCDemux ------------------------------
(* The subscriptions of the example in go/demux.go, the second one for bar *)
(* with a channel instead of a buffer as in go/demux_test.go.              *)
EXTENDS Demux

CONSTANTS foo, bar1, bar2

MCNames == {"foo", "bar", "quux"}
MCOutputs == {foo, bar1, bar2}
MCQueues == [foo |-> <<foo>>, bar |-> <<bar1, bar2>>, quux |-> <<>>]
=============================================================================
