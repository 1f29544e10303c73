------------------------------ MODULE MCServe ------------------------------
(* Serve without its state loop, for runs that ask for nothing it does;     *)
(* Serve with no peers; and Serve started on an empty tree.                 *)
EXTENDS Serve

\* No step but those of the state loop, and the notification of it, depends on
\* the variables of that loop, on what is to be forwarded to it, on the tree or
\* on the history of the tree: states that differ in no more are as one.
WithoutStateLoop ==
    <<shared, notify, [c \in Finishers |-> notifyTo[c]], reply,
      mainPc, forward \ {"state"}, awaiting, configPc,
      receiveVars, transmitVars, storageVars, stored \in {Empty, None},
      peerVars>>

\* With nobody to exchange packets with, the receive loop has no step to take,
\* and nothing but the return of Serve waits for the transmit loop: it is left
\* in its first round for good, as if the network never took the packet.
LocalNext == Config \/ Main \/ State \/ Storage

LocalSpec == Init /\ [][LocalNext]_vars /\ LocalFairness

\* No earlier process left anything in the tree.
CleanInit == Init /\ \A h \in Hosts : tree[h] = Empty

CleanSpec == CleanInit /\ [][Next]_vars /\ Fairness
=============================================================================
