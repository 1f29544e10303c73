----------------------------- MODULE MCCluster -----------------------------
(* Cluster with two nodes, for TLC.                                         *)
EXTENDS Cluster, FiniteSets, TLC

CONSTANTS n1, n2

\* The clock of one node is one behind the other's and the bucket's.
OneBehind == [x \in Nodes \cup {S3} |-> IF x = n1 THEN 0 ELSE 1]

NoSkew == [x \in Nodes \cup {S3} |-> 0]

\* No more than two packets are under way at a time, and fewer in the end.
FewPackets ==
    Cardinality(packets) <= 2 /\ Cardinality(packets) <= MaxClock - clock

Symmetry == Permutations(Nodes)
=============================================================================
