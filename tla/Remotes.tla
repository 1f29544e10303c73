------------------------------ MODULE Remotes ------------------------------
(***************************************************************************)
(* The table of remote nodes (type remoteNodes, service/node.go): what the *)
(* process knows of each peer, keyed by IP address.  The two writers are   *)
(* the UDP receive loop and the S3 scan; both go through Update, and the   *)
(* scan also through Expire.  Each operation holds the table's lock from   *)
(* its first line to its last, so each is one operator on the whole table. *)
(*                                                                         *)
(* A peer is an IPv4 address, so resolveAddr always succeeds and the       *)
(* address a peer is answered at is the peer itself.                       *)
(***************************************************************************)
EXTENDS Naturals

CONSTANTS
    Peers,      \* IP addresses of the other nodes
    Features,   \* the possible contents of a node's feature map
    NoNode      \* stands for a missing entry of remotes.ipAddrs

Node == [features : Features, time : Nat]

ASSUME NoNodeAssumption == NoNode \notin Node

Tables == [Peers -> Node \cup {NoNode}]

NoRemotes == [p \in Peers |-> NoNode]

Known(table) == {p \in Peers : table[p] # NoNode}

\* remoteNodes.updatable: would a node stamped t be of use?
Updatable(table, p, t) == p \in Known(table) => table[p].time < t

\* remoteNodes.update: an entry is replaced by a strictly newer one only.
Update(table, p, node) ==
    IF Updatable(table, p, node.time)
    THEN [table EXCEPT ![p] = node]
    ELSE table

\* The addresses update returns: only a peer that had no entry yields one.
NewAddrs(table, p) == {p} \ Known(table)

\* The entries remoteNodes.expire removes.
Expired(table, threshold) == {p \in Known(table) : table[p].time < threshold}

\* remoteNodes.expire
Expire(table, threshold) ==
    [p \in Peers |->
        IF p \in Expired(table, threshold) THEN NoNode ELSE table[p]]
=============================================================================
