--------------------------- MODULE RemotesProofs ---------------------------
(***************************************************************************)
(* The laws of the table of remote nodes, for all peers and features.  Its *)
(* two writers, the receive loop and the S3 scan, take turns in any order: *)
(* which of them is first makes no difference to what the table ends up    *)
(* with, as long as no two stamps are the same.                            *)
(***************************************************************************)
EXTENDS Remotes, TLAPS

\* The table stays a table: what is known of a peer is a node or nothing.
LEMMA UpdateType ==
    ASSUME NEW t \in Tables, NEW p \in Peers, NEW n \in Node
    PROVE  Update(t, p, n) \in Tables
  BY DEF Update, Tables

LEMMA ExpireType ==
    ASSUME NEW t \in Tables, NEW limit \in Nat
    PROVE  Expire(t, limit) \in Tables
  BY DEF Expire, Expired, Tables

\* A known peer has an entry with a stamp.
LEMMA KnownNode ==
    ASSUME NEW t \in Tables, NEW p \in Known(t)
    PROVE  p \in Peers /\ t[p] \in Node /\ t[p].time \in Nat
  BY DEF Known, Tables, Node

\* What an update leaves of a peer: the node, if it was of use.
LEMMA Updated ==
    ASSUME NEW t \in Tables, NEW p \in Peers, NEW n \in Node, NEW q \in Peers
    PROVE  Update(t, p, n)[q] =
               IF q = p /\ (t[p] # NoNode => t[p].time < n.time) THEN n ELSE t[q]
  BY DEF Update, Updatable, Known, Tables

\* What an expiry leaves of a peer.
LEMMA Kept ==
    ASSUME NEW t \in Tables, NEW limit \in Nat, NEW q \in Peers
    PROVE  Expire(t, limit)[q] =
               IF t[q] # NoNode /\ t[q].time < limit THEN NoNode ELSE t[q]
  BY DEF Expire, Expired, Known

\* Two tables with the same entries are the same.
LEMMA SameTable ==
    ASSUME NEW s \in Tables, NEW t \in Tables, \A q \in Peers : s[q] = t[q]
    PROVE  s = t
  BY DEF Tables

\* remoteNodes.update never takes an entry away, nor makes it older, and what
\* it was given is known from then on at least as young as that.
THEOREM UpdateGrows ==
    ASSUME NEW t \in Tables, NEW p \in Peers, NEW n \in Node
    PROVE  /\ Known(Update(t, p, n)) = Known(t) \cup {p}
           /\ \A q \in Known(t) : t[q].time <= Update(t, p, n)[q].time
           /\ n.time <= Update(t, p, n)[p].time
<1>1. n # NoNode /\ n.time \in Nat
  BY NoNodeAssumption DEF Node
<1>2. \A q \in Known(t) : q \in Peers /\ t[q] # NoNode /\ t[q].time \in Nat
  BY KnownNode DEF Known
<1>3. Known(Update(t, p, n)) = Known(t) \cup {p}
  BY <1>1, Updated DEF Known
<1>4. \A q \in Known(t) : t[q].time <= Update(t, p, n)[q].time
  BY <1>1, <1>2, Updated
<1>5. n.time <= Update(t, p, n)[p].time
  BY <1>1, <1>2, Updated DEF Known
<1> QED
  BY <1>3, <1>4, <1>5

\* A node that is taken twice, because a packet was duplicated or because it is
\* in S3 as well, changes the table once, and its sender is answered once.
THEOREM UpdateTwice ==
    ASSUME NEW t \in Tables, NEW p \in Peers, NEW n \in Node
    PROVE  /\ Update(Update(t, p, n), p, n) = Update(t, p, n)
           /\ NewAddrs(Update(t, p, n), p) = {}
<1> DEFINE u == Update(t, p, n)
<1>1. u \in Tables /\ Known(u) = Known(t) \cup {p} /\ n.time <= u[p].time
  BY UpdateType, UpdateGrows
<1>2. u[p].time \in Nat /\ n.time \in Nat
  BY <1>1, KnownNode DEF Node
<1> HIDE DEF u
<1>3. ~Updatable(u, p, n.time)
  BY <1>1, <1>2 DEF Updatable
<1> QED
  BY <1>1, <1>3 DEF Update, NewAddrs, u

\* Two nodes of different peers, or with different stamps, may come in either
\* order, from a packet or from S3: the table ends up the same.
THEOREM UpdatesCommute ==
    ASSUME NEW t \in Tables, NEW p \in Peers, NEW m \in Node,
           NEW q \in Peers, NEW n \in Node, p = q => m.time # n.time
    PROVE  Update(Update(t, p, m), q, n) = Update(Update(t, q, n), p, m)
<1> DEFINE u == Update(t, p, m)
           v == Update(t, q, n)
<1>1. u \in Tables /\ v \in Tables
  BY UpdateType
<1>2. /\ m # NoNode /\ m.time \in Nat /\ n # NoNode /\ n.time \in Nat
      /\ \A r \in Peers : t[r] # NoNode => t[r].time \in Nat
  BY NoNodeAssumption, KnownNode DEF Node, Known
<1>3. ASSUME NEW r \in Peers PROVE Update(u, q, n)[r] = Update(v, p, m)[r]
  <2>1. /\ u[r] = IF r = p /\ (t[p] # NoNode => t[p].time < m.time) THEN m ELSE t[r]
        /\ u[q] = IF q = p /\ (t[p] # NoNode => t[p].time < m.time) THEN m ELSE t[q]
        /\ v[r] = IF r = q /\ (t[q] # NoNode => t[q].time < n.time) THEN n ELSE t[r]
        /\ v[p] = IF p = q /\ (t[q] # NoNode => t[q].time < n.time) THEN n ELSE t[p]
    BY Updated
  <2>2. /\ Update(u, q, n)[r] =
              IF r = q /\ (u[q] # NoNode => u[q].time < n.time) THEN n ELSE u[r]
        /\ Update(v, p, m)[r] =
              IF r = p /\ (v[p] # NoNode => v[p].time < m.time) THEN m ELSE v[r]
    BY <1>1, Updated
  <2> HIDE DEF u, v
  <2>3. CASE p # q
    BY <2>1, <2>2, <2>3
  <2>4. CASE p = q
    BY <1>2, <2>1, <2>2, <2>4
  <2> QED
    BY <2>3, <2>4
<1> QED
  BY <1>1, <1>3, UpdateType, SameTable

\* A node that is young enough may come before or after the expiry of a scan,
\* which is what LiveKept of Cluster needs of packets that arrive meanwhile.
THEOREM UpdateExpireCommute ==
    ASSUME NEW t \in Tables, NEW p \in Peers, NEW n \in Node,
           NEW limit \in Nat, limit <= n.time
    PROVE  Expire(Update(t, p, n), limit) = Update(Expire(t, limit), p, n)
<1> DEFINE u == Update(t, p, n)
           x == Expire(t, limit)
<1>1. u \in Tables /\ x \in Tables
  BY UpdateType, ExpireType
<1>2. /\ n # NoNode /\ n.time \in Nat
      /\ \A r \in Peers : t[r] # NoNode => t[r].time \in Nat
  BY NoNodeAssumption, KnownNode DEF Node, Known
<1>3. ASSUME NEW r \in Peers PROVE Expire(u, limit)[r] = Update(x, p, n)[r]
  <2>1. /\ u[r] = IF r = p /\ (t[p] # NoNode => t[p].time < n.time) THEN n ELSE t[r]
        /\ x[r] = IF t[r] # NoNode /\ t[r].time < limit THEN NoNode ELSE t[r]
        /\ x[p] = IF t[p] # NoNode /\ t[p].time < limit THEN NoNode ELSE t[p]
    BY Updated, Kept
  <2>2. /\ Expire(u, limit)[r] =
              IF u[r] # NoNode /\ u[r].time < limit THEN NoNode ELSE u[r]
        /\ Update(x, p, n)[r] =
              IF r = p /\ (x[p] # NoNode => x[p].time < n.time) THEN n ELSE x[r]
    BY <1>1, Updated, Kept
  <2> HIDE DEF u, x
  <2> QED
    BY <1>2, <2>1, <2>2
<1> QED
  BY <1>1, <1>3, UpdateType, ExpireType, SameTable
=============================================================================
