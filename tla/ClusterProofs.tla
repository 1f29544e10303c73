--------------------------- MODULE ClusterProofs ---------------------------
(***************************************************************************)
(* The properties of Cluster for every set of nodes, all clocks and all    *)
(* time-outs that the assumptions admit.                                   *)
(***************************************************************************)
EXTENDS Cluster, TLAPS

USE DEF env, procs, scans, history, vars, Never, Stamps, Up, Now

\* The clock starts late enough for thresholds to be no less than 0.  A process
\* puts its object first of all, and has loads to do only in its scan.
Shape ==
    /\ clock >= ExpireTimeout
    /\ \A n \in Nodes : putAt[n] # Never <=> pc[n] \in {"list", "scan", "select"}
    /\ \A n \in started : pc[n] \in {"list", "scan", "select"}
    /\ \A n \in Nodes : loadKeys[n] # {} => pc[n] = "scan"

\* What learning of m does to the table and the history of n, and to no other.
LEMMA LearnChanges ==
    ASSUME TypeOK, NEW n \in Nodes, NEW m \in Nodes, NEW t \in Nat,
           Learn(n, m, t)
    PROVE  /\ table' \in [Nodes -> R!Tables]
           /\ latest' \in [Nodes -> [Nodes -> Stamps]]
           /\ \A i, j \in Nodes : i # n \/ j # m =>
                 table'[i][j] = table[i][j] /\ latest'[i][j] = latest[i][j]
           /\ IF R!Updatable(table[n], m, t)
              THEN table'[n][m] # NoNode /\ table'[n][m].time = t
              ELSE table'[n][m] = table[n][m]
           /\ latest'[n][m] = IF t > latest[n][m] THEN t ELSE latest[n][m]
           /\ missed' = [missed EXCEPT ![n] = @ \ {m}]
           /\ missed' \in [Nodes -> SUBSET Up]
           /\ UNCHANGED <<robbed, present, purged, downSince>>
<1> DEFINE node == [features |-> "any", time |-> t]
<1>1. node \in R!Node /\ node # NoNode /\ node.time = t
  BY EntryAssumption DEF R!Node, Features
<1>2. table[n] \in R!Tables /\ table \in [Nodes -> R!Tables]
  BY DEF TypeOK
<1>3. /\ table' = [table EXCEPT ![n] = R!Update(@, m, node)]
      /\ latest' = [latest EXCEPT ![n][m] = IF t > @ THEN t ELSE @]
      /\ missed' = [missed EXCEPT ![n] = @ \ {m}]
      /\ UNCHANGED <<robbed, present, purged, downSince>>
  BY DEF Learn
<1>4. R!Update(table[n], m, node) =
          IF R!Updatable(table[n], m, t) THEN [table[n] EXCEPT ![m] = node]
                                         ELSE table[n]
  BY <1>1 DEF R!Update
<1> HIDE DEF node
<1>5. /\ table' \in [Nodes -> R!Tables]
      /\ \A i, j \in Nodes : i # n \/ j # m => table'[i][j] = table[i][j]
      /\ IF R!Updatable(table[n], m, t) THEN table'[n][m] = node
                                        ELSE table'[n][m] = table[n][m]
  BY <1>1, <1>2, <1>3, <1>4 DEF R!Tables
<1>6. /\ latest' \in [Nodes -> [Nodes -> Stamps]]
      /\ \A i, j \in Nodes : i # n \/ j # m => latest'[i][j] = latest[i][j]
      /\ latest'[n][m] = IF t > latest[n][m] THEN t ELSE latest[n][m]
  BY <1>3 DEF TypeOK
<1>7. missed' \in [Nodes -> SUBSET Up]
  BY <1>3 DEF TypeOK
<1> QED
  BY <1>1, <1>3, <1>5, <1>6, <1>7

\* What is left of the table when the old entries are expired.
LEMMA ExpireChanges ==
    ASSUME NEW t \in R!Tables, NEW limit \in Nat
    PROVE  /\ R!Expire(t, limit) \in R!Tables
           /\ \A m \in Nodes :
                 R!Expire(t, limit)[m] =
                     IF t[m] # NoNode /\ t[m].time < limit THEN NoNode ELSE t[m]
  BY DEF R!Expire, R!Expired, R!Known, R!Tables

\* Entries and clocks are numbers.
LEMMA EntryType ==
    ASSUME TypeOK, NEW n \in Nodes, NEW m \in Nodes, table[n][m] # NoNode
    PROVE  table[n][m].time \in Nat
  BY DEF TypeOK, R!Tables, R!Node

LEMMA NowType ==
    ASSUME TypeOK, NEW x \in Nodes \cup {S3}
    PROVE  Skew[x] \in Nat /\ Now(x) \in Nat
  BY ClockAssumption DEF TypeOK

\* The two are inductive together only: a deletion concerns running nodes.
LEMMA TypeAndShape == Spec => [](TypeOK /\ Shape)
<1> USE TimeoutAssumption, ClockAssumption
<1>1. Init => TypeOK
  BY DEF Init, TypeOK, R!NoRemotes, R!Tables
<1>2. TypeOK /\ Shape /\ [Next]_vars => (TypeOK /\ Shape)'
  <2> SUFFICES ASSUME TypeOK, Shape, [Next]_vars PROVE TypeOK' /\ Shape'
    OBVIOUS
  <2> USE DEF TypeOK, Shape
  <2>1. CASE Tick
    BY <2>1 DEF Tick
  <2>2. ASSUME NEW n \in Nodes, Boot(n) PROVE TypeOK' /\ Shape'
    BY <2>2 DEF Boot, First
  <2>3. ASSUME NEW n \in Nodes, Crash(n) PROVE TypeOK' /\ Shape'
    BY <2>3 DEF Crash, R!NoRemotes, R!Tables
  <2>4. ASSUME NEW n \in Nodes, Transmit(n) PROVE TypeOK' /\ Shape'
    BY <2>4, NowType DEF Transmit, R!Known
  <2>5. ASSUME NEW k \in packets, Receive(k) PROVE TypeOK' /\ Shape'
    <3>1. k.to \in Nodes /\ k.from \in Nodes /\ k.time \in Nat
      OBVIOUS
    <3>2. Learn(k.to, k.from, k.time) /\ UNCHANGED <<env, procs, scans>>
      BY <2>5 DEF Receive
    <3>3. /\ table' \in [Nodes -> R!Tables]
          /\ latest' \in [Nodes -> [Nodes -> Stamps]]
          /\ missed' \in [Nodes -> SUBSET Up]
          /\ UNCHANGED <<robbed, present, purged, downSince>>
      BY <3>1, <3>2, LearnChanges
    <3> QED
      BY <3>2, <3>3
  <2>6. ASSUME NEW n \in Nodes, Put(n) PROVE TypeOK' /\ Shape'
    BY <2>6, NowType DEF Put, AfterPut
  <2>7. ASSUME NEW n \in Nodes, PutFails(n) PROVE TypeOK' /\ Shape'
    BY <2>7 DEF PutFails
  <2>8. ASSUME NEW n \in Nodes, NEW listed \in SUBSET Others(n),
               List(n, listed)
        PROVE  TypeOK' /\ Shape'
    <3>1. Up' = Up
      BY <2>8 DEF List
    <3>2. Oldest(n) \in Nat
      BY NowType DEF Oldest
    <3>3. missed' \in [Nodes -> SUBSET Up]
      BY <2>8 DEF List
    <3>4. loadKeys' \in [Nodes -> SUBSET Nodes]
      BY <2>8 DEF List, Others
    <3>5. deleteKeys' \in [Nodes -> SUBSET Nodes]
      BY <2>8 DEF List, Others
    <3>6. present' \in [Nodes -> SUBSET Up]
      BY <2>8 DEF List, Others
    <3> QED
      BY <2>8, <3>1, <3>2, <3>3, <3>4, <3>5, <3>6 DEF List
  <2>9. ASSUME NEW n \in Nodes, ListFails(n) PROVE TypeOK' /\ Shape'
    BY <2>9 DEF ListFails
  <2>10. ASSUME NEW n \in Nodes, NEW m \in Nodes, Delete(n, m)
         PROVE  TypeOK' /\ Shape'
    <3>1. CASE objects' = objects
      BY <2>10, <3>1 DEF Delete
    <3>2. CASE objects' = [objects EXCEPT ![m] = Never]
      BY <2>10, <3>2 DEF Delete
    <3> QED
      BY <2>10, <3>1, <3>2 DEF Delete
  <2>11. ASSUME NEW n \in Nodes, NEW m \in Nodes, Load(n, m)
         PROVE  TypeOK' /\ Shape'
    <3>1. objects[m] \in Nat
      BY <2>11 DEF Load
    <3> QED
      BY <2>11, <3>1, LearnChanges DEF Load, Loading
  <2>12. ASSUME NEW n \in Nodes, NEW m \in Nodes, LoadFails(n, m)
         PROVE  TypeOK' /\ Shape'
    <3>1. Up' = Up /\ missed' = [missed EXCEPT ![n] = @ \cup ({m} \cap Up)]
      BY <2>12 DEF LoadFails, Loading
    <3>2. missed' \in [Nodes -> SUBSET Up]
      BY <3>1
    <3> QED
      BY <2>12, <3>1, <3>2 DEF LoadFails, Loading
  <2>13. ASSUME NEW n \in Nodes, Expire(n) PROVE TypeOK' /\ Shape'
    <3>1. Up' = Up
      BY <2>13 DEF Expire
    <3>2. table' \in [Nodes -> R!Tables]
      BY <2>13, ExpireChanges DEF Expire, Remain
    <3>3. purged' \in [Nodes -> SUBSET (Nodes \ Up)]
      BY <2>13 DEF Expire, Gone
    <3> QED
      BY <2>13, <3>1, <3>2, <3>3 DEF Expire
  <2>14. CASE UNCHANGED vars
    BY <2>14
  <2> QED
    BY <2>1, <2>2, <2>3, <2>4, <2>5, <2>6, <2>7, <2>8, <2>9, <2>10, <2>11,
       <2>12, <2>13, <2>14 DEF Next, Process, Storage
<1>3. Init => Shape
  BY DEF Init, Shape
<1> QED
  BY <1>1, <1>2, <1>3, PTL DEF Spec

\* Every variable keeps its type; in particular the threshold of a scan is
\* never negative, though it is computed by subtraction.
THEOREM TypeCorrect == Spec => []TypeOK
  BY TypeAndShape, PTL

----------------------------------------------------------------------------
(* The inductive invariants *)

\* The last moment at which a node was up, by the slowest clock.
LastUp(m) == IF m \in Up THEN clock ELSE downSince[m]

\* A stamp that m, or the bucket for its object, can have made until now.
Possible(m, t) == t <= LastUp(m) + Skew[m] \/ t <= LastUp(m) + Skew[S3]

\* Nothing is stamped later than its node was last up.
Stamped ==
    /\ \A m \in Nodes : downSince[m] <= clock
    /\ \A m \in Nodes : objects[m] <= LastUp(m) + Skew[S3]
    /\ \A k \in packets : k.time <= LastUp(k.from) + Skew[k.from]
    /\ \A n, m \in Nodes : table[n][m] # NoNode => Possible(m, table[n][m].time)

\* A scan uses the threshold of its beginning, and loads only objects that
\* are younger: one put since then is younger still.
ScanBegan ==
    \A n \in Nodes : pc[n] = "scan" =>
        /\ threshold[n] <= Oldest(n)
        /\ \A m \in loadKeys[n] :
              /\ threshold[n] < Now(S3)
              /\ objects[m] # Never => threshold[n] < objects[m]

\* Nothing that can still arrive from a purged node passes for young.
PurgedForGood ==
    \A n \in Nodes : \A m \in purged[n] :
        /\ table[n][m] = NoNode
        /\ m \notin loadKeys[n]
        /\ \A x \in {m, S3} : downSince[m] + Skew[x] < Oldest(n)

\* The latest stamp a node took is in its table, or too old to come again.
Remembered ==
    \A n, m \in Nodes :
        /\ table[n][m] # NoNode => latest[n][m] = table[n][m].time
        /\ table[n][m] = NoNode /\ latest[n][m] # Never =>
              /\ latest[n][m] < Oldest(n)
              /\ pc[n] = "scan" => latest[n][m] < threshold[n]

\* No node keeps an entry of itself, or is sent a packet by itself.
NoSelf ==
    /\ \A n \in Nodes : table[n][n] = NoNode /\ n \notin loadKeys[n]
    /\ \A k \in packets : k.from # k.to

\* Running nodes put their objects in time, and the bucket has them unless
\* another node has deleted them.
Fresh ==
    \A n \in Nodes : putAt[n] # Never =>
        /\ putAt[n] <= clock /\ clock - putAt[n] <= StorageInterval
        /\ \/ objects[n] = putAt[n] + Skew[S3]
           \/ n \in robbed /\ objects[n] = Never

\* Until a scan ends, a node whose object was there when it began is either
\* yet to be loaded, or young enough in the table, or was missed.
Spared ==
    ClocksAgree => \A n \in Nodes : \A m \in present[n] :
        pc[n] = "scan" =>
            \/ m \in missed[n] \cup loadKeys[n]
            \/ table[n][m] # NoNode /\ threshold[n] <= table[n][m].time

\* Who has listed the bucket, and what came of it.
HasListed(n) == pc[n] = "scan" \/ n \in started

Sees(n, m) ==
    \/ m \in Heard(n) \cup missed[n]
    \/ n \notin started /\ m \in loadKeys[n]

OneSees ==
    ClocksAgree => \A n, m \in Nodes \ robbed :
        n # m /\ HasListed(n) /\ HasListed(m) => Sees(n, m) \/ Sees(m, n)
----------------------------------------------------------------------------

\* The last moment at which a node was up only grows, and is never ahead.
LEMMA LastUpGrows ==
    ASSUME TypeOK, TypeOK', \A m \in Nodes : downSince[m] <= clock, [Next]_vars
    PROVE  \A m \in Nodes :
              /\ LastUp(m) \in Nat /\ LastUp(m)' \in Nat
              /\ LastUp(m) <= LastUp(m)'
              /\ LastUp(m) <= clock
              /\ downSince'[m] <= clock'
<1> USE DEF TypeOK, LastUp
<1> DEFINE Goal == \A m \in Nodes : LastUp(m) <= LastUp(m)' /\ downSince'[m] <= clock'
<1>1. CASE Tick
  BY <1>1 DEF Tick
<1>2. ASSUME NEW n \in Nodes, Boot(n) PROVE Goal
  BY <1>2 DEF Boot, First
<1>3. ASSUME NEW n \in Nodes, Crash(n) PROVE Goal
  BY <1>3 DEF Crash
<1>4. CASE UNCHANGED <<clock, downSince, Up>>
  BY <1>4
<1>5. ASSUME NEW n \in Nodes, Transmit(n) \/ Storage(n)
      PROVE  UNCHANGED <<clock, downSince, Up>>
  <2>1. CASE Put(n)
    BY <2>1 DEF Put, AfterPut
  <2>2. CASE PutFails(n) \/ ListFails(n) \/ Expire(n)
    BY <2>2 DEF PutFails, ListFails, Expire
  <2>3. CASE \E listed \in SUBSET Others(n) : List(n, listed)
    BY <2>3 DEF List
  <2>4. CASE Transmit(n)
    BY <2>4 DEF Transmit
  <2>5. ASSUME NEW m \in Nodes, Delete(n, m)
        PROVE  UNCHANGED <<clock, downSince, Up>>
    BY <2>5 DEF Delete
  <2>6. ASSUME NEW m \in Nodes, Load(n, m) \/ LoadFails(n, m)
        PROVE  UNCHANGED <<clock, downSince, Up>>
    BY <2>6 DEF Load, LoadFails, Loading, Learn
  <2> QED
    BY <1>5, <2>1, <2>2, <2>3, <2>4, <2>5, <2>6 DEF Storage
<1>6. ASSUME NEW k \in packets, Receive(k)
      PROVE  UNCHANGED <<clock, downSince, Up>>
  BY <1>6 DEF Receive, Learn
<1> QED
  BY <1>1, <1>2, <1>3, <1>4, <1>5, <1>6 DEF Next, Process

\* An object is deleted, or put by its node, which is running.
LEMMA ObjectChanges ==
    ASSUME TypeOK, [Next]_vars, NEW m \in Nodes, objects'[m] # objects[m]
    PROVE  \/ objects'[m] = Never
           \/ m \in Up' /\ clock' = clock /\ objects'[m] = Now(S3)
<1> USE DEF TypeOK
<1>1. ASSUME NEW n \in Nodes, Put(n)
      PROVE  m \in Up' /\ clock' = clock /\ objects'[m] = Now(S3)
  BY <1>1 DEF Put, AfterPut
<1>2. ASSUME NEW n \in Nodes, NEW i \in Nodes, Delete(n, i)
      PROVE  objects'[m] = Never
  BY <1>2 DEF Delete
<1>3. ASSUME \/ Tick
             \/ \E n \in Nodes : Process(n)
             \/ \E k \in packets : Receive(k)
      PROVE  objects' = objects
  BY <1>3 DEF Tick, Process, Boot, Crash, Transmit, Receive
<1>4. ASSUME NEW n \in Nodes, Storage(n), ~Put(n),
             ~ \E i \in Nodes : Delete(n, i)
      PROVE  objects' = objects
  BY <1>4 DEF Storage, PutFails, List, ListFails, Load, LoadFails, Loading,
              Expire
<1> QED
  BY <1>1, <1>2, <1>3, <1>4 DEF Next

\* A packet is sent by a running node to one that it knows.
LEMMA PacketChanges ==
    ASSUME TypeOK, [Next]_vars, NEW k \in packets', k \notin packets
    PROVE  /\ k.from \in Up' /\ clock' = clock /\ k.time = Now(k.from)
           /\ table[k.from][k.to] # NoNode
<1>1. ASSUME NEW n \in Nodes, Transmit(n)
      PROVE  /\ k.from \in Up' /\ clock' = clock /\ k.time = Now(k.from)
             /\ table[k.from][k.to] # NoNode
  BY <1>1 DEF Transmit, R!Known
<1>2. ASSUME \/ Tick
             \/ \E n \in Nodes : Boot(n) \/ Crash(n) \/ Storage(n)
             \/ \E i \in packets : Receive(i)
      PROVE  packets' \subseteq packets
  BY <1>2 DEF Tick, Boot, Crash, Storage, Put, PutFails, List, ListFails,
              Delete, Load, LoadFails, Loading, Expire, Receive
<1> QED
  BY <1>1, <1>2 DEF Next, Process

\* What a process may take for news of a node.
News(n, m, t) ==
    \/ \E k \in packets : k.to = n /\ k.from = m /\ k.time = t /\ Tolerable(k)
    \/ pc[n] = "scan" /\ m \in loadKeys[n] /\ objects[m] = t /\ t # Never

\* n takes news of m: its entry becomes the younger of the two.
Takes(n, m, t) ==
    /\ News(n, m, t)
    /\ IF R!Updatable(table[n], m, t)
       THEN table'[n][m] # NoNode /\ table'[n][m].time = t
       ELSE table'[n][m] = table[n][m]
    /\ latest'[n][m] = IF t > latest[n][m] THEN t ELSE latest[n][m]
    /\ UNCHANGED <<env, procs, threshold>>

\* What Learn makes of news.
LEMMA NewsTaken ==
    ASSUME TypeOK, NEW n \in Nodes, NEW m \in Nodes, NEW t \in Nat,
           News(n, m, t), Learn(n, m, t), UNCHANGED <<env, procs, threshold>>
    PROVE  \E time \in Nat : Takes(n, m, time)
<1>1. Takes(n, m, t)
  BY LearnChanges DEF Takes
<1> QED
  BY <1>1

\* An entry, and the latest stamp, are as before, or news were taken, or the
\* entry was expired, or the process is gone.
LEMMA EntryChanges ==
    ASSUME TypeOK, [Next]_vars, NEW n \in Nodes, NEW m \in Nodes
    PROVE  \/ table'[n][m] = table[n][m] /\ latest'[n][m] = latest[n][m]
           \/ \E t \in Nat : Takes(n, m, t)
           \/ /\ Expire(n)
              /\ table[n][m] # NoNode /\ table[n][m].time < threshold[n]
              /\ table'[n][m] = NoNode /\ latest'[n][m] = latest[n][m]
           \/ Crash(n) /\ table'[n][m] = NoNode /\ latest'[n][m] = Never
<1> DEFINE Same == table'[n][m] = table[n][m] /\ latest'[n][m] = latest[n][m]
<1>1. ASSUME NEW k \in packets, Receive(k)
      PROVE  Same \/ \E t \in Nat : Takes(n, m, t)
  <2>1. /\ k.to \in Nodes /\ k.from \in Nodes /\ k.time \in Nat
        /\ Learn(k.to, k.from, k.time) /\ UNCHANGED <<env, procs, scans>>
        /\ Tolerable(k)
    BY <1>1 DEF Receive, TypeOK
  <2>2. CASE k.to = n /\ k.from = m
    <3>1. News(n, m, k.time) /\ Learn(n, m, k.time)
      BY <2>1, <2>2 DEF News
    <3> QED
      BY <2>1, <3>1, NewsTaken
  <2>3. CASE ~(k.to = n /\ k.from = m)
    BY <2>1, <2>3, LearnChanges
  <2> QED
    BY <2>2, <2>3
<1>2. ASSUME NEW i \in Nodes, NEW j \in Nodes, Load(i, j)
      PROVE  Same \/ \E t \in Nat : Takes(n, m, t)
  <2>1. /\ objects[j] \in Nat /\ Learn(i, j, objects[j])
        /\ pc[i] = "scan" /\ j \in loadKeys[i]
        /\ UNCHANGED <<env, procs, threshold>>
    BY <1>2 DEF Load, Loading, TypeOK
  <2>2. CASE i = n /\ j = m
    <3>1. News(n, m, objects[m]) /\ Learn(n, m, objects[m])
      BY <2>1, <2>2 DEF News, Never
    <3> QED
      BY <2>1, <2>2, <3>1, NewsTaken
  <2>3. CASE ~(i = n /\ j = m)
    BY <2>1, <2>3, LearnChanges
  <2> QED
    BY <2>2, <2>3
<1>3. ASSUME NEW i \in Nodes, Expire(i)
      PROVE  \/ Same
             \/ /\ Expire(n)
                /\ table[n][m] # NoNode /\ table[n][m].time < threshold[n]
                /\ table'[n][m] = NoNode /\ latest'[n][m] = latest[n][m]
  <2>1. /\ table' = [table EXCEPT ![i] = R!Expire(@, threshold[i])]
        /\ table \in [Nodes -> R!Tables] /\ threshold[i] \in Nat
        /\ latest' = latest
    BY <1>3 DEF Expire, Remain, TypeOK
  <2>2. CASE i = n
    BY <1>3, <2>1, <2>2, ExpireChanges
  <2>3. CASE i # n
    BY <2>1, <2>3
  <2> QED
    BY <2>2, <2>3
<1>4. ASSUME NEW i \in Nodes, Crash(i)
      PROVE  \/ Same
             \/ Crash(n) /\ table'[n][m] = NoNode /\ latest'[n][m] = Never
  BY <1>4 DEF Crash, R!NoRemotes, TypeOK
<1>5. ASSUME \/ Tick
             \/ \E i \in Nodes : \/ Boot(i) \/ Transmit(i)
                                 \/ Put(i) \/ PutFails(i) \/ ListFails(i)
             \/ \E i, j \in Nodes : Delete(i, j) \/ LoadFails(i, j)
             \/ \E i \in Nodes : \E listed \in SUBSET Others(i) : List(i, listed)
      PROVE  Same
  BY <1>5 DEF Tick, Boot, Transmit, Put, PutFails, List, ListFails, Delete,
              LoadFails, Loading
<1> QED
  BY <1>1, <1>2, <1>3, <1>4, <1>5 DEF Next, Process, Storage

\* A scan goes on with its threshold and with no more to load or to find, or
\* begins.
LEMMA ScanChanges ==
    ASSUME TypeOK, Shape, [Next]_vars, NEW n \in Nodes, pc'[n] = "scan"
    PROVE  \/ \E listed \in SUBSET Others(n) : List(n, listed)
           \/ /\ pc[n] = "scan" /\ threshold'[n] = threshold[n]
              /\ loadKeys'[n] \subseteq loadKeys[n]
              /\ present'[n] \subseteq present[n]
<1> USE DEF TypeOK, Shape
<1> DEFINE Continues == /\ pc[n] = "scan" /\ threshold'[n] = threshold[n]
                        /\ loadKeys'[n] \subseteq loadKeys[n]
                        /\ present'[n] \subseteq present[n]
<1>1. ASSUME NEW i \in Nodes, NEW listed \in SUBSET Others(i), List(i, listed)
      PROVE  i = n \/ Continues
  BY <1>1 DEF List
<1>2. ASSUME NEW i \in Nodes, Put(i) PROVE Continues
  BY <1>2 DEF Put, AfterPut
<1>3. ASSUME NEW i \in Nodes,
             PutFails(i) \/ ListFails(i) \/ Expire(i) \/ Boot(i) \/ Crash(i)
      PROVE  Continues
  <2>1. CASE PutFails(i) \/ ListFails(i) \/ Boot(i)
    BY <2>1 DEF PutFails, ListFails, Boot, First
  <2>2. CASE Expire(i)
    BY <2>2 DEF Expire
  <2>3. CASE Crash(i)
    BY <2>3 DEF Crash
  <2> QED
    BY <1>3, <2>1, <2>2, <2>3
<1>4. ASSUME NEW i \in Nodes, NEW j \in Nodes, Load(i, j) \/ LoadFails(i, j)
      PROVE  Continues
  <2>1. /\ UNCHANGED <<pc, threshold, present>>
        /\ loadKeys' = [loadKeys EXCEPT ![i] = @ \ {j}]
    BY <1>4 DEF Load, LoadFails, Loading, Learn
  <2> QED
    BY <2>1
<1>5. ASSUME \/ Tick
             \/ \E i \in Nodes : Transmit(i)
             \/ \E i, j \in Nodes : Delete(i, j)
             \/ \E k \in packets : Receive(k)
             \/ UNCHANGED vars
      PROVE  Continues
  BY <1>5 DEF Tick, Transmit, Delete, Receive, Learn
<1> HIDE DEF Continues, TypeOK, Shape
<1>6. ASSUME NEW i \in Nodes, Storage(i)
      PROVE  (\E listed \in SUBSET Others(n) : List(n, listed)) \/ Continues
  BY <1>1, <1>2, <1>3, <1>4, <1>5, <1>6 DEF Storage
<1> QED
  BY <1>3, <1>5, <1>6 DEF Next, Process, Continues

\* The time of day never goes back.
LEMMA ClockGrows ==
    ASSUME TypeOK, TypeOK', [Next]_vars
    PROVE  /\ clock \in Nat /\ clock' \in Nat /\ clock <= clock'
           /\ \A x \in Nodes \cup {S3} : Skew[x] \in Nat
<1>1. clock' = clock + 1 \/ clock' = clock
  BY DEF Next, Process, Storage, Tick, Boot, Crash, Transmit, Put, PutFails,
         List, ListFails, Delete, Load, LoadFails, Loading, Expire, Receive
<1> QED
  BY <1>1, ClockAssumption DEF TypeOK

\* Packets, objects and entries are no younger than they can be.
THEOREM StampedHolds == Spec => []Stamped
<1>1. Init => Stamped
  BY TimeoutAssumption, ClockAssumption
     DEF Init, Stamped, LastUp, Possible, R!NoRemotes
<1>2. TypeOK /\ TypeOK' /\ Stamped /\ [Next]_vars => Stamped'
  <2> SUFFICES ASSUME TypeOK, TypeOK', Stamped, [Next]_vars PROVE Stamped'
    OBVIOUS
  <2>1. \A m \in Nodes :
          /\ LastUp(m) \in Nat /\ LastUp(m)' \in Nat /\ LastUp(m) <= LastUp(m)'
          /\ LastUp(m) <= clock /\ downSince'[m] <= clock'
    BY LastUpGrows DEF Stamped
  <2>2. \A m \in Up' : LastUp(m)' = clock'
    BY DEF LastUp
  <2>3. \A x \in Nodes \cup {S3} : Skew[x] \in Nat
    BY ClockAssumption
  <2>4. ASSUME NEW m \in Nodes PROVE objects'[m] <= LastUp(m)' + Skew[S3]
    <3>1. CASE objects'[m] = objects[m]
      <4>1. objects[m] \in Int /\ objects[m] <= LastUp(m) + Skew[S3]
        BY DEF Stamped, TypeOK
      <4> QED
        BY <2>1, <2>3, <3>1, <4>1
    <3>2. CASE objects'[m] = Never
      BY <2>1, <2>3, <3>2
    <3>3. CASE m \in Up' /\ clock' = clock /\ objects'[m] = Now(S3)
      BY <2>2, <2>3, <3>3 DEF TypeOK
    <3> QED
      BY <3>1, <3>2, <3>3, ObjectChanges
  <2>5. ASSUME NEW k \in packets'
        PROVE  k.time <= LastUp(k.from)' + Skew[k.from]
    <3>1. k.from \in Nodes /\ k.time \in Nat
      BY DEF TypeOK
    <3> QED
      BY <2>1, <2>2, <2>3, <3>1, PacketChanges DEF Stamped
  <2>6. ASSUME NEW n \in Nodes, NEW m \in Nodes, table'[n][m] # NoNode
        PROVE  \/ table'[n][m].time <= LastUp(m)' + Skew[m]
               \/ table'[n][m].time <= LastUp(m)' + Skew[S3]
    <3>1. CASE table'[n][m] = table[n][m]
      BY <2>1, <2>3, <2>6, <3>1, EntryType DEF Stamped, Possible
    <3>2. CASE table'[n][m] # table[n][m]
      <4>1. News(n, m, table'[n][m].time)
        BY <2>6, <3>2, EntryChanges DEF Takes
      <4>2. Possible(m, table'[n][m].time)
        BY <4>1 DEF News, Stamped, Possible
      <4>3. table'[n][m].time \in Nat
        BY <2>6 DEF TypeOK, R!Tables, R!Node
      <4> QED
        BY <2>1, <2>3, <4>2, <4>3 DEF Possible
    <3> QED
      BY <3>1, <3>2
  <2> QED
    BY <2>1, <2>4, <2>5, <2>6 DEF Stamped, Possible
<1> QED
  BY <1>1, <1>2, TypeCorrect, PTL DEF Spec

\* The threshold of a scan is of its beginning, and what it loads is younger.
THEOREM ScanBeganHolds == Spec => []ScanBegan
<1>1. Init => ScanBegan
  BY DEF Init, ScanBegan
<1>2. TypeOK /\ TypeOK' /\ Shape /\ Stamped /\ ScanBegan /\ [Next]_vars
        => ScanBegan'
  <2> SUFFICES ASSUME TypeOK, TypeOK', Shape, Stamped, ScanBegan, [Next]_vars,
                      NEW n \in Nodes, pc'[n] = "scan"
               PROVE  /\ threshold'[n] <= Oldest(n)'
                      /\ \A m \in loadKeys'[n] :
                            /\ threshold'[n] < Now(S3)'
                            /\ objects'[m] # Never => threshold'[n] < objects'[m]
    BY DEF ScanBegan
  <2>1. /\ clock \in Nat /\ clock' \in Nat /\ clock <= clock'
        /\ Skew[n] \in Nat /\ Skew[S3] \in Nat /\ ExpireTimeout \in Nat
    BY ClockGrows, TimeoutAssumption
  <2>2. CASE \E listed \in SUBSET Others(n) : List(n, listed)
    <3>1. PICK listed \in SUBSET Others(n) : List(n, listed)
      BY <2>2
    <3>2. /\ threshold'[n] = Oldest(n) /\ UNCHANGED <<clock, objects>>
          /\ \A m \in loadKeys'[n] : m \in Nodes /\ Oldest(n) < objects[m]
      BY <3>1 DEF List, Others, TypeOK
    <3>3. \A m \in Nodes : objects[m] \in Int /\ objects[m] <= Now(S3)
      <4> SUFFICES ASSUME NEW m \in Nodes
                   PROVE  objects[m] \in Int /\ objects[m] <= Now(S3)
        OBVIOUS
      <4>1. objects[m] \in Int /\ objects[m] <= LastUp(m) + Skew[S3]
        BY DEF Stamped, TypeOK
      <4>2. LastUp(m) \in Nat /\ LastUp(m) <= clock
        BY LastUpGrows DEF Stamped
      <4> QED
        BY <2>1, <4>1, <4>2
    <3> QED
      BY <2>1, <3>2, <3>3 DEF Oldest
  <2>3. CASE /\ pc[n] = "scan" /\ threshold'[n] = threshold[n]
             /\ loadKeys'[n] \subseteq loadKeys[n]
    <3>1. threshold[n] \in Nat /\ threshold[n] <= Oldest(n)
      BY <2>3 DEF ScanBegan, TypeOK
    <3>2. ASSUME NEW m \in loadKeys[n]
          PROVE  /\ threshold[n] < Now(S3)'
                 /\ objects'[m] # Never => threshold[n] < objects'[m]
      <4>1. /\ m \in Nodes /\ threshold[n] < Now(S3)
            /\ objects[m] # Never => threshold[n] < objects[m]
        BY <2>3 DEF ScanBegan, TypeOK
      <4> QED
        BY <2>1, <3>1, <4>1, ObjectChanges
    <3> QED
      BY <2>1, <2>3, <3>1, <3>2 DEF Oldest
  <2> QED
    BY <2>2, <2>3, ScanChanges
<1> QED
  BY <1>1, <1>2, TypeAndShape, StampedHolds, PTL DEF Spec

\* News that make or change an entry are newer than all that was taken
\* before: latencyTolerance is shorter than expireTimeout, and an object is
\* loaded only if it is younger than the threshold.
LEMMA NewsAreNew ==
    ASSUME TypeOK, ScanBegan, Remembered, NEW n \in Nodes, NEW m \in Nodes,
           NEW t \in Nat, News(n, m, t), R!Updatable(table[n], m, t)
    PROVE  latest[n][m] < t
<1>1. /\ latest[n][m] \in Int /\ clock \in Nat /\ Skew[n] \in Nat
      /\ Latency \in Nat /\ ExpireTimeout \in Nat /\ Latency < ExpireTimeout
  BY ClockAssumption, TimeoutAssumption DEF TypeOK
<1>2. CASE table[n][m] # NoNode
  BY <1>2, EntryType DEF Remembered, R!Updatable, R!Known
<1>3. CASE latest[n][m] = Never
  BY <1>3
<1>4. CASE table[n][m] = NoNode /\ latest[n][m] # Never
  <2>1. /\ latest[n][m] < Oldest(n)
        /\ pc[n] = "scan" => latest[n][m] < threshold[n]
    BY <1>4 DEF Remembered
  <2>2. CASE \E k \in packets : k.to = n /\ k.time = t /\ Tolerable(k)
    <3>1. Now(n) - t <= Latency
      BY <2>2 DEF Tolerable
    <3> QED
      BY <1>1, <2>1, <3>1 DEF Oldest
  <2>3. CASE pc[n] = "scan" /\ m \in loadKeys[n] /\ objects[m] = t /\ t # Never
    <3>1. threshold[n] < t /\ threshold[n] \in Nat
      BY <2>3 DEF ScanBegan, TypeOK
    <3> QED
      BY <1>1, <2>1, <2>3, <3>1
  <2> QED
    BY <2>2, <2>3 DEF News
<1> QED
  BY <1>2, <1>3, <1>4

\* What a process took last of a node is in its table, or past coming again.
THEOREM RememberedHolds == Spec => []Remembered
<1>1. Init => Remembered
  BY DEF Init, Remembered, R!NoRemotes
<1>2. TypeOK /\ TypeOK' /\ Shape /\ ScanBegan /\ Remembered /\ [Next]_vars
        => Remembered'
  <2> SUFFICES ASSUME TypeOK, TypeOK', Shape, ScanBegan, Remembered,
                      [Next]_vars, NEW n \in Nodes, NEW m \in Nodes
               PROVE  /\ table'[n][m] # NoNode =>
                            latest'[n][m] = table'[n][m].time
                      /\ table'[n][m] = NoNode /\ latest'[n][m] # Never =>
                            /\ latest'[n][m] < Oldest(n)'
                            /\ pc'[n] = "scan" => latest'[n][m] < threshold'[n]
    BY DEF Remembered
  <2>1. /\ clock \in Nat /\ clock' \in Nat /\ clock <= clock'
        /\ Skew[n] \in Nat /\ ExpireTimeout \in Nat /\ latest[n][m] \in Int
    BY ClockGrows, TimeoutAssumption DEF TypeOK
  <2>2. CASE table'[n][m] = table[n][m] /\ latest'[n][m] = latest[n][m]
    <3>1. CASE table[n][m] # NoNode \/ latest[n][m] = Never
      BY <2>2, <3>1 DEF Remembered
    <3>2. CASE table[n][m] = NoNode /\ latest[n][m] # Never
      <4>1. latest[n][m] < Oldest(n) /\ latest[n][m] < Oldest(n)'
        BY <2>1, <3>2 DEF Remembered, Oldest
      <4>2. ASSUME pc'[n] = "scan" PROVE latest[n][m] < threshold'[n]
        <5>1. CASE \E listed \in SUBSET Others(n) : List(n, listed)
          BY <4>1, <5>1 DEF List, TypeOK
        <5>2. CASE pc[n] = "scan" /\ threshold'[n] = threshold[n]
          BY <3>2, <5>2 DEF Remembered
        <5> QED
          BY <4>2, <5>1, <5>2, ScanChanges
      <4> QED
        BY <2>2, <3>2, <4>1, <4>2
    <3> QED
      BY <3>1, <3>2
  <2>3. ASSUME NEW t \in Nat, Takes(n, m, t)
        PROVE  /\ table'[n][m] # NoNode
               /\ latest'[n][m] = table'[n][m].time
    <3>1. CASE R!Updatable(table[n], m, t)
      BY <2>1, <2>3, <3>1, NewsAreNew DEF Takes
    <3>2. CASE ~R!Updatable(table[n], m, t)
      <4>1. table[n][m] # NoNode /\ ~(table[n][m].time < t)
        BY <3>2 DEF R!Updatable, R!Known
      <4> QED
        BY <2>1, <2>3, <3>2, <4>1, EntryType DEF Takes, Remembered
    <3> QED
      BY <3>1, <3>2
  <2>4. CASE /\ Expire(n)
             /\ table[n][m] # NoNode /\ table[n][m].time < threshold[n]
             /\ table'[n][m] = NoNode /\ latest'[n][m] = latest[n][m]
    <3>1. pc[n] = "scan" /\ pc'[n] = "select" /\ clock' = clock
      BY <2>4 DEF Expire, TypeOK
    <3>2. threshold[n] \in Nat /\ threshold[n] <= Oldest(n)
      BY <3>1 DEF ScanBegan, TypeOK
    <3>3. latest[n][m] = table[n][m].time
      BY <2>4 DEF Remembered
    <3> QED
      BY <2>1, <2>4, <3>1, <3>2, <3>3 DEF Oldest
  <2>5. CASE table'[n][m] = NoNode /\ latest'[n][m] = Never
    BY <2>5
  <2> QED
    BY <2>2, <2>3, <2>4, <2>5, EntryChanges
<1> QED
  BY <1>1, <1>2, TypeAndShape, ScanBeganHolds, PTL DEF Spec

\* NoResurrection: whatever is delayed, delivered twice or left in the bucket,
\* a process never takes an entry older than one it has had before.
THEOREM NoResurrectionHolds == Spec => NoResurrection
<1>1. TypeOK /\ ScanBegan /\ Remembered /\ [Next]_vars
        => \A n, m \in Nodes :
              table'[n][m] \notin {table[n][m], NoNode} =>
                  table'[n][m].time > latest[n][m]
  <2> SUFFICES ASSUME TypeOK, ScanBegan, Remembered, [Next]_vars,
                      NEW n \in Nodes, NEW m \in Nodes,
                      table'[n][m] \notin {table[n][m], NoNode}
               PROVE  table'[n][m].time > latest[n][m]
    OBVIOUS
  <2>1. PICK t \in Nat : Takes(n, m, t)
    BY EntryChanges
  <2>2. News(n, m, t) /\ R!Updatable(table[n], m, t) /\ table'[n][m].time = t
    BY <2>1 DEF Takes
  <2> QED
    BY <2>2, NewsAreNew
<1>2. TypeOK /\ ScanBegan /\ Remembered /\ [Next]_vars
        => [\A n, m \in Nodes :
              table'[n][m] \notin {table[n][m], NoNode} =>
                  table'[n][m].time > latest[n][m]]_table
  BY <1>1
<1> QED
  BY <1>2, TypeCorrect, ScanBeganHolds, RememberedHolds, PTL
     DEF Spec, NoResurrection

\* Nodes are purged at the end of a scan, and only booting undoes that.
LEMMA PurgedChanges ==
    ASSUME TypeOK, TypeOK', [Next]_vars, NEW n \in Nodes, NEW m \in purged'[n]
    PROVE  /\ m \in Nodes /\ m \notin Up'
           /\ \/ m \in purged[n] /\ m \notin Up
              \/ Expire(n) /\ m \in Gone(threshold[n]) /\ m \notin Up
           /\ downSince'[m] = downSince[m]
<1>1. m \in Nodes /\ m \notin Up'
  BY DEF TypeOK
<1>2. ASSUME NEW i \in Nodes, Boot(i) \/ Crash(i)
      PROVE  m \in purged[n] /\ m \notin Up /\ downSince'[m] = downSince[m]
  BY <1>1, <1>2 DEF Boot, First, Crash, TypeOK
<1>3. ASSUME NEW i \in Nodes, Expire(i)
      PROVE  /\ \/ m \in purged[n] /\ m \notin Up
                \/ Expire(n) /\ m \in Gone(threshold[n]) /\ m \notin Up
             /\ downSince'[m] = downSince[m]
  <2>1. /\ purged' = [purged EXCEPT ![i] = @ \cup Gone(threshold[i])]
        /\ Up' = Up /\ downSince' = downSince
    BY <1>3 DEF Expire, TypeOK
  <2>2. CASE i = n
    BY <1>1, <1>3, <2>1, <2>2 DEF TypeOK
  <2>3. CASE i # n
    BY <1>1, <2>1, <2>3 DEF TypeOK
  <2> QED
    BY <2>2, <2>3
<1>4. CASE UNCHANGED <<purged, downSince>>
  BY <1>1, <1>4 DEF TypeOK
<1>5. ASSUME \/ Tick
             \/ \E i \in Nodes : Transmit(i)
             \/ \E i \in Nodes : Storage(i) /\ ~Expire(i)
             \/ \E k \in packets : Receive(k)
             \/ UNCHANGED vars
      PROVE  UNCHANGED <<purged, downSince>>
  <2>1. CASE Tick \/ UNCHANGED vars
    BY <2>1 DEF Tick
  <2>2. ASSUME NEW i \in Nodes, Transmit(i) PROVE UNCHANGED <<purged, downSince>>
    BY <2>2 DEF Transmit
  <2>3. ASSUME NEW i \in Nodes, Storage(i), ~Expire(i)
        PROVE  UNCHANGED <<purged, downSince>>
    BY <2>3 DEF Storage, Put, PutFails, List, ListFails, Delete, Load, LoadFails,
                Loading, Learn
  <2>4. ASSUME NEW k \in packets, Receive(k) PROVE UNCHANGED <<purged, downSince>>
    BY <2>4 DEF Receive, Learn
  <2> QED
    BY <1>5, <2>1, <2>2, <2>3, <2>4
<1> QED
  BY <1>1, <1>2, <1>3, <1>4, <1>5 DEF Next, Process

\* Whatever is left of a purged node is too old to be taken for news.
THEOREM PurgedForGoodHolds == Spec => []PurgedForGood
<1>1. Init => PurgedForGood
  BY DEF Init, PurgedForGood
<1>2. /\ TypeOK /\ TypeOK' /\ Shape /\ Shape' /\ Stamped /\ ScanBegan
      /\ PurgedForGood /\ [Next]_vars
      => PurgedForGood'
  <2> SUFFICES ASSUME TypeOK, TypeOK', Shape, Shape', Stamped, ScanBegan,
                      PurgedForGood, [Next]_vars,
                      NEW n \in Nodes, NEW m \in purged'[n]
               PROVE  /\ table'[n][m] = NoNode
                      /\ m \notin loadKeys'[n]
                      /\ downSince'[m] + Skew[m] < Oldest(n)'
                      /\ downSince'[m] + Skew[S3] < Oldest(n)'
    BY DEF PurgedForGood
  <2>1. /\ m \in Nodes /\ m \notin Up /\ downSince'[m] = downSince[m]
        /\ m \in purged[n] \/ (Expire(n) /\ m \in Gone(threshold[n]))
    BY PurgedChanges
  <2>2. /\ clock \in Nat /\ clock' \in Nat /\ clock <= clock'
        /\ Skew[n] \in Nat /\ Skew[m] \in Nat /\ Skew[S3] \in Nat
        /\ ExpireTimeout \in Nat /\ Latency \in Nat /\ Latency < ExpireTimeout
        /\ downSince[m] \in Nat /\ objects[m] \in Int
    BY <2>1, ClockGrows, TimeoutAssumption DEF TypeOK
  <2>3. /\ objects[m] <= downSince[m] + Skew[S3]
        /\ \A k \in packets :
              k.from = m => k.time \in Nat /\ k.time <= downSince[m] + Skew[m]
        /\ table[n][m] # NoNode =>
              \/ table[n][m].time <= downSince[m] + Skew[m]
              \/ table[n][m].time <= downSince[m] + Skew[S3]
    BY <2>1 DEF Stamped, LastUp, Possible, TypeOK
  <2>4. CASE m \in purged[n]
    <3>1. /\ table[n][m] = NoNode /\ m \notin loadKeys[n]
          /\ downSince[m] + Skew[m] < Oldest(n)
          /\ downSince[m] + Skew[S3] < Oldest(n)
      BY <2>4 DEF PurgedForGood
    <3>2. ASSUME NEW t \in Nat, Takes(n, m, t) PROVE FALSE
      <4>1. PICK k \in packets : k.from = m /\ Tolerable(k) /\ k.to = n
        BY <3>1, <3>2 DEF Takes, News
      <4> QED
        BY <2>2, <2>3, <3>1, <4>1 DEF Tolerable, Oldest
    <3>3. table'[n][m] = NoNode
      BY <2>1, <3>1, <3>2, EntryChanges
    <3>4. m \notin loadKeys'[n]
      <4>1. CASE \E listed \in SUBSET Others(n) : List(n, listed)
        BY <2>2, <2>3, <3>1, <4>1 DEF List, TypeOK, Oldest
      <4>2. CASE loadKeys'[n] \subseteq loadKeys[n]
        BY <3>1, <4>2
      <4> QED
        BY <4>1, <4>2, ScanChanges DEF Shape
    <3> QED
      BY <2>1, <2>2, <3>1, <3>3, <3>4 DEF Oldest
  <2>5. CASE Expire(n) /\ m \in Gone(threshold[n])
    <3>1. /\ threshold[n] \in Nat /\ threshold[n] <= Oldest(n)
          /\ loadKeys'[n] = {} /\ clock' = clock
          /\ table'[n] = R!Expire(table[n], threshold[n])
      BY <2>5 DEF Expire, Remain, ScanBegan, TypeOK
    <3>2. /\ downSince[m] + Skew[m] < threshold[n]
          /\ downSince[m] + Skew[S3] < threshold[n]
      BY <2>5 DEF Gone
    <3>3. table'[n][m] = NoNode
      <4>1. /\ table[n] \in R!Tables
            /\ table[n][m] # NoNode => table[n][m].time \in Nat
        BY <2>1, EntryType DEF TypeOK
      <4>2. table[n][m] # NoNode => table[n][m].time < threshold[n]
        BY <2>2, <2>3, <3>1, <3>2, <4>1
      <4> QED
        BY <2>1, <3>1, <4>1, <4>2, ExpireChanges
    <3> QED
      BY <2>1, <2>2, <3>1, <3>2, <3>3 DEF Oldest
  <2> QED
    BY <2>1, <2>4, <2>5
<1> QED
  BY <1>1, <1>2, TypeAndShape, StampedHolds, ScanBeganHolds, PTL DEF Spec

\* DeadForgotten: a node that went down before the threshold of a scan is
\* unknown when the scan ends, and while it is down.
THEOREM DeadForgottenHolds == Spec => []DeadForgotten
<1>1. TypeOK /\ PurgedForGood => DeadForgotten
  BY DEF TypeOK, PurgedForGood, DeadForgotten, R!Known
<1> QED
  BY <1>1, TypeCorrect, PurgedForGoodHolds, PTL

\* No process has an entry of its own node.
THEOREM NoSelfHolds == Spec => []NoSelf
<1>1. Init => NoSelf
  BY DEF Init, NoSelf, R!NoRemotes
<1>2. TypeOK /\ TypeOK' /\ Shape /\ Shape' /\ NoSelf /\ [Next]_vars => NoSelf'
  <2> SUFFICES ASSUME TypeOK, TypeOK', Shape, Shape', NoSelf, [Next]_vars
               PROVE  NoSelf'
    OBVIOUS
  <2>1. ASSUME NEW n \in Nodes PROVE table'[n][n] = NoNode
    <3>1. ASSUME NEW t \in Nat, Takes(n, n, t) PROVE FALSE
      BY <3>1 DEF Takes, News, NoSelf
    <3> QED
      BY <3>1, EntryChanges DEF NoSelf
  <2>2. ASSUME NEW n \in Nodes PROVE n \notin loadKeys'[n]
    <3>1. CASE \E listed \in SUBSET Others(n) : List(n, listed)
      BY <3>1 DEF List, Others, TypeOK
    <3>2. CASE loadKeys'[n] \subseteq loadKeys[n]
      BY <3>2 DEF NoSelf
    <3> QED
      BY <3>1, <3>2, ScanChanges DEF Shape
  <2>3. ASSUME NEW k \in packets' PROVE k.from # k.to
    BY PacketChanges DEF NoSelf, TypeOK
  <2> QED
    BY <2>1, <2>2, <2>3 DEF NoSelf
<1> QED
  BY <1>1, <1>2, TypeAndShape, PTL DEF Spec

\* A running node puts its object in time, and only another's deletion can
\* take the object away.
THEOREM FreshHolds == Spec => []Fresh
<1>1. Init => Fresh
  BY DEF Init, Fresh
<1>2. TypeOK /\ Shape /\ Fresh /\ [Next]_vars => Fresh'
  <2> SUFFICES ASSUME TypeOK, Shape, Fresh, [Next]_vars PROVE Fresh'
    OBVIOUS
  <2> USE DEF TypeOK, Fresh
  <2>1. CASE Tick
    BY <2>1, TimeoutAssumption DEF Tick, TimelyPuts, Shape
  <2>2. ASSUME NEW n \in Nodes, Crash(n) PROVE Fresh'
    BY <2>2 DEF Crash
  <2>3. ASSUME NEW n \in Nodes, Put(n) PROVE Fresh'
    BY <2>3, TimeoutAssumption DEF Put
  <2>4. ASSUME NEW n \in Nodes, NEW m \in Nodes, Delete(n, m) PROVE Fresh'
    BY <2>4 DEF Delete
  <2>5. CASE UNCHANGED <<clock, putAt, objects, robbed>>
    BY <2>5
  <2>6. ASSUME NEW n \in Nodes,
               \/ Boot(n) \/ Transmit(n) \/ PutFails(n) \/ ListFails(n)
               \/ Expire(n)
               \/ \E listed \in SUBSET Others(n) : List(n, listed)
               \/ \E m \in Nodes : Load(n, m) \/ LoadFails(n, m)
        PROVE  UNCHANGED <<clock, putAt, objects, robbed>>
    BY <2>6 DEF Boot, Transmit, PutFails, ListFails, Expire, List, Load,
                LoadFails, Loading, Learn
  <2>7. ASSUME NEW k \in packets, Receive(k)
        PROVE  UNCHANGED <<clock, putAt, objects, robbed>>
    BY <2>7 DEF Receive, Learn
  <2> QED
    BY <2>1, <2>2, <2>3, <2>4, <2>5, <2>6, <2>7 DEF Next, Process, Storage
<1> QED
  BY <1>1, <1>2, TypeAndShape, PTL DEF Spec

\* Only a listing chooses objects for deletion.
LEMMA ChosenByList ==
    ASSUME TypeOK, [Next]_vars, NEW n \in Nodes,
           NEW m \in deleteKeys'[n], m \notin deleteKeys[n]
    PROVE  \E listed \in SUBSET Others(n) : List(n, listed)
<1>1. ASSUME deleteKeys'[n] \subseteq deleteKeys[n] PROVE FALSE
  BY <1>1
<1>2. ASSUME NEW i \in Nodes, Crash(i) PROVE deleteKeys'[n] \subseteq deleteKeys[n]
  BY <1>2 DEF Crash, TypeOK
<1>3. ASSUME NEW i \in Nodes, NEW j \in Nodes, Delete(i, j)
      PROVE  deleteKeys'[n] \subseteq deleteKeys[n]
  BY <1>3 DEF Delete, TypeOK
<1>4. ASSUME NEW i \in Nodes, NEW listed \in SUBSET Others(i), List(i, listed)
      PROVE  i = n
  BY <1>4 DEF List, TypeOK
<1>5. ASSUME \/ Tick \/ UNCHANGED vars
             \/ \E i \in Nodes : \/ Boot(i) \/ Transmit(i) \/ Put(i)
                                 \/ PutFails(i) \/ ListFails(i) \/ Expire(i)
             \/ \E i, j \in Nodes : Load(i, j) \/ LoadFails(i, j)
             \/ \E k \in packets : Receive(k)
      PROVE  UNCHANGED deleteKeys
  BY <1>5 DEF Tick, Boot, Transmit, Put, PutFails, ListFails, Expire, Load,
              LoadFails, Loading, Receive
<1> QED
  BY <1>1, <1>2, <1>3, <1>4, <1>5 DEF Next, Process, Storage

\* OnlyDeadChosen: an object that is put in time does not seem old to a scan.
THEOREM OnlyDeadChosenHolds == Spec => OnlyDeadChosen
<1>1. TypeOK /\ Fresh /\ [Next]_vars =>
          (ClocksAgree => \A n, m \in Nodes :
               m \in deleteKeys'[n] \ deleteKeys[n] => putAt[m] = Never)
  <2> SUFFICES ASSUME TypeOK, Fresh, [Next]_vars, ClocksAgree, NEW n \in Nodes,
                      NEW m \in Nodes, m \in deleteKeys'[n] \ deleteKeys[n],
                      putAt[m] # Never
               PROVE  FALSE
    OBVIOUS
  <2>1. PICK listed \in SUBSET Others(n) : List(n, listed)
    BY ChosenByList
  <2>2. m \in listed /\ ~(objects[m] > Oldest(n)) /\ objects[m] # Never
    BY <2>1 DEF List, Others, TypeOK
  <2>3. objects[m] = putAt[m] + Skew[S3] /\ clock - putAt[m] <= StorageInterval
    BY <2>2 DEF Fresh
  <2>4. /\ clock \in Nat /\ putAt[m] \in Nat /\ Skew[n] \in Nat /\ Skew[S3] \in Nat
        /\ StorageInterval \in Nat /\ ExpireTimeout \in Nat
        /\ StorageInterval + Skew[n] - Skew[S3] < ExpireTimeout
    BY ClockAssumption, TimeoutAssumption DEF TypeOK, ClocksAgree
  <2> QED
    BY <2>2, <2>3, <2>4 DEF Oldest
<1> QED
  BY <1>1, TypeAndShape, FreshHolds, PTL DEF Spec, OnlyDeadChosen

\* A listing finds the object that a running node has put young enough to
\* load, unless the entry is as young, or the listing is cut.
LEMMA ListCovers ==
    ASSUME TypeOK, Shape, Fresh, ClocksAgree, NEW n \in Nodes,
           NEW m \in Others(n), putAt[m] # Never,
           NEW listed \in SUBSET Others(n), List(n, listed)
    PROVE  \/ m \in missed'[n] \cup loadKeys'[n]
           \/ table[n][m] # NoNode /\ threshold'[n] <= table[n][m].time
<1> USE DEF Others
<1>1. /\ clock \in Nat /\ putAt[m] \in Nat /\ Skew[n] \in Nat /\ Skew[S3] \in Nat
      /\ StorageInterval \in Nat /\ ExpireTimeout \in Nat
      /\ StorageInterval + Skew[n] - Skew[S3] < ExpireTimeout
  BY ClockAssumption, TimeoutAssumption DEF TypeOK, ClocksAgree
<1>2. /\ clock - putAt[m] <= StorageInterval
      /\ objects[m] = putAt[m] + Skew[S3]
  BY DEF Fresh
<1>3. objects[m] # Never /\ Oldest(n) < objects[m] /\ objects[m] \in Nat
  BY <1>1, <1>2 DEF Oldest
<1>4. m \in Up
  BY DEF Shape
<1>5. CASE m \notin listed
  BY <1>4, <1>5 DEF List, TypeOK
<1>6. CASE m \in listed /\ Useful(n, m)
  BY <1>3, <1>6 DEF List, TypeOK
<1>7. CASE ~Useful(n, m)
  <2>1. table[n][m] # NoNode /\ ~(table[n][m].time < objects[m])
    BY <1>7 DEF Useful, R!Updatable, R!Known
  <2>2. table[n][m].time \in Nat /\ threshold'[n] = Oldest(n)
    BY <2>1, EntryType DEF List, TypeOK
  <2> QED
    BY <1>1, <1>3, <2>1, <2>2 DEF Oldest
<1> QED
  BY <1>5, <1>6, <1>7

\* News of a node is what ends its being missed, and its being yet to be
\* loaded, if the load does not fail.
LEMMA TodoChanges ==
    ASSUME TypeOK, Shape, [Next]_vars, NEW n \in Nodes, NEW m \in Nodes,
           n \in Up', m \in Up'
    PROVE  /\ m \in missed[n] \ missed'[n] => \E t \in Nat : Takes(n, m, t)
           /\ m \in loadKeys[n] \ loadKeys'[n] =>
                 m \in missed'[n] \/ \E t \in Nat : Takes(n, m, t)
<1> DEFINE Kept == missed[n] \cap Up' \subseteq missed'[n]
           Todo == loadKeys[n] \subseteq loadKeys'[n]
           News0 == \E t \in Nat : Takes(n, m, t)
<1>1. ASSUME NEW k \in packets, Receive(k)
      PROVE  Todo /\ (m \in missed[n] \ missed'[n] => News0)
  <2>1. /\ k.to \in Nodes /\ k.from \in Nodes /\ k.time \in Nat
        /\ Learn(k.to, k.from, k.time) /\ UNCHANGED <<env, procs, scans>>
        /\ Tolerable(k)
        /\ missed' = [missed EXCEPT ![k.to] = @ \ {k.from}]
    BY <1>1 DEF Receive, Learn, TypeOK
  <2>2. CASE k.to = n /\ k.from = m
    <3>1. News(n, m, k.time) /\ Learn(n, m, k.time)
      BY <2>1, <2>2 DEF News
    <3> QED
      BY <2>1, <3>1, NewsTaken
  <2>3. CASE ~(k.to = n /\ k.from = m)
    BY <2>1, <2>3 DEF TypeOK
  <2> QED
    BY <2>2, <2>3
<1>2. ASSUME NEW i \in Nodes, NEW j \in Nodes, Load(i, j)
      PROVE  /\ m \in missed[n] \ missed'[n] => News0
             /\ m \in loadKeys[n] \ loadKeys'[n] => News0
  <2>1. /\ objects[j] \in Nat /\ Learn(i, j, objects[j])
        /\ pc[i] = "scan" /\ j \in loadKeys[i]
        /\ UNCHANGED <<env, procs, threshold>>
        /\ missed' = [missed EXCEPT ![i] = @ \ {j}]
        /\ loadKeys' = [loadKeys EXCEPT ![i] = @ \ {j}]
    BY <1>2 DEF Load, Loading, Learn, TypeOK
  <2>2. CASE i = n /\ j = m
    <3>1. Takes(n, m, objects[m])
      BY <2>1, <2>2, LearnChanges DEF News, Takes
    <3> QED
      BY <2>1, <2>2, <3>1
  <2>3. CASE ~(i = n /\ j = m)
    BY <2>1, <2>3 DEF TypeOK
  <2> QED
    BY <2>2, <2>3
<1>3. ASSUME NEW i \in Nodes, NEW j \in Nodes, LoadFails(i, j)
      PROVE  Kept /\ (m \in loadKeys[n] \ loadKeys'[n] => m \in missed'[n])
  <2>1. /\ missed' = [missed EXCEPT ![i] = @ \cup ({j} \cap Up)]
        /\ loadKeys' = [loadKeys EXCEPT ![i] = @ \ {j}] /\ pc' = pc
    BY <1>3 DEF LoadFails, Loading
  <2> QED
    BY <2>1 DEF TypeOK
<1>4. ASSUME NEW i \in Nodes, Crash(i) PROVE Kept /\ Todo
  BY <1>4 DEF Crash, TypeOK
<1>5. ASSUME NEW i \in Nodes, NEW listed \in SUBSET Others(i), List(i, listed)
      PROVE  Kept /\ Todo
  <2>1. loadKeys[i] = {}
    BY <1>5 DEF List, Shape
  <2> QED
    BY <1>5, <2>1 DEF List, TypeOK
<1>6. ASSUME \/ Tick
             \/ \E i \in Nodes : \/ Boot(i) \/ Transmit(i) \/ Put(i)
                                 \/ PutFails(i) \/ ListFails(i) \/ Expire(i)
             \/ \E i, j \in Nodes : Delete(i, j)
      PROVE  Kept /\ Todo
  BY <1>6 DEF Tick, Boot, Transmit, Put, PutFails, ListFails, Expire, Delete
<1> QED
  BY <1>1, <1>2, <1>3, <1>4, <1>5, <1>6 DEF Next, Process, Storage

\* What is robbed stays so until its process is gone.
LEMMA RobbedStays ==
    ASSUME TypeOK, [Next]_vars, NEW m \in Nodes, putAt'[m] # Never
    PROVE  m \notin robbed' => m \notin robbed
<1>1. ASSUME NEW n \in Nodes, Crash(n)
      PROVE  m \notin robbed' => m \notin robbed
  BY <1>1 DEF Crash, TypeOK
<1>2. ASSUME NEW i \in Nodes, NEW j \in Nodes,
             Delete(i, j) \/ Load(i, j) \/ LoadFails(i, j)
      PROVE  robbed \subseteq robbed'
  BY <1>2 DEF Delete, Load, LoadFails, Loading, Learn
<1>3. ASSUME NEW k \in packets, Receive(k) PROVE robbed \subseteq robbed'
  BY <1>3 DEF Receive, Learn
<1>4. ASSUME NEW n \in Nodes,
             \/ Put(n) \/ PutFails(n) \/ ListFails(n) \/ Expire(n)
             \/ \E listed \in SUBSET Others(n) : List(n, listed)
      PROVE  robbed \subseteq robbed'
  BY <1>4 DEF Put, PutFails, List, ListFails, Expire
<1>5. ASSUME \/ Tick
             \/ \E n \in Nodes : Boot(n) \/ Transmit(n)
             \/ UNCHANGED vars
      PROVE  robbed \subseteq robbed'
  BY <1>5 DEF Tick, Boot, Transmit
<1> QED
  BY <1>1, <1>2, <1>3, <1>4, <1>5 DEF Next, Process, Storage

\* A scan finds the objects that were there when it began, or misses them.
THEOREM SparedHolds == Spec => []Spared
<1>1. Init => Spared
  BY DEF Init, Spared
<1>2. /\ TypeOK /\ TypeOK' /\ Shape /\ Shape' /\ ScanBegan /\ ScanBegan'
      /\ Fresh /\ Spared /\ [Next]_vars
      => Spared'
  <2> SUFFICES ASSUME TypeOK, TypeOK', Shape, Shape', ScanBegan, ScanBegan',
                      Fresh, Spared, [Next]_vars, ClocksAgree,
                      NEW n \in Nodes, NEW m \in present'[n], pc'[n] = "scan"
               PROVE  \/ m \in missed'[n] \cup loadKeys'[n]
                      \/ /\ table'[n][m] # NoNode
                         /\ threshold'[n] <= table'[n][m].time
    BY DEF Spared, ClocksAgree
  <2>1. /\ clock \in Nat /\ clock' \in Nat /\ clock <= clock' /\ Skew[n] \in Nat
        /\ ExpireTimeout \in Nat /\ Latency \in Nat /\ Latency < ExpireTimeout
    BY ClockGrows, TimeoutAssumption
  <2>2. n \in Up' /\ m \in Up' /\ m \in Nodes
    BY DEF TypeOK
  <2>3. CASE \E listed \in SUBSET Others(n) : List(n, listed)
    <3>1. PICK listed \in SUBSET Others(n) : List(n, listed)
      BY <2>3
    <3>2. UNCHANGED table /\ m \in Others(n) /\ putAt[m] # Never
      BY <3>1 DEF List, TypeOK
    <3> QED
      BY <3>1, <3>2, ListCovers
  <2>4. CASE /\ pc[n] = "scan" /\ threshold'[n] = threshold[n]
             /\ loadKeys'[n] \subseteq loadKeys[n]
             /\ present'[n] \subseteq present[n]
    <3>1. threshold[n] \in Nat /\ threshold[n] <= Oldest(n)
      BY <2>4 DEF ScanBegan, TypeOK
    <3>2. m \in present[n]
      BY <2>4
    <3>3. ASSUME NEW t \in Nat, Takes(n, m, t)
          PROVE  table'[n][m] # NoNode /\ threshold[n] <= table'[n][m].time
      <4>1. threshold[n] <= t
        <5>1. CASE \E k \in packets : k.to = n /\ k.time = t /\ Tolerable(k)
          BY <2>1, <3>1, <5>1 DEF Tolerable, Oldest
        <5>2. CASE m \in loadKeys[n] /\ objects[m] = t /\ t # Never
          BY <2>4, <3>1, <5>2 DEF ScanBegan
        <5> QED
          BY <3>3, <5>1, <5>2 DEF Takes, News
      <4>2. CASE R!Updatable(table[n], m, t)
        BY <3>3, <4>1, <4>2 DEF Takes
      <4>3. CASE ~R!Updatable(table[n], m, t)
        <5>1. table[n][m] # NoNode /\ ~(table[n][m].time < t)
          BY <4>3 DEF R!Updatable, R!Known
        <5> QED
          BY <2>2, <3>1, <3>3, <4>1, <4>3, <5>1, EntryType DEF Takes
      <4> QED
        BY <4>2, <4>3
    <3>4. CASE m \in missed[n] \cup loadKeys[n]
      BY <2>2, <2>4, <3>3, <3>4, TodoChanges
    <3>5. CASE table[n][m] # NoNode /\ threshold[n] <= table[n][m].time
      <4>1. ~Expire(n) /\ ~Crash(n)
        BY <2>4 DEF Expire, Crash, TypeOK
      <4> QED
        BY <2>2, <2>4, <3>3, <3>5, <4>1, EntryChanges
    <3> QED
      BY <2>2, <2>4, <3>2, <3>4, <3>5 DEF Spared
  <2> QED
    BY <2>3, <2>4, ScanChanges
<1> QED
  BY <1>1, <1>2, TypeAndShape, ScanBeganHolds, FreshHolds, PTL DEF Spec

\* LiveKept: however long a scan takes, it expires no entry of a node that had
\* put its object, which was there, when it began and has been running since,
\* unless a part of the listing or a load failed.
THEOREM LiveKeptHolds == Spec => LiveKept
<1> DEFINE Kept(n, m) ==
             /\ ClocksAgree
             /\ table[n][m] # NoNode /\ table'[n][m] = NoNode /\ n \in Up'
             => m \notin present[n] \ missed[n]
<1>1. TypeOK /\ Spared /\ [Next]_vars
        => [\A n, m \in Nodes : Kept(n, m)]_table
  <2> SUFFICES ASSUME TypeOK, Spared, [Next]_vars, ClocksAgree,
                      NEW n \in Nodes, NEW m \in Nodes,
                      table[n][m] # NoNode, table'[n][m] = NoNode, n \in Up',
                      m \in present[n] \ missed[n]
               PROVE  FALSE
    OBVIOUS
  <2>1. ~Crash(n)
    BY DEF Crash, TypeOK
  <2>2. ~ \E t \in Nat : Takes(n, m, t)
    BY DEF Takes
  <2>3. Expire(n) /\ table[n][m].time < threshold[n]
    BY <2>1, <2>2, EntryChanges
  <2>4. pc[n] = "scan" /\ loadKeys[n] = {}
    BY <2>3 DEF Expire
  <2>5. threshold[n] <= table[n][m].time
    BY <2>4 DEF Spared
  <2> QED
    BY <2>3, <2>5, EntryType DEF TypeOK
<1> QED
  BY <1>1, TypeCorrect, SparedHolds, PTL DEF Spec, LiveKept

\* Of two nodes that have listed the bucket, one sees the other.
THEOREM OneSeesHolds == Spec => []OneSees
<1>1. Init => OneSees
  BY DEF Init, OneSees, HasListed
<1>2. TypeOK /\ TypeOK' /\ Shape /\ Shape' /\ Fresh /\ Remembered /\ OneSees
        /\ [Next]_vars => OneSees'
  <2> SUFFICES ASSUME TypeOK, TypeOK', Shape, Shape', Fresh, Remembered, OneSees,
                      [Next]_vars, ClocksAgree,
                      NEW n \in Nodes \ robbed', NEW m \in Nodes \ robbed',
                      n # m, HasListed(n)', HasListed(m)'
               PROVE  Sees(n, m)' \/ Sees(m, n)'
    BY DEF OneSees, ClocksAgree
  <2>1. \A i \in {n, m} : i \in Up' /\ putAt'[i] # Never /\ i \notin robbed
    BY RobbedStays DEF HasListed, Shape
  <2>2. ASSUME NEW i \in {n, m}
        PROVE  HasListed(i) \/ \E listed \in SUBSET Others(i) : List(i, listed)
    <3>1. CASE pc'[i] = "scan"
      BY <3>1, ScanChanges DEF HasListed
    <3>2. CASE i \in started'
      <4>1. i \in started \/ Expire(i)
        BY <3>2 DEF Next, Process, Storage, Tick, Boot, Crash, Transmit, Receive,
                    Put, PutFails, List, ListFails, Delete, Load, LoadFails,
                    Loading, Expire
      <4> QED
        BY <4>1 DEF HasListed, Expire
    <3> QED
      BY <3>1, <3>2 DEF HasListed
  <2>3. ASSUME NEW i \in {n, m}, NEW j \in {n, m}, i # j, Sees(i, j)
        PROVE  Sees(i, j)'
    <3>1. ~Crash(i) /\ i \in Nodes /\ j \in Nodes
      BY <2>1 DEF Crash, TypeOK
    <3>2. ASSUME NEW t \in Nat, Takes(i, j, t) PROVE j \in Heard(i)'
      BY <3>1, <3>2 DEF Takes, Heard, TypeOK
    <3>3. CASE j \in Heard(i)
      BY <3>1, <3>2, <3>3, EntryChanges DEF Heard, Sees
    <3>4. CASE j \in missed[i]
      BY <2>1, <3>1, <3>2, <3>4, TodoChanges DEF Sees
    <3>5. CASE i \notin started /\ j \in loadKeys[i]
      <4>1. ~Expire(i)
        BY <3>5 DEF Expire
      <4>2. i \notin started'
        BY <3>5, <4>1 DEF Next, Process, Storage, Tick, Boot, Crash, Transmit,
              Receive, Put, PutFails, List, ListFails, Delete, Load, LoadFails,
              Loading, Expire
      <4> QED
        BY <2>1, <3>1, <3>2, <3>5, <4>2, TodoChanges DEF Sees
    <3> QED
      BY <2>3, <3>3, <3>4, <3>5 DEF Sees
  <2>4. ASSUME NEW i \in {n, m}, NEW j \in {n, m}, i # j, ~HasListed(i),
               NEW listed \in SUBSET Others(i), List(i, listed)
        PROVE  Sees(i, j)'
    <3>1. UNCHANGED <<putAt, robbed, started, latest>>
      BY <2>4 DEF List
    <3>2. \/ j \in missed'[i] \cup loadKeys'[i]
          \/ table[i][j] # NoNode /\ threshold'[i] <= table[i][j].time
      <4>1. putAt[j] # Never /\ j \notin robbed /\ Skew[S3] \in Nat
        BY <2>1, <3>1, ClockAssumption
      <4>2. objects[j] = putAt[j] + Skew[S3] /\ putAt[j] \in Nat
        BY <4>1 DEF Fresh, TypeOK
      <4>3. j \in Others(i)
        BY <2>4, <4>1, <4>2 DEF Others
      <4> QED
        BY <2>4, <4>1, <4>3, ListCovers
    <3>3. table[i][j] # NoNode => j \in Heard(i)'
      BY <3>1, EntryType DEF Remembered, Heard
    <3> QED
      BY <2>4, <3>1, <3>2, <3>3 DEF Sees, HasListed
  <2> QED
    BY <2>1, <2>2, <2>3, <2>4 DEF OneSees
<1> QED
  BY <1>1, <1>2, TypeAndShape, FreshHolds, RememberedHolds, PTL DEF Spec

\* StartedMeet: of two nodes that have started, one has heard of the other,
\* or has missed it.
THEOREM StartedMeetHolds == Spec => []StartedMeet
<1>1. TypeOK /\ OneSees => StartedMeet
  BY DEF TypeOK, OneSees, StartedMeet, HasListed, Sees
<1> QED
  BY <1>1, TypeCorrect, OneSeesHolds, PTL
=============================================================================
