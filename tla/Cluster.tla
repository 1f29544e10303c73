------------------------------ MODULE Cluster ------------------------------
(***************************************************************************)
(* Several nameq services, the S3 bucket and the UDP network between them, *)
(* in real time.  Each node puts its object, lists the bucket, deletes the *)
(* objects of nodes that seem dead, loads the others and expires entries of *)
(* its table (service/storage.go), while packets come and go               *)
(* (service/io.go).  Nodes crash and restart at any step.                  *)
(*                                                                         *)
(* What the nodes say of themselves is left out: only whether they are     *)
(* known, and from when.  A clean shutdown is then a Transmit, a Put and a *)
(* Crash.  A listing of the bucket is one step.                            *)
(*                                                                         *)
(* Packets are stamped by their sender's clock and objects by the bucket's, *)
(* and stamps are compared with each other and with the reader's clock.    *)
(* The clocks differ, each by a constant.                                  *)
(***************************************************************************)
EXTENDS Integers

CONSTANTS
    Nodes,
    NoNode,
    S3,               \* stands for the bucket
    Skew,             \* how much the clock of each is ahead of the slowest one
    Latency,          \* latencyTolerance (15 s in the code)
    ExpireTimeout,    \* expireTimeout (15 min)
    StorageInterval,  \* maxStorageInterval (4 min), and the time to put
    MaxClock          \* bound on the clock, which starts at ExpireTimeout

ASSUME ClockAssumption ==
    S3 \notin Nodes /\ Skew \in [Nodes \cup {S3} -> Nat]

ASSUME TimeoutAssumption ==
    /\ Latency \in Nat /\ ExpireTimeout \in Nat /\ StorageInterval \in Nat
    /\ Latency < ExpireTimeout
    /\ StorageInterval < ExpireTimeout
    /\ MaxClock \in Nat /\ ExpireTimeout <= MaxClock

\* Every node says the same of itself.
Features == {"any"}

R == INSTANCE Remotes WITH Peers <- Nodes

ASSUME EntryAssumption == NoNode \notin R!Node

Never == -1

VARIABLES
    clock,      \* the time of day, by the slowest clock
    objects,    \* per node, when its object was last modified, or Never
    packets,    \* the packets that may still be delivered, any number of times
    pc,         \* per node, where its storage loop is; "down" without a process
    started,    \* the nodes whose initStorage has returned
    putAt,      \* per node, when it last put its object since it was started
    table,      \* per node, its table of remote nodes
    threshold,  \* per node, expireThreshold of its scan
    deleteKeys, \* per node, the objects it has yet to delete in its scan
    loadKeys,   \* per node, the objects it has yet to load in its scan
    \* history
    latest,     \* per node, the latest stamp it took of each node
    robbed,     \* the nodes whose object was deleted since they put it
    missed,     \* per node, the running nodes whose objects it failed to list
                \* or load since, without having taken anything of them later
    present,    \* per node, the running nodes that had put the object that was
                \* in the bucket when its scan under way began
    purged,     \* per node, whom it has expired for good: a node that is down,
                \* with every stamp that it can have left
    downSince   \* per node, when it went down

env == <<clock, objects, packets>>
procs == <<pc, started, putAt>>
scans == <<threshold, deleteKeys, loadKeys>>
history == <<latest, robbed, missed, present, purged, downSince>>
vars == <<env, procs, table, scans, history>>

Up == {n \in Nodes : pc[n] # "down"}

\* The time of day as a node, or the bucket, reads it.
Now(x) == clock + Skew[x]

Stamps == {Never} \cup Nat

TypeOK ==
    /\ clock \in 0..MaxClock
    /\ objects \in [Nodes -> Stamps]
    /\ packets \subseteq [from : Nodes, to : Nodes, time : Nat]
    /\ pc \in [Nodes -> {"down", "put", "list", "scan", "select"}]
    /\ started \subseteq Up
    /\ putAt \in [Nodes -> Stamps]
    /\ table \in [Nodes -> R!Tables]
    /\ threshold \in [Nodes -> Nat]
    /\ deleteKeys \in [Nodes -> SUBSET Nodes]
    /\ loadKeys \in [Nodes -> SUBSET Nodes]
    /\ latest \in [Nodes -> [Nodes -> Stamps]]
    /\ robbed \subseteq Up
    /\ missed \in [Nodes -> SUBSET Up]
    /\ present \in [Nodes -> SUBSET Up]
    /\ purged \in [Nodes -> SUBSET (Nodes \ Up)]
    /\ downSince \in [Nodes -> 0..MaxClock]

Init ==
    /\ clock = ExpireTimeout
    /\ objects = [n \in Nodes |-> Never]
    /\ packets = {}
    /\ pc = [n \in Nodes |-> "down"]
    /\ started = {}
    /\ putAt = [n \in Nodes |-> Never]
    /\ table = [n \in Nodes |-> R!NoRemotes]
    /\ threshold = [n \in Nodes |-> 0]
    /\ deleteKeys = [n \in Nodes |-> {}]
    /\ loadKeys = [n \in Nodes |-> {}]
    /\ latest = [n \in Nodes |-> [m \in Nodes |-> Never]]
    /\ robbed = {}
    /\ missed = [n \in Nodes |-> {}]
    /\ present = [n \in Nodes |-> {}]
    /\ purged = [n \in Nodes |-> {}]
    /\ downSince = [n \in Nodes |-> 0]
----------------------------------------------------------------------------
(* Time *)

\* A node that is up puts its object again before StorageInterval is over.
TimelyPuts ==
    \A n \in Up : putAt[n] # Never => clock - putAt[n] < StorageInterval

TolerableTooLong(packet) ==           \* mutant: the wrong timeout
    Now(packet.to) - packet.time <= ExpireTimeout + Latency

\* receiveLoop drops a packet for good once it is too old.
Tolerable(packet) == Now(packet.to) - packet.time <= Latency

Tick ==
    /\ clock < MaxClock /\ TimelyPuts
    /\ clock' = clock + 1
    /\ packets' = {k \in packets : Tolerable(k)'}
    /\ UNCHANGED <<objects, procs, table, scans, history>>
----------------------------------------------------------------------------
(* Processes *)

FirstScan == "list"         \* mutant: initStorage scans, and puts later

First == "put"

\* A new process knows nobody and begins with initStorage.
Boot(n) ==
    /\ pc[n] = "down"
    /\ pc' = [pc EXCEPT ![n] = First]
    /\ purged' = [k \in Nodes |-> purged[k] \ {n}]
    /\ downSince' = [downSince EXCEPT ![n] = 0]
    /\ UNCHANGED <<env, started, putAt, table, scans, latest, robbed,
                   missed, present>>

Crash(n) ==
    /\ n \in Up
    /\ pc' = [pc EXCEPT ![n] = "down"]
    /\ started' = started \ {n}
    /\ putAt' = [putAt EXCEPT ![n] = Never]
    /\ table' = [table EXCEPT ![n] = R!NoRemotes]
    /\ threshold' = [threshold EXCEPT ![n] = 0]
    /\ deleteKeys' = [deleteKeys EXCEPT ![n] = {}]
    /\ loadKeys' = [loadKeys EXCEPT ![n] = {}]
    /\ latest' = [latest EXCEPT ![n] = [m \in Nodes |-> Never]]
    /\ robbed' = robbed \ {n}
    /\ missed' = [k \in Nodes |-> IF k = n THEN {} ELSE missed[k] \ {n}]
    /\ present' = [k \in Nodes |-> IF k = n THEN {} ELSE present[k] \ {n}]
    /\ purged' = [purged EXCEPT ![n] = {}]
    /\ downSince' = [downSince EXCEPT ![n] = clock]
    /\ UNCHANGED env

\* remoteNodes.update, for a packet or an object of m stamped t.
Learn(n, m, t) ==
    LET node == [features |-> "any", time |-> t]
    IN  /\ table' = [table EXCEPT ![n] = R!Update(@, m, node)]
        /\ latest' = [latest EXCEPT ![n][m] = IF t > @ THEN t ELSE @]
        /\ missed' = [missed EXCEPT ![n] = @ \ {m}]
        /\ UNCHANGED <<robbed, present, purged, downSince>>
----------------------------------------------------------------------------
(* Packets *)

\* transmitLoop sends to every node it knows, and any packet may be lost.
Transmit(n) ==
    /\ n \in Up /\ R!Known(table[n]) # {}
    /\ packets' = packets \cup [from : {n}, to : R!Known(table[n]),
                                time : {Now(n)}]
    /\ UNCHANGED <<clock, objects, procs, table, scans, history>>

\* A packet stays where it is and may be delivered again.  One that is not
\* newer than the entry changes nothing.
Receive(k) ==
    /\ k.to \in Up
    /\ Tolerable(k) /\ R!Updatable(table[k.to], k.from, k.time)
    /\ Learn(k.to, k.from, k.time)
    /\ UNCHANGED <<env, procs, scans>>
----------------------------------------------------------------------------
(* Storage *)

\* A process begins with a put and a scan.  Later storageLoop puts, and
\* scans as well if it was its timer that woke it.
AfterPut(n) == IF n \in started THEN {"select", "list"} ELSE {"list"}

Put(n) ==
    /\ pc[n] \in {"put", "select"}
    /\ objects' = [objects EXCEPT ![n] = Now(S3)]
    /\ putAt' = [putAt EXCEPT ![n] = clock]
    /\ \E next \in AfterPut(n) : pc' = [pc EXCEPT ![n] = next]
    /\ UNCHANGED <<clock, packets, started, table, scans, history>>

\* storageLoop logs the error and goes on; initStorage returns it, see Crash.
PutFails(n) ==
    /\ pc[n] = "select"
    /\ pc' = [pc EXCEPT ![n] = "list"]
    /\ UNCHANGED <<env, started, putAt, table, scans, history>>

Others(n) == {m \in Nodes \ {n} : objects[m] # Never}

OldestFromZero(n) == 0 - ExpireTimeout  \* mutant: not relative to now

OldestByLatency(n) == Now(n) - Latency  \* mutant: the wrong timeout

\* expireThreshold
Oldest(n) == Now(n) - ExpireTimeout

Useful(n, m) == R!Updatable(table[n], m, objects[m])

\* The threshold is fixed here and used until the end of the scan.  A later
\* page may fail to arrive, and the scan goes on with those before it.
List(n, listed) ==
    LET alive == {m \in listed : objects[m] > Oldest(n)}
    IN  /\ pc[n] = "list"
        /\ threshold' = [threshold EXCEPT ![n] = Oldest(n)]
        /\ deleteKeys' = [deleteKeys EXCEPT ![n] = listed \ alive]
        /\ loadKeys' = [loadKeys EXCEPT ![n] = {m \in alive : Useful(n, m)}]
        /\ missed' = [missed EXCEPT ![n] =
                          @ \cup (Up \cap (Others(n) \ listed))]
        /\ present' = [present EXCEPT ![n] =
                           {m \in Others(n) : putAt[m] # Never}]
        /\ pc' = [pc EXCEPT ![n] = "scan"]
        /\ UNCHANGED <<env, started, putAt, table, latest, robbed, purged,
                       downSince>>

ListFails(n) ==
    /\ pc[n] = "list" /\ n \in started
    /\ pc' = [pc EXCEPT ![n] = "select"]
    /\ UNCHANGED <<env, started, putAt, table, scans, history>>

\* The object is deleted, whatever was put since it was listed, or S3
\* reports an error that is logged.
Delete(n, m) ==
    /\ pc[n] = "scan" /\ m \in deleteKeys[n]
    /\ deleteKeys' = [deleteKeys EXCEPT ![n] = @ \ {m}]
    /\ objects' \in {objects, [objects EXCEPT ![m] = Never]}
    /\ robbed' = IF objects' # objects /\ putAt[m] # Never
                 THEN robbed \cup {m} ELSE robbed
    /\ UNCHANGED <<clock, packets, procs, table, threshold, loadKeys, latest,
                   missed, present, purged, downSince>>

\* The loads follow the deletes.
Loading(n, m) ==
    /\ pc[n] = "scan" /\ deleteKeys[n] = {} /\ m \in loadKeys[n]
    /\ loadKeys' = [loadKeys EXCEPT ![n] = @ \ {m}]
    /\ UNCHANGED <<env, procs, threshold, deleteKeys>>

Load(n, m) ==
    /\ objects[m] # Never
    /\ Loading(n, m)
    /\ Learn(n, m, objects[m])

\* The object is gone, or the call fails.
LoadFails(n, m) ==
    /\ Loading(n, m)
    /\ missed' = [missed EXCEPT ![n] = @ \cup ({m} \cap Up)]
    /\ UNCHANGED <<table, latest, robbed, present, purged, downSince>>

RemainAll(n) == table[n]    \* mutant: expired entries stay in the table

\* The nodes that are down, if they went down before the threshold.
Gone(t) == {m \in Nodes \ Up : \A x \in {m, S3} : t > downSince[m] + Skew[x]}

RemainByNow(n) ==           \* mutant: the threshold is computed once more
    R!Expire(table[n], Oldest(n))

Remain(n) == R!Expire(table[n], threshold[n])

\* The end of the scan; the end of the first one is the end of initStorage.
Expire(n) ==
    /\ pc[n] = "scan" /\ deleteKeys[n] = {} /\ loadKeys[n] = {}
    /\ table' = [table EXCEPT ![n] = Remain(n)]
    /\ purged' = [purged EXCEPT ![n] = @ \cup Gone(threshold[n])]
    /\ present' = [present EXCEPT ![n] = {}]
    /\ threshold' = [threshold EXCEPT ![n] = 0]
    /\ pc' = [pc EXCEPT ![n] = "select"]
    /\ started' = started \cup {n}
    /\ UNCHANGED <<env, putAt, deleteKeys, loadKeys, latest, robbed,
                   missed, downSince>>
----------------------------------------------------------------------------
Process(n) == Boot(n) \/ Crash(n) \/ Transmit(n)

Storage(n) ==
    \/ Put(n)
    \/ PutFails(n)
    \/ \E listed \in SUBSET Others(n) : List(n, listed)
    \/ ListFails(n)
    \/ \E m \in Nodes : Delete(n, m) \/ Load(n, m) \/ LoadFails(n, m)
    \/ Expire(n)

Next ==
    \/ Tick
    \/ \E n \in Nodes : Process(n) \/ Storage(n)
    \/ \E k \in packets : Receive(k)

Spec == Init /\ [][Next]_vars
----------------------------------------------------------------------------
\* A process never takes an entry older than one it has had before, not even
\* when it has expired that one since: neither a packet that was delayed or
\* delivered twice nor an object can bring a forgotten node back.  This is
\* where latencyTolerance has to be shorter than expireTimeout.
NoResurrection ==
    [][\A n, m \in Nodes :
        table'[n][m] \notin {table[n][m], NoNode} =>
            table'[n][m].time > latest[n][m]]_table

\* A node that went down before the threshold of a scan is unknown to the
\* scanning process when the scan ends, and stays so while it is down.
DeadForgotten == \A n \in Up : purged[n] \cap R!Known(table[n]) = {}

\* An object that is put in time does not seem old to any node.
ClocksAgree ==
    \A n \in Nodes : StorageInterval + Skew[n] - Skew[S3] < ExpireTimeout

\* A node that is running is not forgotten: a scan expires no entry of a node
\* that had put its object before the scan began and has been running since,
\* however long the scan takes and whatever the node puts meanwhile, unless a
\* part of the listing or a load failed, or the object had been deleted.  This
\* is where the storage interval has to be shorter than expireTimeout, the
\* threshold the same for objects and entries, and the load before expire.
LiveKept ==
    [][\A n, m \in Nodes :
        /\ ClocksAgree
        /\ table[n][m] # NoNode /\ table'[n][m] = NoNode /\ n \in Up'
        => m \notin present[n] \ missed[n]]_table

\* Whom the process has known.
Heard(n) == {m \in Nodes : latest[n][m] # Never}

\* Of two nodes that have started, one has heard of the other, because each
\* puts its own object before it lists the others'; unless a part of the
\* listing or a load failed, or an object was deleted while in use.
StartedMeet ==
    ClocksAgree => \A n, m \in started \ robbed :
        n # m => \/ m \in Heard(n) \cup missed[n]
                 \/ n \in Heard(m) \cup missed[m]

\* A listing chooses for deletion no object of a node that is running and has
\* put it: an object is deleted while it is in use (robbed) only by a scan that
\* listed it before its node, or a new process of it, put it for the first time.
OnlyDeadChosen ==
    [][ClocksAgree =>
        \A n, m \in Nodes :
            m \in deleteKeys'[n] \ deleteKeys[n] => putAt[m] = Never]_deleteKeys

\* "All nodes also participate in cleaning of old S3 files (left over by dead
\* nodes)" (README.md): a file is old when it is deleted.
OnlyOldDeleted ==
    [][\A m \in Nodes :
        objects[m] # Never /\ objects'[m] = Never =>
            objects[m] <= Now(S3) - ExpireTimeout]_vars
=============================================================================
