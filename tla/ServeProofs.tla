---------------------------- MODULE ServeProofs ----------------------------
(***************************************************************************)
(* The safety properties of Serve, for every set of peers and features,    *)
(* every bound on time stamps and every capacity of the reply channel.     *)
(***************************************************************************)
EXTENDS Serve, RemotesProofs

USE DEF Consumers, Finishers, Initializing, shared, channels, mainVars, stateVars,
        receiveVars, transmitVars, scanVars, storageVars, peerVars, vars,
        MainUnchanged,
        StateUnchanged, ReceiveUnchanged, TransmitUnchanged, StorageUnchanged,
        PutUnchanged, ScanUnchanged, SelectUnchanged, Forwarded, ForwardLeft,
        WaitsAfter, PassStart, Left, Targets, TickStart, Load

\* What the tree is to show of a peer is a feature map.
LEMMA ShownType ==
    ASSUME TypeOK, NEW p \in Peers
    PROVE  Shown(p) \in Features
  BY KnownNode, EmptyAssumption DEF TypeOK, Shown, Node

LEMMA NodesAreNode == Nodes \subseteq Node
  BY InputAssumption, MaxTimeAssumption DEF Nodes, Node, Times

LEMMA LearnType ==
    ASSUME TypeOK, NEW p \in Peers, NEW n \in Nodes, Learn(p, n)
    PROVE  /\ table' \in Tables
           /\ unmet' \subseteq Peers /\ lapsed' \subseteq Peers
  BY UpdateType, NodesAreNode DEF TypeOK, Learn, NewAddrs

\* Learn only adds entries, and the peer it is about has one after it.
LEMMA LearnKnows ==
    ASSUME TypeOK, NEW p \in Peers, NEW n \in Nodes, Learn(p, n)
    PROVE  /\ Known(table') = Known(table) \cup {p}
           /\ lapsed' = lapsed \/ lapsed' = lapsed \ {p}
  BY NodesAreNode, NoNodeAssumption
     DEF TypeOK, Learn, Update, Updatable, Known, Tables

\* What a send on the reply channel leaves, and what a receive takes.
LEMMA AppendReply ==
    ASSUME TypeOK, Len(reply) < ReplyCap, NEW to \in SUBSET Peers
    PROVE  /\ Append(reply, to) \in Seq(SUBSET Peers)
           /\ Len(Append(reply, to)) <= ReplyCap
  BY ReplyCapAssumption DEF TypeOK

LEMMA TakeReply ==
    ASSUME TypeOK, reply # <<>>
    PROVE  /\ Head(reply) \subseteq Peers
           /\ Tail(reply) \in Seq(SUBSET Peers)
           /\ Len(Tail(reply)) <= ReplyCap
  BY ReplyCapAssumption DEF TypeOK

LEMMA StillQueued ==
    ASSUME TypeOK, reply # <<>>, NEW p, NEW i \in DOMAIN reply, p \in reply[i]
    PROVE  \/ p \in Head(reply)
           \/ \E j \in DOMAIN Tail(reply) : p \in Tail(reply)[j]
<1>1. reply \in Seq(SUBSET Peers) /\ i \in 1..Len(reply)
  BY DEF TypeOK
<1>2. CASE i = 1
  BY <1>1, <1>2
<1>3. CASE i # 1
  <2>1. i - 1 \in DOMAIN Tail(reply) /\ Tail(reply)[i - 1] = reply[i]
    BY <1>1, <1>3
  <2> QED
    BY <2>1
<1> QED
  BY <1>2, <1>3

\* Every variable keeps its type, and the reply channel its capacity.
THEOREM TypeCorrect == Spec => []TypeOK
<1>1. Init => TypeOK
  <2> SUFFICES ASSUME Init PROVE TypeOK
    OBVIOUS
  <2>1. table \in Tables
    BY DEF Init, NoRemotes, Tables
  <2>2. notifyTo \in [Consumers -> BOOLEAN]
    BY DEF Init
  <2>3. reply \in Seq(SUBSET Peers) /\ Len(reply) <= ReplyCap
    BY ReplyCapAssumption DEF Init
  <2>4. sent \in [Peers -> Features \cup {None}]
    BY DEF Init
  <2>5. silent \subseteq Hosts /\ unmet \subseteq Peers /\ lapsed \subseteq Peers
    BY DEF Init
  <2> QED
    BY <2>1, <2>2, <2>3, <2>4, <2>5, EmptyAssumption DEF Init, TypeOK
<1>2. TypeOK /\ [Next]_vars => TypeOK'
  <2> SUFFICES ASSUME TypeOK, [Next]_vars PROVE TypeOK'
    OBVIOUS
  <2>1. CASE Config
    <3>1. ASSUME NEW f \in FirstFeatures, Start(f) PROVE TypeOK'
      BY <3>1, InputAssumption
         DEF Start, TypeOK
    <3>2. ASSUME NEW f \in LocalFeatures, ConfigUpdate(f) PROVE TypeOK'
      BY <3>2, InputAssumption
         DEF ConfigUpdate, TypeOK
    <3>3. CASE ConfigNotify
      BY <3>3
         DEF ConfigNotify, TypeOK
    <3>4. CASE Cancel
      BY <3>4
         DEF Cancel, TypeOK
    <3> QED
      BY <2>1, <3>1, <3>2, <3>3, <3>4 DEF Config
  <2>2. CASE Main
    <3>1. CASE MainNotify
      <4>1. notify' \in BOOLEAN
        BY <3>1, Zenon DEF MainNotify
      <4> QED
        BY <3>1, <4>1
           DEF MainNotify, TypeOK
    <3>2. ASSUME NEW c \in Consumers, MainForward(c) PROVE TypeOK'
      BY <3>2
         DEF MainForward, TypeOK
    <3>3. ASSUME NEW d \in Finishers, MainDone(d) PROVE TypeOK'
      BY <3>3
         DEF MainDone, TypeOK
    <3> QED
      BY <2>2, <3>1, <3>2, <3>3 DEF Main
  <2>3. CASE State
    <3>1. CASE StateWake
      BY <3>1
         DEF StateWake, TypeOK
    <3>2. CASE StateReadLocal
      BY <3>2
         DEF StateReadLocal, TypeOK
    <3>3. CASE StateSync
      BY <3>3, ShownType, EmptyAssumption
         DEF StateSync, Hosts, TypeOK
    <3> QED
      BY <2>3, <3>1, <3>2, <3>3 DEF State
  <2>4. CASE ReceiveSteps
    <3>1. ASSUME NEW p \in Peers, NEW n \in Nodes, Receive(p, n) PROVE TypeOK'
      BY <3>1, LearnType
         DEF Receive, NewAddrs, TypeOK
    <3>2. CASE ReceiveNotify
      BY <3>2
         DEF ReceiveNotify, TypeOK
    <3>3. CASE ReceiveReply
      BY <3>3, AppendReply
         DEF ReceiveReply, CanReply, TypeOK
    <3> QED
      BY <2>4, <3>1, <3>2, <3>3 DEF ReceiveSteps
  <2>5. CASE Transmit
    <3>1. CASE TransmitAddrs
      BY <3>1
         DEF TransmitAddrs, Known, TypeOK
    <3>2. CASE TransmitSend
      BY <3>2
         DEF TransmitSend, SendTo, TypeOK
    <3>3. CASE TransmitReply
      BY <3>3, TakeReply
         DEF TransmitReply, TypeOK
    <3>4. CASE TransmitNotify
      BY <3>4
         DEF TransmitNotify, TypeOK
    <3>5. CASE TransmitTick
      BY <3>5
         DEF TransmitTick, TypeOK
    <3>6. CASE TransmitDone
      BY <3>6
         DEF TransmitDone, TypeOK
    <3>7. CASE TransmitBye
      BY <3>7, EmptyAssumption
         DEF TransmitBye, SendTo, TypeOK
    <3> QED
      BY <2>5, <3>1, <3>2, <3>3, <3>4, <3>5, <3>6, <3>7 DEF Transmit
  <2>6. CASE Storage
    <3>1. CASE StorageMarshal
      BY <3>1
         DEF StorageMarshal, TypeOK
    <3>2. CASE StoragePutOk
      BY <3>2, EmptyAssumption
         DEF StoragePutOk, AfterPut, TypeOK
    <3>3. CASE StoragePutFails
      BY <3>3, EmptyAssumption
         DEF StoragePutFails, AfterPut, TypeOK
    <3>4. ASSUME NEW t \in Thresholds, NEW ks \in SUBSET Peers, ScanList(t, ks) PROVE TypeOK'
      BY <3>4, MaxTimeAssumption
         DEF ScanList, Load, Thresholds, Times, TypeOK
    <3>5. CASE ScanListFails
      <4>1. scanning' \in BOOLEAN
        BY <3>5, Zenon DEF ScanListFails
      <4> QED
        BY <3>5, <4>1
           DEF ScanListFails, TypeOK
    <3>6. ASSUME NEW p \in Peers, NEW n \in Nodes, ScanLoad(p, n) PROVE TypeOK'
      BY <3>6, LearnType
         DEF ScanLoad, Load, NewAddrs, Hosts, TypeOK
    <3>7. ASSUME NEW p \in Peers, ScanLoadFails(p) PROVE TypeOK'
      BY <3>7
         DEF ScanLoadFails, Load, TypeOK
    <3>8. CASE StorageReply
      BY <3>8, AppendReply
         DEF StorageReply, CanReply, TypeOK
    <3>9. CASE StorageExpire
      <4>1. scanning' \in BOOLEAN
        BY <3>9, Zenon DEF StorageExpire
      <4> QED
        BY <3>9, <4>1, ExpireType
           DEF StorageExpire, Expired, Known, Hosts, TypeOK
    <3>10. CASE StorageNotify
      <4>1. scanning' \in BOOLEAN
        BY <3>10, Zenon DEF StorageNotify
      <4> QED
        BY <3>10, <4>1
           DEF StorageNotify, TypeOK
    <3>11. CASE StorageTick
      BY <3>11
         DEF StorageTick, TypeOK
    <3>12. CASE StorageDone
      BY <3>12
         DEF StorageDone, TypeOK
    <3>13. CASE StorageBye
      BY <3>13, EmptyAssumption
         DEF StorageBye, TypeOK
    <3> QED
      BY <2>6, <3>1, <3>2, <3>3, <3>4, <3>5, <3>6, <3>7, <3>8, <3>9, <3>10, <3>11, <3>12, <3>13 DEF Storage, Put, Scan
  <2>7. CASE UNCHANGED vars
    BY <2>7 DEF TypeOK
  <2> QED
    BY <2>1, <2>2, <2>3, <2>4, <2>5, <2>6, <2>7 DEF Next
<1> QED
  BY <1>1, <1>2, PTL DEF Spec

\* Quiet: each goroutine's variables are empty where it does not use them.
THEOREM QuietHolds == Spec => []Quiet
<1>1. Init => Quiet
  BY DEF Init, Quiet
<1>2. Quiet /\ [Next]_vars => Quiet'
  <2> SUFFICES ASSUME Quiet, [Next]_vars
               PROVE  Quiet'
    OBVIOUS
  <2>1. CASE Config
    BY <2>1
       DEF Config, Start, ConfigUpdate, ConfigNotify, Cancel, Quiet
  <2>2. CASE Main
    BY <2>2
       DEF Main, MainNotify, MainForward, MainDone, Quiet
  <2>3. CASE State
    BY <2>3
       DEF State, StateWake, StateReadLocal, StateSync, Quiet
  <2>4. CASE ReceiveSteps
    BY <2>4
       DEF ReceiveSteps, Receive, ReceiveNotify, ReceiveReply, NewAddrs, Quiet
  <2>5. CASE Transmit
    BY <2>5
       DEF Transmit, TransmitAddrs, TransmitSend, TransmitReply, TransmitNotify,
             TransmitTick, TransmitDone, TransmitBye, Quiet
  <2>6. CASE Storage
    BY <2>6
       DEF Storage, Put, Scan, StorageMarshal, StoragePutOk, StoragePutFails,
             ScanList, ScanListFails, ScanLoad, ScanLoadFails, StorageReply,
             StorageExpire, StorageNotify, StorageTick, StorageDone, StorageBye,
             Load, AfterPut, Quiet
  <2>7. CASE UNCHANGED vars
    BY <2>7 DEF Quiet
  <2> QED
    BY <2>1, <2>2, <2>3, <2>4, <2>5, <2>6, <2>7 DEF Next
<1> QED
  BY <1>1, <1>2, PTL DEF Spec

\* Between reading the local node and leaving the tree as it read it, the
\* state loop is sent word of every change.
THEOREM ViewDueHolds == Spec => []ViewDue
<1>1. Init => ViewDue
  BY DEF Init, ViewDue
<1>2. TypeOK /\ Quiet /\ ViewDue /\ [Next]_vars => ViewDue'
  <2> SUFFICES ASSUME TypeOK, Quiet, ViewDue, [Next]_vars
               PROVE  ViewDue'
    OBVIOUS
  <2>0. notifyTo \in [Consumers -> BOOLEAN]
    BY DEF TypeOK
  <2>1. CASE Config
    BY <2>1, <2>0
       DEF Config, Start, ConfigUpdate, ConfigNotify, Cancel, Quiet, ViewDue, Announced
  <2>2. CASE Main
    BY <2>2, <2>0
       DEF Main, MainNotify, MainForward, MainDone, ViewDue, Announced
  <2>3. CASE State
    BY <2>3, <2>0
       DEF State, StateWake, StateReadLocal, StateSync, ViewDue, Announced
  <2>4. CASE ReceiveSteps
    BY <2>4, <2>0
       DEF ReceiveSteps, Receive, ReceiveNotify, ReceiveReply, ViewDue, Announced
  <2>5. CASE Transmit
    BY <2>5, <2>0
       DEF Transmit, TransmitAddrs, TransmitSend, TransmitReply, TransmitNotify,
             TransmitTick, TransmitDone, TransmitBye, ViewDue, Announced
  <2>6. CASE Storage
    BY <2>6, <2>0
       DEF Storage, Put, Scan, StorageMarshal, StoragePutOk, StoragePutFails,
             ScanList, ScanListFails, ScanLoad, ScanLoadFails, StorageReply,
             StorageExpire, StorageNotify, StorageTick, StorageDone, StorageBye,
             ViewDue, Announced
  <2>7. CASE UNCHANGED vars
    BY <2>7 DEF ViewDue, Announced
  <2> QED
    BY <2>1, <2>2, <2>3, <2>4, <2>5, <2>6, <2>7 DEF Next
<1> QED
  BY <1>1, <1>2, QuietHolds, TypeCorrect, PTL DEF Spec

\* A change of the local features is never lost on its way to the tree.
THEOREM LocalDueHolds == Spec => []LocalDue
<1>1. Init => LocalDue
  BY DEF Init, LocalDue, Hosts
<1>2. TypeOK /\ Quiet /\ ViewDue /\ LocalDue /\ [Next]_vars => LocalDue'
  <2> SUFFICES ASSUME TypeOK, Quiet, ViewDue, LocalDue, [Next]_vars
               PROVE  LocalDue'
    OBVIOUS
  <2>0. notifyTo \in [Consumers -> BOOLEAN]
    BY DEF TypeOK
  <2>1. CASE Config
    <3>1. ASSUME NEW f \in FirstFeatures, Start(f) PROVE LocalDue'
      <4>1. statePc = "off" /\ configPc = "off"
        BY <3>1 DEF Start, Quiet
      <4>2. local' = f /\ notify' = (notify \/ f # local)
            /\ UNCHANGED <<notifyTo, forward, tree, silent>>
        BY <3>1 DEF Start
      <4>3. CASE f # local
        BY <4>2, <4>3 DEF LocalDue, Announced
      <4>4. CASE f = local
        BY <4>1, <4>2, <4>4 DEF LocalDue, Announced
      <4> QED
        BY <4>3, <4>4
    <3>2. ASSUME NEW f \in LocalFeatures, ConfigUpdate(f) PROVE LocalDue'
      BY <3>2 DEF ConfigUpdate, LocalDue, Announced
    <3>3. CASE ConfigNotify
      BY <3>3 DEF ConfigNotify, LocalDue, Announced
    <3>4. CASE Cancel
      BY <3>4 DEF Cancel, LocalDue, Announced
    <3> QED
      BY <2>1, <3>1, <3>2, <3>3, <3>4 DEF Config
  <2>2. CASE Main
    BY <2>2, <2>0
       DEF Main, MainNotify, MainForward, MainDone, LocalDue, Announced
  <2>3. CASE State
    BY <2>3, <2>0
       DEF State, StateWake, StateReadLocal, StateSync, ViewDue, Hosts, TypeOK, LocalDue, Announced
  <2>4. CASE ReceiveSteps
    BY <2>4, <2>0
       DEF ReceiveSteps, Receive, ReceiveNotify, ReceiveReply, LocalDue, Announced
  <2>5. CASE Transmit
    BY <2>5, <2>0
       DEF Transmit, TransmitAddrs, TransmitSend, TransmitReply, TransmitNotify,
             TransmitTick, TransmitDone, TransmitBye, LocalDue, Announced
  <2>6. CASE Storage
    BY <2>6, <2>0
       DEF Storage, Put, Scan, StorageMarshal, StoragePutOk, StoragePutFails,
             ScanList, ScanListFails, ScanLoad, ScanLoadFails, StorageReply,
             StorageExpire, StorageNotify, StorageTick, StorageDone, StorageBye,
             LocalDue, Announced
  <2>7. CASE UNCHANGED vars
    BY <2>7 DEF LocalDue, Announced
  <2> QED
    BY <2>1, <2>2, <2>3, <2>4, <2>5, <2>6, <2>7 DEF Next
<1> QED
  BY <1>1, <1>2, QuietHolds, ViewDueHolds, TypeCorrect, PTL DEF Spec

\* A change that a packet made to the table is never lost on its way to the
\* tree; a change made by the S3 scan alone may be.
THEOREM RemoteDueHolds == Spec => []RemoteDue
<1>1. Init => RemoteDue
  BY DEF Init, RemoteDue, Hosts, Shown, Known, NoRemotes
<1>2. TypeOK /\ Quiet /\ RemoteDue /\ [Next]_vars => RemoteDue'
  <2> SUFFICES ASSUME TypeOK, Quiet, RemoteDue, [Next]_vars
               PROVE  RemoteDue'
    OBVIOUS
  <2>0. notifyTo \in [Consumers -> BOOLEAN]
    BY DEF TypeOK
  <2>1. CASE Config
    BY <2>1, <2>0
       DEF Config, Start, ConfigUpdate, ConfigNotify, Cancel, Quiet, RemoteDue, Shown, Known
  <2>2. CASE Main
    BY <2>2, <2>0
       DEF Main, MainNotify, MainForward, MainDone, RemoteDue, Shown, Known
  <2>3. CASE State
    BY <2>3, <2>0, LoopbackAssumption
       DEF State, StateWake, StateReadLocal, StateSync, Hosts, RemoteDue, Shown, Known
  <2>4. CASE ReceiveSteps
    <3>1. ASSUME NEW p \in Peers, NEW n \in Nodes, Receive(p, n) PROVE RemoteDue'
      BY <3>1, <2>0
         DEF Receive, RemoteDue, Shown, Known
    <3>2. CASE ReceiveNotify
      BY <3>2, <2>0
         DEF ReceiveNotify, RemoteDue, Shown, Known
    <3>3. CASE ReceiveReply
      BY <3>3, <2>0
         DEF ReceiveReply, RemoteDue, Shown, Known
    <3> QED
      BY <2>4, <3>1, <3>2, <3>3 DEF ReceiveSteps
  <2>5. CASE Transmit
    BY <2>5, <2>0
       DEF Transmit, TransmitAddrs, TransmitSend, TransmitReply, TransmitNotify,
             TransmitTick, TransmitDone, TransmitBye, RemoteDue, Shown, Known
  <2>6. CASE Storage
    <3>1. CASE StorageMarshal
      BY <3>1, <2>0
         DEF StorageMarshal, RemoteDue, Shown, Known
    <3>2. CASE StoragePutOk
      BY <3>2, <2>0
         DEF StoragePutOk, RemoteDue, Shown, Known
    <3>3. CASE StoragePutFails
      BY <3>3, <2>0
         DEF StoragePutFails, RemoteDue, Shown, Known
    <3>4. ASSUME NEW t \in Thresholds, NEW ks \in SUBSET Peers, ScanList(t, ks) PROVE RemoteDue'
      BY <3>4, <2>0
         DEF ScanList, RemoteDue, Shown, Known
    <3>5. CASE ScanListFails
      BY <3>5, <2>0
         DEF ScanListFails, RemoteDue, Shown, Known
    <3>6. ASSUME NEW p \in Peers, NEW n \in Nodes, ScanLoad(p, n) PROVE RemoteDue'
      BY <3>6, <2>0
         DEF ScanLoad, Learn, Update, Tables, RemoteDue, Shown, Known
    <3>7. ASSUME NEW p \in Peers, ScanLoadFails(p) PROVE RemoteDue'
      BY <3>7, <2>0
         DEF ScanLoadFails, RemoteDue, Shown, Known
    <3>8. CASE StorageReply
      BY <3>8, <2>0
         DEF StorageReply, RemoteDue, Shown, Known
    <3>9. CASE StorageExpire
      BY <3>9, <2>0
         DEF StorageExpire, Expire, Expired, RemoteDue, Shown, Known
    <3>10. CASE StorageNotify
      BY <3>10, <2>0
         DEF StorageNotify, RemoteDue, Shown, Known
    <3>11. CASE StorageTick
      BY <3>11, <2>0
         DEF StorageTick, RemoteDue, Shown, Known
    <3>12. CASE StorageDone
      BY <3>12, <2>0
         DEF StorageDone, RemoteDue, Shown, Known
    <3>13. CASE StorageBye
      BY <3>13, <2>0
         DEF StorageBye, RemoteDue, Shown, Known
    <3> QED
      BY <2>6, <3>1, <3>2, <3>3, <3>4, <3>5, <3>6, <3>7, <3>8, <3>9, <3>10, <3>11, <3>12, <3>13 DEF Storage, Put, Scan
  <2>7. CASE UNCHANGED vars
    BY <2>7 DEF RemoteDue, Shown, Known
  <2> QED
    BY <2>1, <2>2, <2>3, <2>4, <2>5, <2>6, <2>7 DEF Next
<1> QED
  BY <1>1, <1>2, QuietHolds, TypeCorrect, PTL DEF Spec

\* While a put of older features is under way, word of the change is on its
\* way to the storage loop.
THEOREM BodyDueHolds == Spec => []BodyDue
<1>1. Init => BodyDue
  BY DEF Init, BodyDue
<1>2. TypeOK /\ Quiet /\ BodyDue /\ [Next]_vars => BodyDue'
  <2> SUFFICES ASSUME TypeOK, Quiet, BodyDue, [Next]_vars
               PROVE  BodyDue'
    OBVIOUS
  <2>0. notifyTo \in [Consumers -> BOOLEAN]
    BY DEF TypeOK
  <2>1. CASE Config
    BY <2>1, <2>0
       DEF Config, Start, ConfigUpdate, ConfigNotify, Cancel, Quiet, BodyDue, Announced
  <2>2. CASE Main
    BY <2>2, <2>0
       DEF Main, MainNotify, MainForward, MainDone, BodyDue, Announced
  <2>3. CASE State
    BY <2>3, <2>0
       DEF State, StateWake, StateReadLocal, StateSync, BodyDue, Announced
  <2>4. CASE ReceiveSteps
    BY <2>4, <2>0
       DEF ReceiveSteps, Receive, ReceiveNotify, ReceiveReply, BodyDue, Announced
  <2>5. CASE Transmit
    BY <2>5, <2>0
       DEF Transmit, TransmitAddrs, TransmitSend, TransmitReply, TransmitNotify,
             TransmitTick, TransmitDone, TransmitBye, BodyDue, Announced
  <2>6. CASE Storage
    BY <2>6, <2>0
       DEF Storage, Put, Scan, StorageMarshal, StoragePutOk, StoragePutFails,
             ScanList, ScanListFails, ScanLoad, ScanLoadFails, StorageReply,
             StorageExpire, StorageNotify, StorageTick, StorageDone, StorageBye,
             Load, AfterPut, BodyDue, Announced
  <2>7. CASE UNCHANGED vars
    BY <2>7 DEF BodyDue, Announced
  <2> QED
    BY <2>1, <2>2, <2>3, <2>4, <2>5, <2>6, <2>7 DEF Next
<1> QED
  BY <1>1, <1>2, QuietHolds, TypeCorrect, PTL DEF Spec

\* S3 has the local features, or will be given them without waiting for the
\* timer, unless a put failed or the node is leaving.
THEOREM StoredDueHolds == Spec => []StoredDue
<1>1. Init => StoredDue
  BY DEF Init, StoredDue
<1>2. TypeOK /\ Quiet /\ BodyDue /\ StoredDue /\ [Next]_vars => StoredDue'
  <2> SUFFICES ASSUME TypeOK, Quiet, BodyDue, StoredDue, [Next]_vars
               PROVE  StoredDue'
    OBVIOUS
  <2>0. notifyTo \in [Consumers -> BOOLEAN]
    BY DEF TypeOK
  <2>1. CASE Config
    BY <2>1, <2>0
       DEF Config, Start, ConfigUpdate, ConfigNotify, Cancel, Quiet, StoredDue, Announced
  <2>2. CASE Main
    BY <2>2, <2>0
       DEF Main, MainNotify, MainForward, MainDone, StoredDue, Announced
  <2>3. CASE State
    BY <2>3, <2>0
       DEF State, StateWake, StateReadLocal, StateSync, StoredDue, Announced
  <2>4. CASE ReceiveSteps
    BY <2>4, <2>0
       DEF ReceiveSteps, Receive, ReceiveNotify, ReceiveReply, StoredDue, Announced
  <2>5. CASE Transmit
    BY <2>5, <2>0
       DEF Transmit, TransmitAddrs, TransmitSend, TransmitReply, TransmitNotify,
             TransmitTick, TransmitDone, TransmitBye, StoredDue, Announced
  <2>6. CASE Storage
    <3>1. CASE StorageMarshal
      BY <3>1, <2>0
         DEF StorageMarshal, StoredDue, Announced
    <3>2. CASE StoragePutOk
      BY <3>2, <2>0
         DEF StoragePutOk, BodyDue, AfterPut, StoredDue, Announced
    <3>3. CASE StoragePutFails
      BY <3>3, <2>0
         DEF StoragePutFails, AfterPut, StoredDue, Announced
    <3>4. ASSUME NEW t \in Thresholds, NEW ks \in SUBSET Peers, ScanList(t, ks) PROVE StoredDue'
      BY <3>4, <2>0
         DEF ScanList, Load, StoredDue, Announced
    <3>5. CASE ScanListFails
      BY <3>5, <2>0
         DEF ScanListFails, StoredDue, Announced
    <3>6. ASSUME NEW p \in Peers, NEW n \in Nodes, ScanLoad(p, n) PROVE StoredDue'
      BY <3>6, <2>0
         DEF ScanLoad, Load, StoredDue, Announced
    <3>7. ASSUME NEW p \in Peers, ScanLoadFails(p) PROVE StoredDue'
      BY <3>7, <2>0
         DEF ScanLoadFails, Load, StoredDue, Announced
    <3>8. CASE StorageReply
      BY <3>8, <2>0
         DEF StorageReply, StoredDue, Announced
    <3>9. CASE StorageExpire
      BY <3>9, <2>0
         DEF StorageExpire, StoredDue, Announced
    <3>10. CASE StorageNotify
      BY <3>10, <2>0
         DEF StorageNotify, StoredDue, Announced
    <3>11. CASE StorageTick
      BY <3>11, <2>0
         DEF StorageTick, StoredDue, Announced
    <3>12. CASE StorageDone
      BY <3>12, <2>0
         DEF StorageDone, StoredDue, Announced
    <3>13. CASE StorageBye
      BY <3>13, <2>0
         DEF StorageBye, StoredDue, Announced
    <3> QED
      BY <2>6, <3>1, <3>2, <3>3, <3>4, <3>5, <3>6, <3>7, <3>8, <3>9, <3>10, <3>11, <3>12, <3>13 DEF Storage, Put, Scan
  <2>7. CASE UNCHANGED vars
    BY <2>7 DEF StoredDue, Announced
  <2> QED
    BY <2>1, <2>2, <2>3, <2>4, <2>5, <2>6, <2>7 DEF Next
<1> QED
  BY <1>1, <1>2, QuietHolds, BodyDueHolds, TypeCorrect, PTL DEF Spec

\* A known peer has been sent the local features, or will be sent them
\* without waiting for the timer, unless the node is leaving.
THEOREM PeersHearLocalHolds == Spec => []PeersHearLocal
<1>1. Init => PeersHearLocal
  BY DEF Init, PeersHearLocal, Known, NoRemotes
<1>2. TypeOK /\ Quiet /\ PeersHearLocal /\ [Next]_vars => PeersHearLocal'
  <2> SUFFICES ASSUME TypeOK, Quiet, PeersHearLocal, [Next]_vars
               PROVE  PeersHearLocal'
    OBVIOUS
  <2>0. notifyTo \in [Consumers -> BOOLEAN]
    BY DEF TypeOK
  <2>1. CASE Config
    BY <2>1, <2>0
       DEF Config, Start, ConfigUpdate, ConfigNotify, Cancel, Quiet, PeersHearLocal, Announced, Known
  <2>2. CASE Main
    BY <2>2, <2>0
       DEF Main, MainNotify, MainForward, MainDone, PeersHearLocal, Announced, Known
  <2>3. CASE State
    BY <2>3, <2>0
       DEF State, StateWake, StateReadLocal, StateSync, PeersHearLocal, Announced, Known
  <2>4. CASE ReceiveSteps
    <3>1. ASSUME NEW p \in Peers, NEW n \in Nodes, Receive(p, n) PROVE PeersHearLocal'
      BY <3>1, <2>0
         DEF Receive, Quiet, Learn, Update, Updatable, NewAddrs, Tables, PeersHearLocal, Announced, Known
    <3>2. CASE ReceiveNotify
      BY <3>2, <2>0
         DEF ReceiveNotify, PeersHearLocal, Announced, Known
    <3>3. CASE ReceiveReply
      BY <3>3, <2>0
         DEF ReceiveReply, CanReply, TypeOK, PeersHearLocal, Announced, Known
    <3> QED
      BY <2>4, <3>1, <3>2, <3>3 DEF ReceiveSteps
  <2>5. CASE Transmit
    <3>1. CASE TransmitAddrs
      BY <3>1, <2>0
         DEF TransmitAddrs, PeersHearLocal, Announced, Known
    <3>2. CASE TransmitSend
      BY <3>2, <2>0
         DEF TransmitSend, SendTo, TypeOK, PeersHearLocal, Announced, Known
    <3>3. CASE TransmitReply
      BY <3>3, <2>0, StillQueued
         DEF TransmitReply, PeersHearLocal, Announced, Known
    <3>4. CASE TransmitNotify
      BY <3>4, <2>0
         DEF TransmitNotify, Quiet, PeersHearLocal, Announced, Known
    <3>5. CASE TransmitTick
      BY <3>5, <2>0
         DEF TransmitTick, Quiet, PeersHearLocal, Announced, Known
    <3>6. CASE TransmitDone
      BY <3>6, <2>0
         DEF TransmitDone, PeersHearLocal, Announced, Known
    <3>7. CASE TransmitBye
      BY <3>7, <2>0
         DEF TransmitBye, SendTo, PeersHearLocal, Announced, Known
    <3> QED
      BY <2>5, <3>1, <3>2, <3>3, <3>4, <3>5, <3>6, <3>7 DEF Transmit
  <2>6. CASE Storage
    <3>1. CASE StorageMarshal
      BY <3>1, <2>0
         DEF StorageMarshal, PeersHearLocal, Announced, Known
    <3>2. CASE StoragePutOk
      BY <3>2, <2>0
         DEF StoragePutOk, PeersHearLocal, Announced, Known
    <3>3. CASE StoragePutFails
      BY <3>3, <2>0
         DEF StoragePutFails, PeersHearLocal, Announced, Known
    <3>4. ASSUME NEW t \in Thresholds, NEW ks \in SUBSET Peers, ScanList(t, ks) PROVE PeersHearLocal'
      BY <3>4, <2>0
         DEF ScanList, Load, Quiet, PeersHearLocal, Announced, Known
    <3>5. CASE ScanListFails
      BY <3>5, <2>0
         DEF ScanListFails, PeersHearLocal, Announced, Known
    <3>6. ASSUME NEW p \in Peers, NEW n \in Nodes, ScanLoad(p, n) PROVE PeersHearLocal'
      BY <3>6, <2>0
         DEF ScanLoad, Load, Learn, Update, Updatable, NewAddrs, PeersHearLocal, Announced, Known
    <3>7. ASSUME NEW p \in Peers, ScanLoadFails(p) PROVE PeersHearLocal'
      BY <3>7, <2>0
         DEF ScanLoadFails, Load, PeersHearLocal, Announced, Known
    <3>8. CASE StorageReply
      BY <3>8, <2>0
         DEF StorageReply, CanReply, TypeOK, PeersHearLocal, Announced, Known
    <3>9. CASE StorageExpire
      BY <3>9, <2>0
         DEF StorageExpire, Expire, Expired, PeersHearLocal, Announced, Known
    <3>10. CASE StorageNotify
      BY <3>10, <2>0
         DEF StorageNotify, PeersHearLocal, Announced, Known
    <3>11. CASE StorageTick
      BY <3>11, <2>0
         DEF StorageTick, PeersHearLocal, Announced, Known
    <3>12. CASE StorageDone
      BY <3>12, <2>0
         DEF StorageDone, PeersHearLocal, Announced, Known
    <3>13. CASE StorageBye
      BY <3>13, <2>0
         DEF StorageBye, PeersHearLocal, Announced, Known
    <3> QED
      BY <2>6, <3>1, <3>2, <3>3, <3>4, <3>5, <3>6, <3>7, <3>8, <3>9, <3>10, <3>11, <3>12, <3>13 DEF Storage, Put, Scan
  <2>7. CASE UNCHANGED vars
    BY <2>7 DEF PeersHearLocal, Announced, Known
  <2> QED
    BY <2>1, <2>2, <2>3, <2>4, <2>5, <2>6, <2>7 DEF Next
<1> QED
  BY <1>1, <1>2, QuietHolds, TypeCorrect, PTL DEF Spec

\* What is left of the reply channel's lists, and what a send adds to them.
LEMMA QueueTaken ==
    ASSUME TypeOK, reply # <<>>, NEW i \in DOMAIN Tail(reply)
    PROVE  \E j \in DOMAIN reply : Tail(reply)[i] = reply[j]
<1>1. reply \in Seq(SUBSET Peers) /\ i + 1 \in DOMAIN reply
      /\ Tail(reply)[i] = reply[i + 1]
  BY DEF TypeOK
<1> QED
  BY <1>1

LEMMA QueueAppended ==
    ASSUME TypeOK, NEW to \in SUBSET Peers,
           NEW i \in DOMAIN Append(reply, to)
    PROVE  \/ Append(reply, to)[i] = to
           \/ i \in DOMAIN reply /\ Append(reply, to)[i] = reply[i]
  BY DEF TypeOK

\* Whoever has been sent anything, or is about to be, joined once: until the
\* transmit loop ends, it still has an entry or was expired.
THEOREM ReachedKnownHolds == Spec => []ReachedKnown
<1> USE DEF ReachedKnown, Reached
<1>1. Init => ReachedKnown
  BY DEF Init
<1>2. TypeOK /\ Quiet /\ ReachedKnown /\ [Next]_vars => ReachedKnown'
  <2> SUFFICES ASSUME TypeOK, Quiet, ReachedKnown, [Next]_vars,
                      transmitPc' # "done", NEW q \in Peers, Reached(q)'
               PROVE  q \in Known(table') \cup lapsed'
    OBVIOUS
  <2>1. CASE Config
    BY <2>1 DEF Config, Start, ConfigUpdate, ConfigNotify, Cancel, Known, Quiet
  <2>2. CASE Main
    BY <2>2 DEF Main, MainNotify, MainForward, MainDone, Known
  <2>3. CASE State
    BY <2>3 DEF State, StateWake, StateReadLocal, StateSync, Known
  <2>4. CASE ReceiveSteps
    <3>1. ASSUME NEW p \in Peers, NEW n \in Nodes, Receive(p, n)
          PROVE  q \in Known(table') \cup lapsed'
      BY <3>1, LearnKnows DEF Receive, NewAddrs
    <3>2. CASE ReceiveNotify
      BY <3>2 DEF ReceiveNotify, Known
    <3>3. CASE ReceiveReply
      BY <3>3, QueueAppended DEF ReceiveReply, Known, TypeOK
    <3> QED
      BY <2>4, <3>1, <3>2, <3>3 DEF ReceiveSteps
  <2>5. CASE Transmit
    <3>1. CASE TransmitAddrs
      BY <3>1 DEF TransmitAddrs, Known
    <3>2. CASE TransmitSend
      BY <3>2 DEF TransmitSend, SendTo, Known
    <3>3. CASE TransmitReply
      BY <3>3, QueueTaken DEF TransmitReply, Known, TypeOK
    <3>4. CASE TransmitNotify
      BY <3>4 DEF TransmitNotify, Known
    <3>5. CASE TransmitTick
      BY <3>5 DEF TransmitTick, Known
    <3>6. CASE TransmitDone
      BY <3>6 DEF TransmitDone, Known
    <3>7. CASE TransmitBye
      BY <3>7 DEF TransmitBye
    <3> QED
      BY <2>5, <3>1, <3>2, <3>3, <3>4, <3>5, <3>6, <3>7 DEF Transmit
  <2>6. CASE Storage
    <3>1. CASE Put
      BY <3>1 DEF Put, StorageMarshal, StoragePutOk, StoragePutFails, Known
    <3>2. ASSUME NEW t \in Thresholds, NEW ks \in SUBSET Peers, ScanList(t, ks)
          PROVE  q \in Known(table') \cup lapsed'
      BY <3>2 DEF ScanList, Known
    <3>3. CASE ScanListFails
      BY <3>3 DEF ScanListFails, Known
    <3>4. ASSUME NEW p \in Peers, NEW n \in Nodes, ScanLoad(p, n)
          PROVE  q \in Known(table') \cup lapsed'
      BY <3>4, LearnKnows DEF ScanLoad, NewAddrs
    <3>5. ASSUME NEW p \in Peers, ScanLoadFails(p)
          PROVE  q \in Known(table') \cup lapsed'
      BY <3>5 DEF ScanLoadFails, Known
    <3>6. CASE StorageReply
      BY <3>6, QueueAppended DEF StorageReply, Known, TypeOK
    <3>7. CASE StorageExpire
      BY <3>7 DEF StorageExpire, Expire, Known
    <3>8. CASE StorageNotify \/ StorageTick \/ StorageDone \/ StorageBye
      BY <3>8 DEF StorageNotify, StorageTick, StorageDone, StorageBye, Known
    <3> QED
      BY <2>6, <3>1, <3>2, <3>3, <3>4, <3>5, <3>6, <3>7, <3>8
         DEF Storage, Scan
  <2>7. CASE UNCHANGED vars
    BY <2>7 DEF Known
  <2> QED
    BY <2>1, <2>2, <2>3, <2>4, <2>5, <2>6, <2>7 DEF Next
<1> QED
  BY <1>1, <1>2, QuietHolds, TypeCorrect, PTL DEF Spec

\* Serve goes by the done channels, and a loop closes its own after its
\* farewell, which nothing of this process overrides: whoever was sent a packet
\* and is not told had no entry then, because it had been expired.
THEOREM StopOrderHolds == Spec => []StopOrder
<1>1. Init => StopOrder
  BY DEF Init, StopOrder, Done, Known
<1>2. TypeOK /\ Quiet /\ ReachedKnown /\ StopOrder /\ [Next]_vars => StopOrder'
  <2> SUFFICES ASSUME TypeOK, Quiet, ReachedKnown, StopOrder, [Next]_vars
               PROVE  StopOrder'
    OBVIOUS
  <2>0. notifyTo \in [Consumers -> BOOLEAN]
    BY DEF TypeOK
  <2>1. CASE Config
    BY <2>1, <2>0
       DEF Config, Start, ConfigUpdate, ConfigNotify, Cancel, Quiet, StopOrder, Done, Known
  <2>2. CASE Main
    BY <2>2, <2>0
       DEF Main, MainNotify, MainForward, MainDone, StopOrder, Done, Known
  <2>3. CASE State
    BY <2>3, <2>0
       DEF State, StateWake, StateReadLocal, StateSync, StopOrder, Done, Known
  <2>4. CASE ReceiveSteps
    <3>1. ASSUME NEW p \in Peers, NEW n \in Nodes, Receive(p, n) PROVE StopOrder'
      BY <3>1, <2>0
         DEF Receive, Learn, Update, Updatable, NewAddrs, TypeOK, StopOrder, Done, Known
    <3>2. CASE ReceiveNotify
      BY <3>2, <2>0
         DEF ReceiveNotify, StopOrder, Done, Known
    <3>3. CASE ReceiveReply
      BY <3>3, <2>0
         DEF ReceiveReply, StopOrder, Done, Known
    <3> QED
      BY <2>4, <3>1, <3>2, <3>3 DEF ReceiveSteps
  <2>5. CASE Transmit
    <3>1. CASE TransmitAddrs
      BY <3>1, <2>0
         DEF TransmitAddrs, StopOrder, Done, Known
    <3>2. CASE TransmitSend
      BY <3>2, <2>0
         DEF TransmitSend, SendTo, StopOrder, Done, Known
    <3>3. CASE TransmitReply
      BY <3>3, <2>0
         DEF TransmitReply, StopOrder, Done, Known
    <3>4. CASE TransmitNotify
      BY <3>4, <2>0
         DEF TransmitNotify, StopOrder, Done, Known
    <3>5. CASE TransmitTick
      BY <3>5, <2>0
         DEF TransmitTick, StopOrder, Done, Known
    <3>6. CASE TransmitDone
      BY <3>6, <2>0
         DEF TransmitDone, StopOrder, Done, Known
    <3>7. CASE TransmitBye
      BY <3>7, <2>0
         DEF TransmitBye, SendTo, ReachedKnown, Reached, StopOrder, Done, Known
    <3> QED
      BY <2>5, <3>1, <3>2, <3>3, <3>4, <3>5, <3>6, <3>7 DEF Transmit
  <2>6. CASE Storage
    <3>1. CASE StorageMarshal
      BY <3>1, <2>0
         DEF StorageMarshal, StopOrder, Done, Known
    <3>2. CASE StoragePutOk
      BY <3>2, <2>0
         DEF StoragePutOk, AfterPut, StopOrder, Done, Known
    <3>3. CASE StoragePutFails
      BY <3>3, <2>0
         DEF StoragePutFails, AfterPut, StopOrder, Done, Known
    <3>4. ASSUME NEW t \in Thresholds, NEW ks \in SUBSET Peers, ScanList(t, ks) PROVE StopOrder'
      BY <3>4, <2>0
         DEF ScanList, Load, StopOrder, Done, Known
    <3>5. CASE ScanListFails
      BY <3>5, <2>0
         DEF ScanListFails, StopOrder, Done, Known
    <3>6. ASSUME NEW p \in Peers, NEW n \in Nodes, ScanLoad(p, n) PROVE StopOrder'
      BY <3>6, <2>0
         DEF ScanLoad, Load, Learn, Update, Updatable, NewAddrs, StopOrder, Done, Known
    <3>7. ASSUME NEW p \in Peers, ScanLoadFails(p) PROVE StopOrder'
      BY <3>7, <2>0
         DEF ScanLoadFails, Load, StopOrder, Done, Known
    <3>8. CASE StorageReply
      BY <3>8, <2>0
         DEF StorageReply, StopOrder, Done, Known
    <3>9. CASE StorageExpire
      BY <3>9, <2>0
         DEF StorageExpire, Expire, Expired, StopOrder, Done, Known
    <3>10. CASE StorageNotify
      BY <3>10, <2>0
         DEF StorageNotify, StopOrder, Done, Known
    <3>11. CASE StorageTick
      BY <3>11, <2>0
         DEF StorageTick, StopOrder, Done, Known
    <3>12. CASE StorageDone
      BY <3>12, <2>0
         DEF StorageDone, StopOrder, Done, Known
    <3>13. CASE StorageBye
      BY <3>13, <2>0
         DEF StorageBye, StopOrder, Done, Known
    <3> QED
      BY <2>6, <3>1, <3>2, <3>3, <3>4, <3>5, <3>6, <3>7, <3>8, <3>9, <3>10, <3>11, <3>12, <3>13 DEF Storage, Put, Scan
  <2>7. CASE UNCHANGED vars
    BY <2>7 DEF StopOrder, Done, Known
  <2> QED
    BY <2>1, <2>2, <2>3, <2>4, <2>5, <2>6, <2>7 DEF Next
<1> QED
  BY <1>1, <1>2, QuietHolds, ReachedKnownHolds, TypeCorrect, PTL DEF Spec

\* Farewell: once Serve has returned, every peer it ever sent a packet to was
\* last sent the empty node, except one that was expired and had not joined
\* again when the transmit loop ended; and the last put was of the empty node
\* or reported an error.
THEOREM FarewellHolds == Spec => []Farewell
<1>1. StopOrder => Farewell
  BY DEF StopOrder, Farewell, Done, Finishers
<1> QED
  BY <1>1, StopOrderHolds, PTL

\* Once the storage loop waits for room in a reply channel that nobody takes
\* from any more, Serve never returns: which CancelReturns runs into.
THEOREM StuckForGoodHolds == Spec => StuckForGood
<1>1. StopOrder /\ [Next]_vars => (Stuck => Stuck')
  <2> SUFFICES ASSUME StopOrder, Stuck, [Next]_vars PROVE Stuck'
    OBVIOUS
  <2> USE DEF Stuck, CanReply
  <2>1. CASE Config
    BY <2>1 DEF Config, Start, ConfigUpdate, ConfigNotify, Cancel
  <2>2. CASE Main
    BY <2>2 DEF Main, MainNotify, MainForward, MainDone, StopOrder, Done
  <2>3. CASE State
    BY <2>3 DEF State, StateWake, StateReadLocal, StateSync
  <2>4. CASE ReceiveSteps
    BY <2>4 DEF ReceiveSteps, Receive, ReceiveNotify, ReceiveReply
  <2>5. CASE Transmit
    BY <2>5 DEF Transmit, TransmitAddrs, TransmitSend, TransmitReply,
                TransmitNotify, TransmitTick, TransmitDone, TransmitBye
  <2>6. CASE Storage
    BY <2>6 DEF Storage, Put, Scan, StorageMarshal, StoragePutOk,
                StoragePutFails, ScanList, ScanListFails, ScanLoad,
                ScanLoadFails, StorageReply, StorageExpire, StorageNotify,
                StorageTick, StorageDone, StorageBye
  <2>7. CASE UNCHANGED vars
    BY <2>7
  <2> QED
    BY <2>1, <2>2, <2>3, <2>4, <2>5, <2>6, <2>7 DEF Next
<1> QED
  BY <1>1, StopOrderHolds, PTL DEF Spec, StuckForGood
=============================================================================
