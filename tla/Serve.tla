------------------------------- MODULE Serve -------------------------------
(***************************************************************************)
(* One nameq service process: the goroutines that Serve (service/main.go)  *)
(* starts, the channels between them, the local node, the table of remote  *)
(* nodes, and what the outside sees of them: the feature tree under the    *)
(* state directory, the node's object in S3 and the packets it sent.       *)
(*                                                                         *)
(*   config watcher --notify--> main --notifyState----> state loop         *)
(*                                   --notifyStorage--> storage loop       *)
(*                                   --notifyTransmit-> transmit loop      *)
(*   receive loop  --notifyState--> state loop                             *)
(*   receive loop, storage loop --reply--> transmit loop                   *)
(*                                                                         *)
(* Everything after ctx.Done and everything inside initStorage is part of  *)
(* the model.  A peer's clock and S3's are the environment: every time     *)
(* stamp in Times may arrive in every order.                               *)
(***************************************************************************)
EXTENDS Remotes, Sequences

CONSTANTS
    Empty,      \* the feature map with no features, new(Node)
    FirstFeatures,   \* what the configuration of this node may say at first
    LocalFeatures,   \* what it may be changed to
    RemoteFeatures,  \* what other nodes may say of themselves
    Loopback,   \* the host name under which the tree shows the local node
    None,       \* nothing sent or stored yet
    Cancellable,  \* whether the context given to Serve is ever cancelled
    MaxTime,    \* bound on time stamps
    ReplyCap    \* capacity of the reply channel (10 in the code)

ASSUME EmptyAssumption == Empty \in Features
ASSUME InputAssumption ==
    FirstFeatures \cup LocalFeatures \cup RemoteFeatures \subseteq Features
ASSUME LoopbackAssumption == Loopback \notin Peers
ASSUME NoneAssumption == None \notin Features
ASSUME CancellableAssumption == Cancellable \in BOOLEAN
ASSUME MaxTimeAssumption == MaxTime \in Nat
ASSUME ReplyCapAssumption == ReplyCap \in Nat \ {0}

Times == 1..MaxTime
Hosts == Peers \cup {Loopback}
Consumers == {"state", "storage", "transmit"}
Finishers == {"storage", "transmit"}

VARIABLES
    \* shared memory and channels
    local,        \* the features of the local node
    table,        \* remotes.ipAddrs
    ctxDone,      \* ctx.Done() is closed
    notify,       \* the config watcher's channel holds a token
    notifyTo,     \* notifyState, notifyStorage, notifyTransmit hold a token
    reply,        \* the queue of address lists to answer
    \* goroutines
    mainPc,       \* Serve itself
    forward,      \* the forwardX variables of Serve that are not nil
    awaiting,     \* the doneX variables of Serve that are not nil
    configPc,     \* scanConfigLoop
    statePc,      \* stateLoop
    stateView,    \* the local node as this pass of stateLoop read it
    receivePc,    \* receiveLoop
    recvAddr,     \* newAddr of receiveLoop
    transmitPc,   \* transmitLoop
    replyTo,      \* replyTo of transmitLoop
    addrs,        \* addrs of transmitLoop
    storagePc,    \* initStorage, then storageLoop
    scanning,     \* this round of the storage loop scans after its put
    body,         \* the data of the put under way
    threshold,    \* expireThreshold of the scan under way
    loadKeys,     \* loadKeys of the scan under way, those not loaded yet
    newAddrs,     \* newAddrs of the scan under way
    \* what the outside sees
    tree,         \* per host, the features shown under the state directory
    stored,       \* the features of the last put; None if there was none, or
                  \* it reported an error and S3 may or may not have them
    sent,         \* per peer, the features of the last packet sent to it
    \* history
    silent,       \* hosts changed with nobody telling the state loop since
    unmet,        \* peers that joined and have been sent no packet since
    lapsed        \* peers that were expired and had not joined again when the
                  \* transmit loop ended, or until now

shared == <<local, table, ctxDone>>
channels == <<notify, notifyTo, reply>>
mainVars == <<mainPc, forward, awaiting>>
stateVars == <<statePc, stateView>>
receiveVars == <<receivePc, recvAddr>>
transmitVars == <<transmitPc, replyTo, addrs>>
scanVars == <<threshold, loadKeys, newAddrs>>
storageVars == <<storagePc, scanning, body, scanVars>>
peerVars == <<sent, unmet, lapsed>>

vars == <<shared, channels, mainVars, configPc, stateVars, receiveVars,
          transmitVars, storageVars, tree, stored, silent, peerVars>>

TypeOK ==
    /\ local \in Features
    /\ table \in Tables
    /\ ctxDone \in BOOLEAN
    /\ notify \in BOOLEAN
    /\ notifyTo \in [Consumers -> BOOLEAN]
    /\ reply \in Seq(SUBSET Peers) /\ Len(reply) <= ReplyCap
    /\ mainPc \in {"init", "storage", "loop", "returned", "failed"}
    /\ forward \subseteq Consumers
    /\ awaiting \subseteq Finishers
    /\ configPc \in {"off", "idle", "notify"}
    /\ statePc \in {"off", "wait", "local", "remotes"}
    /\ stateView \in Features
    /\ receivePc \in {"off", "read", "notify", "reply"}
    /\ recvAddr \subseteq Peers
    /\ transmitPc \in {"off", "addrs", "send", "select", "bye", "done"}
    /\ replyTo \subseteq Peers
    /\ addrs \subseteq Peers
    /\ storagePc \in {"off", "put", "putting", "list", "load", "reply",
                      "expire", "select", "bye", "done"}
    /\ scanning \in BOOLEAN
    /\ body \in Features
    /\ threshold \in Nat
    /\ loadKeys \subseteq Peers
    /\ newAddrs \subseteq Peers
    /\ tree \in [Hosts -> Features]
    /\ stored \in Features \cup {None}
    /\ sent \in [Peers -> Features \cup {None}]
    /\ silent \subseteq Hosts
    /\ unmet \subseteq Peers
    /\ lapsed \subseteq Peers
----------------------------------------------------------------------------
\* The features the table holds for a peer; files exist for no other peer.
Shown(p) == IF p \in Known(table) THEN table[p].features ELSE Empty

\* A tree left behind by an earlier process is still there, unannounced.
Init ==
    /\ local = Empty
    /\ table = NoRemotes
    /\ ctxDone = FALSE
    /\ notify = FALSE
    /\ notifyTo = [c \in Consumers |-> FALSE]
    /\ reply = <<>>
    /\ mainPc = "init" /\ forward = {} /\ awaiting = Finishers
    /\ configPc = "off"
    /\ statePc = "off" /\ stateView = Empty
    /\ receivePc = "off" /\ recvAddr = {}
    /\ transmitPc = "off" /\ replyTo = {} /\ addrs = {}
    /\ storagePc = "off" /\ scanning = TRUE /\ body = Empty
    /\ threshold = 0 /\ loadKeys = {} /\ newAddrs = {}
    /\ tree \in [Hosts -> Features]
    /\ tree[Loopback] \in FirstFeatures \cup LocalFeatures \cup {Empty}
    /\ \A p \in Peers : tree[p] \in RemoteFeatures \cup {Empty}
    /\ stored = None
    /\ sent = [p \in Peers |-> None]
    /\ silent = {h \in Hosts : tree[h] # Empty}
    /\ unmet = {} /\ lapsed = {}

\* The process exits when Serve returns.
Running == mainPc \notin {"returned", "failed"}

\* Serve up to initStorage: the first scan of the configuration sets the
\* local features and may leave a token, then the goroutines are started.
Start(features) ==
    /\ mainPc = "init"
    /\ local' = features
    /\ notify' = (notify \/ features # local)
    /\ mainPc' = "storage" /\ storagePc' = "put"
    /\ configPc' = "idle" /\ statePc' = "wait"
    /\ receivePc' = "read" /\ transmitPc' = "addrs"
    /\ UNCHANGED <<table, ctxDone, notifyTo, reply, forward, awaiting,
                   stateView, recvAddr, replyTo, addrs, scanning, body,
                   scanVars, tree, stored, silent, peerVars>>

\* The context is cancelled, by a signal for instance.
Cancel ==
    /\ Cancellable
    /\ Running /\ ~ctxDone
    /\ ctxDone' = TRUE
    /\ UNCHANGED <<local, table, channels, mainVars, configPc, stateVars,
                   receiveVars, transmitVars, storageVars, tree, stored,
                   silent, peerVars>>
----------------------------------------------------------------------------
(* scanConfigLoop: the handler of initFeatureConfig. *)

\* updateFeatures finds a difference and installs the new features.
ConfigUpdate(features) ==
    /\ Running /\ configPc = "idle"
    /\ features # local
    /\ local' = features
    /\ configPc' = "notify"
    /\ UNCHANGED <<table, ctxDone, channels, mainVars, stateVars, receiveVars,
                   transmitVars, storageVars, tree, stored, silent, peerVars>>

ConfigNotify ==
    /\ Running /\ configPc = "notify"
    /\ notify' = TRUE
    /\ configPc' = "idle"
    /\ UNCHANGED <<shared, notifyTo, reply, mainVars, stateVars, receiveVars,
                   transmitVars, storageVars, tree, stored, silent, peerVars>>
----------------------------------------------------------------------------
(* Serve: the main loop. *)

MainUnchanged ==
    UNCHANGED <<shared, reply, configPc, stateVars, receiveVars, transmitVars,
                storageVars, tree, stored, peerVars>>

ForwardedNoState ==         \* mutant: forwardState is not set
    Consumers \ {"state"}

Forwarded == Consumers

MainNotify ==
    /\ mainPc = "loop" /\ notify
    /\ notify' = FALSE
    /\ forward' = Forwarded
    /\ UNCHANGED <<notifyTo, mainPc, awaiting, silent>> /\ MainUnchanged

ForwardReset(c) == {}       \* mutant: one send clears all three variables

ForwardLeft(c) == forward \ {c}

\* A token left for the state loop makes every change known to it.
MainForward(c) ==
    /\ mainPc = "loop" /\ c \in forward /\ ~notifyTo[c]
    /\ notifyTo' = [notifyTo EXCEPT ![c] = TRUE]
    /\ forward' = ForwardLeft(c)
    /\ silent' = IF c = "state" THEN {} ELSE silent
    /\ UNCHANGED <<notify, mainPc, awaiting>> /\ MainUnchanged

\* Which loops have closed their done channel.
Done == {d \in Finishers : \/ d = "storage" /\ storagePc = "done"
                           \/ d = "transmit" /\ transmitPc = "done"}

WaitsForOne(d) == FALSE     \* mutant: the loop ends with either of the two

WaitsAfter(d) == awaiting # {d}

MainDone(d) ==
    /\ mainPc = "loop" /\ d \in awaiting \cap Done
    /\ awaiting' = awaiting \ {d}
    /\ mainPc' = IF WaitsAfter(d) THEN "loop" ELSE "returned"
    /\ UNCHANGED <<notify, notifyTo, forward, silent>> /\ MainUnchanged
----------------------------------------------------------------------------
(* stateLoop: a pass reads the local node, then the table, and leaves the   *)
(* tree as it read them.                                                    *)

StateUnchanged ==
    UNCHANGED <<shared, notify, reply, mainVars, configPc, receiveVars,
                transmitVars, storageVars, stored, peerVars>>

PassStale == "remotes"      \* mutant: a pass does not read the local node

PassStart == "local"

StateWake ==
    /\ Running /\ statePc = "wait" /\ notifyTo["state"]
    /\ notifyTo' = [notifyTo EXCEPT !["state"] = FALSE]
    /\ statePc' = PassStart
    /\ UNCHANGED <<stateView, tree, silent>> /\ StateUnchanged

StateReadLocal ==
    /\ Running /\ statePc = "local"
    /\ stateView' = local
    /\ statePc' = "remotes"
    /\ UNCHANGED <<notifyTo, tree, silent>> /\ StateUnchanged

LeftAsIs(h) ==              \* mutant: files of unknown hosts stay
    IF h = Loopback THEN stateView
    ELSE IF h \in Known(table) THEN Shown(h) ELSE tree[h]

Left(h) == IF h = Loopback THEN stateView ELSE Shown(h)

StateSync ==
    /\ Running /\ statePc = "remotes"
    /\ tree' = [h \in Hosts |-> Left(h)]
    /\ silent' = {}
    /\ stateView' = Empty
    /\ statePc' = "wait"
    /\ UNCHANGED notifyTo /\ StateUnchanged
----------------------------------------------------------------------------
(* receiveLoop *)

\* What both writers of the table do with a node: the entry changes if it is
\* newer.
Learn(p, node) ==
    /\ table' = Update(table, p, node)
    /\ unmet' = unmet \cup NewAddrs(table, p)
    /\ lapsed' = IF transmitPc = "done" THEN lapsed ELSE lapsed \ {p}

ReceiveUnchanged ==
    UNCHANGED <<local, ctxDone, notify, mainVars, configPc, stateVars,
                transmitVars, storageVars, tree, stored>>

\* A packet passes the checks; whatever it changes, the state loop is told.
Receive(p, node) ==
    /\ Running /\ receivePc = "read"
    /\ Learn(p, node) /\ UNCHANGED sent
    /\ recvAddr' = NewAddrs(table, p)
    /\ receivePc' = "notify"
    /\ UNCHANGED <<notifyTo, reply, silent>> /\ ReceiveUnchanged

ReceiveNotifyNewOnly ==     \* mutant: the state loop hears of new peers only
    /\ Running /\ receivePc = "notify"
    /\ notifyTo' = [notifyTo EXCEPT !["state"] = @ \/ recvAddr # {}]
    /\ silent' = IF recvAddr # {} THEN {} ELSE silent
    /\ receivePc' = IF recvAddr = {} THEN "read" ELSE "reply"
    /\ UNCHANGED <<table, reply, recvAddr, peerVars>> /\ ReceiveUnchanged

\* The send does not block: a full channel holds a token already.
ReceiveNotify ==
    /\ Running /\ receivePc = "notify"
    /\ notifyTo' = [notifyTo EXCEPT !["state"] = TRUE]
    /\ silent' = {}
    /\ receivePc' = IF recvAddr = {} THEN "read" ELSE "reply"
    /\ UNCHANGED <<table, reply, recvAddr, peerVars>> /\ ReceiveUnchanged

CanReplyOneMore == Len(reply) <= ReplyCap   \* mutant: off by one

\* The send blocks while the channel is full.
CanReply == Len(reply) < ReplyCap

ReceiveReply ==
    /\ Running /\ receivePc = "reply" /\ CanReply
    /\ reply' = Append(reply, recvAddr)
    /\ recvAddr' = {}
    /\ receivePc' = "read"
    /\ UNCHANGED <<table, notifyTo, silent, peerVars>> /\ ReceiveUnchanged
----------------------------------------------------------------------------
(* transmitLoop *)

TransmitUnchanged ==
    UNCHANGED <<shared, notify, mainVars, configPc, stateVars, receiveVars,
                storageVars, tree, stored, silent>>

TargetsOfReply == replyTo   \* mutant: nobody asked, so nobody is sent anything

\* The peers that asked, if any did in the last round, or else all of them.
Targets == IF replyTo # {} THEN replyTo ELSE Known(table)

TransmitAddrsLocked ==      \* mutant: peers are answered with the table locked
    /\ Running /\ transmitPc = "addrs" /\ "reply" \notin {receivePc, storagePc}
    /\ addrs' = Targets
    /\ replyTo' = {}
    /\ transmitPc' = "send"
    /\ UNCHANGED <<notifyTo, reply, peerVars>> /\ TransmitUnchanged

TransmitAddrs ==
    /\ Running /\ transmitPc = "addrs"
    /\ addrs' = Targets
    /\ replyTo' = {}
    /\ transmitPc' = "send"
    /\ UNCHANGED <<notifyTo, reply, peerVars>> /\ TransmitUnchanged

\* transmit: one packet, made from the local node of this moment.
SendTo(features, to) ==
    /\ sent' = [p \in Peers |-> IF p \in to THEN features ELSE sent[p]]
    /\ unmet' = unmet \ to
    /\ UNCHANGED lapsed

TransmitSend ==
    /\ Running /\ transmitPc = "send"
    /\ SendTo(local, addrs)
    /\ addrs' = {}
    /\ transmitPc' = "select"
    /\ UNCHANGED <<notifyTo, reply, replyTo>> /\ TransmitUnchanged

TransmitReply ==
    /\ Running /\ transmitPc = "select" /\ reply # <<>>
    /\ replyTo' = Head(reply)
    /\ reply' = Tail(reply)
    /\ transmitPc' = "addrs"
    /\ UNCHANGED <<notifyTo, addrs, peerVars>> /\ TransmitUnchanged

TransmitNotify ==
    /\ Running /\ transmitPc = "select" /\ notifyTo["transmit"]
    /\ notifyTo' = [notifyTo EXCEPT !["transmit"] = FALSE]
    /\ transmitPc' = "addrs"
    /\ UNCHANGED <<reply, replyTo, addrs, peerVars>> /\ TransmitUnchanged

TransmitTick ==
    /\ Running /\ transmitPc = "select"
    /\ transmitPc' = "addrs"
    /\ UNCHANGED <<notifyTo, reply, replyTo, addrs, peerVars>>
    /\ TransmitUnchanged

TransmitDone ==
    /\ Running /\ transmitPc = "select" /\ ctxDone
    /\ transmitPc' = "bye"
    /\ UNCHANGED <<notifyTo, reply, replyTo, addrs, peerVars>>
    /\ TransmitUnchanged

\* The deferred transmit of the empty node to all peers.
TransmitBye ==
    /\ Running /\ transmitPc = "bye"
    /\ SendTo(Empty, Known(table))
    /\ transmitPc' = "done"
    /\ UNCHANGED <<notifyTo, reply, replyTo, addrs>> /\ TransmitUnchanged
----------------------------------------------------------------------------
(* initStorage, then storageLoop.  While mainPc is "storage" the same steps *)
(* run on the main goroutine, and the first failure makes Serve return it.  *)

Initializing == mainPc = "storage"

StorageUnchanged ==
    UNCHANGED <<local, ctxDone, notify, forward, awaiting, configPc,
                stateVars, receiveVars, transmitVars, tree>>

PutUnchanged ==
    /\ UNCHANGED <<table, notifyTo, reply, scanning, scanVars, silent,
                   peerVars>>
    /\ StorageUnchanged

\* updateStorage reads the local node; the put takes effect at a later step.
StorageMarshal ==
    /\ Running /\ storagePc = "put"
    /\ body' = local
    /\ storagePc' = "putting"
    /\ UNCHANGED <<mainPc, stored>> /\ PutUnchanged

AfterPut == IF scanning THEN "list" ELSE "select"

StoragePutOk ==
    /\ Running /\ storagePc = "putting"
    /\ stored' = body
    /\ body' = Empty
    /\ storagePc' = AfterPut
    /\ UNCHANGED mainPc /\ PutUnchanged

\* The client reports an error: the object may have been stored or not.
StoragePutFails ==
    /\ Running /\ storagePc = "putting"
    /\ stored' = None
    /\ body' = Empty
    /\ mainPc' = IF Initializing THEN "failed" ELSE mainPc
    /\ storagePc' = AfterPut
    /\ PutUnchanged

ScanUnchanged == UNCHANGED <<notifyTo, body, stored>> /\ StorageUnchanged

\* After the last load, the new addresses are answered if there are any.
Load(keys, new) ==
    /\ loadKeys' = keys
    /\ newAddrs' = new
    /\ storagePc' = IF keys # {} THEN "load"
                    ELSE IF new # {} THEN "reply" ELSE "expire"
    /\ UNCHANGED <<reply, mainPc, scanning>> /\ ScanUnchanged

\* The objects of some peers are listed as alive and newer than the table.
ScanList(time, keys) ==
    /\ Running /\ storagePc = "list"
    /\ \A p \in keys : \E t \in Times : t > time /\ Updatable(table, p, t)
    /\ threshold' = time
    /\ Load(keys, {})
    /\ UNCHANGED <<table, silent, peerVars>>

ScanListFails ==
    /\ Running /\ storagePc = "list"
    /\ mainPc' = IF Initializing THEN "failed" ELSE mainPc
    /\ scanning' = FALSE
    /\ storagePc' = "select"
    /\ UNCHANGED <<table, reply, scanVars, silent, peerVars>> /\ ScanUnchanged

\* An object is fetched.  It was listed as younger than the threshold, and
\* can only have been replaced by a younger one since.  Nobody is notified.
ScanLoad(p, node) ==
    /\ Running /\ storagePc = "load" /\ p \in loadKeys
    /\ node.time > threshold
    /\ Learn(p, node) /\ UNCHANGED sent
    /\ silent' = IF table' = table THEN silent ELSE silent \cup {p}
    /\ Load(loadKeys \ {p}, newAddrs \cup NewAddrs(table, p))
    /\ UNCHANGED threshold

\* The object is gone, or cannot be read or decoded.
ScanLoadFails(p) ==
    /\ Running /\ storagePc = "load" /\ p \in loadKeys
    /\ Load(loadKeys \ {p}, newAddrs)
    /\ UNCHANGED <<table, threshold, silent, peerVars>>

\* The send blocks while the channel is full.
StorageReply ==
    /\ Running /\ storagePc = "reply" /\ CanReply
    /\ reply' = Append(reply, newAddrs)
    /\ newAddrs' = {}
    /\ storagePc' = "expire"
    /\ UNCHANGED <<table, mainPc, scanning, threshold, loadKeys, silent,
                   peerVars>>
    /\ ScanUnchanged

\* Nobody is notified of the removed entries.  The end of the first scan is
\* the end of initStorage: the storage loop and the main loop take over.
StorageExpire ==
    /\ Running /\ storagePc = "expire"
    /\ table' = Expire(table, threshold)
    /\ silent' = silent \cup Expired(table, threshold)
    /\ lapsed' = lapsed \cup Expired(table, threshold)
    /\ threshold' = 0
    /\ scanning' = FALSE
    /\ mainPc' = IF Initializing THEN "loop" ELSE mainPc
    /\ storagePc' = "select"
    /\ UNCHANGED <<reply, loadKeys, newAddrs, sent, unmet>> /\ ScanUnchanged

SelectUnchanged ==
    /\ UNCHANGED <<table, reply, mainPc, body, scanVars, silent, peerVars>>
    /\ StorageUnchanged

StorageNotify ==
    /\ Running /\ storagePc = "select" /\ notifyTo["storage"]
    /\ notifyTo' = [notifyTo EXCEPT !["storage"] = FALSE]
    /\ scanning' = FALSE
    /\ storagePc' = "put"
    /\ UNCHANGED stored /\ SelectUnchanged

TickScansOnly == "list"     \* mutant: the timer does not repeat the put

TickStart == "put"

StorageTick ==
    /\ Running /\ storagePc = "select"
    /\ scanning' = TRUE
    /\ storagePc' = TickStart
    /\ UNCHANGED <<notifyTo, stored>> /\ SelectUnchanged

StorageDone ==
    /\ Running /\ storagePc = "select" /\ ctxDone
    /\ storagePc' = "bye"
    /\ UNCHANGED <<notifyTo, scanning, stored>> /\ SelectUnchanged

\* The deferred put of the empty node, whose error nobody looks at.
StorageBye ==
    /\ Running /\ storagePc = "bye"
    /\ stored' \in {Empty, None}
    /\ storagePc' = "done"
    /\ UNCHANGED <<notifyTo, scanning>> /\ SelectUnchanged
----------------------------------------------------------------------------
\* Each threshold tells the stamps up to some time from the later ones.
Thresholds == {0} \cup {t + 1 : t \in Times}

Nodes == [features : RemoteFeatures, time : Times]

Config ==
    \/ \E f \in FirstFeatures : Start(f)
    \/ \E f \in LocalFeatures : ConfigUpdate(f)
    \/ ConfigNotify
    \/ Cancel

Main ==
    \/ MainNotify
    \/ \E c \in Consumers : MainForward(c)
    \/ \E d \in Finishers : MainDone(d)

State == StateWake \/ StateReadLocal \/ StateSync

ReceiveSteps ==
    \/ \E p \in Peers, n \in Nodes : Receive(p, n)
    \/ ReceiveNotify
    \/ ReceiveReply

Transmit ==
    \/ TransmitAddrs
    \/ TransmitSend
    \/ TransmitReply
    \/ TransmitNotify
    \/ TransmitTick
    \/ TransmitDone
    \/ TransmitBye

Put ==
    \/ StorageMarshal
    \/ StoragePutOk
    \/ StoragePutFails

Scan ==
    \/ \E t \in Thresholds, ks \in SUBSET Peers : ScanList(t, ks)
    \/ ScanListFails
    \/ \E p \in Peers, n \in Nodes : ScanLoad(p, n)
    \/ \E p \in Peers : ScanLoadFails(p)
    \/ StorageReply
    \/ StorageExpire

Storage ==
    \/ Put
    \/ Scan
    \/ StorageNotify
    \/ StorageTick
    \/ StorageDone
    \/ StorageBye

Next == Config \/ Main \/ State \/ ReceiveSteps \/ Transmit \/ Storage

Spec == Init /\ [][Next]_vars
----------------------------------------------------------------------------
(* Safety: no change is ever lost on its way through the channels. *)

\* Word of a configuration change is on its way to a consumer.
Announced(c) ==
    \/ configPc = "notify"
    \/ notify
    \/ c \in forward
    \/ notifyTo[c]

\* Where the tree shows other features for the local node than it has, the
\* state loop is about to be woken or has yet to read the node in this pass
\* (the cap-1 channels and forwardState of Serve coalesce, they never drop);
\* unless they are what an earlier process left, the node has no features, and
\* nothing has told the state loop yet.
LocalDue ==
    tree[Loopback] # local =>
        \/ Announced("state")
        \/ statePc = "local"
        \/ statePc = "remotes" /\ stateView = local
        \/ local = Empty /\ Loopback \in silent

\* Where the tree differs from the table of remote nodes, the state loop is
\* about to be woken or has yet to read the table in this pass, unless the
\* S3 scan was the one that changed the entry (scanStorage never notifies).
RemoteDue ==
    \A p \in Peers : tree[p] # Shown(p) =>
        \/ notifyTo["state"]
        \/ statePc \in {"local", "remotes"}
        \/ receivePc = "notify"
        \/ p \in silent

\* Where S3 holds other features than the local node has, a put of the
\* current features is under way or will be made without waiting for the
\* timer, unless the last put failed or the loop is saying goodbye.
StoredDue ==
    stored \notin {local, None} =>
        \/ Announced("storage")
        \/ storagePc \in {"put", "bye", "done"}
        \/ storagePc = "putting" /\ body = local

\* A known peer that was last sent other features, or has been sent nothing
\* since it joined, will be sent the current ones without waiting for the
\* timer: all peers are notified of a change, and a peer that joined is on its
\* way through the reply channel.
PeersHearLocal ==
    \A p \in Known(table) : sent[p] # local \/ p \in unmet =>
        \/ Announced("transmit")
        \/ transmitPc = "addrs" /\ (replyTo = {} \/ p \in replyTo)
        \/ transmitPc = "send" /\ p \in addrs
        \/ p \in recvAddr \cup newAddrs
        \/ \E i \in DOMAIN reply : p \in reply[i]
        \/ transmitPc \in {"bye", "done"}

\* Serve returns only after the farewells.  Every peer that was ever sent a
\* packet was last sent the empty node, except one that was expired and had not
\* joined again when the transmit loop ended: nobody tells that one, even if it
\* joins before Serve returns.  The last put was of the empty node too, or it
\* reported an error, and S3 may still have the features.
Farewell ==
    mainPc = "returned" =>
        /\ \A p \in Peers : sent[p] \in {Empty, None} \/ p \in lapsed
        /\ stored \in {Empty, None}

\* What the invariants above rest on.

\* Variables of a loop that only hold something between certain steps.
Quiet ==
    /\ recvAddr # {} => receivePc \in {"notify", "reply"}
    /\ newAddrs # {} => storagePc \in {"load", "reply"}
    /\ replyTo # {} => transmitPc = "addrs"
    /\ mainPc = "init" => \A pc \in {configPc, statePc, receivePc, transmitPc,
                                      storagePc} : pc = "off"

\* A local node that changed after a loop read it has been announced to it.
ViewDue == statePc = "remotes" /\ stateView # local => Announced("state")
BodyDue == storagePc = "putting" /\ body # local => Announced("storage")

\* The transmit loop has sent to this peer, or is to send to it.
Reached(p) ==
    \/ sent[p] # None
    \/ p \in addrs \cup replyTo \cup recvAddr \cup newAddrs
    \/ \E i \in DOMAIN reply : p \in reply[i]

\* Until that loop ends, such a peer has an entry, or was expired and has not
\* joined again.
ReachedKnown ==
    transmitPc # "done" =>
        \A p \in Peers : Reached(p) => p \in Known(table) \cup lapsed

\* Serve goes by what the loops did, and they end with a farewell.
StopOrder ==
    /\ transmitPc = "done" =>
           \A p \in Peers : sent[p] \in {Empty, None} \/ p \in lapsed
    /\ storagePc = "done" => stored \in {Empty, None}
    /\ Finishers \ awaiting \subseteq Done
    /\ mainPc = "returned" => awaiting = {}

\* What keeps Serve from returning: the storage loop waits for room in the
\* reply channel, but the only loop that makes room has ended.
Stuck ==
    /\ mainPc \in {"storage", "loop"}
    /\ transmitPc = "done" /\ storagePc = "reply" /\ ~CanReply

\* Nothing that happens later ends that.
StuckForGood == [][Stuck => Stuck']_vars
----------------------------------------------------------------------------
(* Liveness.  Goroutines are scheduled fairly and S3 calls return, so every *)
(* step that a goroutine can take and keeps being able to take is taken.    *)
(* select picks at random among the cases that are ready, and a sender that *)
(* blocks on a channel is queued, so these are taken if possible again and  *)
(* again; so are puts accepted by S3.                                       *)

\* The configuration watcher, the main loop, the state loop, storage.
LocalFairness ==
    /\ WF_vars(\E f \in FirstFeatures : Start(f))
    /\ WF_vars(ConfigNotify)
    /\ WF_vars(MainNotify)
    /\ \A c \in Consumers : WF_vars(MainForward(c))
    /\ WF_vars(State)
    /\ WF_vars(Put \/ Scan)
    /\ WF_vars(StorageTick)
    /\ SF_vars(StoragePutOk)

\* The two loops that exchange packets.
PacketFairness ==
    /\ WF_vars(ReceiveNotify)
    /\ SF_vars(ReceiveReply)
    /\ WF_vars(TransmitAddrs \/ TransmitSend)
    /\ SF_vars(TransmitReply)
    /\ SF_vars(TransmitTick)

Fairness == LocalFairness /\ PacketFairness

LiveSpec == Spec /\ Fairness

\* The same of the steps that end the loops and Serve.
StopFairness ==
    /\ SF_vars(TransmitDone)
    /\ WF_vars(TransmitBye)
    /\ SF_vars(StorageDone)
    /\ WF_vars(StorageBye)
    /\ \A d \in Finishers : WF_vars(MainDone(d))

StopSpec == LiveSpec /\ StopFairness

Serving == Running /\ ~ctxDone

\* The local features get to the feature tree, whatever the other goroutines
\* do, unless they change again or the service is stopped.  (The leftovers of
\* an earlier process stay if the node has no features and nothing ever tells
\* the state loop.)
TreeFollowsLocal ==
    \A f \in FirstFeatures \cup LocalFeatures :
        local = f /\ (f = Empty => Loopback \notin silent) ~>
            tree[Loopback] = f \/ local # f \/ ~Serving

\* They get to S3 as well: a failed put is repeated at the next tick.
S3FollowsLocal ==
    \A f \in FirstFeatures \cup LocalFeatures :
        local = f ~> stored = f \/ local # f \/ ~Serving

\* What a packet changed gets to the feature tree: the tree never stays behind.
PacketReachesTree ==
    \A p \in Peers : []<>(tree[p] = Shown(p) \/ p \in silent \/ ~Serving)

\* No loop stays stuck on a full reply channel while the service runs.
RepliesDrain ==
    /\ []<>(storagePc # "reply" \/ ~Serving)
    /\ []<>(receivePc # "reply" \/ ~Serving)

\* A cancelled context makes Serve return (go/nameq_test.go waits for it).
CancelReturns == ctxDone /\ mainPc = "loop" ~> mainPc = "returned"

\* "S3 is checked once in a while for nodes which may have been missed"
\* (README.md): what the S3 scan changes gets to the feature tree too.  (Where
\* an earlier process left nothing, only the scan makes a host silent.)
ScanReachesTree ==
    \A p \in Peers : p \in silent /\ tree[p] # Shown(p) ~>
        tree[p] = Shown(p) \/ ~Serving
=============================================================================
