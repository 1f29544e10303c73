------------------------------ MODULE Monitor ------------------------------
(***************************************************************************)
(* FeatureMonitor (go/nameq.go): a client of the feature tree.             *)
(* NewFeatureMonitor watches the directories and reads the files it finds; *)
(* watchLoop then handles inotify events one by one, looks at the file an  *)
(* event is about, and sends what it finds to its client.  The state loop  *)
(* may change the tree between any two of these steps.                     *)
(*                                                                         *)
(* The fsnotify library is external: its watches always succeed, and it    *)
(* drops a create event of a file that is gone.  When inotify's queue has  *)
(* overflowed it reports an error, which watchLoop only logs.              *)
(***************************************************************************)
EXTENDS FeatureTree

VARIABLES
    pc,        \* NewFeatureMonitor, then watchLoop, with the adding of
               \* feature directories as a common part
    toAdd,     \* the feature directories to add
    toOpen,    \* the files to look at in the one being added
    queued,    \* m.queued
    boot,      \* how far the end of boot indicator has got
    closing,   \* m.closed holds a token
    view,      \* what the client has been told of each file
    steady     \* history: the files not changed since the monitor was made

monitor == <<pc, toAdd, toOpen, queued, boot, closing, view>>
vars == <<disk, writer, watch, queue, monitor, steady>>

\* What is sent to the client: a file's contents, None for a removed file.
\* The empty sequence indicates the end of boot.
Items == [path : Paths, value : Values \cup {None}]
Boot == <<>>

TypeOK ==
    /\ TreeTypeOK
    /\ pc \in {"new", "list", "add", "read", "open", "loop", "closed"}
    /\ toAdd \subseteq dirs
    /\ toOpen \subseteq Paths
    /\ queued \in Seq(Items \cup {Boot})
    /\ boot \in {"listing", "queued", "closed"}
    /\ closing \in BOOLEAN
    /\ view \in Trees
    /\ steady \subseteq Paths

Init ==
    /\ TreeInit
    /\ pc = "new" /\ toAdd = {} /\ toOpen = {}
    /\ queued = <<>> /\ boot = "listing" /\ closing = FALSE
    /\ view = [p \in Paths |-> None]
    /\ steady = Paths
----------------------------------------------------------------------------
AddHostNewOnly(p) ==        \* mutant: a file the client knows is not read again
    queued' = IF files[p] = None \/ view[p] # None THEN queued
              ELSE Append(queued, [path |-> p, value |-> files[p]])

\* addHost: a file that does not exist any more is skipped.
AddHost(p) ==
    queued' = IF files[p] = None THEN queued
              ELSE Append(queued, [path |-> p, value |-> files[p]])

\* removeHost: a file that exists again is skipped.
RemoveHost(p) ==
    queued' = IF files[p] # None THEN queued
              ELSE Append(queued, [path |-> p, value |-> None])

\* NewFeatureMonitor: the root directory is watched before it is read.
WatchRoot ==
    /\ pc = "new"
    /\ rootWatched' = TRUE
    /\ pc' = "list"
    /\ UNCHANGED <<watched, toAdd, toOpen, queued, boot, closing, view>>

ReadRoot ==
    /\ pc = "list"
    /\ toAdd' = dirs
    /\ pc' = "add"
    /\ UNCHANGED <<watch, toOpen, queued, boot, closing, view>>

\* addFeature: so is a feature directory.  It stays in toAdd till then.
AddFeature(f) ==
    /\ pc = "add" /\ f \in toAdd
    /\ watched' = watched \cup {f}
    /\ pc' = "read"
    /\ UNCHANGED <<rootWatched, toAdd, toOpen, queued, boot, closing, view>>

ListedAtBoot(f) ==          \* mutant: a new directory is watched but not read
    {p \in FilesOf(f) : files[p] # None /\ boot = "listing"}

Listed(f) == {p \in FilesOf(f) : files[p] # None}

ReadDir(f) ==
    /\ pc = "read" /\ f \in toAdd \cap watched
    /\ toAdd' = toAdd \ {f}
    /\ toOpen' = Listed(f)
    /\ pc' = "open"
    /\ UNCHANGED <<watch, queued, boot, closing, view>>

Open(p) ==
    /\ pc = "open" /\ p \in toOpen
    /\ AddHost(p)
    /\ toOpen' = toOpen \ {p}
    /\ UNCHANGED <<watch, pc, toAdd, boot, closing, view>>

EndOpen ==
    /\ pc = "open" /\ toOpen = {}
    /\ pc' = "add"
    /\ UNCHANGED <<watch, toAdd, toOpen, queued, boot, closing, view>>

IndicatedAtOnce ==          \* mutant: the end of boot overtakes the features
    boot' = "closed" /\ UNCHANGED queued

Indicated == boot' = "queued" /\ queued' = Append(queued, Boot)

\* The end of NewFeatureMonitor, or of the handling of an event.
EndAdd ==
    /\ pc = "add" /\ toAdd = {}
    /\ IF boot = "listing" THEN Indicated ELSE UNCHANGED <<queued, boot>>
    /\ pc' = "loop"
    /\ UNCHANGED <<watch, toAdd, toOpen, closing, view>>
----------------------------------------------------------------------------
(* watchLoop *)

Sending == pc = "loop" /\ queued # <<>> /\ Head(queued) # Boot

EndBoot ==
    /\ pc = "loop" /\ queued # <<>> /\ Head(queued) = Boot
    /\ boot' = "closed"
    /\ queued' = Tail(queued)
    /\ UNCHANGED <<watch, events, pc, toAdd, toOpen, closing, view>>

\* The client receives.
Deliver ==
    /\ Sending
    /\ view' = [view EXCEPT ![Head(queued).path] = Head(queued).value]
    /\ queued' = Tail(queued)
    /\ UNCHANGED <<watch, events, pc, toAdd, toOpen, boot, closing>>

\* Events are only taken when nothing is left to send.
Take(op) ==
    /\ pc = "loop" /\ queued = <<>>
    /\ events # <<>> /\ Head(events).op = op
    /\ events' = Tail(events)

HandleMkdir ==
    /\ Take("mkdir")
    /\ toAdd' = {Head(events).dir}
    /\ pc' = "add"
    /\ UNCHANGED <<watch, toOpen, queued, boot, closing, view>>

HandleCreate ==
    /\ Take("create")
    /\ AddHost(Head(events).path)
    /\ UNCHANGED <<watch, pc, toAdd, toOpen, boot, closing, view>>

HandleRemove ==
    /\ Take("remove")
    /\ RemoveHost(Head(events).path)
    /\ UNCHANGED <<watch, pc, toAdd, toOpen, boot, closing, view>>

\* The root of the tree is gone.
HandleRmroot ==
    /\ Take("rmroot")
    /\ pc' = "closed"
    /\ UNCHANGED <<watch, toAdd, toOpen, queued, boot, closing, view>>

\* fsnotify, on its way to the Events channel.
Drop ==
    /\ events # <<>> /\ Head(events).op = "create"
    /\ files[Head(events).path] = None
    /\ events' = Tail(events)
    /\ UNCHANGED <<watch, monitor>>

\* The client is free to call Close at any time.
Close ==
    /\ boot # "listing" /\ ~closing
    /\ closing' = TRUE
    /\ UNCHANGED <<watch, events, pc, toAdd, toOpen, queued, boot, view>>

SelectsWhenIdle ==          \* mutant: the send is not part of the select
    pc = "loop" /\ queued = <<>>

\* A closed monitor stops even if nobody receives from it.
Selects == pc = "loop" /\ (queued # <<>> => Head(queued) # Boot)

Stop ==
    /\ closing /\ Selects
    /\ pc' = "closed"
    /\ UNCHANGED <<watch, events, toAdd, toOpen, queued, boot, closing, view>>
----------------------------------------------------------------------------
Looking ==
    \/ WatchRoot
    \/ ReadRoot
    \/ \E f \in Features : AddFeature(f) \/ ReadDir(f)
    \/ \E p \in Paths : Open(p)
    \/ EndOpen

Adding == (Looking \/ EndAdd) /\ UNCHANGED events

Handle == HandleMkdir \/ HandleCreate \/ HandleRemove \/ HandleRmroot

Watching == Adding \/ EndBoot \/ Deliver \/ Handle \/ Drop \/ Close \/ Stop

DiskUnchanged == UNCHANGED <<disk, writer, lost, steady>>

Writing ==
    /\ Write
    /\ UNCHANGED monitor
    /\ steady' = steady \ {p \in Paths : files'[p] # files[p] /\ pc # "new"}

Next == Writing \/ (Watching /\ DiskUnchanged)

\* The monitor's goroutine is scheduled fairly, and its client receives until
\* it closes the monitor.  select picks at random among the ready cases.
Fairness ==
    /\ WF_vars(Adding /\ DiskUnchanged)
    /\ WF_vars((EndBoot \/ Handle) /\ DiskUnchanged)
    /\ WF_vars(Deliver /\ ~closing /\ DiskUnchanged)
    /\ SF_vars(Stop /\ DiskUnchanged)

Spec == Init /\ [][Next]_vars /\ Fairness
----------------------------------------------------------------------------
\* What the client will know of a file when it has received what is queued.
Told(p) ==
    LET on == {i \in DOMAIN queued : queued[i] # Boot /\ queued[i].path = p}
    IN  IF on = {} THEN view[p]
        ELSE queued[CHOOSE i \in on : \A j \in on : j <= i].value

RootGone == pc # "new" /\ ~rootWatched

Pending(event) == \E i \in DOMAIN events : events[i] = event

\* No change of the tree is missed: where the client will be told something
\* else than is on disk, the file is yet to be looked at, because of its own
\* event or because its directory is yet to be added, or inotify has discarded
\* that event.  (Watches come before listings, and what addHost and removeHost
\* skip has another event.)
ChangeDue ==
    \A p \in Paths : Told(p) # files[p] =>
        \/ pc \in {"new", "list", "closed"} \/ RootGone
        \/ p \in toOpen \/ Dir(p) \in toAdd
        \/ Pending([op |-> "mkdir", dir |-> Dir(p)])
        \/ Pending([op |-> IF files[p] = None THEN "remove" ELSE "create",
                    path |-> p])
        \/ p \in lost

\* "Boot is closed after all existing features have been delivered": those
\* that have stayed as they were since NewFeatureMonitor began.
BootComplete ==
    boot = "closed" => \A p \in steady : view[p] = files[p]

\* The client gets to know every file, unless it changes again before that
\* or its event is discarded, or the monitor is closed.
FollowsTree ==
    \A p \in Paths : \A v \in Values \cup {None} :
        []<>(view[p] = v \/ files[p] # v \/ p \in lost \/ closing \/ RootGone)

\* "Close stops watching immediately and closes the channel": even if nobody
\* receives from it any more; and so does the end of the tree.
CloseEnds == closing \/ RootGone ~> pc = "closed"
=============================================================================
