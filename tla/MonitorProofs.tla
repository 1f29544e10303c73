--------------------------- MODULE MonitorProofs ---------------------------
(***************************************************************************)
(* The safety properties of Monitor for every tree, every number of passes *)
(* of the state loop and every capacity of inotify's queue.                *)
(***************************************************************************)
EXTENDS Monitor, TLAPS

USE DEF disk, writer, watch, queue, monitor, vars

Made(f) == [op |-> "mkdir", dir |-> f]
Created(p) == [op |-> "create", path |-> p]
Gone(p) == [op |-> "remove", path |-> p]

\* The event that tells of what a file has become.
Telling(p, value) == IF value = None THEN Gone(p) ELSE Created(p)

About(event, p) == event \in {Created(p), Gone(p)}

\* An event is about a new directory, about a file, or about the root.
LEMMA EventKinds ==
    /\ \A e \in Events :
           \/ \E f \in Features : e = Made(f)
           \/ \E p \in Paths : About(e, p)
           \/ e = [op |-> "rmroot"]
    /\ \A f, g : Made(f) = Made(g) => f = g
    /\ \A p, q : Created(p) = Created(q) => p = q
    /\ \A p, q : Gone(p) = Gone(q) => p = q
    /\ \A p, q : Created(p) # Gone(q)
    /\ \A f, p : Made(f) # Created(p) /\ Made(f) # Gone(p)
    /\ \A p : [op |-> "rmroot"] \notin {Made(p), Created(p), Gone(p)}
    /\ \A f \in Features : Made(f) \in Events
    /\ \A p \in Paths : Created(p) \in Events /\ Gone(p) \in Events
    /\ [op |-> "rmroot"] \in Events
<1>1. \A e \in Events :
           \/ \E f \in Features : e = Made(f)
           \/ \E p \in Paths : About(e, p)
           \/ e = [op |-> "rmroot"]
  BY DEF Events, Made, About, Created, Gone
<1>2. /\ \A f, g : Made(f) = Made(g) => f = g
      /\ \A p, q : Created(p) = Created(q) => p = q
      /\ \A p, q : Gone(p) = Gone(q) => p = q
  <2>1. /\ \A f : Made(f).dir = f
        /\ \A p : Created(p).path = p /\ Gone(p).path = p
    BY DEF Made, Created, Gone
  <2> QED
    BY <2>1
<1>3. /\ \A f : Made(f).op = "mkdir"
      /\ \A p : Created(p).op = "create" /\ Gone(p).op = "remove"
      /\ [op |-> "rmroot"].op = "rmroot"
  BY DEF Made, Created, Gone
<1>4. /\ \A p, q : Created(p) # Gone(q)
      /\ \A f, p : Made(f) # Created(p) /\ Made(f) # Gone(p)
      /\ \A p : [op |-> "rmroot"] \notin {Made(p), Created(p), Gone(p)}
  BY <1>3
<1>5. /\ \A f \in Features : Made(f) \in Events
      /\ \A p \in Paths : Created(p) \in Events /\ Gone(p) \in Events
      /\ [op |-> "rmroot"] \in Events
  BY DEF Events, Made, Created, Gone
<1> QED
  BY <1>1, <1>2, <1>4, <1>5

\* What is queued stays; the event is last in the queue, or discarded.
LEMMA NotifyChanges ==
    ASSUME TypeOK, NEW e \in Events, NEW about \in SUBSET Paths,
           Notify(e, about)
    PROVE  /\ events' \in Seq(Events) /\ Len(events') <= QueueCap
           /\ lost' \in SUBSET Paths /\ lost \ about \subseteq lost'
           /\ \A i \in DOMAIN events :
                  i \in DOMAIN events' /\ events'[i] = events[i]
           /\ \A i \in DOMAIN events' :
                  i \in DOMAIN events \/ events'[i] = e
           /\ \/ /\ Len(events') \in DOMAIN events' /\ events'[Len(events')] = e
                 /\ \A i \in DOMAIN events' : i <= Len(events')
              \/ about \subseteq lost'
<1> USE BoundAssumption
<1>0. events \in Seq(Events) /\ Len(events) <= QueueCap /\ lost \subseteq Paths
  BY DEF TypeOK, TreeTypeOK
<1>1. CASE /\ Len(events) < QueueCap
           /\ events' = Append(events, e)
           /\ lost' = lost \ about
  BY <1>0, <1>1
<1>2. CASE /\ events # <<>> /\ events[Len(events)] = e
           /\ UNCHANGED queue
  BY <1>0, <1>2
<1>3. CASE /\ Len(events) = QueueCap
           /\ lost' = lost \cup about
           /\ UNCHANGED events
  BY <1>0, <1>3
<1> QED
  BY <1>1, <1>2, <1>3 DEF Notify

\* The same where an event is caused only if there is a watch.
LEMMA NotifyIfChanges ==
    ASSUME TypeOK, NEW e \in Events, NEW about \in SUBSET Paths, NEW cond \in BOOLEAN,
           NotifyIf(cond, e, about)
    PROVE  /\ events' \in Seq(Events) /\ Len(events') <= QueueCap
           /\ lost' \in SUBSET Paths /\ lost \ about \subseteq lost'
           /\ \A i \in DOMAIN events :
                  i \in DOMAIN events' /\ events'[i] = events[i]
           /\ \A i \in DOMAIN events' :
                  i \in DOMAIN events \/ (events'[i] = e /\ cond)
           /\ ~cond => UNCHANGED queue
           /\ cond =>
                \/ /\ Len(events') \in DOMAIN events'
                   /\ events'[Len(events')] = e
                   /\ \A i \in DOMAIN events' : i <= Len(events')
                \/ about \subseteq lost'
<1>1. CASE cond
  BY <1>1, NotifyChanges DEF NotifyIf
<1>2. CASE ~cond
  <2>1. /\ UNCHANGED <<events, lost>> /\ lost \in SUBSET Paths
        /\ events \in Seq(Events) /\ Len(events) <= QueueCap
    BY <1>2 DEF NotifyIf, TypeOK, TreeTypeOK
  <2> HIDE DEF queue
  <2>2. \A i \in DOMAIN events : i \in DOMAIN events' /\ events'[i] = events[i]
    BY <2>1
  <2>3. UNCHANGED queue
    BY <2>1 DEF queue
  <2> QED
    BY <1>2, <2>1, <2>2, <2>3
<1> QED
  BY <1>1, <1>2

\* A file is written or removed: what StateLoop does to the tree in a step.
Touch(p, value) ==
    /\ files' = [files EXCEPT ![p] = value]
    /\ value # None => Dir(p) \in dirs
    /\ NotifyIf(Dir(p) \in watched, Telling(p, value), {p})
    /\ UNCHANGED <<dirs, watch, monitor>>
    /\ steady' = steady \ {q \in Paths : files'[q] # files[q] /\ pc # "new"}

\* Where things are kept between which steps, and what is queued about what.
Shape ==
    /\ \A c \in todo : c[2] = None <=> phase = "walk"
    /\ pc \in {"new", "list", "loop", "closed"} => toAdd = {}
    /\ toOpen # {} => pc = "open"
    /\ \A p \in toOpen : Dir(p) \in watched
    /\ pc = "new" => ~rootWatched
    /\ pc \in {"new", "list"} => queued = <<>> /\ watched = {}
    /\ pc \in {"new", "list"} => \A p \in Paths : view[p] = None
    /\ \A i \in DOMAIN events : \A f \in Features :
           events[i] = Made(f) => f \in dirs
    /\ \A i \in DOMAIN events : \A p \in Paths :
           About(events[i], p) => Dir(p) \in watched

TypeInv == TypeOK /\ Shape

\* The steps of the state loop, by what they do to the tree.
LEMMA WriteKinds ==
    ASSUME TypeInv, Writing
    PROVE  \/ UNCHANGED <<disk, watch, queue, monitor, steady>>
           \/ \E p \in Paths, value \in Values \cup {None} : Touch(p, value)
           \/ \E f \in Features \ dirs :
                 /\ dirs' = dirs \cup {f} /\ UNCHANGED <<files, watch, monitor, steady>>
                 /\ NotifyIf(rootWatched, Made(f), FilesOf(f))
           \/ /\ RemoveRoot /\ UNCHANGED <<monitor, steady>>
<1>1. steady' = steady \ {p \in Paths : files'[p] # files[p] /\ pc # "new"}
      /\ UNCHANGED monitor
  BY DEF Writing
<1>2. ASSUME UNCHANGED files PROVE UNCHANGED steady
  BY <1>1, <1>2 DEF TypeInv, TypeOK
<1>3. ASSUME NEW tree \in Trees, StartPass(tree)
      PROVE  UNCHANGED <<disk, watch, queue, monitor, steady>>
  BY <1>1, <1>2, <1>3 DEF StartPass
<1>4. CASE Walk
  BY <1>1, <1>2, <1>4 DEF Walk
<1>5. ASSUME NEW change \in todo,
             \/ MakeDir(change[1]) \/ Rename(change[1], change[2])
             \/ Remove(change[1]) \/ Fail(change)
      PROVE  \/ UNCHANGED <<disk, watch, queue, monitor, steady>>
             \/ \E p \in Paths, value \in Values \cup {None} : Touch(p, value)
             \/ \E f \in Features \ dirs :
                   /\ dirs' = dirs \cup {f}
                   /\ UNCHANGED <<files, watch, monitor, steady>>
                   /\ NotifyIf(rootWatched, Made(f), FilesOf(f))
  <2>1. /\ change[1] \in Paths /\ change[2] \in Values \cup {None}
        /\ change[2] = None <=> phase = "walk"
    BY DEF TypeInv, TypeOK, TreeTypeOK, Shape
  <2>2. CASE MakeDir(change[1])
    <3>1. Dir(change[1]) \in Features \ dirs
      BY <2>1, <2>2 DEF MakeDir, Dir, Paths
    <3> QED
      BY <1>1, <1>2, <2>2, <3>1 DEF MakeDir, Made
  <2>3. CASE Rename(change[1], change[2])
    <3>1. change[2] # None
      BY <2>1, <2>3 DEF Rename
    <3>2. Touch(change[1], change[2])
      BY <1>1, <2>3, <3>1 DEF Rename, InPlace, Touch, Telling, Created
    <3> QED
      BY <2>1, <3>2
  <2>4. CASE Remove(change[1])
    <3>1. Touch(change[1], None)
      BY <1>1, <2>4 DEF Remove, Touch, Telling, Gone
    <3> QED
      BY <2>1, <3>1
  <2>5. CASE Fail(change)
    BY <1>1, <1>2, <2>5 DEF Fail
  <2> QED
    BY <1>5, <2>2, <2>3, <2>4, <2>5
<1>6. CASE RemoveRoot
  BY <1>1, <1>2, <1>6 DEF RemoveRoot
<1> QED
  BY <1>3, <1>4, <1>5, <1>6 DEF Writing, Write

\* What the state loop keeps from step to step.
LEMMA WriterType ==
    ASSUME TypeInv, Writing
    PROVE  /\ phase' \in {"write", "walk"} /\ filenames' \subseteq Paths
           /\ todo' \subseteq Paths \X (Values \cup {None})
           /\ \A c \in todo' : c[2] = None <=> phase' = "walk"
           /\ passes' \in 0..MaxPasses
<1> USE BoundAssumption, NoneAssumption
<1>0. /\ phase \in {"write", "walk"} /\ filenames \subseteq Paths
      /\ todo \subseteq Paths \X (Values \cup {None})
      /\ \A c \in todo : c[2] = None <=> phase = "walk"
      /\ passes \in 0..MaxPasses
  BY DEF TypeInv, TypeOK, TreeTypeOK, Shape
<1>1. ASSUME NEW tree \in Trees, StartPass(tree)
      PROVE  /\ phase' = "write" /\ filenames' \subseteq Paths
             /\ todo' \subseteq Paths \X (Values \cup {None})
             /\ \A c \in todo' : c[2] # None
             /\ passes' \in 0..MaxPasses
  <2>1. /\ filenames' = {p \in Paths : tree[p] # None}
        /\ todo' = {<<p, tree[p]>> :
                       p \in {q \in filenames' : tree[q] # files[q]}}
        /\ phase' = "write" /\ passes' = passes + 1 /\ passes < MaxPasses
    BY <1>1 DEF StartPass
  <2>2. ASSUME NEW c \in todo'
        PROVE  c \in Paths \X (Values \cup {None}) /\ c[2] # None
    <3>1. PICK p \in filenames' : c = <<p, tree[p]>>
      BY <2>1
    <3>2. p \in Paths /\ tree[p] # None /\ tree[p] \in Values \cup {None}
      BY <2>1 DEF Trees
    <3> QED
      BY <3>1, <3>2
  <2> QED
    BY <1>0, <2>1, <2>2
<1>2. CASE Walk
  <2>1. /\ filenames' = {} /\ phase' = "walk" /\ UNCHANGED passes
        /\ todo' = {<<p, None>> :
                       p \in {q \in Paths \ filenames : files[q] # None}}
    BY <1>2 DEF Walk
  <2> QED
    BY <1>0, <2>1
<1>3. ASSUME NEW change \in todo,
             \/ MakeDir(change[1]) \/ Rename(change[1], change[2])
             \/ Remove(change[1]) \/ Fail(change)
      PROVE  todo' \subseteq todo /\ UNCHANGED <<phase, filenames, passes>>
  BY <1>3 DEF MakeDir, Rename, Remove, Fail
<1>4. CASE RemoveRoot
  BY <1>0, <1>4 DEF RemoveRoot
<1> QED
  BY <1>0, <1>1, <1>2, <1>3, <1>4 DEF Writing, Write

\* Of the events queued after one more was, those about files and directories.
LEMMA NotedShape ==
    ASSUME TypeInv, NEW e \in Events, NEW about \in SUBSET Paths, NEW cond \in BOOLEAN,
           NotifyIf(cond, e, about), dirs \subseteq dirs', UNCHANGED watched,
           cond => \A f \in Features : e = Made(f) => f \in dirs',
           cond => \A p \in Paths : About(e, p) => Dir(p) \in watched
    PROVE  /\ \A i \in DOMAIN events' : \A f \in Features :
                  events'[i] = Made(f) => f \in dirs'
           /\ \A i \in DOMAIN events' : \A p \in Paths :
                  About(events'[i], p) => Dir(p) \in watched'
<1>1. \A i \in DOMAIN events' :
          \/ i \in DOMAIN events /\ events'[i] = events[i]
          \/ events'[i] = e /\ cond
  BY NotifyIfChanges DEF TypeInv
<1>2. /\ \A i \in DOMAIN events : \A f \in Features :
             events[i] = Made(f) => f \in dirs
      /\ \A i \in DOMAIN events : \A p \in Paths :
             About(events[i], p) => Dir(p) \in watched
  BY DEF TypeInv, Shape
<1> QED
  BY <1>1, <1>2

\* An event is taken off the queue.
LEMMA TailEvents ==
    ASSUME TypeInv, events # <<>>, events' = Tail(events)
    PROVE  /\ events' \in Seq(Events) /\ Len(events') <= QueueCap
           /\ Head(events) = events[1] /\ events[1] \in Events
           /\ 1 \in DOMAIN events
           /\ \A i \in DOMAIN events' :
                  /\ i \in Nat /\ i + 1 \in DOMAIN events
                  /\ events'[i] = events[i + 1]
           /\ \A i \in DOMAIN events : i # 1 =>
                  /\ i \in Nat /\ i - 1 \in DOMAIN events'
                  /\ events'[i - 1] = events[i]
<1>1. events \in Seq(Events) /\ Len(events) <= QueueCap /\ QueueCap \in Nat
  BY BoundAssumption DEF TypeInv, TypeOK, TreeTypeOK
<1> QED
  BY <1>1

\* Events are handled by the loop, one by one, when nothing is left to send.
LEMMA TakeKinds ==
    ASSUME TypeInv
    PROVE  /\ \A op : Take(op) =>
                  pc = "loop" /\ queued = <<>> /\ events # <<>>
                  /\ events' = Tail(events)
           /\ Take("mkdir") =>
                  \E f \in Features : Head(events) = Made(f)
           /\ Take("create") =>
                  \E p \in Paths : Head(events) = Created(p)
           /\ Take("remove") =>
                  \E p \in Paths : Head(events) = Gone(p)
<1>1. \A op : Take(op) => events # <<>> /\ Head(events).op = op
  BY DEF Take
<1>2. events # <<>> => Head(events) \in Events
  BY DEF TypeInv, TypeOK, TreeTypeOK
<1>3. \A e \in Events :
         /\ e.op = "mkdir" => \E f \in Features : e = Made(f)
         /\ e.op = "create" => \E p \in Paths : e = Created(p)
         /\ e.op = "remove" => \E p \in Paths : e = Gone(p)
  BY DEF Events, Made, Created, Gone
<1> QED
  BY <1>1, <1>2, <1>3 DEF Take

\* What is queued is a feature, or the mark of the end of boot.
LEMMA ItemFields ==
    /\ \A x \in Items : x # Boot /\ x.path \in Paths
                        /\ x.value \in Values \cup {None}
    /\ \A p \in Paths, v \in Values \cup {None} :
           [path |-> p, value |-> v] \in Items
  BY DEF Items, Boot

\* What handling a file appends.
LEMMA AddedItem ==
    ASSUME TypeInv, NEW p \in Paths, AddHost(p) \/ RemoveHost(p)
    PROVE  /\ queued' \in Seq(Items \cup {Boot})
           /\ \/ UNCHANGED queued
              \/ queued' = Append(queued, [path |-> p, value |-> files[p]])
<1>1. files[p] \in Values \cup {None} /\ queued \in Seq(Items \cup {Boot})
  BY DEF TypeInv, TypeOK, TreeTypeOK, Trees
<1>2. \/ UNCHANGED queued
      \/ queued' = Append(queued, [path |-> p, value |-> files[p]])
  BY DEF AddHost, RemoveHost
<1>3. [path |-> p, value |-> files[p]] \in Items \cup {Boot}
  BY <1>1, ItemFields
<1> QED
  BY <1>1, <1>2, <1>3
----------------------------------------------------------------------------
\* No step of the state loop breaks TypeInv.
LEMMA WriteType ==
    ASSUME TypeInv, Writing
    PROVE  TypeInv'
<1> USE NoneAssumption, BoundAssumption
<1>0. /\ dirs \subseteq Features /\ files \in Trees
      /\ \A p \in Paths : files[p] # None => Dir(p) \in dirs
      /\ rootWatched \in BOOLEAN /\ watched \subseteq dirs
      /\ \A p \in Paths : Dir(p) \in Features
  BY DEF TypeInv, TypeOK, TreeTypeOK, Paths, Dir
<1>1. UNCHANGED monitor
  BY DEF Writing
<1>2. CASE UNCHANGED <<disk, watch, queue, monitor, steady>>
  BY <1>2, WriterType DEF TypeInv, TypeOK, TreeTypeOK, Shape
<1>3. ASSUME NEW p \in Paths, NEW value \in Values \cup {None},
             Touch(p, value)
      PROVE  TypeInv'
  <2>1. /\ files' \in Trees
        /\ \A q \in Paths : files'[q] # None => Dir(q) \in dirs
        /\ UNCHANGED <<dirs, watch, monitor>>
        /\ steady' \subseteq steady
    BY <1>0, <1>3 DEF Touch, Trees
  <2> DEFINE e == Telling(p, value)
             watchedDir == Dir(p) \in watched
  <2>2. e \in Events /\ About(e, p) /\ (\A f : e # Made(f))
        /\ \A q : About(e, q) => q = p
    BY EventKinds DEF Telling, About
  <2>3. NotifyIf(watchedDir, e, {p}) /\ watchedDir \in BOOLEAN
    BY <1>3 DEF Touch
  <2> HIDE DEF e
  <2>4. /\ \A f \in Features : e = Made(f) => f \in dirs'
        /\ watchedDir => \A q \in Paths : About(e, q) => Dir(q) \in watched
    BY <2>2
  <2> HIDE DEF watchedDir
  <2>5. /\ events' \in Seq(Events) /\ Len(events') <= QueueCap
        /\ lost' \in SUBSET Paths
    BY <2>2, <2>3, NotifyIfChanges DEF TypeInv
  <2>6. /\ \A i \in DOMAIN events' : \A f \in Features :
               events'[i] = Made(f) => f \in dirs'
        /\ \A i \in DOMAIN events' : \A q \in Paths :
               About(events'[i], q) => Dir(q) \in watched'
    BY <2>1, <2>2, <2>3, <2>4, NotedShape
  <2>7. TypeOK'
    BY <1>0, Writing, <2>1, <2>5, WriterType DEF TypeInv, TypeOK, TreeTypeOK
  <2>8. Shape'
    BY <2>1, <2>6, WriterType DEF TypeInv, Shape
  <2> QED
    BY <2>7, <2>8 DEF TypeInv
<1>4. ASSUME NEW f \in Features \ dirs, dirs' = dirs \cup {f},
             UNCHANGED <<files, watch, monitor, steady>>,
             NotifyIf(rootWatched, Made(f), FilesOf(f))
      PROVE  TypeInv'
  <2>1. Made(f) \in Events /\ FilesOf(f) \in SUBSET Paths
        /\ (\A g : Made(f) = Made(g) => g = f)
        /\ \A q : ~About(Made(f), q)
    BY EventKinds DEF FilesOf, About
  <2>2. /\ events' \in Seq(Events) /\ Len(events') <= QueueCap
        /\ lost' \in SUBSET Paths
    BY <1>0, <1>4, <2>1, NotifyIfChanges DEF TypeInv
  <2>3. /\ \A i \in DOMAIN events' : \A g \in Features :
               events'[i] = Made(g) => g \in dirs'
        /\ \A i \in DOMAIN events' : \A q \in Paths :
               About(events'[i], q) => Dir(q) \in watched'
    BY <1>0, <1>4, <2>1, NotedShape
  <2>4. TypeOK'
    BY <1>0, Writing, <1>4, <2>2, WriterType DEF TypeInv, TypeOK, TreeTypeOK
  <2>5. Shape'
    BY <1>4, <2>3, WriterType DEF TypeInv, Shape
  <2> QED
    BY <2>4, <2>5 DEF TypeInv
<1>5. CASE RemoveRoot /\ UNCHANGED <<monitor, steady>>
  <2> DEFINE e == [op |-> "rmroot"]
  <2>1. e \in Events /\ (\A g : e # Made(g)) /\ \A q : ~About(e, q)
    BY EventKinds DEF About
  <2> HIDE DEF e
  <2>2. /\ NotifyIf(TRUE, e, {}) /\ rootWatched' = FALSE /\ rootWatched
        /\ UNCHANGED <<disk, writer, watched>>
    BY <1>5 DEF RemoveRoot, NotifyIf, e
  <2>3. /\ events' \in Seq(Events) /\ Len(events') <= QueueCap
        /\ lost' \in SUBSET Paths
    BY <2>1, <2>2, NotifyIfChanges DEF TypeInv
  <2>4. /\ \A i \in DOMAIN events' : \A g \in Features :
               events'[i] = Made(g) => g \in dirs'
        /\ \A i \in DOMAIN events' : \A q \in Paths :
               About(events'[i], q) => Dir(q) \in watched'
    BY <2>1, <2>2, NotedShape
  <2> QED
    BY <1>5, <2>2, <2>3, <2>4 DEF TypeInv, TypeOK, TreeTypeOK, Shape
<1> QED
  BY <1>2, <1>3, <1>4, <1>5, WriteKinds

\* A step of a monitor that takes no event.
LEMMA LookType ==
    ASSUME TypeInv, DiskUnchanged, UNCHANGED events, TypeOK',
           pc' \in {"new", "list", "loop", "closed"} => toAdd' = {},
           toOpen' # {} => pc' = "open",
           \A p \in toOpen' : Dir(p) \in watched',
           pc' # "new",
           pc' = "list" => queued' = <<>> /\ watched' = {} /\ UNCHANGED view,
           watched \subseteq watched', pc' = "list" => pc = "new"
    PROVE  TypeInv'
BY DEF DiskUnchanged, TypeInv, Shape

\* The steps that watch, list and open, of any monitor.
LEMMA LookingType ==
    ASSUME TypeInv, Looking, UNCHANGED events, DiskUnchanged
    PROVE  TypeInv'
<1> USE NoneAssumption, BoundAssumption
<1>1. CASE WatchRoot
  <2>1. TypeOK'
    BY <1>1 DEF WatchRoot, DiskUnchanged, TypeInv, TypeOK,
       TreeTypeOK
  <2> QED
    BY LookType, <1>1, <2>1 DEF WatchRoot, TypeInv, Shape
<1>2. CASE ReadRoot
  <2>1. TypeOK'
    BY <1>2 DEF ReadRoot, DiskUnchanged, TypeInv, TypeOK,
       TreeTypeOK
  <2> QED
    BY LookType, <1>2, <2>1 DEF ReadRoot, TypeInv, Shape
<1>3. ASSUME NEW f \in Features, AddFeature(f) PROVE TypeInv'
  <2>1. TypeOK'
    BY <1>3 DEF AddFeature, DiskUnchanged, TypeInv, TypeOK,
       TreeTypeOK
  <2> QED
    BY LookType, <1>3, <2>1 DEF AddFeature, TypeInv, Shape
<1>4. ASSUME NEW f \in Features, ReadDir(f) PROVE TypeInv'
  <2>1. TypeOK'
    BY <1>4 DEF ReadDir, Listed, FilesOf, DiskUnchanged,
       TypeInv, TypeOK, TreeTypeOK
  <2>2. \A p \in toOpen' : Dir(p) \in watched'
    BY <1>4 DEF ReadDir, Listed, FilesOf
  <2> QED
    BY LookType, <1>4, <2>1, <2>2 DEF ReadDir, TypeInv, Shape
<1>5. ASSUME NEW p \in Paths, Open(p) PROVE TypeInv'
  <2>1. queued' \in Seq(Items \cup {Boot})
    BY <1>5, AddedItem DEF Open
  <2>2. TypeOK'
    BY <1>5, <2>1 DEF Open, DiskUnchanged, TypeInv, TypeOK,
       TreeTypeOK
  <2> QED
    BY LookType, <1>5, <2>2 DEF Open, TypeInv, Shape
<1>6. CASE EndOpen
  <2>1. TypeOK'
    BY <1>6 DEF EndOpen, DiskUnchanged, TypeInv, TypeOK,
       TreeTypeOK
  <2> QED
    BY LookType, <1>6, <2>1 DEF EndOpen, TypeInv, Shape
<1> QED
  BY <1>1, <1>2, <1>3, <1>4, <1>5, <1>6 DEF Looking

\* A step of a monitor that takes an event.
LEMMA TakeType ==
    ASSUME TypeInv, DiskUnchanged, events # <<>>, events' = Tail(events),
           UNCHANGED <<rootWatched, toOpen, boot, closing>>,
           watched \subseteq watched', watched' \subseteq dirs,
           queued' \in Seq(Items \cup {Boot}), view' \in Trees,
           toAdd' \subseteq dirs, pc' \in {pc, "add", "closed"},
           pc' \in {"new", "list", "loop", "closed"} => toAdd' = {},
           toOpen # {} => pc' = "open",
           pc' \in {"new", "list"} => UNCHANGED <<pc, queued, watched, view>>
    PROVE  TypeInv'
<1>1. /\ \A i \in DOMAIN events' : \A f \in Features :
             events'[i] = Made(f) => f \in dirs'
      /\ \A i \in DOMAIN events' : \A q \in Paths :
             About(events'[i], q) => Dir(q) \in watched'
  BY TailEvents DEF DiskUnchanged, TypeInv, Shape
<1>2. events' \in Seq(Events) /\ Len(events') <= QueueCap
  BY TailEvents
<1>3. TypeOK'
  BY <1>2 DEF DiskUnchanged, TypeInv, TypeOK, TreeTypeOK
<1>4. Shape'
  BY <1>1 DEF DiskUnchanged, TypeInv, Shape
<1> QED
  BY <1>3, <1>4 DEF TypeInv

\* What handling a create or a delete queues.
LEMMA FileEventType ==
    ASSUME TypeInv, events # <<>>
    PROVE  /\ Head(events).op = "create" /\ AddHost(Head(events).path) =>
                  queued' \in Seq(Items \cup {Boot})
           /\ Head(events).op = "remove" /\ RemoveHost(Head(events).path) =>
                  queued' \in Seq(Items \cup {Boot})
<1>1. Head(events) \in Events
  BY DEF TypeInv, TypeOK, TreeTypeOK
<1>2. Head(events).op \in {"create", "remove"} => Head(events).path \in Paths
  BY <1>1 DEF Events
<1> QED
  BY <1>2, AddedItem

\* No step of the state loop or of the monitor breaks TypeInv.
LEMMA TypeStep ==
    ASSUME TypeInv, [Next]_vars
    PROVE  TypeInv'
<1> USE NoneAssumption, BoundAssumption
<1>1. CASE Writing
  BY <1>1, WriteType
<1>2. CASE Adding /\ DiskUnchanged
  <2>1. CASE Looking
    BY <1>2, <2>1, LookingType DEF Adding
  <2>2. CASE EndAdd
    <3>1. queued' \in Seq(Items \cup {Boot})
      BY <2>2 DEF EndAdd, Indicated, TypeInv, TypeOK
    <3>2. TypeOK'
      BY <1>2, <2>2, <3>1 DEF EndAdd, Indicated, Adding, DiskUnchanged,
         TypeInv, TypeOK, TreeTypeOK
    <3> QED
      BY <1>2, <2>2, <3>2, LookType DEF EndAdd, Indicated, Adding, TypeInv, Shape
  <2> QED
    BY <1>2, <2>1, <2>2 DEF Adding
<1>3. CASE (EndBoot \/ Deliver) /\ DiskUnchanged
  <2>1. /\ pc = "loop" /\ UNCHANGED <<watch, events, pc, toAdd, toOpen, closing>>
        /\ queued # <<>> /\ queued' = Tail(queued) /\ pc' = "loop"
        /\ boot' \in {boot, "closed"}
    BY <1>3 DEF EndBoot, Deliver, Sending
  <2>2. queued' \in Seq(Items \cup {Boot})
    BY <2>1 DEF TypeInv, TypeOK
  <2>3. view' \in Trees
    <3>1. CASE EndBoot
      BY <3>1 DEF EndBoot, TypeInv, TypeOK
    <3>2. CASE Deliver
      <4>1. Head(queued) \in Items
        BY <3>2 DEF Deliver, Sending, TypeInv, TypeOK
      <4>2. Head(queued).path \in Paths /\ Head(queued).value \in Values \cup {None}
        BY <4>1, ItemFields
      <4> QED
        BY <3>2, <4>2 DEF Deliver, TypeInv, TypeOK, Trees
    <3> QED
      BY <1>3, <3>1, <3>2
  <2>4. TypeOK'
    BY <1>3, <2>1, <2>2, <2>3 DEF DiskUnchanged, TypeInv, TypeOK, TreeTypeOK
  <2> QED
    BY <1>3, <2>1, <2>4, LookType DEF TypeInv, Shape
<1>4. CASE (Handle \/ Drop) /\ DiskUnchanged
  <2>1. /\ events # <<>> /\ events' = Tail(events)
        /\ UNCHANGED <<watch, toOpen, boot, closing, view>>
        /\ watched \subseteq dirs /\ view \in Trees
    BY <1>4, TakeKinds DEF Handle, Drop, HandleMkdir, HandleCreate,
       HandleRemove, HandleRmroot, TypeInv, TypeOK, TreeTypeOK
  <2>2. /\ queued' \in Seq(Items \cup {Boot}) /\ toAdd' \subseteq dirs
        /\ pc' \in {pc, "add", "closed"}
        /\ pc' \in {"new", "list", "loop", "closed"} => toAdd' = {}
        /\ toOpen # {} => pc' = "open"
        /\ pc' \in {"new", "list"} => UNCHANGED <<pc, queued>>
    <3>1. CASE HandleMkdir
      <4>1. PICK f \in Features : Head(events) = Made(f)
        BY <3>1, TakeKinds DEF HandleMkdir
      <4>2. f \in dirs
        BY <2>1, <4>1, TailEvents DEF TypeInv, Shape
      <4>3. toAdd' = {f} /\ pc = "loop"
        BY <3>1, <4>1, TakeKinds DEF HandleMkdir, Made
      <4> QED
        BY <3>1, <4>2, <4>3 DEF HandleMkdir, TypeInv, TypeOK, Shape
    <3>2. CASE HandleCreate \/ HandleRemove
      <4>1. queued' \in Seq(Items \cup {Boot}) /\ pc = "loop"
        BY <2>1, <3>2, FileEventType DEF HandleCreate, HandleRemove, Take
      <4> QED
        BY <3>2, <4>1 DEF HandleCreate, HandleRemove, TypeInv, TypeOK, Shape
    <3>3. CASE HandleRmroot
      BY <3>3, TakeKinds DEF HandleRmroot, TypeInv, TypeOK, Shape
    <3>4. CASE Drop
      BY <3>4 DEF Drop, TypeInv, TypeOK, Shape
    <3> QED
      BY <1>4, <3>1, <3>2, <3>3, <3>4 DEF Handle
  <2> QED
    BY <1>4, <2>1, <2>2, TakeType
<1>5. CASE (Close \/ Stop) /\ DiskUnchanged
  <2>1. /\ UNCHANGED <<watch, events, toAdd, toOpen, queued, boot, view>>
        /\ pc' = pc \/ (pc = "loop" /\ pc' = "closed")
        /\ closing' \in {closing, TRUE}
    BY <1>5 DEF Close, Stop, Selects
  <2>2. TypeOK'
    BY <1>5, <2>1 DEF DiskUnchanged, TypeInv, TypeOK, TreeTypeOK
  <2>3. Shape'
    BY <1>5, <2>1 DEF DiskUnchanged, TypeInv, Shape
  <2> QED
    BY <2>2, <2>3 DEF TypeInv
<1>6. CASE UNCHANGED vars
  BY <1>6 DEF TypeInv, TypeOK, TreeTypeOK, Shape
<1> QED
  BY <1>1, <1>2, <1>3, <1>4, <1>5, <1>6 DEF Next, Watching

\* A monitor that is made of a tree has a good start.
LEMMA TypeInit ==
    ASSUME Init
    PROVE  TypeInv
<1> USE NoneAssumption, BoundAssumption
<1>1. TreeTypeOK
  <2>1. /\ events \in Seq(Events) /\ Len(events) <= QueueCap
        /\ files \in Trees
        /\ \A p \in Paths : Dir(p) \in Features
    BY DEF Init, TreeInit, Paths, Dir
  <2>2. /\ dirs \subseteq Features
        /\ \A p \in Paths : files[p] # None => Dir(p) \in dirs
    <3>1. PICK more \in SUBSET Features :
              dirs = more \cup {Dir(p) : p \in {q \in Paths : files[q] # None}}
      BY DEF Init, TreeInit
    <3> QED
      BY <2>1, <3>1
  <2> QED
    <3>1. /\ phase \in {"write", "walk"} /\ filenames \subseteq Paths
          /\ todo \subseteq Paths \X (Values \cup {None})
          /\ passes \in 0..MaxPasses
      BY DEF Init, TreeInit
    <3>2. rootWatched \in BOOLEAN /\ watched \subseteq dirs /\ lost \subseteq Paths
      BY DEF Init, TreeInit
    <3> QED
      BY <2>1, <2>2, <3>1, <3>2 DEF TreeTypeOK
<1>2. TypeOK
  <2>1. queued \in Seq(Items \cup {Boot}) /\ view \in Trees
    BY DEF Init, Trees
  <2> QED
    BY <1>1, <2>1 DEF Init, TypeOK
<1>3. Shape
  <2>1. DOMAIN events = {}
    BY DEF Init, TreeInit
  <2> QED
    BY <2>1 DEF Init, TreeInit, Shape
<1> QED
  BY <1>2, <1>3 DEF TypeInv

\* Every variable keeps its type, and the loops of the monitor hold something
\* only between the steps that fill and empty them.
THEOREM TypeInvHolds == Spec => []TypeInv
BY TypeInit, TypeStep, PTL DEF Spec

\* TypeOK: every variable keeps its type, for all trees and capacities.
THEOREM TypeCorrect == Spec => []TypeOK
BY TypeInvHolds, PTL DEF TypeInv
----------------------------------------------------------------------------
(* What the client will have been told *)

\* The features of a file in a queue, the last of which counts.
On(q, p) == {i \in DOMAIN q : q[i] # Boot /\ q[i].path = p}

IsLast(q, i, p) == i \in On(q, p) /\ \A j \in On(q, p) : j <= i

Lasts(q) == \A p \in Paths : On(q, p) = {} \/ \E i \in On(q, p) : IsLast(q, i, p)

Tells(q, known, p) ==
    IF On(q, p) = {} THEN known[p]
    ELSE q[CHOOSE i \in On(q, p) : \A j \in On(q, p) : j <= i].value

\* Told in the terms of the lemmas that follow.
LEMMA ToldTells ==
    \A p : Told(p) = Tells(queued, view, p) /\ Told(p)' = Tells(queued', view', p)
  BY DEF Told, Tells, On

\* The last feature of a file in a queue is what will have been told of it.
LEMMA TellsLast ==
    ASSUME NEW q \in Seq(Items \cup {Boot}), NEW known, NEW p, NEW i,
           IsLast(q, i, p)
    PROVE  Tells(q, known, p) = q[i].value
<1>1. On(q, p) \subseteq Nat
  BY DEF On
<1>2. \A k \in On(q, p) : IsLast(q, k, p) => k = i
  BY <1>1 DEF IsLast
<1>3. (CHOOSE k \in On(q, p) : \A j \in On(q, p) : j <= k) = i
  BY <1>2 DEF IsLast
<1> QED
  BY <1>3 DEF Tells, IsLast

\* A feature, or the end of boot, is queued.
LEMMA TellsAppend ==
    ASSUME NEW q \in Seq(Items \cup {Boot}), NEW known,
           NEW item \in Items \cup {Boot}, Lasts(q)
    PROVE  LET r == Append(q, item)
           IN  /\ Lasts(r)
               /\ \A p \in Paths : Tells(r, known, p) =
                      IF item # Boot /\ p = item.path THEN item.value
                                                      ELSE Tells(q, known, p)
<1> DEFINE n == Len(q) + 1
           r == Append(q, item)
<1>1. /\ r \in Seq(Items \cup {Boot}) /\ n \in Nat
      /\ DOMAIN r = DOMAIN q \cup {n} /\ n \notin DOMAIN q
      /\ r[n] = item
      /\ \A i \in DOMAIN q : i \in Nat /\ i <= n /\ r[i] = q[i]
  OBVIOUS
<1> HIDE DEF n, r
<1>2. \A p \in Paths : item # Boot /\ p = item.path => On(r, p) = On(q, p) \cup {n}
  BY <1>1 DEF On
<1>3. ASSUME NEW p \in Paths, ~(item # Boot /\ p = item.path)
      PROVE  /\ On(r, p) = On(q, p)
             /\ \A i \in On(q, p) : IsLast(q, i, p) <=> IsLast(r, i, p)
             /\ Tells(r, known, p) = Tells(q, known, p)
  <2>1. On(r, p) = On(q, p)
    BY <1>1, <1>3 DEF On
  <2>2. \A i \in On(q, p) : IsLast(q, i, p) <=> IsLast(r, i, p)
    BY <2>1 DEF IsLast
  <2>3. CASE On(q, p) = {}
    BY <2>1, <2>3 DEF Tells
  <2>4. CASE On(q, p) # {}
    <3>1. PICK i \in On(q, p) : IsLast(q, i, p)
      BY <2>4 DEF Lasts
    <3>2. r[i] = q[i]
      BY <1>1, <3>1 DEF On
    <3> QED
      <4>1. Tells(q, known, p) = q[i].value
        BY <3>1, TellsLast
      <4>2. IsLast(r, i, p)
        BY <2>2, <3>1
      <4>3. Tells(r, known, p) = r[i].value
        BY <1>1, <4>2, TellsLast
      <4> QED
        BY <2>1, <2>2, <3>2, <4>1, <4>3
  <2> QED
    BY <2>1, <2>2, <2>3, <2>4
<1>4. ASSUME NEW p \in Paths, item # Boot /\ p = item.path
      PROVE  IsLast(r, n, p) /\ Tells(r, known, p) = item.value
  <2>1. IsLast(r, n, p)
    BY <1>1, <1>2, <1>4 DEF IsLast, On
  <2> QED
    BY <1>1, <2>1, TellsLast
<1>5. Lasts(r)
  BY <1>3, <1>4 DEF Lasts, IsLast
<1> QED
  BY <1>3, <1>4, <1>5 DEF r

\* What is first in the queue is received.
LEMMA TellsTail ==
    ASSUME NEW q \in Seq(Items \cup {Boot}), q # <<>>, Lasts(q),
           NEW known \in Trees
    PROVE  LET now == IF Head(q) = Boot THEN known
                      ELSE [known EXCEPT ![Head(q).path] = Head(q).value]
           IN  /\ Lasts(Tail(q))
               /\ \A p \in Paths : Tells(Tail(q), now, p) = Tells(q, known, p)
<1> DEFINE r == Tail(q)
           now == IF Head(q) = Boot THEN known
                  ELSE [known EXCEPT ![Head(q).path] = Head(q).value]
<1>1. /\ r \in Seq(Items \cup {Boot}) /\ Head(q) = q[1] /\ 1 \in DOMAIN q
      /\ Head(q) \in Items \cup {Boot}
      /\ \A i \in DOMAIN q : i \in Nat /\ i >= 1
      /\ \A i \in DOMAIN r : i \in Nat /\ i + 1 \in DOMAIN q /\ r[i] = q[i + 1]
      /\ \A i \in DOMAIN q : i # 1 => i - 1 \in DOMAIN r /\ r[i - 1] = q[i]
  OBVIOUS
<1>2. now \in Trees
  BY <1>1, ItemFields DEF Trees
<1>3. ASSUME NEW p \in Paths
      PROVE  now[p] = IF 1 \in On(q, p) THEN q[1].value ELSE known[p]
  BY <1>1, ItemFields DEF On, Trees
<1> HIDE DEF r, now
<1>4. ASSUME NEW p \in Paths
      PROVE  /\ \A i \in On(r, p) : i + 1 \in On(q, p)
             /\ \A i \in On(q, p) : i # 1 => i - 1 \in On(r, p)
  BY <1>1 DEF On
<1>5. ASSUME NEW p \in Paths, NEW i \in On(q, p), IsLast(q, i, p), i # 1
      PROVE  IsLast(r, i - 1, p) /\ Tells(r, now, p) = Tells(q, known, p)
  <2>1. i - 1 \in On(r, p) /\ \A j \in On(r, p) : j + 1 <= i
    BY <1>4, <1>5 DEF IsLast
  <2>2. \A j \in On(r, p) : j \in Nat
    BY <1>1 DEF On
  <2>3. i \in Nat /\ r[i - 1] = q[i]
    BY <1>1, <1>5 DEF On
  <2>4. IsLast(r, i - 1, p)
    BY <2>1, <2>2, <2>3 DEF IsLast
  <2>5. /\ Tells(q, known, p) = q[i].value
        /\ Tells(r, now, p) = r[i - 1].value
    BY <1>1, <1>5, <2>4, TellsLast
  <2> QED
    BY <2>3, <2>4, <2>5
<1>6. ASSUME NEW p \in Paths, On(q, p) \subseteq {1}
      PROVE  On(r, p) = {} /\ Tells(r, now, p) = Tells(q, known, p)
  <2>1. On(r, p) = {}
    <3>1. \A i \in On(r, p) : i \in DOMAIN r /\ i + 1 = 1
      BY <1>4, <1>6 DEF On
    <3>2. \A i \in DOMAIN r : i \in Nat /\ i # 0
      BY <1>1 DEF r
    <3> QED
      BY <3>1, <3>2
  <2>2. CASE On(q, p) = {}
    BY <1>3, <2>1, <2>2 DEF Tells
  <2>3. CASE On(q, p) = {1}
    <3>1. IsLast(q, 1, p)
      BY <2>3 DEF IsLast
    <3>2. Tells(q, known, p) = q[1].value
      BY <3>1, TellsLast
    <3> QED
      BY <1>3, <2>1, <2>3, <3>2 DEF Tells
  <2> QED
    BY <1>6, <2>1, <2>2, <2>3
<1>7. ASSUME NEW p \in Paths
      PROVE  /\ On(r, p) = {} \/ \E i \in On(r, p) : IsLast(r, i, p)
             /\ Tells(r, now, p) = Tells(q, known, p)
  <2>1. CASE On(q, p) \subseteq {1}
    BY <1>6, <2>1
  <2>2. CASE ~(On(q, p) \subseteq {1})
    <3>1. PICK j \in On(q, p) : j # 1
      BY <2>2
    <3>2. PICK i \in On(q, p) : IsLast(q, i, p)
      BY <3>1 DEF Lasts
    <3>3. i # 1
      <4>1. j \in Nat /\ j >= 1 /\ j <= i /\ i \in Nat
        BY <1>1, <3>1, <3>2 DEF IsLast, On
      <4> QED
        BY <3>1, <4>1
    <3> QED
      BY <1>5, <3>2, <3>3 DEF IsLast
  <2> QED
    BY <2>1, <2>2
<1> QED
  BY <1>7 DEF Lasts, r, now
----------------------------------------------------------------------------
(* No change of the tree is missed *)

Has(e) == \E i \in DOMAIN events : events[i] = e

\* A directory that is not watched is yet to be.
WatchDue ==
    \A f \in dirs \ watched :
        \/ pc \in {"new", "list"} \/ RootGone
        \/ f \in toAdd \/ Has(Made(f)) \/ FilesOf(f) \subseteq lost

\* The last event about a file tells what has become of it.
EventsMatch ==
    \A i \in DOMAIN events : \A p \in Paths : About(events[i], p) =>
        \/ p \in lost
        \/ \E j \in DOMAIN events : j >= i /\ events[j] = Telling(p, files[p])

\* A file the client knows is in a watched directory, which is why its removal
\* is going to be noticed, without a listing that could do without it.
GoneDue ==
    \A p \in Paths : Told(p) # None =>
        /\ Dir(p) \in watched
        /\ files[p] = None => Has(Gone(p)) \/ p \in lost

\* A directory has appeared, of which the monitor has not heard.
NewDir(f) == f \notin watched /\ Has(Made(f))

\* What the client knows of a file is owed to be right; of the directories in
\* F it is owed all files, from the listing of the root to the root's removal.
Owed(p, F) ==
    \/ Told(p) # None
    \/ Dir(p) \in F /\ pc \notin {"new", "list"} /\ ~RootGone

\* A file the client is to learn of is going to be looked at.
HereDue(F) ==
    \A p \in Paths : files[p] # None /\ Told(p) # files[p] /\ Owed(p, F) =>
        \/ p \in toOpen \/ Dir(p) \in toAdd \/ NewDir(Dir(p))
        \/ Has(Created(p)) \/ p \in lost

Due(F) == Lasts(queued) /\ WatchDue /\ EventsMatch /\ GoneDue /\ HereDue(F)

\* No event is taken off the queue.
LEMMA HasMore ==
    ASSUME \A i \in DOMAIN events : i \in DOMAIN events' /\ events'[i] = events[i]
    PROVE  \A e : Has(e) => Has(e)'
  BY DEF Has

\* A file is written or removed: the event, if there is a watch, tells it.
LEMMA TouchDue ==
    ASSUME NEW F, TypeInv, Due(F), NEW p \in Paths, NEW value \in Values \cup {None},
           Touch(p, value)
    PROVE  Due(F)'
<1>1. /\ files'[p] = value
      /\ \A q \in Paths : q # p => files'[q] = files[q]
      /\ UNCHANGED <<dirs, watch, monitor>>
      /\ value # None => Dir(p) \in dirs
  BY DEF Touch, TypeInv, TypeOK, TreeTypeOK, Trees
<1> DEFINE e == Telling(p, value)
           watchedDir == Dir(p) \in watched
<1>2. /\ e \in Events /\ {p} \in SUBSET Paths /\ watchedDir \in BOOLEAN
      /\ NotifyIf(watchedDir, e, {p}) /\ About(e, p)
      /\ \A q : About(e, q) => q = p
  BY EventKinds DEF Touch, Telling, About
<1>3. /\ lost \ {p} \subseteq lost'
      /\ \A i \in DOMAIN events :
             i \in DOMAIN events' /\ events'[i] = events[i]
      /\ \A i \in DOMAIN events' :
             i \in DOMAIN events \/ (events'[i] = e /\ watchedDir)
      /\ ~watchedDir => UNCHANGED queue
      /\ watchedDir => \/ /\ Len(events') \in DOMAIN events'
                          /\ events'[Len(events')] = e
                          /\ \A i \in DOMAIN events' : i <= Len(events')
                       \/ p \in lost'
  <2>1. TypeOK
    BY DEF TypeInv
  <2> DEFINE about == {p}
  <2>2. NotifyIf(watchedDir, e, about) /\ about \in SUBSET Paths
    BY <1>2
  <2> HIDE DEF e, watchedDir, about
  <2>3. /\ events' \in Seq(Events) /\ Len(events') <= QueueCap
        /\ lost' \in SUBSET Paths /\ lost \ about \subseteq lost'
        /\ \A i \in DOMAIN events :
               i \in DOMAIN events' /\ events'[i] = events[i]
        /\ \A i \in DOMAIN events' :
               i \in DOMAIN events \/ (events'[i] = e /\ watchedDir)
        /\ ~watchedDir => UNCHANGED queue
        /\ watchedDir =>
             \/ /\ Len(events') \in DOMAIN events'
                /\ events'[Len(events')] = e
                /\ \A i \in DOMAIN events' : i <= Len(events')
             \/ about \subseteq lost'
    BY <1>2, <2>1, <2>2, NotifyIfChanges
  <2> QED
    BY <2>3 DEF about
<1>4. \A q \in Paths : Told(q)' = Told(q)
  BY <1>1, ToldTells
<1>5. \A x : Has(x) => Has(x)'
  BY <1>3, HasMore
<1>6. watchedDir => Has(e)' \/ p \in lost'
  BY <1>3 DEF Has
<1>7. RootGone' = RootGone
  BY <1>1 DEF RootGone
<1>8. ~watchedDir => UNCHANGED <<events, lost>>
  BY <1>3
<1>9. WatchDue'
  <2> SUFFICES ASSUME NEW f \in dirs \ watched,
                      ~(pc \in {"new", "list"} \/ RootGone)
               PROVE  f \in toAdd \/ Has(Made(f))' \/ FilesOf(f) \subseteq lost'
    BY <1>1, <1>7 DEF WatchDue, FilesOf
  <2>1. f \in toAdd \/ Has(Made(f)) \/ FilesOf(f) \subseteq lost
    BY DEF Due, WatchDue
  <2>2. ASSUME FilesOf(f) \subseteq lost PROVE FilesOf(f) \subseteq lost'
    <3>1. CASE Dir(p) = f
      BY <1>8, <2>2, <3>1
    <3>2. CASE Dir(p) # f
      <4>1. p \notin FilesOf(f)
        BY <3>2 DEF FilesOf
      <4> QED
        BY <1>3, <2>2, <4>1
    <3> QED
      BY <3>1, <3>2
  <2> QED
    BY <1>5, <2>1, <2>2
<1>10. EventsMatch'
  <2> SUFFICES ASSUME NEW i \in DOMAIN events', NEW q \in Paths,
                      About(events'[i], q)
               PROVE  \/ q \in lost'
                      \/ \E j \in DOMAIN events' :
                             j >= i /\ events'[j] = Telling(q, files'[q])
    BY DEF EventsMatch, About, Created, Gone, Telling
  <2>1. CASE q = p
    <3>1. watchedDir
      BY <1>2, <1>3, <2>1 DEF TypeInv, Shape
    <3> QED
      BY <1>1, <1>3, <2>1, <3>1
  <2>2. CASE q # p
    <3>1. i \in DOMAIN events /\ About(events[i], q)
      BY <1>2, <1>3, <2>2
    <3>2. q \in lost \/ \E j \in DOMAIN events :
                            j >= i /\ events[j] = Telling(q, files[q])
      BY <3>1 DEF Due, EventsMatch
    <3> QED
      BY <1>1, <1>3, <2>2, <3>2
  <2> QED
    BY <2>1, <2>2
<1>11. GoneDue'
  <2> SUFFICES ASSUME NEW q \in Paths, Told(q) # None
               PROVE  /\ Dir(q) \in watched
                      /\ files'[q] = None => Has(Gone(q))' \/ q \in lost'
    BY <1>1, <1>4 DEF GoneDue, Dir, Gone
  <2>1. /\ Dir(q) \in watched
        /\ files[q] = None => Has(Gone(q)) \/ q \in lost
    BY DEF Due, GoneDue
  <2>2. CASE q = p
    BY <1>1, <1>6, <2>1, <2>2 DEF Telling
  <2>3. CASE q # p
    BY <1>1, <1>3, <1>5, <2>1, <2>3
  <2> QED
    BY <2>1, <2>2, <2>3
<1>12. HereDue(F)'
  <2> SUFFICES ASSUME NEW q \in Paths, files'[q] # None, Told(q) # files'[q],
                      Owed(q, F)
               PROVE  \/ q \in toOpen \/ Dir(q) \in toAdd \/ NewDir(Dir(q))'
                      \/ Has(Created(q))' \/ q \in lost'
    BY <1>1, <1>4, <1>7 DEF HereDue, NewDir, Owed, Dir, Made, Created
  <2>1. CASE q # p
    BY <1>1, <1>3, <1>5, <2>1 DEF Due, HereDue, NewDir
  <2>2. CASE q = p
    <3>1. CASE watchedDir
      BY <1>1, <1>6, <2>2, <3>1 DEF Telling
    <3>2. CASE ~watchedDir
      <4>1. /\ Dir(q) \in dirs \ watched
            /\ q \in FilesOf(Dir(q))
        BY <1>1, <2>2, <3>2 DEF FilesOf
      <4>2. pc \notin {"new", "list"} /\ ~RootGone
        BY <4>1 DEF Owed, Due, GoneDue
      <4>3. \/ Dir(q) \in toAdd \/ Has(Made(Dir(q))) \/ q \in lost
        BY <4>1, <4>2 DEF Due, WatchDue
      <4>4. Has(Made(Dir(q))) => NewDir(Dir(q))'
        <5>1. Dir(q) \notin watched'
          BY <1>1, <4>1
        <5>2. Has(Made(Dir(q))) => Has(Made(Dir(q)))'
          BY <1>5 DEF Made, Dir
        <5> QED
          BY <5>1, <5>2 DEF NewDir
      <4> QED
        BY <1>1, <1>8, <2>2, <3>2, <4>3, <4>4
    <3> QED
      BY <3>1, <3>2
  <2> QED
    BY <2>1, <2>2
<1> QED
  BY <1>1, <1>9, <1>10, <1>11, <1>12 DEF Due

\* A directory is made, which nothing is in yet.
LEMMA MakeDirDue ==
    ASSUME NEW F, TypeInv, Due(F), NEW f \in Features \ dirs, dirs' = dirs \cup {f},
           UNCHANGED <<files, watch, monitor, steady>>,
           NotifyIf(rootWatched, Made(f), FilesOf(f))
    PROVE  Due(F)'
<1>1. /\ Made(f) \in Events /\ FilesOf(f) \in SUBSET Paths
      /\ rootWatched \in BOOLEAN /\ f \notin watched
      /\ \A q : ~About(Made(f), q)
      /\ \A p \in FilesOf(f) : files[p] = None
  BY EventKinds DEF FilesOf, About, TypeInv, TypeOK, TreeTypeOK
<1>2. /\ lost \ FilesOf(f) \subseteq lost'
      /\ \A i \in DOMAIN events :
             i \in DOMAIN events' /\ events'[i] = events[i]
      /\ \A i \in DOMAIN events' :
             i \in DOMAIN events \/ events'[i] = Made(f)
      /\ rootWatched => Has(Made(f))' \/ FilesOf(f) \subseteq lost'
  <2>1. /\ lost \ FilesOf(f) \subseteq lost'
        /\ \A i \in DOMAIN events :
               i \in DOMAIN events' /\ events'[i] = events[i]
        /\ \A i \in DOMAIN events' :
               i \in DOMAIN events \/ (events'[i] = Made(f) /\ rootWatched)
        /\ rootWatched => \/ /\ Len(events') \in DOMAIN events'
                             /\ events'[Len(events')] = Made(f)
                             /\ \A i \in DOMAIN events' : i <= Len(events')
                          \/ FilesOf(f) \subseteq lost'
    <3> DEFINE e == Made(f)
               about == FilesOf(f)
    <3>1. /\ e \in Events /\ about \in SUBSET Paths /\ rootWatched \in BOOLEAN
          /\ NotifyIf(rootWatched, e, about)
      BY <1>1
    <3> HIDE DEF e, about
    <3>2. TypeOK
      BY DEF TypeInv
    <3>3. /\ events' \in Seq(Events) /\ Len(events') <= QueueCap
          /\ lost' \in SUBSET Paths /\ lost \ about \subseteq lost'
          /\ \A i \in DOMAIN events :
                 i \in DOMAIN events' /\ events'[i] = events[i]
          /\ \A i \in DOMAIN events' :
                 i \in DOMAIN events \/ (events'[i] = e /\ rootWatched)
          /\ ~rootWatched => UNCHANGED queue
          /\ rootWatched =>
               \/ /\ Len(events') \in DOMAIN events'
                  /\ events'[Len(events')] = e
                  /\ \A i \in DOMAIN events' : i <= Len(events')
               \/ about \subseteq lost'
      BY <3>1, <3>2, NotifyIfChanges
    <3> QED
      BY <3>3 DEF e, about
  <2>2. rootWatched => Has(Made(f))' \/ FilesOf(f) \subseteq lost'
    BY <2>1 DEF Has, Made
  <2> QED
    BY <2>1, <2>2
<1>3. \A x : Has(x) => Has(x)'
  BY <1>2, HasMore
<1>4. \A q \in Paths : Told(q)' = Told(q)
  BY ToldTells
<1>5. RootGone' = RootGone
  BY DEF RootGone
<1>6. \A p \in Paths : Dir(p) \in watched => p \notin FilesOf(f)
  BY <1>1 DEF FilesOf
<1>7. WatchDue'
  <2> SUFFICES ASSUME NEW g \in dirs' \ watched,
                      ~(pc \in {"new", "list"} \/ RootGone)
               PROVE  g \in toAdd \/ Has(Made(g))' \/ FilesOf(g) \subseteq lost'
    BY <1>5 DEF WatchDue, FilesOf, Made
  <2>1. CASE g = f
    BY <1>2, <2>1 DEF RootGone
  <2>2. CASE g # f
    <3>1. FilesOf(g) \cap FilesOf(f) = {}
      BY <2>2 DEF FilesOf
    <3> QED
      BY <1>2, <1>3, <2>2, <3>1 DEF Due, WatchDue
  <2> QED
    BY <2>1, <2>2
<1>8. EventsMatch'
  <2> SUFFICES ASSUME NEW i \in DOMAIN events', NEW q \in Paths,
                      About(events'[i], q)
               PROVE  \/ q \in lost'
                      \/ \E j \in DOMAIN events' :
                             j >= i /\ events'[j] = Telling(q, files[q])
    BY DEF EventsMatch, About, Created, Gone, Telling
  <2>1. i \in DOMAIN events /\ About(events[i], q)
    BY <1>1, <1>2
  <2>2. q \notin FilesOf(f)
    BY <1>6, <2>1 DEF TypeInv, Shape
  <2>3. q \in lost \/ \E j \in DOMAIN events :
                          j >= i /\ events[j] = Telling(q, files[q])
    BY <2>1 DEF Due, EventsMatch
  <2> QED
    BY <1>2, <2>2, <2>3
<1>9. GoneDue'
  BY <1>2, <1>3, <1>4, <1>6 DEF Due, GoneDue, Dir, Gone
<1>10. HereDue(F)'
  <2> SUFFICES ASSUME NEW q \in Paths, files[q] # None, Told(q) # files[q],
                      Owed(q, F)
               PROVE  \/ q \in toOpen \/ Dir(q) \in toAdd \/ NewDir(Dir(q))'
                      \/ Has(Created(q))' \/ q \in lost'
    BY <1>4, <1>5 DEF HereDue, NewDir, Owed, Dir, Made, Created
  <2>1. q \notin FilesOf(f)
    BY <1>1
  <2> QED
    BY <1>2, <1>3, <2>1 DEF Due, HereDue, NewDir
<1> QED
  BY <1>7, <1>8, <1>9, <1>10 DEF Due

\* The root is removed, when the client knows of nothing, and nothing more is
\* promised after that.
LEMMA RemoveRootDue ==
    ASSUME NEW F, TypeInv, Due(F), RemoveRoot, UNCHANGED <<monitor, steady>>
    PROVE  Due(F)'
<1> DEFINE e == [op |-> "rmroot"]
<1>1. e \in Events /\ \A q : ~About(e, q)
  BY EventKinds DEF About
<1>2. /\ NotifyIf(TRUE, e, {}) /\ rootWatched' = FALSE /\ pc # "new"
      /\ UNCHANGED <<disk, watched>>
  BY DEF RemoveRoot, NotifyIf, TypeInv, Shape
<1> HIDE DEF e
<1>3. /\ lost \subseteq lost'
      /\ \A i \in DOMAIN events :
             i \in DOMAIN events' /\ events'[i] = events[i]
      /\ \A i \in DOMAIN events' : i \in DOMAIN events \/ events'[i] = e
  BY <1>1, <1>2, NotifyIfChanges DEF TypeInv
<1>4. \A x : Has(x) => Has(x)'
  BY <1>3, HasMore
<1>5. \A q \in Paths : Told(q)' = Told(q)
  BY ToldTells
<1>6. RootGone'
  BY <1>2 DEF RootGone
<1>7. EventsMatch'
  <2> SUFFICES ASSUME NEW i \in DOMAIN events', NEW q \in Paths,
                      About(events'[i], q)
               PROVE  \/ q \in lost'
                      \/ \E j \in DOMAIN events' :
                             j >= i /\ events'[j] = Telling(q, files[q])
    BY <1>2 DEF EventsMatch, About, Created, Gone, Telling
  <2>1. i \in DOMAIN events /\ About(events[i], q)
    BY <1>1, <1>3
  <2> QED
    BY <1>3, <2>1 DEF Due, EventsMatch
<1>8. GoneDue'
  BY <1>2, <1>3, <1>4, <1>5 DEF Due, GoneDue, Dir, Gone
<1>9. \A q \in Paths : Told(q)' = None
  BY <1>5 DEF RemoveRoot, TypeInv, TypeOK, TreeTypeOK, Due, GoneDue
<1> QED
  BY <1>6, <1>7, <1>8, <1>9 DEF Due, WatchDue, HereDue, Owed

\* Steps that take no event, change no file and tell nothing new.
LEMMA LookDue ==
    ASSUME NEW F, TypeInv, Due(F), DiskUnchanged, UNCHANGED <<events, rootWatched>>,
           watched \subseteq watched', Lasts(queued'),
           \A p \in Paths : Told(p)' = Told(p),
           pc' \in {"new", "list"} \/ pc \notin {"new", "list"},
           \A f \in toAdd : f \in toAdd' \/ f \in watched',
           watched' \subseteq watched \cup toAdd',
           \A p \in Paths : files[p] # None /\ (p \in toOpen \/ Dir(p) \in toAdd) =>
               p \in toOpen' \/ Dir(p) \in toAdd' \/ Told(p) = files[p]
    PROVE  Due(F)'
<1>1. UNCHANGED <<dirs, files, lost, events>>
  BY DEF DiskUnchanged
<1>2. \A x : Has(x)' <=> Has(x)
  BY <1>1 DEF Has
<1>3. RootGone => RootGone' \/ pc' \in {"new", "list"}
  BY DEF RootGone
<1>4. WatchDue'
  <2> SUFFICES ASSUME NEW f \in dirs \ watched',
                      ~(pc' \in {"new", "list"} \/ RootGone')
               PROVE  f \in toAdd' \/ Has(Made(f))' \/ FilesOf(f) \subseteq lost
    BY <1>1 DEF WatchDue, FilesOf, Made
  <2> QED
    BY <1>2, <1>3 DEF Due, WatchDue
<1>5. EventsMatch'
  BY <1>1 DEF Due, EventsMatch, About, Created, Gone, Telling
<1>6. GoneDue'
  BY <1>1, <1>2 DEF Due, GoneDue, Dir, Gone
<1>7. HereDue(F)'
  <2> SUFFICES ASSUME NEW q \in Paths, files[q] # None, Told(q) # files[q],
                      Owed(q, F)'
               PROVE  \/ q \in toOpen' \/ Dir(q) \in toAdd' \/ NewDir(Dir(q))'
                      \/ Has(Created(q))' \/ q \in lost
    BY <1>1 DEF HereDue, NewDir, Dir, Made, Created
  <2>1. Owed(q, F)
    BY <1>3 DEF Owed, Dir
  <2> QED
    BY <1>2, <2>1 DEF Due, HereDue, NewDir
<1> QED
  BY <1>4, <1>5, <1>6, <1>7 DEF Due

\* A file is looked at: the client will have been told what is in it, if
\* anything is, or had been and its removal is to be noticed.
LEMMA ToldAfter ==
    ASSUME NEW F, TypeInv, Due(F), NEW p \in Paths, UNCHANGED view,
           AddHost(p) \/ RemoveHost(p)
    PROVE  /\ Lasts(queued')
           /\ AddHost(p) => \A q \in Paths :
                  Told(q)' = IF q = p /\ files[p] # None THEN files[p] ELSE Told(q)
           /\ RemoveHost(p) => \A q \in Paths :
                  Told(q)' = IF q = p /\ files[p] = None THEN None ELSE Told(q)
<1> DEFINE item == [path |-> p, value |-> files[p]]
<1>1. files[p] \in Values \cup {None} /\ queued \in Seq(Items \cup {Boot})
  BY DEF TypeInv, TypeOK, TreeTypeOK, Trees
<1>2. item \in Items /\ item # Boot /\ item.path = p /\ item.value = files[p]
  BY <1>1, ItemFields
<1> HIDE DEF item
<1>3. /\ Lasts(Append(queued, item))
      /\ \A q \in Paths : Tells(Append(queued, item), view, q) =
             IF q = p THEN files[p] ELSE Tells(queued, view, q)
  BY <1>1, <1>2, TellsAppend DEF Due
<1>4. CASE AddHost(p)
  BY <1>3, <1>4, ToldTells DEF AddHost, RemoveHost, Due, item
<1>5. CASE RemoveHost(p)
  BY <1>3, <1>5, ToldTells DEF AddHost, RemoveHost, Due, item
<1> QED
  BY <1>4, <1>5

\* An event is taken, and what it is about looked at.
LEMMA TakenKeeps ==
    ASSUME NEW F, TypeInv, Due(F), events # <<>>, events' = Tail(events),
           UNCHANGED <<files, lost>>
    PROVE  /\ EventsMatch'
           /\ \A x : x # Head(events) /\ Has(x) => Has(x)'
<1>1. /\ Head(events) = events[1]
      /\ \A i \in DOMAIN events' :
             /\ i \in Nat /\ i + 1 \in DOMAIN events
             /\ events'[i] = events[i + 1]
      /\ \A i \in DOMAIN events : i # 1 =>
             /\ i \in Nat /\ i - 1 \in DOMAIN events'
             /\ events'[i - 1] = events[i]
      /\ 1 \in DOMAIN events
  BY TailEvents
<1>2. ASSUME NEW x, x # Head(events), Has(x) PROVE Has(x)'
  <2>1. PICK i \in DOMAIN events : events[i] = x
    BY <1>2 DEF Has
  <2>2. i - 1 \in DOMAIN events' /\ events'[i - 1] = x
    BY <1>1, <1>2, <2>1
  <2> QED
    BY <2>2 DEF Has
<1>3. EventsMatch'
  <2> SUFFICES ASSUME NEW i \in DOMAIN events', NEW q \in Paths,
                      About(events'[i], q)
               PROVE  \/ q \in lost
                      \/ \E j \in DOMAIN events' :
                             j >= i /\ events'[j] = Telling(q, files[q])
    <3>1. files' = files /\ lost' = lost
      OBVIOUS
    <3> QED
      BY <3>1 DEF EventsMatch, About, Telling
  <2>1. i \in Nat /\ i + 1 \in DOMAIN events /\ About(events[i + 1], q)
    BY <1>1
  <2>2. CASE q \in lost
    BY <2>2
  <2>3. CASE q \notin lost
    <3>1. PICK j \in DOMAIN events :
              j >= i + 1 /\ events[j] = Telling(q, files[q])
      BY <2>1, <2>3 DEF Due, EventsMatch
    <3>2. j \in Nat
      BY DEF TypeInv, TypeOK, TreeTypeOK
    <3>3. j # 1
      BY <1>1, <2>1, <3>1, <3>2 DEF TypeInv, TypeOK, TreeTypeOK
    <3>4. j - 1 \in DOMAIN events' /\ j - 1 >= i /\ events'[j - 1] = events[j]
      BY <1>1, <2>1, <3>1, <3>2, <3>3
    <3> QED
      BY <3>1, <3>4
  <2> QED
    BY <2>2, <2>3
<1> QED
  BY <1>2, <1>3

\* An event about a file, and another of the same file that matches it.
LEMMA MatchLater ==
    ASSUME NEW F, TypeInv, Due(F), NEW p \in Paths, events # <<>>,
           About(Head(events), p), Head(events) # Telling(p, files[p])
    PROVE  p \in lost \/ Has(Telling(p, files[p]))
<1>1. Head(events) = events[1] /\ 1 \in DOMAIN events
  BY DEF TypeInv, TypeOK, TreeTypeOK
<1> QED
  BY <1>1 DEF Due, EventsMatch, Has

\* An event about a file is taken: the file is looked at, or a later event
\* tells what has become of it.
LEMMA FileEventDue ==
    ASSUME NEW F, TypeInv, Due(F), NEW p \in Paths,
           events # <<>>, events' = Tail(events), About(Head(events), p),
           UNCHANGED <<watch, toOpen, view, files, dirs, lost, pc, toAdd>>,
           Lasts(queued'),
           \/ /\ Head(events) = Created(p)
              /\ \A q \in Paths : Told(q)' =
                     IF q = p /\ files[p] # None THEN files[p] ELSE Told(q)
           \/ /\ Head(events) = Gone(p)
              /\ \A q \in Paths : Told(q)' =
                     IF q = p /\ files[p] = None THEN None ELSE Told(q)
    PROVE  Due(F)'
<1>0. /\ EventsMatch'
      /\ \A x : x # Head(events) /\ Has(x) => Has(x)'
  BY TakenKeeps
<1>1. /\ \A q : Created(q) = Head(events) \/ Gone(q) = Head(events) => q = p
      /\ \A g : Made(g) # Head(events)
      /\ Created(p) # Gone(p)
  BY EventKinds
<1>2. RootGone' = RootGone
  BY DEF RootGone
<1>3. WatchDue'
  <2> SUFFICES ASSUME NEW g \in dirs \ watched,
                      ~(pc \in {"new", "list"} \/ RootGone)
               PROVE  g \in toAdd \/ Has(Made(g))' \/ FilesOf(g) \subseteq lost
    BY <1>2 DEF WatchDue, FilesOf, Made
  <2> QED
    BY <1>0, <1>1 DEF Due, WatchDue
<1>4. /\ Head(events) = Created(p) /\ files[p] = None =>
             p \in lost \/ Has(Gone(p))'
      /\ Head(events) = Gone(p) /\ files[p] # None =>
             p \in lost \/ Has(Created(p))'
  <2>1. CASE Head(events) = Created(p) /\ files[p] = None
    <3>1. Telling(p, files[p]) = Gone(p)
      BY <2>1 DEF Telling
    <3>2. p \in lost \/ Has(Gone(p))
      BY <1>1, <2>1, <3>1, MatchLater
    <3> QED
      BY <1>0, <1>1, <2>1, <3>2
  <2>2. CASE Head(events) = Gone(p) /\ files[p] # None
    <3>1. Telling(p, files[p]) = Created(p)
      BY <2>2 DEF Telling
    <3>2. p \in lost \/ Has(Created(p))
      BY <1>1, <2>2, <3>1, MatchLater
    <3> QED
      BY <1>0, <1>1, <2>2, <3>2
  <2> QED
    BY <2>1, <2>2
<1>5. Dir(p) \in watched
  <2>1. Head(events) = events[1] /\ 1 \in DOMAIN events
    BY TailEvents
  <2> QED
    BY <2>1 DEF TypeInv, Shape
<1>6. GoneDue'
  <2> SUFFICES ASSUME NEW q \in Paths, Told(q)' # None
               PROVE  /\ Dir(q) \in watched
                      /\ files[q] = None => Has(Gone(q))' \/ q \in lost
    BY DEF GoneDue, Dir, Gone
  <2>1. CASE q # p
    BY <1>0, <1>1, <2>1 DEF Due, GoneDue
  <2>2. CASE q = p
    BY <1>4, <1>5, <2>2
  <2> QED
    BY <2>1, <2>2
<1>7. HereDue(F)'
  <2> SUFFICES ASSUME NEW q \in Paths, files[q] # None, Told(q)' # files[q],
                      Owed(q, F)'
               PROVE  \/ q \in toOpen \/ Dir(q) \in toAdd \/ NewDir(Dir(q))'
                      \/ Has(Created(q))' \/ q \in lost
    BY DEF HereDue, NewDir, Dir, Made, Created
  <2>1. CASE q # p
    <3>1. Owed(q, F)
      BY <1>2, <2>1 DEF Owed, Dir
    <3> QED
      BY <1>0, <1>1, <2>1, <3>1 DEF Due, HereDue, NewDir
  <2>2. CASE q = p
    BY <1>4, <2>2
  <2> QED
    BY <2>1, <2>2
<1> QED
  BY <1>0, <1>3, <1>6, <1>7 DEF Due

\* An event is handled: what it was to make known is looked at, or known.
LEMMA HandleDue ==
    ASSUME NEW F, TypeInv, Due(F), Handle \/ Drop, DiskUnchanged
    PROVE  Due(F)'
<1>1. /\ events # <<>> /\ events' = Tail(events)
      /\ UNCHANGED <<watch, toOpen, view, files, dirs, lost>>
      /\ Handle => pc = "loop"
  BY TakeKinds DEF Handle, Drop, HandleMkdir, HandleCreate, HandleRemove,
     HandleRmroot, DiskUnchanged
<1>2. /\ EventsMatch'
      /\ \A x : x # Head(events) /\ Has(x) => Has(x)'
  BY <1>1, TakenKeeps
<1>3. Handle => toAdd = {} /\ toOpen = {}
  BY <1>1 DEF TypeInv, Shape
<1>4. RootGone => RootGone' \/ pc' = "new"
  BY <1>1 DEF RootGone
<1>5. CASE HandleRmroot
  <2>1. /\ pc = "loop" /\ pc' = "closed" /\ Head(events).op = "rmroot"
        /\ UNCHANGED <<queued, toAdd>>
    BY <1>5 DEF HandleRmroot, Take
  <2>2. /\ \A p : Gone(p) # Head(events) /\ Created(p) # Head(events)
        /\ \A f : Made(f) # Head(events)
    BY <2>1 DEF Gone, Created, Made
  <2>3. (\A q \in Paths : Told(q)' = Told(q)) /\ RootGone' = RootGone
    BY <1>1, <2>1, ToldTells DEF RootGone
  <2>4. Lasts(queued')
    BY <2>1 DEF Due
  <2> HIDE DEF watch, monitor
  <2>5. /\ UNCHANGED <<watched, toOpen, toAdd, files, dirs, lost>>
        /\ pc \notin {"new", "list"}
    BY <1>1, <2>1 DEF watch
  <2>6. WatchDue'
    <3> SUFFICES ASSUME NEW g \in dirs \ watched, ~RootGone
                 PROVE  g \in toAdd \/ Has(Made(g))' \/ FilesOf(g) \subseteq lost
      BY <2>3, <2>5 DEF WatchDue, FilesOf, Made
    <3> QED
      BY <1>2, <2>2, <2>5 DEF Due, WatchDue
  <2>7. GoneDue'
    BY <1>2, <2>2, <2>3, <2>5 DEF Due, GoneDue, Dir, Gone
  <2>8. HereDue(F)'
    <3> SUFFICES ASSUME NEW q \in Paths, files[q] # None, Told(q) # files[q],
                        Owed(q, F)
                 PROVE  \/ q \in toOpen \/ Dir(q) \in toAdd \/ NewDir(Dir(q))'
                        \/ Has(Created(q))' \/ q \in lost
      BY <2>3, <2>5 DEF HereDue, NewDir, Owed, Dir, Made, Created
    <3> QED
      BY <1>2, <2>2, <2>5 DEF Due, HereDue, NewDir
  <2> QED
    BY <1>2, <2>4, <2>6, <2>7, <2>8 DEF Due
<1>6. CASE HandleMkdir
  <2>1. PICK f \in Features : Head(events) = Made(f)
    BY <1>6, TakeKinds DEF HandleMkdir
  <2>2. toAdd' = {f} /\ pc' = "add" /\ UNCHANGED queued
    BY <1>6, <2>1 DEF HandleMkdir, Made
  <2>3. /\ \A g : Made(g) = Head(events) => g = f
        /\ \A p : Gone(p) # Head(events) /\ Created(p) # Head(events)
    BY <2>1, EventKinds
  <2>4. \A q \in Paths : Told(q)' = Told(q)
    BY <1>1, <2>2, ToldTells
  <2>5. pc \notin {"new", "list"} /\ RootGone' = RootGone
    BY <1>1, <1>6, <2>2 DEF Handle, RootGone
  <2>6. WatchDue'
    <3> SUFFICES ASSUME NEW g \in dirs \ watched, ~RootGone
                 PROVE  g \in toAdd' \/ Has(Made(g))' \/ FilesOf(g) \subseteq lost
      BY <1>1, <2>5 DEF WatchDue, FilesOf, Made
    <3> QED
      BY <1>2, <1>3, <1>6, <2>2, <2>3, <2>5 DEF Due, WatchDue, Handle
  <2>7. GoneDue'
    BY <1>1, <1>2, <2>3, <2>4 DEF Due, GoneDue, Dir, Gone
  <2>8. HereDue(F)'
    <3> SUFFICES ASSUME NEW q \in Paths, files[q] # None, Told(q) # files[q],
                        Owed(q, F)
                 PROVE  \/ Dir(q) \in toAdd' \/ NewDir(Dir(q))'
                        \/ Has(Created(q))' \/ q \in lost
      BY <1>1, <2>2, <2>4, <2>5 DEF HereDue, NewDir, Owed, Dir, Made, Created
    <3>1. /\ UNCHANGED watched /\ toAdd = {} /\ toOpen = {}
          /\ \A g : Has(Made(g)) => g = f \/ Has(Made(g))'
          /\ \A p : Has(Created(p)) => Has(Created(p))'
      BY <1>1, <1>2, <1>3, <1>6, <2>3 DEF Handle
    <3> QED
      BY <2>2, <3>1 DEF Due, HereDue, NewDir
  <2> QED
    BY <1>2, <2>2, <2>6, <2>7, <2>8 DEF Due
<1>7. CASE HandleCreate
  <2>1. PICK p \in Paths : Head(events) = Created(p)
    BY <1>7, TakeKinds DEF HandleCreate
  <2>2. /\ AddHost(p) /\ UNCHANGED <<pc, toAdd, view>>
    BY <1>7, <2>1 DEF HandleCreate, Created
  <2> QED
    BY <1>1, <2>1, <2>2, ToldAfter, FileEventDue DEF About
<1>8. CASE HandleRemove
  <2>1. PICK p \in Paths : Head(events) = Gone(p)
    BY <1>8, TakeKinds DEF HandleRemove
  <2>2. /\ RemoveHost(p) /\ UNCHANGED <<pc, toAdd, view>>
    BY <1>8, <2>1 DEF HandleRemove, Gone
  <2> QED
    BY <1>1, <2>1, <2>2, ToldAfter, FileEventDue DEF About
<1>9. CASE Drop
  <2>1. PICK p \in Paths : Head(events) = Created(p) /\ files[p] = None
    <3>1. Head(events) \in Events
      BY <1>1 DEF TypeInv, TypeOK, TreeTypeOK
    <3>2. PICK p \in Paths : Head(events) = Created(p)
      BY <1>9, <3>1 DEF Drop, Events, Created
    <3> QED
      BY <1>9, <3>2 DEF Drop, Created
  <2>2. \A q \in Paths : Told(q)' = Told(q)
    BY <1>9, ToldTells DEF Drop
  <2>3. UNCHANGED <<pc, toAdd>> /\ Lasts(queued')
    BY <1>9 DEF Drop, Due
  <2> QED
    BY <1>1, <2>1, <2>2, <2>3, FileEventDue DEF About
<1> QED
  BY <1>5, <1>6, <1>7, <1>8, <1>9 DEF Handle

\* Nothing is told, and what was to be looked at still is, or is watched.
LEMMA LookSameDue ==
    ASSUME NEW F, TypeInv, Due(F), DiskUnchanged,
           UNCHANGED <<events, queued, view, rootWatched>>,
           watched \subseteq watched',
           pc' \in {"new", "list"} \/ pc \notin {"new", "list"},
           \A f \in toAdd : f \in toAdd' \/ f \in watched',
           watched' \subseteq watched \cup toAdd',
           \A p \in Paths : files[p] # None /\ (p \in toOpen \/ Dir(p) \in toAdd) =>
               p \in toOpen' \/ Dir(p) \in toAdd'
    PROVE  Due(F)'
<1>1. \A p \in Paths : Told(p)' = Told(p)
  BY ToldTells
<1>2. Lasts(queued')
  BY DEF Due
<1> QED
  BY <1>1, <1>2, LookDue

\* The steps that watch, list and open, of any monitor.
LEMMA LookingDue ==
    ASSUME NEW F, TypeInv, Due(F), Looking, UNCHANGED events, DiskUnchanged
    PROVE  Due(F)'
<1>1. CASE WatchRoot
  <2>1. \A p \in Paths : Told(p)' = Told(p)
    BY <1>1, ToldTells DEF WatchRoot
  <2>2. /\ pc' = "list"
        /\ UNCHANGED <<events, files, lost, watched, queued, dirs, toOpen, toAdd>>
    BY <1>1 DEF WatchRoot, DiskUnchanged
  <2> QED
    BY <2>1, <2>2 DEF Due, WatchDue, EventsMatch, GoneDue, HereDue, NewDir, Owed, Has,
       About, Telling, Created, Gone, Made, Dir
<1>2. CASE ReadRoot
  <2>1. \A p \in Paths : Told(p)' = Told(p)
    BY <1>2, ToldTells DEF ReadRoot
  <2>2. /\ toAdd' = dirs
        /\ UNCHANGED <<events, files, lost, watched, queued, dirs>>
    BY <1>2 DEF ReadRoot, DiskUnchanged
  <2>3. \A p \in Paths : files[p] # None => Dir(p) \in dirs
    BY DEF TypeInv, TypeOK, TreeTypeOK
  <2> QED
    BY <2>1, <2>2, <2>3 DEF Due, WatchDue, EventsMatch, GoneDue, HereDue,
       NewDir, Has, About, Telling, Created, Gone, Dir
<1>3. ASSUME NEW f \in Features, AddFeature(f) PROVE Due(F)'
  BY <1>3, LookSameDue DEF AddFeature
<1>4. ASSUME NEW f \in Features, ReadDir(f) PROVE Due(F)'
  <2>1. /\ pc = "read" /\ pc' = "open" /\ f \in watched
        /\ toAdd' = toAdd \ {f} /\ toOpen' = Listed(f)
        /\ UNCHANGED <<watch, queued, view>>
    BY <1>4 DEF ReadDir
  <2>2. toOpen = {}
    BY <2>1 DEF TypeInv, Shape
  <2>3. \A p \in Paths : files[p] # None /\ Dir(p) \in toAdd =>
            p \in toOpen' \/ Dir(p) \in toAdd'
    BY <2>1 DEF Listed, FilesOf
  <2> QED
    BY <2>1, <2>2, <2>3, LookSameDue
<1>5. ASSUME NEW p \in Paths, Open(p) PROVE Due(F)'
  <2>1. /\ pc = "open" /\ pc' = "open" /\ AddHost(p)
        /\ toOpen' = toOpen \ {p} /\ UNCHANGED <<watch, toAdd, view>>
    BY <1>5 DEF Open
  <2>2. /\ Lasts(queued')
        /\ \A q \in Paths : Told(q)' =
               IF q = p /\ files[p] # None THEN files[p] ELSE Told(q)
    BY <2>1, ToldAfter
  <2>3. /\ UNCHANGED <<dirs, files, lost, events>>
        /\ (\A x : Has(x)' <=> Has(x)) /\ RootGone' = RootGone
    BY <2>1 DEF DiskUnchanged, Has, RootGone
  <2>4. WatchDue'
    <3> SUFFICES ASSUME NEW f \in dirs \ watched, ~RootGone
                 PROVE  f \in toAdd \/ Has(Made(f))' \/ FilesOf(f) \subseteq lost
      BY <2>1, <2>3 DEF WatchDue, FilesOf, Made
    <3> QED
      BY <2>1, <2>3 DEF Due, WatchDue
  <2>5. EventsMatch'
    BY <2>3 DEF Due, EventsMatch, About, Created, Gone, Telling
  <2>6. GoneDue'
    <3> SUFFICES ASSUME NEW q \in Paths, Told(q)' # None
                 PROVE  /\ Dir(q) \in watched
                        /\ files[q] = None => Has(Gone(q)) \/ q \in lost
      BY <2>1, <2>3 DEF GoneDue, Dir, Gone
    <3>1. CASE q = p /\ files[p] # None
      <4>1. p \in toOpen
        BY <1>5 DEF Open
      <4> QED
        BY <3>1, <4>1 DEF TypeInv, Shape
    <3>2. CASE ~(q = p /\ files[p] # None)
      BY <2>2, <3>2 DEF Due, GoneDue
    <3> QED
      BY <3>1, <3>2
  <2>7. HereDue(F)'
    <3> SUFFICES ASSUME NEW q \in Paths, files[q] # None,
                        Told(q)' # files[q], Owed(q, F)'
                 PROVE  \/ q \in toOpen' \/ Dir(q) \in toAdd
                        \/ NewDir(Dir(q)) \/ Has(Created(q)) \/ q \in lost
      BY <2>1, <2>3 DEF HereDue, NewDir, Dir, Made, Created
    <3>1. q # p /\ Told(q)' = Told(q)
      BY <2>2
    <3>2. Owed(q, F)
      BY <2>1, <2>3, <3>1 DEF Owed, Dir
    <3> QED
      BY <2>1, <3>1, <3>2 DEF Due, HereDue, NewDir
  <2> QED
    BY <2>2, <2>4, <2>5, <2>6, <2>7 DEF Due
<1>6. CASE EndOpen
  BY <1>6, LookSameDue DEF EndOpen
<1> QED
  BY <1>1, <1>2, <1>3, <1>4, <1>5, <1>6 DEF Looking

\* No step of the state loop, whoever watches.
LEMMA WriteDue ==
    ASSUME NEW F, TypeInv, Due(F), Writing
    PROVE  Due(F)'
<1>1. CASE UNCHANGED <<disk, watch, queue, monitor, steady>>
  BY <1>1, ToldTells DEF Due, WatchDue, EventsMatch, GoneDue, HereDue, NewDir,
     Owed, Has, RootGone, About, Telling, Created, Gone, Made, Dir
<1> QED
  BY <1>1, WriteKinds, TouchDue, MakeDirDue, RemoveRootDue

\* A monitor of a tree is told nothing yet, and owed nothing.
LEMMA DueInit ==
    ASSUME NEW F, Init
    PROVE  Due(F)
BY DEF Init, TreeInit, Due, Lasts, On, WatchDue, EventsMatch, GoneDue,
   HereDue, NewDir, Owed, Told

\* Where the client is behind the tree, an event or a look at the directory or
\* file is still to come, or the event was discarded.
THEOREM DueHolds == Spec => []Due(Features)
<1> DEFINE F == Features
<1>1. Init => Due(F)
  BY DueInit
<1>2. TypeInv /\ TypeInv' /\ Due(F) /\ [Next]_vars => Due(F)'
  <2> SUFFICES ASSUME TypeInv, TypeInv', Due(F), [Next]_vars PROVE Due(F)'
    OBVIOUS
  <2> HIDE DEF F
  <2>1. CASE Writing
    BY <2>1, WriteDue
  <2>2. CASE Adding /\ DiskUnchanged
    <3>1. CASE Looking
      BY <2>2, <3>1, LookingDue DEF Adding
    <3>2. CASE EndAdd
      <4>1. /\ pc = "add" /\ pc' = "loop" /\ UNCHANGED <<watch, toAdd, toOpen, view, events>>
            /\ UNCHANGED queued \/ queued' = Append(queued, Boot)
        BY <2>2, <3>2 DEF EndAdd, Indicated, Adding
      <4>2. queued \in Seq(Items \cup {Boot}) /\ Boot \in Items \cup {Boot}
        BY DEF TypeInv, TypeOK
      <4>3. Lasts(queued') /\ \A p \in Paths : Told(p)' = Told(p)
        <5>1. CASE UNCHANGED queued
          BY <4>1, <5>1, ToldTells DEF Due
        <5>2. CASE queued' = Append(queued, Boot)
          <6>1. /\ Lasts(Append(queued, Boot))
                /\ \A p \in Paths : Tells(Append(queued, Boot), view, p) =
                       Tells(queued, view, p)
            BY <4>2, TellsAppend DEF Due
          <6> QED
            BY <4>1, <5>2, <6>1, ToldTells
        <5> QED
          BY <4>1, <5>1, <5>2
      <4> QED
        BY <2>2, <4>1, <4>3, LookDue
    <3> QED
      BY <2>2, <3>1, <3>2 DEF Adding
  <2>3. CASE (EndBoot \/ Deliver) /\ DiskUnchanged
    <3>1. /\ pc = "loop" /\ UNCHANGED <<watch, events, pc, toAdd, toOpen>>
          /\ queued # <<>> /\ queued' = Tail(queued)
          /\ view' = IF Head(queued) = Boot THEN view
                     ELSE [view EXCEPT ![Head(queued).path] = Head(queued).value]
      BY <2>3 DEF EndBoot, Deliver, Sending
    <3>2. queued \in Seq(Items \cup {Boot}) /\ view \in Trees
      BY DEF TypeInv, TypeOK
    <3>3. /\ Lasts(queued')
          /\ \A p \in Paths : Told(p)' = Told(p)
      BY <3>1, <3>2, TellsTail, ToldTells DEF Due
    <3> QED
      BY <2>3, <3>1, <3>3, LookDue
  <2>4. CASE (Handle \/ Drop) /\ DiskUnchanged
    BY <2>4, HandleDue
  <2>5. CASE (Close \/ Stop) /\ DiskUnchanged
    BY <2>5, LookSameDue DEF Close, Stop, Selects
  <2>6. CASE UNCHANGED vars
    BY <2>6, LookSameDue DEF DiskUnchanged
  <2> QED
    BY <2>1, <2>2, <2>3, <2>4, <2>5, <2>6 DEF Next, Watching
<1> QED
  BY <1>1, <1>2, TypeInvHolds, PTL DEF Spec

\* No change of the tree is missed by the client of a FeatureMonitor.
THEOREM ChangeDueHolds == Spec => []ChangeDue
<1>1. TypeInv /\ Due(Features) => ChangeDue
  <2> SUFFICES ASSUME TypeInv, Due(Features), NEW p \in Paths, Told(p) # files[p],
                      pc \notin {"new", "list", "closed"}, ~RootGone
               PROVE  \/ p \in toOpen \/ Dir(p) \in toAdd
                      \/ Has(Made(Dir(p)))
                      \/ Has(Telling(p, files[p])) \/ p \in lost
    BY DEF ChangeDue, Has, Pending, Telling, Made, Created, Gone
  <2>1. Owed(p, Features)
    BY DEF Owed, Paths, Dir
  <2> QED
    BY <2>1 DEF Due, GoneDue, HereDue, NewDir, Telling
<1> QED
  BY <1>1, TypeInvHolds, DueHolds, PTL
----------------------------------------------------------------------------
(* The end of boot comes after what existed *)

\* The client knows a file, or will before what is at that place in the queue.
Before(p, k) == view[p] = files[p] \/ \E i \in On(queued, p) : i < k

\* Of a file that stays as it was, nothing else is told, and it is told before
\* the end of boot.
SteadyTold(p) ==
    /\ view[p] \in {None, files[p]}
    /\ \A i \in On(queued, p) : queued[i].value = files[p]
    /\ \A k \in DOMAIN queued : queued[k] = Boot => Before(p, k)
    /\ boot = "closed" => view[p] = files[p]
    /\ boot = "listing" /\ pc \in {"add", "read", "open"} =>
           \/ files[p] = None \/ Dir(p) \in toAdd \/ p \in toOpen
           \/ On(queued, p) # {}

Told1st ==
    /\ pc \in {"new", "list"} => boot = "listing"
    /\ \A p \in steady : SteadyTold(p)

\* A feature is queued, or the end of boot when all files are.
LEMMA SteadyAppend ==
    ASSUME TypeInv, Told1st, NEW item \in Items \cup {Boot},
           queued' = Append(queued, item), UNCHANGED <<view, files, steady>>,
           item # Boot => item.value = files[item.path],
           item = Boot =>
               \A p \in steady : view[p] = files[p] \/ On(queued, p) # {},
           boot' # "closed" \/ UNCHANGED boot,
           boot' = "listing" => UNCHANGED boot /\ item # Boot,
           boot' = "listing" /\ pc' \in {"add", "read", "open"} =>
               /\ pc \in {"add", "read", "open"}
               /\ \A p \in steady : files[p] # None /\ (p \in toOpen \/ Dir(p) \in toAdd) =>
                      \/ Dir(p) \in toAdd' \/ p \in toOpen'
                      \/ item.path = p,
           pc' \notin {"new", "list"}
    PROVE  Told1st'
<1> DEFINE n == Len(queued) + 1
<1>1. /\ n \in Nat /\ DOMAIN queued' = DOMAIN queued \cup {n}
      /\ n \notin DOMAIN queued /\ queued'[n] = item
      /\ \A i \in DOMAIN queued : i \in Nat /\ i < n /\ queued'[i] = queued[i]
  BY DEF TypeInv, TypeOK
<1> HIDE DEF n
<1>2. SUFFICES ASSUME NEW p \in steady PROVE SteadyTold(p)'
  BY DEF Told1st
<1>3. SteadyTold(p)
  BY DEF Told1st
<1>4. /\ On(queued, p) \subseteq On(queued', p)
      /\ \A i \in On(queued', p) :
             \/ i \in On(queued, p) /\ queued'[i] = queued[i]
             \/ i = n /\ item # Boot /\ item.path = p
      /\ item # Boot /\ item.path = p => n \in On(queued', p)
  BY <1>1 DEF On
<1>5. \A i \in On(queued', p) : queued'[i].value = files[p]
  BY <1>1, <1>3, <1>4 DEF SteadyTold
<1>6. \A k \in DOMAIN queued' : queued'[k] = Boot => Before(p, k)'
  <2> SUFFICES ASSUME NEW k \in DOMAIN queued', queued'[k] = Boot
               PROVE  view[p] = files[p] \/ \E i \in On(queued', p) : i < k
    BY DEF Before
  <2>1. CASE k \in DOMAIN queued
    BY <1>1, <1>3, <1>4, <2>1 DEF SteadyTold, Before
  <2>2. CASE k = n
    <3>1. view[p] = files[p] \/ On(queued, p) # {}
      BY <1>1, <2>2
    <3>2. \A i \in On(queued, p) : i < n
      BY <1>1 DEF On
    <3> QED
      BY <1>4, <2>2, <3>1, <3>2
  <2> QED
    BY <1>1, <2>1, <2>2
<1>7. boot' = "listing" /\ pc' \in {"add", "read", "open"} =>
          \/ files[p] = None \/ Dir(p) \in toAdd' \/ p \in toOpen'
          \/ On(queued', p) # {}
  BY <1>3, <1>4 DEF SteadyTold
<1> QED
  BY <1>3, <1>5, <1>6, <1>7 DEF SteadyTold, Dir

\* Nothing is queued, and nothing received.
LEMMA SteadySame ==
    ASSUME TypeInv, Told1st, UNCHANGED <<queued, view, boot>>,
           \A p \in steady' : p \in steady /\ files'[p] = files[p],
           pc' \in {"new", "list"} => pc \in {"new", "list"},
           boot = "listing" /\ pc' \in {"add", "read", "open"} =>
               /\ pc \in {"add", "read", "open"}
               /\ \A p \in steady' :
                      files[p] # None /\ (p \in toOpen \/ Dir(p) \in toAdd) =>
                          Dir(p) \in toAdd' \/ p \in toOpen'
    PROVE  Told1st'
<1> SUFFICES ASSUME NEW p \in steady' PROVE SteadyTold(p)'
  BY DEF Told1st
<1>1. SteadyTold(p) /\ files'[p] = files[p]
  BY DEF Told1st
<1>2. \A k : Before(p, k)' <=> Before(p, k)
  BY <1>1 DEF Before
<1> QED
  BY <1>1, <1>2 DEF SteadyTold, Dir

\* What is first in the queue is received.
LEMMA SteadyTail ==
    ASSUME TypeInv, Told1st, EndBoot \/ Deliver, UNCHANGED <<files, steady>>
    PROVE  Told1st'
<1>1. /\ pc = "loop" /\ pc' = "loop" /\ queued # <<>> /\ queued' = Tail(queued)
      /\ queued \in Seq(Items \cup {Boot}) /\ view \in Trees
      /\ view' = IF Head(queued) = Boot THEN view
                 ELSE [view EXCEPT ![Head(queued).path] = Head(queued).value]
      /\ boot' = IF Head(queued) = Boot THEN "closed" ELSE boot
  BY DEF EndBoot, Deliver, Sending, TypeInv, TypeOK
<1>2. /\ Head(queued) = queued[1] /\ 1 \in DOMAIN queued
      /\ Head(queued) \in Items \cup {Boot}
      /\ \A i \in DOMAIN queued : i \in Nat /\ i >= 1
      /\ \A i \in DOMAIN queued' :
             i \in Nat /\ i + 1 \in DOMAIN queued /\ queued'[i] = queued[i + 1]
      /\ \A i \in DOMAIN queued : i # 1 =>
             i - 1 \in DOMAIN queued' /\ queued'[i - 1] = queued[i]
  BY <1>1
<1>3. SUFFICES ASSUME NEW p \in steady PROVE SteadyTold(p)'
  BY <1>1 DEF Told1st
<1>4. SteadyTold(p) /\ p \in Paths
  BY DEF Told1st, TypeInv, TypeOK
<1>5. view'[p] = IF 1 \in On(queued, p) THEN files[p] ELSE view[p]
  <2>1. 1 \in On(queued, p) <=> Head(queued) # Boot /\ Head(queued).path = p
    BY <1>2 DEF On
  <2>2. 1 \in On(queued, p) => Head(queued).value = files[p]
    BY <1>2, <1>4 DEF SteadyTold
  <2>3. Head(queued) # Boot => Head(queued).path \in Paths
    BY <1>2, ItemFields
  <2> QED
    BY <1>1, <1>4, <2>1, <2>2, <2>3 DEF Trees
<1>6. /\ \A i \in On(queued', p) : i + 1 \in On(queued, p) /\ queued'[i] = queued[i + 1]
      /\ \A i \in On(queued, p) : i # 1 => i - 1 \in On(queued', p)
  BY <1>2 DEF On
<1>7. \A i \in On(queued', p) : queued'[i].value = files[p]
  BY <1>4, <1>6 DEF SteadyTold
<1>8. \A k \in DOMAIN queued' : queued'[k] = Boot => Before(p, k)'
  <2> SUFFICES ASSUME NEW k \in DOMAIN queued', queued'[k] = Boot
               PROVE  view'[p] = files[p] \/ \E i \in On(queued', p) : i < k
    BY DEF Before
  <2>1. view[p] = files[p] \/ \E i \in On(queued, p) : i < k + 1
    BY <1>2, <1>4 DEF SteadyTold, Before
  <2>2. CASE view[p] = files[p] \/ 1 \in On(queued, p)
    BY <1>5, <2>2
  <2>3. ASSUME NEW i \in On(queued, p), i < k + 1, i # 1
        PROVE  \E j \in On(queued', p) : j < k
    <3>1. i - 1 \in On(queued', p) /\ i \in Nat /\ k \in Nat
      BY <1>2, <1>6, <2>3 DEF On
    <3> QED
      BY <2>3, <3>1
  <2> QED
    BY <2>1, <2>2, <2>3
<1>9. boot' = "closed" => view'[p] = files[p]
  <2>1. CASE Head(queued) = Boot
    <3>1. view[p] = files[p] \/ \E i \in On(queued, p) : i < 1
      BY <1>2, <1>4, <2>1 DEF SteadyTold, Before
    <3>2. \A i \in On(queued, p) : i \in Nat /\ i >= 1
      BY <1>2 DEF On
    <3> QED
      BY <1>5, <3>1, <3>2
  <2>2. CASE Head(queued) # Boot
    BY <1>1, <1>4, <1>5, <2>2 DEF SteadyTold
  <2> QED
    BY <2>1, <2>2
<1> QED
  BY <1>1, <1>4, <1>5, <1>7, <1>8, <1>9 DEF SteadyTold, Dir

\* The loop starts when the end of boot has been queued.
LEMMA BootFirst == Spec => [](boot = "listing" => pc \notin {"loop", "closed"})
<1>1. Init => (boot = "listing" => pc \notin {"loop", "closed"})
  BY DEF Init
<1>2. (boot = "listing" => pc \notin {"loop", "closed"}) /\ [Next]_vars =>
          (boot = "listing" => pc \notin {"loop", "closed"})'
  BY DEF Next, Writing, Watching, Adding, Looking, WatchRoot, ReadRoot,
     AddFeature, ReadDir, Open, EndOpen, EndAdd, Indicated, EndBoot, Deliver,
     Sending, Handle, Take, HandleMkdir, HandleCreate, HandleRemove,
     HandleRmroot, Drop, Close, Stop, Selects
<1> QED
  BY <1>1, <1>2, PTL DEF Spec

\* Of a file that stays as it was since before the monitor, the client is told
\* that and nothing else, before the end of boot.
THEOREM Told1stHolds == Spec => []Told1st
<1>1. Init => Told1st
  BY DEF Init, Told1st, SteadyTold, On
<1>2. /\ TypeInv /\ Told1st /\ [Next]_vars
      /\ boot = "listing" => pc \notin {"loop", "closed"}
      => Told1st'
  <2> SUFFICES ASSUME TypeInv, Told1st, [Next]_vars,
                      boot = "listing" => pc \notin {"loop", "closed"}
               PROVE  Told1st'
    OBVIOUS
  <2>1. CASE Writing
    <3>1. /\ UNCHANGED monitor
          /\ steady' = steady \ {p \in Paths : files'[p] # files[p] /\ pc # "new"}
      BY <2>1 DEF Writing
    <3>2. CASE pc # "new"
      <4>1. \A p \in steady' : p \in steady /\ files'[p] = files[p]
        BY <3>1, <3>2 DEF TypeInv, TypeOK
      <4> QED
        BY <3>1, <4>1, SteadySame
    <3>3. CASE pc = "new"
      <4>1. \A p \in Paths : view[p] = None /\ On(queued, p) = {}
        BY <3>3 DEF TypeInv, Shape, On
      <4>2. steady' \subseteq Paths /\ DOMAIN queued = {} /\ boot = "listing"
        BY <3>1, <3>3 DEF TypeInv, TypeOK, Shape, Told1st
      <4> QED
        BY <3>1, <3>3, <4>1, <4>2 DEF Told1st, SteadyTold
    <3> QED
      BY <3>2, <3>3
  <2>2. ASSUME DiskUnchanged PROVE UNCHANGED <<files, steady>>
    BY <2>2 DEF DiskUnchanged
  <2>3. ASSUME DiskUnchanged, NEW p \in Paths, AddHost(p) \/ RemoveHost(p),
               UNCHANGED <<view, boot, toAdd, pc>>, pc \notin {"new", "list"},
               toOpen' \in {toOpen, toOpen \ {p}},
               files[p] # None => AddHost(p) \/ UNCHANGED toOpen
        PROVE  Told1st'
    <3> DEFINE item == [path |-> p, value |-> files[p]]
    <3>1. files[p] \in Values \cup {None}
      BY DEF TypeInv, TypeOK, TreeTypeOK, Trees
    <3>2. item \in Items /\ item # Boot /\ item.path = p /\ item.value = files[p]
      BY <3>1, ItemFields
    <3>3. CASE queued' = Append(queued, item)
      <4> HIDE DEF item
      <4> QED
        BY <2>2, <2>3, <3>2, <3>3, SteadyAppend
    <3>4. CASE UNCHANGED queued
      <4>1. CASE UNCHANGED toOpen
        BY <2>2, <2>3, <3>4, <4>1, SteadySame
      <4>2. CASE toOpen' = toOpen \ {p} /\ files[p] = None
        BY <2>2, <2>3, <3>4, <4>2, SteadySame
      <4>3. CASE files[p] # None /\ AddHost(p)
        <5>1. queued' = Append(queued, item)
          BY <4>3 DEF AddHost
        <5> QED
          BY <3>3, <5>1
      <4> QED
        BY <2>3, <4>1, <4>2, <4>3
    <3> QED
      BY <2>3, <3>3, <3>4 DEF AddHost, RemoveHost
  <2>4. CASE Adding /\ DiskUnchanged
    <3>1. CASE WatchRoot
      BY <2>2, <2>4, <3>1, SteadySame DEF WatchRoot
    <3>2. CASE ReadRoot
      <4>1. /\ pc = "list" /\ pc' = "add" /\ toAdd' = dirs
            /\ UNCHANGED <<queued, view, boot, files, steady>>
        BY <2>2, <2>4, <3>2 DEF ReadRoot
      <4>2. \A p \in Paths : files[p] # None => Dir(p) \in dirs
        BY DEF TypeInv, TypeOK, TreeTypeOK
      <4>3. \A p \in steady : SteadyTold(p) /\ p \in Paths
        BY DEF Told1st, TypeInv, TypeOK
      <4> QED
        BY <4>1, <4>2, <4>3 DEF Told1st, SteadyTold, Before, Dir
    <3>3. ASSUME NEW f \in Features, AddFeature(f) PROVE Told1st'
      BY <2>2, <2>4, <3>3, SteadySame DEF AddFeature
    <3>4. ASSUME NEW f \in Features, ReadDir(f) PROVE Told1st'
      <4>1. \A p \in steady : files[p] # None /\ Dir(p) \in toAdd =>
                p \in toOpen' \/ Dir(p) \in toAdd'
        BY <3>4 DEF ReadDir, Listed, FilesOf, TypeInv, TypeOK
      <4>2. pc = "read" /\ pc' = "open" /\ toOpen = {}
            /\ UNCHANGED <<queued, view, boot>>
        BY <3>4 DEF ReadDir, TypeInv, Shape
      <4> QED
        BY <2>2, <2>4, <4>1, <4>2, SteadySame
    <3>5. ASSUME NEW p \in Paths, Open(p) PROVE Told1st'
      BY <2>3, <2>4, <3>5 DEF Open
    <3>6. CASE EndOpen
      BY <2>2, <2>4, <3>6, SteadySame DEF EndOpen
    <3>7. CASE EndAdd
      <4>1. /\ pc = "add" /\ pc' = "loop" /\ toAdd = {} /\ toOpen = {}
            /\ UNCHANGED view
        BY <3>7 DEF EndAdd, TypeInv, Shape
      <4>2. CASE boot = "listing"
        <5>1. queued' = Append(queued, Boot) /\ boot' = "queued"
          BY <3>7, <4>2 DEF EndAdd, Indicated
        <5>2. \A p \in steady : view[p] = files[p] \/ On(queued, p) # {}
          BY <4>1, <4>2 DEF Told1st, SteadyTold
        <5> QED
          BY <2>2, <2>4, <4>1, <5>1, <5>2, SteadyAppend
      <4>3. CASE boot # "listing"
        BY <2>2, <2>4, <3>7, <4>1, <4>3, SteadySame DEF EndAdd
      <4> QED
        BY <4>2, <4>3
    <3> QED
      BY <2>4, <3>1, <3>2, <3>3, <3>4, <3>5, <3>6, <3>7 DEF Adding, Looking
  <2>5. CASE (EndBoot \/ Deliver) /\ DiskUnchanged
    BY <2>2, <2>5, SteadyTail
  <2>6. CASE HandleMkdir /\ DiskUnchanged
    <3>1. pc = "loop" /\ boot # "listing" /\ pc' = "add"
          /\ UNCHANGED <<queued, view, boot>>
      BY <2>6, TakeKinds DEF HandleMkdir, TypeInv, Shape
    <3> QED
      BY <2>2, <2>6, <3>1, SteadySame
  <2>7. CASE (HandleCreate \/ HandleRemove) /\ DiskUnchanged
    <3>1. PICK p \in Paths : Head(events) \in {Created(p), Gone(p)}
      BY <2>7, TakeKinds DEF HandleCreate, HandleRemove
    <3>2. Head(events).path = p
      BY <3>1 DEF Created, Gone
    <3>3. /\ AddHost(p) \/ RemoveHost(p)
          /\ UNCHANGED <<view, boot, toAdd, toOpen, pc>>
      BY <2>7, <3>2, TakeKinds DEF HandleCreate, HandleRemove
    <3>4. pc = "loop"
      BY <2>7, TakeKinds DEF HandleCreate, HandleRemove
    <3> QED
      BY <2>3, <2>7, <3>3, <3>4
  <2>8. CASE (HandleRmroot \/ Drop \/ Close \/ Stop) /\ DiskUnchanged
    BY <2>2, <2>8, TakeKinds, SteadySame DEF HandleRmroot, Drop, Close, Stop,
       Selects
  <2>9. CASE UNCHANGED vars
    BY <2>9, SteadySame
  <2> QED
    BY <2>1, <2>4, <2>5, <2>6, <2>7, <2>8, <2>9 DEF Next, Watching, Handle
<1> QED
  BY <1>1, <1>2, TypeInvHolds, BootFirst, PTL DEF Spec

\* Boot is closed after all features have been delivered that existed before
\* and have stayed as they were.
THEOREM BootCompleteHolds == Spec => []BootComplete
<1>1. Told1st => BootComplete
  BY DEF Told1st, SteadyTold, BootComplete
<1> QED
  BY <1>1, Told1stHolds, PTL
=============================================================================
