------------------------- MODULE CppMonitorProofs -------------------------
(***************************************************************************)
(* How far the C++ monitor follows the tree, for every tree, any number of *)
(* passes and every capacity of inotify's queue.  Its start is the Go      *)
(* monitor's, so the lemmas of MonitorProofs apply; its handling of events *)
(* keeps all that was due of the Go monitor but the listing of a directory *)
(* that has appeared.                                                      *)
(***************************************************************************)
EXTENDS CppMonitor, MonitorProofs

USE DEF disk, writer, watch, queue, monitor, vars

\* An event is taken, and nothing else that MonitorProofs speaks of changes.
LEMMA EventKeeps ==
    ASSUME TypeInv, NEW op, Event(op), DiskUnchanged
    PROVE  /\ pc = "loop" /\ events # <<>> /\ events' = Tail(events)
           /\ toAdd = {} /\ toOpen = {}
           /\ UNCHANGED <<rootWatched, toAdd, toOpen, boot, closing, view>>
           /\ UNCHANGED <<dirs, files, lost>>
           /\ op = "mkdir" => \E f \in Features : Head(events) = Made(f)
           /\ op = "create" => \E p \in Paths : Head(events) = Created(p)
           /\ op = "remove" => \E p \in Paths : Head(events) = Gone(p)
           /\ Head(events).op = op
<1>1. /\ pc = "loop" /\ events # <<>> /\ events' = Tail(events)
      /\ Head(events).op = op
      /\ UNCHANGED <<rootWatched, toAdd, toOpen, boot, closing, view>>
  BY DEF Event
<1>2. Head(events) \in Events
  BY <1>1 DEF TypeInv, TypeOK, TreeTypeOK
<1>3. \A e \in Events :
         /\ e.op = "mkdir" => \E f \in Features : e = Made(f)
         /\ e.op = "create" => \E p \in Paths : e = Created(p)
         /\ e.op = "remove" => \E p \in Paths : e = Gone(p)
  BY DEF Events, Made, Created, Gone
<1>4. toAdd = {} /\ toOpen = {}
  BY <1>1 DEF TypeInv, Shape
<1> QED
  BY <1>1, <1>2, <1>3, <1>4 DEF DiskUnchanged

\* read returns all that it has buffered.
LEMMA ReturnTells ==
    ASSUME TypeInv, Lasts(queued), ReadReturn
    PROVE  /\ view' \in Trees /\ Lasts(queued')
           /\ \A p \in Paths : Told(p)' = Told(p)
<1>1. view' = [p \in Paths |-> Told(p)] /\ queued' = <<>>
  BY DEF ReadReturn
<1>2. \A p \in Paths : On(queued', p) = {}
  BY <1>1 DEF On
<1>3. \A p \in Paths : Told(p)' = Told(p)
  BY <1>1, <1>2, ToldTells DEF Tells
<1>4. \A p \in Paths : Told(p) \in Values \cup {None}
  <2> SUFFICES ASSUME NEW p \in Paths PROVE Told(p) \in Values \cup {None}
    OBVIOUS
  <2>1. CASE On(queued, p) = {}
    BY <2>1, ToldTells DEF Tells, TypeInv, TypeOK, Trees
  <2>2. CASE On(queued, p) # {}
    <3>1. PICK i \in On(queued, p) : IsLast(queued, i, p)
      BY <2>2 DEF Lasts
    <3>2. queued \in Seq(Items \cup {Boot})
      BY DEF TypeInv, TypeOK
    <3>3. Told(p) = queued[i].value
      BY <3>1, <3>2, ToldTells, TellsLast
    <3>4. queued[i] \in Items
      BY <3>1, <3>2 DEF On
    <3> QED
      BY <3>3, <3>4, ItemFields
  <2> QED
    BY <2>1, <2>2
<1> QED
  BY <1>1, <1>2, <1>3, <1>4 DEF Lasts, Trees

\* The directory a mkdir event is about is watched: what the client knows of
\* there is, is there already, and no more is owed to it.
LEMMA ReadMkdirDue ==
    ASSUME NEW F, TypeInv, Due(F), ReadMkdir, DiskUnchanged,
           Head(events).dir \in F => Head(events).dir \in watched
    PROVE  TypeInv' /\ Due(F)'
<1>1. PICK f \in Features : Head(events) = Made(f)
  BY EventKeeps DEF ReadMkdir
<1>2. /\ pc = "loop" /\ events # <<>> /\ events' = Tail(events)
      /\ toAdd = {} /\ toOpen = {} /\ watched' = watched \cup {f}
      /\ UNCHANGED <<rootWatched, toAdd, toOpen, boot, closing, view>>
      /\ UNCHANGED <<dirs, files, lost, pc, queued>>
      /\ f \in F => f \in watched
  BY <1>1, EventKeeps DEF ReadMkdir, Made
<1>3. f \in dirs
  BY <1>1, <1>2, TailEvents DEF TypeInv, Shape
<1>4. TypeInv'
  <2>1. watched' \subseteq dirs /\ queued' \in Seq(Items \cup {Boot}) /\ view' \in Trees
    BY <1>2, <1>3 DEF TypeInv, TypeOK, TreeTypeOK
  <2> QED
    BY <1>2, <2>1, TakeType
<1>5. /\ EventsMatch'
      /\ \A x : x # Head(events) /\ Has(x) => Has(x)'
  BY <1>2, TakenKeeps
<1>6. /\ \A g : Made(g) = Head(events) => g = f
      /\ \A p : Gone(p) # Head(events) /\ Created(p) # Head(events)
  BY <1>1, EventKinds
<1>7. (\A p \in Paths : Told(p)' = Told(p)) /\ RootGone' = RootGone
  BY <1>2, ToldTells DEF RootGone
<1>8. WatchDue'
  <2> SUFFICES ASSUME NEW g \in dirs \ watched', ~RootGone
               PROVE  Has(Made(g))' \/ FilesOf(g) \subseteq lost
    BY <1>2, <1>7 DEF WatchDue, FilesOf, Made
  <2>1. g # f /\ (Has(Made(g)) \/ FilesOf(g) \subseteq lost)
    BY <1>2 DEF Due, WatchDue
  <2> QED
    BY <1>5, <1>6, <2>1
<1>9. GoneDue'
  BY <1>2, <1>5, <1>6, <1>7 DEF Due, GoneDue, Dir, Gone
<1>10. HereDue(F)'
  <2> SUFFICES ASSUME NEW p \in Paths, files[p] # None, Told(p) # files[p],
                      Owed(p, F)
               PROVE  NewDir(Dir(p))' \/ Has(Created(p))' \/ p \in lost
    BY <1>2, <1>7 DEF HereDue, NewDir, Owed, Dir, Made, Created
  <2>1. NewDir(Dir(p)) \/ Has(Created(p)) \/ p \in lost
    BY <1>2 DEF Due, HereDue
  <2>2. NewDir(Dir(p)) => Dir(p) # f
    BY <1>2 DEF Owed, NewDir, Due, GoneDue
  <2>3. NewDir(Dir(p)) => NewDir(Dir(p))'
    <3> SUFFICES ASSUME NewDir(Dir(p)) PROVE NewDir(Dir(p))'
      OBVIOUS
    <3>1. Dir(p) \notin watched'
      BY <1>2, <2>2 DEF NewDir
    <3>2. Has(Made(Dir(p)))'
      BY <1>5, <1>6, <2>2 DEF NewDir, Made, Dir
    <3> QED
      BY <3>1, <3>2 DEF NewDir, Made, Dir
  <2> QED
    BY <1>5, <1>6, <2>1, <2>3
<1>11. Lasts(queued')
  BY <1>2 DEF Due
<1> QED
  BY <1>4, <1>5, <1>8, <1>9, <1>10, <1>11 DEF Due

\* The tree is gone, and no event of it is of any interest.
LEMMA ReadDeleteSelfDue ==
    ASSUME NEW F, TypeInv, Due(F), ReadDeleteSelf, DiskUnchanged
    PROVE  TypeInv' /\ Due(F)'
<1>1. /\ pc = "loop" /\ events # <<>> /\ events' = Tail(events)
      /\ toAdd = {} /\ toOpen = {} /\ Head(events).op = "rmroot"
      /\ UNCHANGED <<rootWatched, toAdd, toOpen, boot, closing, view>>
      /\ UNCHANGED <<dirs, files, lost, watched, queued>> /\ pc' = "closed"
  BY EventKeeps DEF ReadDeleteSelf
<1>2. TypeInv'
  <2>1. watched' \subseteq dirs /\ queued' \in Seq(Items \cup {Boot}) /\ view' \in Trees
    BY <1>1 DEF TypeInv, TypeOK, TreeTypeOK
  <2> QED
    BY <1>1, <2>1, TakeType
<1>3. /\ EventsMatch'
      /\ \A x : x # Head(events) /\ Has(x) => Has(x)'
  BY <1>1, TakenKeeps
<1>4. /\ \A p : Gone(p) # Head(events) /\ Created(p) # Head(events)
      /\ \A f : Made(f) # Head(events)
  BY <1>1 DEF Gone, Created, Made
<1>5. /\ \A p \in Paths : Told(p)' = Told(p)
      /\ RootGone' = RootGone
  BY <1>1, ToldTells DEF RootGone
<1>6. WatchDue'
  <2> SUFFICES ASSUME NEW g \in dirs \ watched, ~RootGone
               PROVE  Has(Made(g))' \/ FilesOf(g) \subseteq lost
    BY <1>1, <1>5 DEF WatchDue, FilesOf, Made
  <2> QED
    BY <1>1, <1>3, <1>4 DEF Due, WatchDue
<1>7. GoneDue'
  BY <1>1, <1>3, <1>4, <1>5 DEF Due, GoneDue, Dir, Gone
<1>8. HereDue(F)'
  <2> SUFFICES ASSUME NEW p \in Paths, files[p] # None, Told(p) # files[p],
                      Owed(p, F)
               PROVE  NewDir(Dir(p))' \/ Has(Created(p))' \/ p \in lost
    BY <1>1, <1>5 DEF HereDue, NewDir, Owed, Dir, Made, Created
  <2> QED
    BY <1>1, <1>3, <1>4 DEF Due, HereDue, NewDir
<1>9. Lasts(queued')
  BY <1>1 DEF Due
<1> QED
  BY <1>2, <1>3, <1>6, <1>7, <1>8, <1>9 DEF Due

\* A file is looked at, because of an event about it.
LEMMA ReadFileDue ==
    ASSUME NEW F, TypeInv, Due(F), ReadCreate \/ ReadDelete, DiskUnchanged
    PROVE  TypeInv' /\ Due(F)'
<1>1. PICK p \in Paths :
          \/ Head(events) = Created(p) /\ AddHost(p)
          \/ Head(events) = Gone(p) /\ RemoveHost(p)
  <2>1. CASE ReadCreate
    <3>1. PICK p \in Paths : Head(events) = Created(p)
      BY <2>1, EventKeeps DEF ReadCreate
    <3> QED
      BY <2>1, <3>1 DEF ReadCreate, Created
  <2>2. CASE ReadDelete
    <3>1. PICK p \in Paths : Head(events) = Gone(p)
      BY <2>2, EventKeeps DEF ReadDelete
    <3> QED
      BY <2>2, <3>1 DEF ReadDelete, Gone
  <2> QED
    BY <2>1, <2>2
<1>2. /\ pc = "loop" /\ events # <<>> /\ events' = Tail(events)
      /\ toAdd = {} /\ toOpen = {}
      /\ UNCHANGED <<rootWatched, toAdd, toOpen, boot, closing, view>>
      /\ UNCHANGED <<dirs, files, lost, watched, pc>>
  BY EventKeeps DEF ReadCreate, ReadDelete
<1>3. TypeInv'
  <2>1. watched' \subseteq dirs /\ queued' \in Seq(Items \cup {Boot}) /\ view' \in Trees
    BY <1>1, <1>2, AddedItem DEF TypeInv, TypeOK, TreeTypeOK
  <2> QED
    BY <1>2, <2>1, TakeType
<1>4. Due(F)'
  BY <1>1, <1>2, ToldAfter, FileEventDue DEF About
<1> QED
  BY <1>3, <1>4

\* Any step of the program or of the state loop, but the watching of a new
\* directory whose files are owed to the client.
LEMMA CppStep ==
    ASSUME NEW F, TypeInv, Due(F), [CppNext]_vars,
           ReadMkdir /\ DiskUnchanged /\ Head(events).dir \in F =>
               Head(events).dir \in watched
    PROVE  TypeInv' /\ Due(F)'
<1>1. CASE Writing
  BY <1>1, WriteType, WriteDue
<1>2. CASE CppInit /\ DiskUnchanged
  <2>1. CASE Looking
    BY <1>2, <2>1, LookingType, LookingDue DEF CppInit
  <2>2. CASE EndInit
    <3>1. /\ pc = "add" /\ toAdd = {} /\ pc' = "loop"
          /\ UNCHANGED <<watch, toAdd, toOpen, queued, boot, closing, view, events>>
      BY <1>2, <2>2 DEF EndInit, CppInit
    <3>2. TypeOK'
      BY <1>2, <3>1 DEF DiskUnchanged, TypeInv, TypeOK, TreeTypeOK
    <3>3. TypeInv'
      BY <1>2, <3>1, <3>2, LookType DEF TypeInv, Shape
    <3>4. Due(F)'
      BY <1>2, <3>1, LookSameDue
    <3> QED
      BY <3>3, <3>4
  <2> QED
    BY <1>2, <2>1, <2>2 DEF CppInit
<1>3. CASE ReadMkdir /\ DiskUnchanged
  BY <1>3, ReadMkdirDue
<1>4. CASE (ReadCreate \/ ReadDelete) /\ DiskUnchanged
  BY <1>4, ReadFileDue
<1>5. CASE ReadDeleteSelf /\ DiskUnchanged
  BY <1>5, ReadDeleteSelfDue
<1>6. CASE ReadReturn /\ DiskUnchanged
  <2>1. /\ pc = "loop" /\ queued' = <<>> /\ toAdd = {} /\ toOpen = {}
        /\ UNCHANGED <<watch, events, pc, toAdd, toOpen, boot, closing>>
    BY <1>6 DEF ReadReturn, TypeInv, Shape
  <2>2. /\ view' \in Trees /\ Lasts(queued')
        /\ \A p \in Paths : Told(p)' = Told(p)
    BY <1>6, ReturnTells DEF Due
  <2>3. TypeOK'
    BY <1>6, <2>1, <2>2 DEF DiskUnchanged, TypeInv, TypeOK, TreeTypeOK
  <2>4. TypeInv'
    BY <1>6, <2>1, <2>3, LookType
  <2>5. Due(F)'
    BY <1>6, <2>1, <2>2, LookDue
  <2> QED
    BY <2>4, <2>5
<1>7. CASE UNCHANGED vars
  <2>1. TypeInv'
    BY <1>7 DEF TypeInv, TypeOK, TreeTypeOK, Shape
  <2>2. Due(F)'
    BY <1>7, LookSameDue DEF DiskUnchanged
  <2> QED
    BY <2>1, <2>2
<1> QED
  BY <1>1, <1>2, <1>3, <1>4, <1>5, <1>6, <1>7 DEF CppNext, CppReading

\* What the client knows when nothing is left to read.
LEMMA EndKnows ==
    ASSUME NEW F, TypeInv, Due(F), AtEnd, NEW p \in Paths,
           view[p] # None \/ (Dir(p) \in F /\ ~RootGone)
    PROVE  Current(p)
<1>1. /\ \A x : ~Has(x)
      /\ toAdd = {} /\ toOpen = {} /\ pc = "loop"
  BY DEF AtEnd, Has, TypeInv, Shape
<1>2. Told(p) = view[p]
  BY DEF AtEnd, Told
<1>3. Owed(p, F)
  BY <1>1, <1>2 DEF Owed
<1> QED
  BY <1>1, <1>2, <1>3 DEF Due, GoneDue, HereDue, NewDir, Current

\* KnownRight: what the client knows of a file when nothing is left to read is
\* what is in it, unless an event about the file was discarded.
THEOREM KnownRightHolds == CppSpec => []KnownRight
<1>1. Init => TypeInv /\ Due({})
  BY TypeInit, DueInit
<1>2. TypeInv /\ Due({}) /\ [CppNext]_vars => TypeInv' /\ Due({})'
  <2> DEFINE F == {}
  <2> SUFFICES ASSUME TypeInv, Due(F), [CppNext]_vars
               PROVE  TypeInv' /\ Due(F)'
    OBVIOUS
  <2>1. \A x : x \notin F
    OBVIOUS
  <2> HIDE DEF F
  <2> QED
    BY <2>1, CppStep
<1>3. TypeInv /\ Due({}) => KnownRight
  BY EndKnows DEF KnownRight
<1> QED
  BY <1>1, <1>2, <1>3, PTL DEF CppSpec

\* A feature directory that is there from the start stays, and the monitor is
\* never told that it has been made.
Listable(f) == f \in dirs /\ ~RootGone /\ ~Has(Made(f))

\* No step of anybody changes that.
LEMMA ListableStep ==
    ASSUME TypeInv, NEW f \in Features, Listable(f), [CppNext]_vars
    PROVE  Listable(f)'
<1>1. ASSUME UNCHANGED dirs, UNCHANGED rootWatched \/ rootWatched',
             pc' = "new" => pc = "new",
             pc = "new" => pc' = "new" \/ rootWatched',
             \A i \in DOMAIN events' :
                 events'[i] = Made(f) => Has(Made(f))
      PROVE  Listable(f)'
  BY <1>1 DEF Listable, RootGone, Has, Made
<1>2. CASE Writing
  <2>1. CASE UNCHANGED <<disk, watch, queue, monitor, steady>>
    BY <1>1, <2>1 DEF Has
  <2>2. ASSUME NEW e \in Events, NEW about \in SUBSET Paths, NEW cond \in BOOLEAN,
               NotifyIf(cond, e, about), e # Made(f), f \in dirs',
               UNCHANGED <<watch, monitor>>
        PROVE  Listable(f)'
    <3>1. \A i \in DOMAIN events' : i \in DOMAIN events \/ events'[i] = e
      BY <2>2, NotifyIfChanges DEF TypeInv
    <3>2. \A i \in DOMAIN events : i \in DOMAIN events' /\ events'[i] = events[i]
      BY <2>2, NotifyIfChanges DEF TypeInv
    <3>3. ~Has(Made(f))'
      BY <2>2, <3>1, <3>2 DEF Listable, Has, Made
    <3> QED
      BY <2>2, <3>3 DEF Listable, RootGone, Made
  <2>3. ASSUME NEW p \in Paths, NEW value \in Values \cup {None}, Touch(p, value)
        PROVE  Listable(f)'
    <3> DEFINE e == Telling(p, value)
               cond == Dir(p) \in watched
    <3>1. /\ NotifyIf(cond, e, {p}) /\ UNCHANGED <<dirs, watch, monitor>>
          /\ cond \in BOOLEAN /\ {p} \in SUBSET Paths
      BY <2>3 DEF Touch
    <3>2. e \in Events /\ e # Made(f)
      BY EventKinds DEF Telling
    <3> HIDE DEF e, cond
    <3> QED
      BY <2>2, <3>1, <3>2 DEF Listable
  <2>4. ASSUME NEW g \in Features \ dirs, dirs' = dirs \cup {g},
               UNCHANGED <<files, watch, monitor, steady>>,
               NotifyIf(rootWatched, Made(g), FilesOf(g))
        PROVE  Listable(f)'
    <3> DEFINE e == Made(g)
    <3>1. /\ e \in Events /\ e # Made(f) /\ FilesOf(g) \in SUBSET Paths
          /\ rootWatched \in BOOLEAN /\ f \in dirs'
      BY <2>4, EventKinds DEF Listable, FilesOf, TypeInv, TypeOK, TreeTypeOK
    <3> HIDE DEF e
    <3> QED
      BY <2>2, <2>4, <3>1 DEF e
  <2>5. ~RemoveRoot
    BY DEF RemoveRoot, Listable
  <2> QED
    BY <1>2, <2>1, <2>3, <2>4, <2>5, WriteKinds
<1>3. CASE (CppInit \/ ReadReturn) /\ DiskUnchanged
  BY <1>1, <1>3 DEF CppInit, Looking, WatchRoot, ReadRoot, AddFeature, ReadDir,
     Open, EndOpen, EndInit, ReadReturn, DiskUnchanged, Has
<1>4. CASE (ReadMkdir \/ ReadCreate \/ ReadDelete \/ ReadDeleteSelf) /\ DiskUnchanged
  <2>1. /\ events # <<>> /\ events' = Tail(events)
        /\ UNCHANGED <<dirs, rootWatched>> /\ pc = "loop" /\ pc' # "new"
    BY <1>4 DEF ReadMkdir, ReadCreate, ReadDelete, ReadDeleteSelf, Event,
       DiskUnchanged
  <2>2. \A i \in DOMAIN events' : events'[i] = Made(f) => Has(Made(f))
    BY <2>1, TailEvents DEF Has
  <2> QED
    BY <1>1, <2>1, <2>2
<1>5. CASE UNCHANGED vars
  BY <1>1, <1>5 DEF Has
<1> QED
  BY <1>2, <1>3, <1>4, <1>5 DEF CppNext, CppReading

\* ReadToEndOf: of a directory that was there before the monitor, the client
\* knows all files when nothing is left to read, as nameq.hpp says of any.
THEOREM ReadToEndOfHolds ==
    ASSUME NEW f \in Features
    PROVE  CppSpec /\ f \in dirs => []ReadToEndOf(f)
<1> DEFINE F == {f}
           Inv == TypeInv /\ Due(F) /\ Listable(f)
<1>1. Init /\ f \in dirs => Inv
  <2> SUFFICES ASSUME Init, f \in dirs PROVE Inv
    OBVIOUS
  <2>1. TypeInv /\ Due(F)
    BY TypeInit, DueInit
  <2>2. Listable(f)
    BY DEF Init, TreeInit, Listable, RootGone, Has
  <2> QED
    BY <2>1, <2>2
<1>2. Inv /\ [CppNext]_vars => Inv'
  <2> SUFFICES ASSUME Inv, [CppNext]_vars PROVE Inv'
    OBVIOUS
  <2>1. ReadMkdir /\ DiskUnchanged => Head(events).dir # f
    <3> SUFFICES ASSUME ReadMkdir, DiskUnchanged PROVE Head(events).dir # f
      OBVIOUS
    <3>1. PICK g \in Features : Head(events) = Made(g)
      BY EventKeeps DEF ReadMkdir
    <3>2. Has(Made(g)) /\ Head(events).dir = g
      <4>1. Head(events) = events[1] /\ 1 \in DOMAIN events
        BY EventKeeps, TailEvents DEF ReadMkdir
      <4> QED
        BY <3>1, <4>1 DEF Has, Made
    <3> QED
      BY <3>2 DEF Listable
  <2>2. \A x \in F : x = f
    OBVIOUS
  <2> HIDE DEF F
  <2>3. TypeInv' /\ Due(F)'
    BY <2>1, <2>2, CppStep
  <2>4. Listable(f)'
    BY ListableStep
  <2> QED
    BY <2>3, <2>4 DEF F
<1>3. Inv => ReadToEndOf(f)
  <2> SUFFICES ASSUME Inv, AtEnd, NEW p \in FilesOf(f) PROVE Current(p)
    BY DEF ReadToEndOf
  <2>1. p \in Paths /\ Dir(p) \in F /\ ~RootGone
    BY DEF FilesOf, Listable
  <2> HIDE DEF F
  <2> QED
    BY <2>1, EndKnows
<1> QED
  BY <1>1, <1>2, <1>3, PTL DEF CppSpec
=============================================================================
