---------------------------- MODULE FeatureTree ----------------------------
(***************************************************************************)
(* The feature tree on disk, file by file, as a pass of the state loop     *)
(* changes it (service/state.go), and the inotify queue through which a    *)
(* watcher hears of it.  Serve takes a pass for one step; here the files   *)
(* of a pass are written and removed one at a time, and each may fail.     *)
(*                                                                         *)
(* A file is written under another directory and renamed, so its contents  *)
(* change in one step.                                                     *)
(***************************************************************************)
EXTENDS Naturals, Sequences

CONSTANTS
    Features,    \* feature names: the directories of the tree
    Hosts,       \* host names: the files in each
    Values,      \* what a file may contain
    None,        \* stands for the contents of a missing file
    MaxPasses,   \* bound on the number of passes
    QueueCap     \* how many events inotify queues

ASSUME NoneAssumption == None \notin Values
ASSUME BoundAssumption == MaxPasses \in Nat /\ QueueCap \in Nat

Paths == Features \X Hosts
Trees == [Paths -> Values \cup {None}]

Dir(path) == path[1]

Events == [op : {"mkdir"}, dir : Features]
          \cup [op : {"create", "remove"}, path : Paths]
          \cup [op : {"rmroot"}]

VARIABLES
    dirs,         \* the feature directories that exist
    files,        \* the contents of each file
    phase,        \* which part of a pass is under way
    filenames,    \* the files of the tree that the pass is to leave
    todo,         \* the changes that part has yet to make
    passes,       \* passes begun
    rootWatched,  \* the watcher has a watch on the root directory
    watched,      \* and on these feature directories
    events,       \* inotify events the watcher has yet to handle
    lost          \* history: the files of which the last event was discarded

disk == <<dirs, files>>
writer == <<phase, filenames, todo, passes>>
watch == <<rootWatched, watched>>
queue == <<events, lost>>

TreeTypeOK ==
    /\ dirs \subseteq Features
    /\ files \in Trees
    /\ \A p \in Paths : files[p] # None => Dir(p) \in dirs
    /\ phase \in {"write", "walk"}
    /\ filenames \subseteq Paths
    /\ todo \subseteq Paths \X (Values \cup {None})
    /\ passes \in 0..MaxPasses
    /\ rootWatched \in BOOLEAN
    /\ watched \subseteq dirs
    /\ events \in Seq(Events) /\ Len(events) <= QueueCap
    /\ lost \subseteq Paths

\* Whatever an earlier process left.
TreeInit ==
    /\ files \in Trees
    /\ \E more \in SUBSET Features :
           dirs = more \cup {Dir(p) : p \in {q \in Paths : files[q] # None}}
    /\ phase = "walk" /\ filenames = {} /\ todo = {} /\ passes = 0
    /\ rootWatched = FALSE /\ watched = {}
    /\ events = <<>> /\ lost = {}

\* inotify may merge an event with an identical one that was queued last and
\* has not been read yet.  It discards an event when the queue is full.
Notify(event, about) ==
    \/ /\ Len(events) < QueueCap
       /\ events' = Append(events, event)
       /\ lost' = lost \ about
    \/ /\ events # <<>> /\ events[Len(events)] = event
       /\ UNCHANGED queue
    \/ /\ Len(events) = QueueCap
       /\ lost' = lost \cup about
       /\ UNCHANGED events

NotifyIf(cond, event, about) ==
    IF cond THEN Notify(event, about) ELSE UNCHANGED queue

FilesOf(f) == {p \in Paths : Dir(p) = f}
----------------------------------------------------------------------------
\* stateLoop is woken: the files of the tree it wants come first, except those
\* that are as they should be ...
StartPass(tree) ==
    /\ phase = "walk" /\ todo = {} /\ passes < MaxPasses
    /\ passes' = passes + 1
    /\ phase' = "write"
    /\ filenames' = {p \in Paths : tree[p] # None}
    /\ todo' = {<<p, tree[p]>> : p \in {q \in filenames' : tree[q] # files[q]}}
    /\ UNCHANGED <<disk, watch, queue>>

MakeDir(p) ==
    /\ phase = "write" /\ Dir(p) \notin dirs
    /\ dirs' = dirs \cup {Dir(p)}
    /\ NotifyIf(rootWatched, [op |-> "mkdir", dir |-> Dir(p)], FilesOf(Dir(p)))
    /\ UNCHANGED <<files, writer, watch>>

AnyPlace(p) == TRUE         \* mutant: the directory is not made first

InPlace(p) == Dir(p) \in dirs

Rename(p, value) ==
    /\ phase = "write" /\ InPlace(p)
    /\ files' = [files EXCEPT ![p] = value]
    /\ todo' = todo \ {<<p, value>>}
    /\ NotifyIf(Dir(p) \in watched, [op |-> "create", path |-> p], {p})
    /\ UNCHANGED <<dirs, filenames, phase, passes, watch>>

\* ... and the files that are not part of that tree are removed after that.
Walk ==
    /\ phase = "write" /\ todo = {}
    /\ phase' = "walk"
    /\ filenames' = {}
    /\ todo' = {<<p, None>> :
                   p \in {q \in Paths \ filenames : files[q] # None}}
    /\ UNCHANGED <<disk, passes, watch, queue>>

Remove(p) ==
    /\ phase = "walk"
    /\ files' = [files EXCEPT ![p] = None]
    /\ todo' = todo \ {<<p, None>>}
    /\ NotifyIf(Dir(p) \in watched, [op |-> "remove", path |-> p], {p})
    /\ UNCHANGED <<dirs, filenames, phase, passes, watch>>

\* An I/O error: the file is left alone.
Fail(change) ==
    /\ todo' = todo \ {change}
    /\ UNCHANGED <<disk, filenames, phase, passes, watch, queue>>

\* Somebody removes the root of the tree while it is empty.
RemoveRoot ==
    /\ dirs = {} /\ rootWatched
    /\ rootWatched' = FALSE
    /\ Notify([op |-> "rmroot"], {})
    /\ UNCHANGED <<disk, writer, watched>>

Write ==
    \/ \E tree \in Trees : StartPass(tree)
    \/ Walk
    \/ \E change \in todo :
           \/ MakeDir(change[1])
           \/ Rename(change[1], change[2])
           \/ Remove(change[1])
           \/ Fail(change)
    \/ RemoveRoot
=============================================================================
