---------------------------- MODULE CppMonitor ----------------------------
(***************************************************************************)
(* The FeatureMonitor of the C++ library (cpp/nameq.cpp), over the same    *)
(* tree.  init watches and lists like the Go client's constructor, but     *)
(* there is no goroutine: read takes the events that inotify has queued,   *)
(* and hands over all that it has buffered once there is no other event.   *)
(* A directory that appears later is watched, and not listed.              *)
(*                                                                         *)
(* queued is m.buffer; there is no indicator of the end of boot.           *)
(***************************************************************************)
EXTENDS Monitor

EndInit ==
    /\ pc = "add" /\ toAdd = {}
    /\ pc' = "loop"
    /\ UNCHANGED <<watch, toAdd, toOpen, queued, boot, closing, view>>

CppInit == (Looking \/ EndInit) /\ UNCHANGED events

\* read gets an event from inotify, whatever is buffered.
Event(op) ==
    /\ pc = "loop"
    /\ events # <<>> /\ Head(events).op = op
    /\ events' = Tail(events)
    /\ UNCHANGED <<rootWatched, toAdd, toOpen, boot, closing, view>>

ReadMkdir ==
    /\ Event("mkdir")
    /\ watched' = watched \cup {Head(events).dir}
    /\ UNCHANGED <<pc, queued>>

ReadCreate ==
    /\ Event("create")
    /\ AddHost(Head(events).path)
    /\ UNCHANGED <<watched, pc>>

ReadDelete ==
    /\ Event("remove")
    /\ RemoveHost(Head(events).path)
    /\ UNCHANGED <<watched, pc>>

\* read fails for good; the client is not to call it again.
ReadDeleteSelf ==
    /\ Event("rmroot")
    /\ pc' = "closed"
    /\ UNCHANGED <<watched, queued>>

\* There is no other event: read returns.
ReadReturn ==
    /\ pc = "loop" /\ events = <<>> /\ queued # <<>>
    /\ view' = [p \in Paths |-> Told(p)]
    /\ queued' = <<>>
    /\ UNCHANGED <<watch, events, pc, toAdd, toOpen, boot, closing>>

CppReading ==
    ReadMkdir \/ ReadCreate \/ ReadDelete \/ ReadDeleteSelf \/ ReadReturn

CppNext == Writing \/ ((CppInit \/ CppReading) /\ DiskUnchanged)

CppSpec == Init /\ [][CppNext]_vars
----------------------------------------------------------------------------
\* read is to "get pending features updates" (nameq.hpp), and it is called
\* until nothing is left, before the client waits for another event ...
AtEnd == pc = "loop" /\ events = <<>> /\ queued = <<>>

Current(p) == view[p] = files[p] \/ p \in lost

\* ... by then the client knows the tree.
ReadToEnd == AtEnd => \A p \in Paths : Current(p)

\* As far as it goes: that is so of a feature's files if the directory is
\* listed, and what the client does know of any other file is right.
ReadToEndOf(f) == AtEnd => \A p \in FilesOf(f) : Current(p)

KnownRight == AtEnd => \A p \in Paths : view[p] = None \/ Current(p)
=============================================================================
