--------------------------- MODULE FeatureConfig ---------------------------
(***************************************************************************)
(* The feature configuration of one host: the programs that set and remove *)
(* its features by changing the files of a directory (go/nameq.go), and    *)
(* the service's watcher of that directory (service/config.go), which      *)
(* makes what it reads the features of the local node (service/node.go).   *)
(* From there on Serve takes over, with the token for the main loop.       *)
(*                                                                         *)
(* A file is written as .tmp/NAME and renamed; all writers of a feature    *)
(* share that one name.  Any process may die between any two steps.        *)
(***************************************************************************)
EXTENDS Naturals, Sequences

CONSTANTS
    Names,      \* feature names
    Documents,  \* the JSON documents that SetFeature is given
    Null,       \* the one that says null
    Blank,      \* what an empty file contains
    Junk,       \* contents that are no JSON document
    Missing,    \* no file, or no feature
    Arg,        \* the features given as a command line argument
    Writers,    \* the callers of SetFeature
    QueueCap    \* how many events inotify queues

ASSUME ContentsAssumption ==
    /\ {Blank, Junk, Missing} \cap Documents = {}
    /\ Null \notin {Blank, Junk, Missing} /\ Blank \notin {Junk, Missing}
    /\ Junk # Missing
ASSUME ArgAssumption == Arg \in [Names -> Documents \cup {Missing}]
ASSUME QueueCapAssumption == QueueCap \in Nat \ {0}

Contents == Documents \cup {Blank, Junk, Missing}
FeatureMaps == [Names -> Documents \cup {Missing}]
NoFeatures == [n \in Names |-> Missing]

\* A call of SetFeature: what it is to set, its next step, and which file the
\* one it has open has become.
Idle == [step |-> "idle"]
Calls == [name : Names, value : Documents, step : {"write", "rename", "unlink"},
          inode : {"temp", "file", "gone"}]

VARIABLES
    \* the directory
    files,      \* the contents of NAME
    temps,      \* the contents of .tmp/NAME
    \* the writers
    call,       \* the call of each writer
    alone,      \* history: the writers that no other has met in its call
    \* the watcher
    events,     \* fsnotify events, from the kernel's queue on
    pc,         \* watchConfig, then scanConfigLoop
    toRead,     \* the files of a scan yet to be read
    draft,      \* the features of the scan so far
    unread,     \* history: the files that the last scan could not read
    lost,       \* history: the queue has discarded a removal, and no scan was
                \* begun with an empty queue since
    local       \* the features of the local node

disk == <<files, temps>>
writers == <<call, alone>>
scan == <<pc, toRead, draft, unread>>
vars == <<disk, writers, events, scan, lost, local>>

TypeOK ==
    /\ files \in [Names -> Contents]
    /\ temps \in [Names -> Contents]
    /\ call \in [Writers -> Calls \cup {Idle}]
    /\ alone \subseteq Writers
    /\ events \in Seq([op : {"put", "remove"}, name : Names])
    /\ Len(events) <= QueueCap
    /\ pc \in {"down", "panicked", "list", "read", "idle"}
    /\ toRead \subseteq Names
    /\ draft \in FeatureMaps
    /\ unread \subseteq Names
    /\ lost \in BOOLEAN
    /\ local \in FeatureMaps

\* The service is down, and its directory is as an administrator left it.
Init ==
    /\ files \in [Names -> Contents]
    /\ temps = [n \in Names |-> Missing]
    /\ call = [w \in Writers |-> Idle] /\ alone = {}
    /\ events = <<>> /\ lost = FALSE
    /\ pc = "down" /\ toRead = {} /\ draft = NoFeatures /\ unread = {}
    /\ local = NoFeatures

Serving == pc \notin {"down", "panicked"}

\* An event is merged with the same one before it, or discarded when the
\* queue is full; there is none before w.Add.
Notify(op, n) ==
    LET event == [op |-> op, name |-> n]
        full  == Len(events) >= QueueCap
    IN  \/ /\ Serving /\ ~full
           /\ events' = Append(events, event)
           /\ UNCHANGED lost
        \/ /\ Serving => events # <<>> /\ events[Len(events)] = event
           /\ UNCHANGED <<events, lost>>
        \/ /\ Serving /\ full
           /\ lost' = (lost \/ op = "remove")
           /\ UNCHANGED events
----------------------------------------------------------------------------
(* SetFeature: createConfigFile *)

InCall(n) == {w \in Writers : call[w] # Idle /\ call[w].name = n}

CreateKeepsOld(n) ==        \* mutant: the file is not truncated
    temps' = [temps EXCEPT ![n] = IF @ = Missing THEN Blank ELSE @]

Create(n) == temps' = [temps EXCEPT ![n] = Blank]

\* WriteFile opens the file, makes it if it does not exist and truncates it.
Open(w, n, value) ==
    /\ call[w] = Idle
    /\ Create(n)
    /\ call' = [call EXCEPT ![w] = [name |-> n, value |-> value,
                                   step |-> "write", inode |-> "temp"]]
    /\ alone' = IF InCall(n) = {} THEN alone \cup {w} ELSE alone \ InCall(n)
    /\ UNCHANGED <<files, events, scan, lost, local>>

\* Data goes to the start of the file.  Older data of another writer may be
\* longer: its end stays, and the mix is taken to be no JSON document.
Written(old, new) == IF old \in {Blank, new} THEN {new} ELSE {new, Junk}

Write(w) ==
    LET c == call[w]
    IN  /\ c.step = "write"
        /\ CASE c.inode = "temp" ->
                  /\ \E content \in Written(temps[c.name], c.value) :
                         temps' = [temps EXCEPT ![c.name] = content]
                  /\ UNCHANGED <<files, events, lost>>
             [] c.inode = "file" ->
                  /\ \E content \in Written(files[c.name], c.value) :
                         files' = [files EXCEPT ![c.name] = content]
                  /\ Notify("put", c.name)
                  /\ UNCHANGED temps
             [] c.inode = "gone" -> UNCHANGED <<disk, events, lost>>
        /\ call' = [call EXCEPT ![w].step = "rename", ![w].inode = "gone"]
        /\ UNCHANGED <<alone, scan, local>>

\* The files that writers of n have open become others.
Moved(n, from, to) ==
    [w \in Writers |->
        IF w \notin InCall(n) THEN call[w]
        ELSE [call[w] EXCEPT !.inode = IF @ = from THEN to
                                       ELSE IF @ = to THEN "gone" ELSE @]]

Return(w, calls) ==
    /\ call' = [calls EXCEPT ![w] = Idle]
    /\ alone' = alone \ {w}

Rename(w, n) ==
    /\ call[w].step = "rename" /\ call[w].name = n /\ temps[n] # Missing
    /\ files' = [files EXCEPT ![n] = temps[n]]
    /\ temps' = [temps EXCEPT ![n] = Missing]
    /\ Notify("put", n)
    /\ Return(w, Moved(n, "temp", "file"))
    /\ UNCHANGED <<scan, local>>

\* Another writer has renamed or removed the file.
RenameFails(w) ==
    /\ call[w].step = "rename" /\ temps[call[w].name] = Missing
    /\ call' = [call EXCEPT ![w].step = "unlink"]
    /\ UNCHANGED <<disk, alone, events, scan, lost, local>>

\* The error is returned after the temporary file was removed, if there is
\* one again; it is then another writer's.
Unlink(w, n) ==
    /\ call[w].step = "unlink" /\ call[w].name = n
    /\ temps' = [temps EXCEPT ![n] = Missing]
    /\ Return(w, Moved(n, "temp", "gone"))
    /\ UNCHANGED <<files, events, scan, lost, local>>

\* An I/O error makes the call return, or the process dies.
Abandon(w) ==
    /\ call[w] # Idle
    /\ Return(w, call)
    /\ UNCHANGED <<disk, events, scan, lost, local>>

RemoveFeature(n) ==
    /\ files[n] # Missing
    /\ files' = [files EXCEPT ![n] = Missing]
    /\ call' = Moved(n, "file", "gone")
    /\ Notify("remove", n)
    /\ UNCHANGED <<temps, alone, scan, local>>
----------------------------------------------------------------------------
(* watchConfig and scanConfigLoop *)

\* Nothing of a process is left when there is a new one, or none.
Reset(next) ==
    /\ pc' = next
    /\ events' = <<>>
    /\ toRead' = {} /\ draft' = NoFeatures /\ unread' = {} /\ lost' = FALSE
    /\ local' = NoFeatures
    /\ UNCHANGED <<disk, writers>>

\* The service is started; the directory is watched before it is scanned.
Start == ~Serving /\ Reset("list")

Stop == Serving /\ Reset("down")

ReadDir ==
    /\ pc = "list"
    /\ toRead' = {n \in Names : files[n] # Missing}
    /\ draft' = Arg
    /\ unread' = {}
    /\ lost' = (lost /\ events # <<>>)
    /\ pc' = "read"
    /\ UNCHANGED <<disk, writers, events, local>>

ReadDirFails ==
    /\ pc = "list"
    /\ unread' = Names
    /\ pc' = "idle"
    /\ UNCHANGED <<disk, writers, events, toRead, draft, lost, local>>

ParsedAnyway(content, arg) ==   \* mutant: what is no JSON is not skipped
    IF content = Blank THEN Missing
    ELSE IF content = Missing THEN arg ELSE content

\* A blank file takes a feature of the argument away.  One that is gone, or
\* holds no JSON, is skipped: the feature of the argument remains.
Parsed(content, arg) ==
    IF content = Blank THEN Missing
    ELSE IF content \in {Missing, Junk} THEN arg ELSE content

ReadFile(n) ==
    /\ pc = "read" /\ n \in toRead
    /\ toRead' = toRead \ {n}
    /\ draft' = [draft EXCEPT ![n] = Parsed(files[n], @)]
    /\ UNCHANGED <<disk, writers, events, pc, unread, lost, local>>

\* The file is skipped as well if it cannot be read.
ReadFileFails(n) ==
    /\ pc = "read" /\ n \in toRead
    /\ toRead' = toRead \ {n}
    /\ unread' = unread \cup {n}
    /\ UNCHANGED <<disk, writers, events, pc, draft, lost, local>>

(* updateFeatures compares the new features with the old in any order, and  *)
(* stops at the first difference.                                           *)

\* The values of these are compared; null is a nil pointer, and dereferenced.
Compared == {n \in Names : draft[n] # Missing /\ local[n] # Missing}
Nils == {n \in Compared : Null \in {draft[n], local[n]}}

Differ ==
    \/ \E n \in Names : draft[n] # Missing /\ local[n] = Missing
    \/ \E n \in Compared \ Nils : draft[n] # local[n]

VanishedNever == FALSE      \* mutant: removed features are not looked for

Vanished == \E n \in Names : draft[n] = Missing /\ local[n] # Missing

Scanned == pc = "read" /\ toRead = {}

EndScan(features) ==
    /\ Scanned
    /\ local' = features
    /\ draft' = NoFeatures
    /\ pc' = "idle"
    /\ UNCHANGED <<disk, writers, events, toRead, unread, lost>>

Update == (Differ \/ (Nils = {} /\ Vanished)) /\ EndScan(draft)

KeepFeatures == ~Differ /\ Nils = {} /\ ~Vanished /\ EndScan(local)

Panic ==
    /\ Scanned /\ Nils # {}
    /\ pc' = "panicked"
    /\ UNCHANGED <<disk, writers, events, toRead, draft, unread, lost, local>>

TakePutsOnly ==             \* mutant: removals do not cause a scan
    /\ pc = "idle" /\ events # <<>>
    /\ events' = Tail(events)
    /\ pc' = IF Head(events).op = "put" THEN "list" ELSE "idle"
    /\ UNCHANGED <<disk, writers, toRead, draft, unread, lost, local>>

TakeEvent ==
    /\ pc = "idle" /\ events # <<>>
    /\ events' = Tail(events)
    /\ pc' = "list"
    /\ UNCHANGED <<disk, writers, toRead, draft, unread, lost, local>>

\* fsnotify drops the event of a file that is gone, unless it is the removal.
Ignored(event) == event.op = "put" /\ files[event.name] = Missing

DropEvent ==
    /\ Serving /\ events # <<>> /\ Ignored(Head(events))
    /\ events' = Tail(events)
    /\ UNCHANGED <<disk, writers, scan, lost, local>>
----------------------------------------------------------------------------
Administer ==
    \/ \E n \in Names : RemoveFeature(n)
    \/ \E w \in Writers, n \in Names :
           \/ \E v \in Documents : Open(w, n, v)
           \/ Rename(w, n)
           \/ Unlink(w, n)
    \/ \E w \in Writers : Write(w) \/ RenameFails(w) \/ Abandon(w)

Scan ==
    \/ ReadDir
    \/ \E n \in Names : ReadFile(n)
    \/ Update
    \/ KeepFeatures
    \/ Panic
    \/ TakeEvent
    \/ DropEvent

Next ==
    \/ Administer
    \/ Start \/ Stop
    \/ Scan
    \/ ReadDirFails
    \/ \E n \in Names : ReadFileFails(n)

\* The watcher's goroutines are scheduled fairly.
Spec == Init /\ [][Next]_vars /\ WF_vars(Scan)
----------------------------------------------------------------------------
\* "data must be a valid JSON document" (go/nameq.go), but null ends the service
\* when it is compared, in the scan after the one that finds it at the latest.
KilledByNull ==
    pc = "panicked" /\ \E n \in Names : Null \in {draft[n], local[n]}

\* What the configuration says of a feature.
Configured(n) == Parsed(files[n], Arg[n])

Waking == \E i \in DOMAIN events : ~Ignored(events[i])

\* No change of the configuration is missed: where the local node differs
\* from it, a scan has yet to get there, unless the last one could not read the
\* file, or null ended the service: no other contents do.  An overflow of the
\* queue does no harm, as what is still queued causes a scan, except if the
\* removal is lost of a file whose other events are then ignored.
ScanDue ==
    \A n \in Names : local[n] # Configured(n) =>
        \/ pc \in {"down", "list"} \/ KilledByNull
        \/ pc = "read" /\ (n \in toRead \/ draft[n] = Configured(n))
        \/ Waking
        \/ n \in unread
        \/ lost

\* A call of SetFeature that no other call on that feature has met puts its
\* own data in place, whatever calls that were abandoned have left.
SetWhenAlone ==
    \A w \in alone :
        call[w].step = "rename" => temps[call[w].name] = call[w].value

\* While no two calls of SetFeature on a feature have met, its file only changes
\* to what the one under way is to set: never to the data of an earlier call
\* that was abandoned, nor to a mix or to an empty file, which would take the
\* feature away.
OnlyAsked ==
    [][\A n \in Names :
        files'[n] \notin {files[n], Missing} =>
            \/ \E w \in InCall(n) : files'[n] = call[w].value
            \/ InCall(n) \ alone # {}]_files

\* "Files in the config directory are loaded whenever they appear or change.
\* Their effects are undone when they disappear" (README.md): the service
\* gets to use what a file says, unless it is changed again, cannot be read,
\* or its removal is lost, or the service ends.
FilesReachLocal ==
    \A n \in Names : \A c \in Contents :
        files[n] = c /\ Serving ~>
            \/ local[n] = Parsed(c, Arg[n])
            \/ files[n] # c
            \/ n \in unread \/ lost
            \/ pc = "down" \/ KilledByNull
=============================================================================
