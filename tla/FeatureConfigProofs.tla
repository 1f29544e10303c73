------------------------ MODULE FeatureConfigProofs ------------------------
(***************************************************************************)
(* The safety properties of FeatureConfig for every set of features and    *)
(* documents, every number of writers and every capacity of the queue.     *)
(***************************************************************************)
EXTENDS FeatureConfig, TLAPS

USE DEF disk, writers, scan, vars, NoFeatures, Serving

\* What a file operation does to the queue of events.
LEMMA NotifyChanges ==
    ASSUME TypeOK, NEW op \in {"put", "remove"}, NEW n \in Names, Notify(op, n)
    PROVE  /\ events' \in Seq([op : {"put", "remove"}, name : Names])
           /\ Len(events') <= QueueCap
           /\ lost' \in BOOLEAN
<1>1. CASE UNCHANGED <<events, lost>>
  BY <1>1 DEF TypeOK
<1>2. CASE /\ ~(Len(events) >= QueueCap)
           /\ events' = Append(events, [op |-> op, name |-> n])
           /\ UNCHANGED lost
  BY <1>2, QueueCapAssumption DEF TypeOK
<1>3. CASE lost' = (lost \/ op = "remove") /\ UNCHANGED events
  BY <1>3 DEF TypeOK
<1> QED
  BY <1>1, <1>2, <1>3 DEF Notify

\* A call still is one when the file it has open is moved or removed.
LEMMA MovedType ==
    ASSUME TypeOK, NEW n \in Names, NEW from \in {"temp", "file", "gone"},
           NEW to \in {"temp", "file", "gone"}
    PROVE  Moved(n, from, to) \in [Writers -> Calls \cup {Idle}]
<1> SUFFICES ASSUME NEW w \in Writers
             PROVE  Moved(n, from, to)[w] \in Calls \cup {Idle}
  BY DEF Moved
<1>1. CASE w \notin InCall(n)
  BY <1>1 DEF Moved, TypeOK
<1>2. CASE w \in InCall(n)
  <2>1. call[w] \in Calls
    BY <1>2 DEF TypeOK, InCall
  <2> QED
    BY <1>2, <2>1 DEF Moved, Calls
<1> QED
  BY <1>1, <1>2

\* TypeOK: every variable keeps its type, whatever the files contain and
\* however many callers there are.
THEOREM TypeCorrect == Spec => []TypeOK
<1> USE ContentsAssumption, ArgAssumption, QueueCapAssumption
<1>1. Init => TypeOK
  <2> SUFFICES ASSUME Init PROVE TypeOK
    OBVIOUS
  <2>1. events \in Seq([op : {"put", "remove"}, name : Names])
        /\ Len(events) <= QueueCap
    BY DEF Init
  <2> QED
    BY <2>1 DEF Init, TypeOK, Contents, FeatureMaps
<1>2. TypeOK /\ [Next]_vars => TypeOK'
  <2> SUFFICES ASSUME TypeOK, [Next]_vars PROVE TypeOK'
    OBVIOUS
  <2>1. ASSUME NEW n \in Names, RemoveFeature(n) PROVE TypeOK'
    <3>1. /\ files' \in [Names -> Contents]
          /\ UNCHANGED <<temps, alone, scan, local>>
      BY <2>1 DEF RemoveFeature, TypeOK, Contents
    <3>2. call' \in [Writers -> Calls \cup {Idle}]
      BY <2>1, MovedType DEF RemoveFeature
    <3> QED
      BY <2>1, <3>1, <3>2, NotifyChanges DEF RemoveFeature, TypeOK
  <2>2. ASSUME NEW w \in Writers, NEW n \in Names, NEW v \in Documents,
               Open(w, n, v)
        PROVE  TypeOK'
    <3>1. call' \in [Writers -> Calls \cup {Idle}] /\ alone' \subseteq Writers
      BY <2>2 DEF Open, TypeOK, Calls
    <3>2. temps' \in [Names -> Contents]
      BY <2>2 DEF Open, Create, TypeOK, Contents
    <3> QED
      BY <2>2, <3>1, <3>2 DEF Open, TypeOK
  <2>3. ASSUME NEW w \in Writers, NEW n \in Names, Rename(w, n) PROVE TypeOK'
    <3>1. files' \in [Names -> Contents] /\ temps' \in [Names -> Contents]
      BY <2>3 DEF Rename, TypeOK, Contents
    <3>2. call' \in [Writers -> Calls \cup {Idle}] /\ alone' \subseteq Writers
      BY <2>3, MovedType DEF Rename, Return, TypeOK
    <3> QED
      BY <2>3, <3>1, <3>2, NotifyChanges DEF Rename, TypeOK
  <2>4. ASSUME NEW w \in Writers, NEW n \in Names, Unlink(w, n) PROVE TypeOK'
    <3>1. temps' \in [Names -> Contents]
      BY <2>4 DEF Unlink, TypeOK, Contents
    <3>2. call' \in [Writers -> Calls \cup {Idle}] /\ alone' \subseteq Writers
      BY <2>4, MovedType DEF Unlink, Return, TypeOK
    <3> QED
      BY <2>4, <3>1, <3>2 DEF Unlink, TypeOK
  <2>5. ASSUME NEW w \in Writers, Write(w) PROVE TypeOK'
    <3>1. call[w] \in Calls
      BY <2>5 DEF Write, TypeOK, Idle
    <3>2. /\ call[w].name \in Names
          /\ \A old \in Contents : Written(old, call[w].value) \subseteq Contents
      BY <3>1 DEF Calls, Written, Contents
    <3>3. call' \in [Writers -> Calls \cup {Idle}]
      BY <2>5, <3>1 DEF Write, TypeOK, Calls
    <3>4. /\ files' \in [Names -> Contents] /\ temps' \in [Names -> Contents]
          /\ Notify("put", call[w].name) \/ UNCHANGED <<events, lost>>
      <4>1. CASE call[w].inode = "temp"
        BY <2>5, <3>2, <4>1 DEF Write, TypeOK
      <4>2. CASE call[w].inode = "file"
        BY <2>5, <3>2, <4>2 DEF Write, TypeOK
      <4>3. CASE call[w].inode = "gone"
        BY <2>5, <4>3 DEF Write, TypeOK
      <4> QED
        BY <3>1, <4>1, <4>2, <4>3 DEF Calls
    <3>5. /\ events' \in Seq([op : {"put", "remove"}, name : Names])
          /\ Len(events') <= QueueCap /\ lost' \in BOOLEAN
      BY <3>2, <3>4, NotifyChanges DEF TypeOK
    <3> QED
      BY <2>5, <3>3, <3>4, <3>5 DEF Write, TypeOK
  <2>6. ASSUME NEW w \in Writers, RenameFails(w) PROVE TypeOK'
    <3>1. call' \in [Writers -> Calls \cup {Idle}]
      BY <2>6 DEF RenameFails, TypeOK, Calls, Idle
    <3> QED
      BY <2>6, <3>1 DEF RenameFails, TypeOK
  <2>7. ASSUME NEW w \in Writers, Abandon(w) PROVE TypeOK'
    BY <2>7 DEF Abandon, Return, TypeOK
  <2>8. CASE Start \/ Stop
    <3>1. events' = <<>> /\ Len(events') <= QueueCap
      BY <2>8 DEF Start, Stop, Reset
    <3>2. events' \in Seq([op : {"put", "remove"}, name : Names])
      BY <3>1
    <3> QED
      BY <2>8, <3>1, <3>2 DEF Start, Stop, Reset, TypeOK, FeatureMaps
  <2>9. CASE ReadDir \/ ReadDirFails
    BY <2>9 DEF ReadDir, ReadDirFails, TypeOK, FeatureMaps
  <2>10. ASSUME NEW n \in Names, ReadFile(n) PROVE TypeOK'
    <3>1. Parsed(files[n], draft[n]) \in Documents \cup {Missing}
      BY DEF Parsed, TypeOK, FeatureMaps, Contents
    <3>2. draft' \in FeatureMaps
      BY <2>10, <3>1 DEF ReadFile, TypeOK, FeatureMaps
    <3> QED
      BY <2>10, <3>2 DEF ReadFile, TypeOK
  <2>11. ASSUME NEW n \in Names, ReadFileFails(n) PROVE TypeOK'
    BY <2>11 DEF ReadFileFails, TypeOK
  <2>12. CASE Update \/ KeepFeatures \/ Panic
    BY <2>12 DEF Update, KeepFeatures, Panic, EndScan, TypeOK, FeatureMaps
  <2>13. CASE TakeEvent \/ DropEvent
    <3>1. /\ events' \in Seq([op : {"put", "remove"}, name : Names])
          /\ Len(events') <= QueueCap
      <4>1. events # <<>> /\ events' = Tail(events)
        BY <2>13 DEF TakeEvent, DropEvent
      <4>2. /\ events \in Seq([op : {"put", "remove"}, name : Names])
            /\ Len(events) <= QueueCap
        BY DEF TypeOK
      <4> QED
        BY <4>1, <4>2
    <3> QED
      BY <2>13, <3>1 DEF TakeEvent, DropEvent, TypeOK
  <2>14. CASE UNCHANGED vars
    BY <2>14 DEF TypeOK
  <2> QED
    BY <2>1, <2>2, <2>3, <2>4, <2>5, <2>6, <2>7, <2>8, <2>9, <2>10, <2>11,
       <2>12, <2>13, <2>14 DEF Next, Administer, Scan
<1> QED
  BY <1>1, <1>2, PTL DEF Spec
----------------------------------------------------------------------------
(* SetFeature *)

\* What the end of a call, and the renaming or removal of files that are open
\* elsewhere, leave of the calls.
LEMMA MovedChanges ==
    ASSUME TypeOK, NEW n \in Names, NEW from \in {"temp", "file", "gone"},
           NEW to \in {"temp", "file", "gone"}
    PROVE  /\ \A w \in Writers : Moved(n, from, to)[w] = Idle <=> call[w] = Idle
           /\ \A w \in Writers : call[w] # Idle =>
                  /\ Moved(n, from, to)[w].name = call[w].name
                  /\ Moved(n, from, to)[w].step = call[w].step
                  /\ Moved(n, from, to)[w].value = call[w].value
                  /\ call[w].name # n => Moved(n, from, to)[w] = call[w]
<1> SUFFICES ASSUME NEW w \in Writers
             PROVE  /\ Moved(n, from, to)[w] = Idle <=> call[w] = Idle
                    /\ call[w] # Idle =>
                          /\ Moved(n, from, to)[w].name = call[w].name
                          /\ Moved(n, from, to)[w].step = call[w].step
                          /\ Moved(n, from, to)[w].value = call[w].value
                          /\ call[w].name # n =>
                                 Moved(n, from, to)[w] = call[w]
  OBVIOUS
<1>1. CASE w \notin InCall(n)
  BY <1>1 DEF Moved
<1>2. CASE w \in InCall(n)
  <2>1. call[w] \in Calls /\ call[w] # Idle /\ call[w].name = n
    BY <1>2 DEF TypeOK, InCall
  <2> DEFINE i == IF call[w].inode = from THEN to
                  ELSE IF call[w].inode = to THEN "gone" ELSE call[w].inode
  <2>2. Moved(n, from, to)[w] = [call[w] EXCEPT !.inode = i]
    BY <1>2 DEF Moved
  <2>3. /\ Moved(n, from, to)[w].step = call[w].step
        /\ Moved(n, from, to)[w].name = call[w].name
        /\ Moved(n, from, to)[w].value = call[w].value
    BY <2>1, <2>2 DEF Calls
  <2>4. call[w].step # "idle"
    BY <2>1 DEF Calls
  <2> QED
    BY <2>1, <2>3, <2>4 DEF Idle
<1> QED
  BY <1>1, <1>2

\* A call that no other has met has the temporary file for itself, with
\* nothing in it before it has written.
Alone(w) ==
    /\ call[w] # Idle /\ InCall(call[w].name) = {w}
    /\ call[w].step = "write" =>
           call[w].inode = "temp" /\ temps[call[w].name] = Blank
    /\ call[w].step = "rename" => temps[call[w].name] = call[w].value
    /\ call[w].step # "unlink"

\* A step that leaves the writer and its file alone, and begins no call on it.
LEMMA StaysAlone ==
    ASSUME TypeOK, TypeOK', NEW w \in Writers, Alone(w),
           call'[w] = call[w], temps'[call[w].name] = temps[call[w].name],
           \A x \in Writers : call'[x] # Idle =>
               \/ call[x] # Idle /\ call'[x].name = call[x].name
               \/ call'[x].name # call[w].name
    PROVE  Alone(w)'
<1>1. InCall(call[w].name)' = {w}
  BY DEF Alone, InCall
<1> QED
  BY <1>1 DEF Alone

\* A call that has not met another is the only one on its feature.
LEMMA OtherName ==
    ASSUME TypeOK, NEW w \in Writers, Alone(w), NEW x \in Writers, x # w,
           call[x] # Idle
    PROVE  call[x].name # call[w].name
  BY DEF Alone, InCall

\* A call that no other on its feature meets has the temporary file to itself
\* until it returns, though others may have left something there.
THEOREM AloneHolds == Spec => [](\A w \in alone : Alone(w))
<1> DEFINE Inv == \A w \in alone : Alone(w)
<1> USE ContentsAssumption
<1>1. Init => Inv
  BY DEF Init
<1>2. TypeOK /\ TypeOK' /\ Inv /\ [Next]_vars => Inv'
  <2> SUFFICES ASSUME TypeOK, TypeOK', Inv, [Next]_vars,
                      NEW w \in Writers, w \in alone'
               PROVE  Alone(w)'
    BY DEF TypeOK
  <2>1. ASSUME NEW n \in Names, RemoveFeature(n) PROVE Alone(w)'
    <3>1. /\ Alone(w) /\ call' = Moved(n, "file", "gone")
          /\ UNCHANGED temps
      BY <2>1 DEF RemoveFeature
    <3>2. /\ call'[w] # Idle /\ call'[w].name = call[w].name
          /\ call'[w].step = call[w].step /\ call'[w].value = call[w].value
      BY <3>1, MovedChanges DEF Alone
    <3>3. InCall(call[w].name)' = InCall(call[w].name)
      BY <3>1, MovedChanges DEF InCall
    <3>4. call[w].inode = "temp" => call'[w].inode = "temp"
      <4>1. call[w] \in Calls
        BY <3>1 DEF Alone, TypeOK
      <4> QED
        BY <3>1, <4>1 DEF Moved, Calls
    <3> QED
      BY <3>1, <3>2, <3>3, <3>4 DEF Alone
  <2>2. ASSUME NEW x \in Writers, NEW n \in Names, NEW v \in Documents,
               Open(x, n, v)
        PROVE  Alone(w)'
    <3> DEFINE c == [name |-> n, value |-> v, step |-> "write",
                     inode |-> "temp"]
    <3>1. /\ call[x] = Idle /\ call' = [call EXCEPT ![x] = c]
          /\ temps' = [temps EXCEPT ![n] = Blank]
          /\ alone' = IF InCall(n) = {} THEN alone \cup {x}
                                        ELSE alone \ InCall(n)
      BY <2>2 DEF Open, Create
    <3>2. c # Idle /\ c.name = n /\ c.step = "write" /\ c.inode = "temp"
      BY DEF Idle
    <3>3. call'[x] = c /\ \A y \in Writers \ {x} : call'[y] = call[y]
      BY <3>1 DEF TypeOK
    <3> HIDE DEF c
    <3>4. CASE w = x
      <4>1. InCall(n) = {}
        BY <3>1, <3>4 DEF Alone
      <4>2. InCall(n)' = {x}
        BY <3>2, <3>3, <4>1 DEF InCall
      <4>3. temps'[n] = Blank
        BY <3>1 DEF TypeOK
      <4> QED
        BY <3>2, <3>3, <3>4, <4>2, <4>3 DEF Alone
    <3>5. CASE w # x
      <4>1. w \in alone /\ Alone(w) /\ w \notin InCall(n)
        BY <3>1, <3>5
      <4>2. call[w].name # n
        BY <4>1 DEF Alone, InCall
      <4>3. /\ call'[w] = call[w] /\ call[w] # Idle
            /\ temps'[call[w].name] = temps[call[w].name]
        BY <3>1, <3>3, <3>5, <4>1, <4>2 DEF TypeOK, Alone
      <4> QED
        BY <3>2, <3>3, <4>1, <4>2, <4>3, StaysAlone
    <3> QED
      BY <3>4, <3>5
  <2>3. ASSUME NEW x \in Writers, NEW n \in Names,
               Rename(x, n) \/ Unlink(x, n)
        PROVE  Alone(w)'
    <3>1. PICK from \in {"temp"}, to \in {"file", "gone"} :
             /\ call' = [Moved(n, from, to) EXCEPT ![x] = Idle]
             /\ alone' = alone \ {x}
             /\ temps' = [temps EXCEPT ![n] = Missing]
      BY <2>3 DEF Rename, Unlink, Return
    <3>2. call[x] # Idle /\ call[x].name = n
      BY <2>3 DEF Rename, Unlink, Idle
    <3>3. w # x /\ Alone(w)
      BY <3>1
    <3>4. call[w].name # n
      BY <3>2, <3>3, OtherName
    <3>5. /\ call'[w] = call[w]
          /\ \A y \in Writers : call'[y] # Idle =>
                 call[y] # Idle /\ call'[y].name = call[y].name
      <4>1. /\ call'[x] = Idle
            /\ \A y \in Writers \ {x} : call'[y] = Moved(n, from, to)[y]
        BY <3>1, MovedType
      <4> QED
        BY <3>3, <3>4, <4>1, MovedChanges DEF Alone
    <3>6. temps'[call[w].name] = temps[call[w].name]
      BY <3>1, <3>4 DEF TypeOK
    <3> QED
      BY <3>3, <3>5, <3>6, StaysAlone
  <2>4. ASSUME NEW x \in Writers, Write(x) PROVE Alone(w)'
    <3> DEFINE c == call[x]
    <3>1. c \in Calls /\ c # Idle /\ c.step = "write"
      BY <2>4 DEF Write, TypeOK, Idle
    <3>2. /\ call' = [call EXCEPT ![x].step = "rename", ![x].inode = "gone"]
          /\ UNCHANGED alone
          /\ c.inode = "temp" =>
                \E content \in Written(temps[c.name], c.value) :
                    temps' = [temps EXCEPT ![c.name] = content]
          /\ c.inode # "temp" => UNCHANGED temps
      BY <2>4, <3>1 DEF Write, Calls
    <3>3. /\ call'[x] # Idle /\ call'[x].name = c.name
          /\ call'[x].step = "rename" /\ call'[x].value = c.value
          /\ \A y \in Writers \ {x} : call'[y] = call[y]
      BY <3>1, <3>2 DEF TypeOK, Calls, Idle
    <3>4. Alone(w)
      BY <3>2
    <3>5. CASE w = x
      <4>1. c.inode = "temp" /\ temps[c.name] = Blank /\ InCall(c.name) = {w}
        BY <3>1, <3>4, <3>5 DEF Alone
      <4>2. temps'[c.name] = c.value
        BY <3>1, <3>2, <4>1 DEF Written, TypeOK, Calls
      <4>3. InCall(call[w].name)' = {w}
        BY <3>1, <3>3, <3>5, <4>1 DEF InCall
      <4>4. call'[w].step = "rename" /\ call'[w].step # "write"
            /\ call'[w].step # "unlink"
        BY <3>3, <3>5
      <4>5. temps'[call'[w].name] = call'[w].value
        BY <3>3, <3>5, <4>2
      <4> QED
        BY <3>3, <3>5, <4>3, <4>4, <4>5 DEF Alone
    <3>6. CASE w # x
      <4>1. c.name # call[w].name
        BY <3>1, <3>4, <3>6, OtherName
      <4>2. temps'[call[w].name] = temps[call[w].name]
        BY <3>1, <3>2, <4>1 DEF TypeOK, Calls
      <4> QED
        BY <3>1, <3>3, <3>4, <3>6, <4>1, <4>2, StaysAlone
    <3> QED
      BY <3>5, <3>6
  <2>5. ASSUME NEW x \in Writers, RenameFails(x) PROVE Alone(w)'
    <3>1. /\ call[x] \in Calls /\ call[x] # Idle
          /\ call[x].step = "rename" /\ temps[call[x].name] = Missing
          /\ call' = [call EXCEPT ![x].step = "unlink"]
          /\ UNCHANGED <<temps, alone>>
      BY <2>5 DEF RenameFails, TypeOK, Idle
    <3>2. Alone(w)
      BY <3>1
    <3>3. call[x].value # Missing
      BY <3>1 DEF Calls
    <3>4. w # x
      BY <3>1, <3>2, <3>3 DEF Alone
    <3>5. /\ call'[x].name = call[x].name
          /\ \A y \in Writers \ {x} : call'[y] = call[y]
      BY <3>1 DEF TypeOK, Calls
    <3> QED
      BY <3>1, <3>2, <3>4, <3>5, StaysAlone
  <2>6. ASSUME NEW x \in Writers, Abandon(x) PROVE Alone(w)'
    <3>1. /\ call' = [call EXCEPT ![x] = Idle] /\ alone' = alone \ {x}
          /\ UNCHANGED temps
      BY <2>6 DEF Abandon, Return
    <3> QED
      BY <3>1, StaysAlone DEF TypeOK
  <2>7. CASE UNCHANGED <<call, alone, temps>>
    BY <2>7 DEF Alone, InCall
  <2>8. ASSUME ~UNCHANGED <<call, alone, temps>>
        PROVE  Administer
    BY <2>8 DEF Next, Scan, Start, Stop, Reset, ReadDir, ReadFile, Update,
       KeepFeatures, EndScan, Panic, TakeEvent, DropEvent, ReadDirFails,
       ReadFileFails
  <2> QED
    BY <2>1, <2>2, <2>3, <2>4, <2>5, <2>6, <2>7, <2>8 DEF Administer
<1> QED
  BY <1>1, <1>2, TypeCorrect, PTL DEF Spec

\* A call of SetFeature that no other on its feature has met puts its own data
\* in place.
THEOREM SetWhenAloneHolds == Spec => []SetWhenAlone
<1>1. (\A w \in alone : Alone(w)) => SetWhenAlone
  BY DEF Alone, SetWhenAlone
<1> QED
  BY <1>1, AloneHolds, PTL

\* OnlyAsked: a file is made by renaming the one that the caller has written
\* alone, and none that has been renamed is written but by callers that met.
THEOREM OnlyAskedHolds == Spec => OnlyAsked
<1> DEFINE Asked(n) ==
             files'[n] \notin {files[n], Missing} =>
                 \/ \E w \in InCall(n) : files'[n] = call[w].value
                 \/ InCall(n) \ alone # {}
<1>1. TypeOK /\ (\A w \in alone : Alone(w)) /\ [Next]_vars =>
          \A n \in Names : Asked(n)
  <2> SUFFICES ASSUME TypeOK, \A w \in alone : Alone(w), [Next]_vars,
                      NEW n \in Names, files'[n] \notin {files[n], Missing},
                      InCall(n) \subseteq alone
               PROVE  \E w \in InCall(n) : files'[n] = call[w].value
    OBVIOUS
  <2>1. ASSUME NEW x \in Writers, NEW m \in Names, Rename(x, m)
        PROVE  \E w \in InCall(n) : files'[n] = call[w].value
    <3>1. /\ call[x].step = "rename" /\ call[x].name = m
          /\ files' = [files EXCEPT ![m] = temps[m]]
      BY <2>1 DEF Rename
    <3>2. m = n /\ files'[n] = temps[n]
      BY <3>1 DEF TypeOK
    <3>3. x \in InCall(n)
      BY <3>1, <3>2 DEF InCall, Idle
    <3> QED
      BY <3>1, <3>2, <3>3 DEF Alone
  <2>2. ASSUME NEW x \in Writers, Write(x) PROVE FALSE
    <3>1. call[x].step = "write" /\ call[x] \in Calls
      BY <2>2 DEF Write, TypeOK, Idle
    <3>2. call[x].inode = "file" /\ call[x].name = n
      <4>1. CASE call[x].inode \in {"temp", "gone"}
        <5>1. UNCHANGED files
          BY <2>2, <4>1 DEF Write, disk
        <5> QED
          BY <5>1
      <4>2. CASE call[x].inode = "file"
        <5>1. \E content : files' = [files EXCEPT ![call[x].name] = content]
          BY <2>2, <4>2 DEF Write
        <5> QED
          BY <4>2, <5>1 DEF TypeOK
      <4> QED
        BY <3>1, <4>1, <4>2 DEF Calls
    <3>3. x \in InCall(n)
      BY <3>1, <3>2 DEF InCall, Idle
    <3> QED
      BY <3>1, <3>2, <3>3 DEF Alone
  <2>3. ASSUME NEW m \in Names, RemoveFeature(m) PROVE FALSE
    BY <2>3 DEF RemoveFeature, TypeOK
  <2>4. ASSUME \/ \E x \in Writers, m \in Names :
                      (\E v \in Documents : Open(x, m, v)) \/ Unlink(x, m)
               \/ \E x \in Writers : RenameFails(x) \/ Abandon(x)
               \/ Start \/ Stop \/ Scan \/ ReadDirFails
               \/ \E m \in Names : ReadFileFails(m)
               \/ UNCHANGED vars
        PROVE  FALSE
    <3>1. UNCHANGED files
      BY <2>4 DEF Open, Unlink, RenameFails, Abandon, Start, Stop, Reset, Scan,
                  ReadDir, ReadFile, Update, KeepFeatures, EndScan, Panic,
                  TakeEvent, DropEvent, ReadDirFails, ReadFileFails, disk, vars
    <3> QED
      BY <3>1
  <2> QED
    BY <2>1, <2>2, <2>3, <2>4 DEF Next, Administer
<1> QED
  BY <1>1, TypeCorrect, AloneHolds, PTL DEF Spec, OnlyAsked
----------------------------------------------------------------------------
(* The watcher *)

\* A file that a writer has open under its own name is there.
OpenThere ==
    \A w \in Writers :
        call[w] # Idle /\ call[w].inode = "file" =>
            files[call[w].name] # Missing

\* What is queued last is not ignored, so a full queue causes a scan.
LastWakes ==
    Serving /\ events # <<>> => lost \/ ~Ignored(events[Len(events)])

\* A scan is to come, or cannot be expected to see the file.
Mend(n) == Waking \/ n \in unread \/ lost

Current(n) ==
    /\ pc = "idle" => local[n] = Configured(n) \/ Mend(n)
    /\ pc = "read" /\ n \notin toRead => draft[n] = Configured(n) \/ Mend(n)
    /\ pc = "read" /\ n \in toRead => draft[n] = Arg[n]
    /\ pc = "panicked" => KilledByNull

Watched == OpenThere /\ LastWakes /\ \A n \in Names : Current(n)

\* The inode of a call after files were moved.
LEMMA MovedInode ==
    ASSUME TypeOK, NEW n \in Names, NEW from \in {"temp", "file"},
           NEW to \in {"file", "gone"}, NEW w \in Writers, from # to,
           Moved(n, from, to)[w] # Idle, Moved(n, from, to)[w].inode = "file"
    PROVE  \/ call[w].name # n /\ call[w].inode = "file"
           \/ to = "file"
           \/ from = "temp" /\ call[w].inode = "file"
<1>1. CASE w \notin InCall(n)
  BY <1>1, MovedChanges DEF Moved, InCall
<1>2. CASE w \in InCall(n)
  <2>1. call[w] \in Calls
    BY <1>2 DEF TypeOK, InCall
  <2>2. Moved(n, from, to)[w].inode =
            IF call[w].inode = from THEN to
            ELSE IF call[w].inode = to THEN "gone" ELSE call[w].inode
    BY <1>2, <2>1 DEF Moved, Calls
  <2> QED
    BY <2>2
<1> QED
  BY <1>1, <1>2

\* While the service runs a change of a file wakes the watcher, or is a removal
\* that is lost.
LEMMA ChangeWakes ==
    ASSUME TypeOK, TypeOK', Watched, NEW n \in Names,
           NEW op \in {"put", "remove"}, Notify(op, n), Serving,
           op = "put" => files'[n] # Missing,
           \A m \in Names \ {n} : files'[m] = files[m]
    PROVE  LastWakes' /\ (Waking' \/ lost')
<1> DEFINE event == [op |-> op, name |-> n]
           last == events[Len(events)]
<1>1. /\ events \in Seq([op : {"put", "remove"}, name : Names])
      /\ events' \in Seq([op : {"put", "remove"}, name : Names])
  BY DEF TypeOK
<1>2. /\ ~(event.op = "put" /\ files'[event.name] = Missing)
      /\ event \in [op : {"put", "remove"}, name : Names]
  OBVIOUS
<1>3. SUFFICES /\ events' # <<>>
               /\ lost' \/ ~(/\ events'[Len(events')].op = "put"
                             /\ files'[events'[Len(events')].name] = Missing)
  <2>1. Len(events') \in DOMAIN events'
    BY <1>1, <1>3
  <2> QED
    BY <1>3, <2>1 DEF LastWakes, Waking, Ignored
<1>4. CASE events' = Append(events, event)
  <2>1. events' # <<>> /\ events'[Len(events')] = event
    BY <1>1, <1>2, <1>4
  <2> QED
    BY <1>2, <2>1
<1>5. CASE events # <<>> /\ last = event /\ UNCHANGED events
  BY <1>2, <1>5
<1>6. CASE /\ Len(events) >= QueueCap /\ UNCHANGED events
           /\ lost' = (lost \/ op = "remove")
  <2>1. events # <<>>
    BY <1>1, <1>6, QueueCapAssumption
  <2>2. last \in [op : {"put", "remove"}, name : Names]
    <3> DEFINE E == [op : {"put", "remove"}, name : Names]
    <3>1. events \in Seq(E)
      BY <1>1
    <3> HIDE DEF E
    <3>2. last \in E
      BY <2>1, <3>1
    <3> QED
      BY <3>2 DEF E
  <2>3. lost \/ ~(last.op = "put" /\ files[last.name] = Missing)
    BY <2>1 DEF Watched, LastWakes, Ignored
  <2>4. CASE op = "remove"
    BY <1>6, <2>1, <2>4
  <2>5. CASE op = "put"
    <3>1. lost \/ ~(last.op = "put" /\ files'[last.name] = Missing)
      BY <2>2, <2>3, <2>5
    <3> QED
      BY <1>6, <2>1, <3>1
  <2> QED
    BY <2>4, <2>5
<1> QED
  BY <1>4, <1>5, <1>6 DEF Notify

\* While the service does not run nothing of its state changes.
LEMMA ChangeWatched ==
    ASSUME TypeOK, TypeOK', Watched, NEW n \in Names,
           NEW op \in {"put", "remove"}, Notify(op, n),
           op = "put" => files'[n] # Missing,
           \A m \in Names \ {n} : files'[m] = files[m],
           UNCHANGED <<scan, local>>
    PROVE  LastWakes' /\ \A m \in Names : Current(m)'
<1>1. CASE Serving
  <2>1. LastWakes' /\ (Waking' \/ lost')
    BY <1>1, ChangeWakes
  <2> QED
    BY <1>1, <2>1 DEF Watched, Current, Mend
<1>2. CASE ~Serving
  BY <1>2 DEF Watched, Current, KilledByNull, LastWakes
<1> QED
  BY <1>1, <1>2

\* What was ignored and taken off the queue woke nobody.
LEMMA TailWakes ==
    ASSUME TypeOK, Watched, DropEvent
    PROVE  (Waking => Waking') /\ LastWakes'
<1> DEFINE E == [op : {"put", "remove"}, name : Names]
<1>1. /\ events \in Seq(E) /\ events # <<>> /\ events' = Tail(events)
      /\ Ignored(Head(events)) /\ Serving
      /\ UNCHANGED <<disk, lost, scan>>
  BY DEF DropEvent, TypeOK
<1> HIDE DEF E
<1>2. /\ DOMAIN events = 1..Len(events) /\ Len(events) \in Nat \ {0}
      /\ Head(events) = events[1]
      /\ DOMAIN events' = 1..(Len(events) - 1)
      /\ Len(events') = Len(events) - 1
      /\ \A i \in DOMAIN events' : events'[i] = events[i + 1]
  BY <1>1
<1>3. ASSUME Waking PROVE Waking'
  <2>1. PICK i \in DOMAIN events : ~Ignored(events[i])
    BY <1>3 DEF Waking
  <2>2. i # 1
    BY <1>1, <1>2, <2>1
  <2>3. i - 1 \in DOMAIN events' /\ events'[i - 1] = events[i]
    BY <1>2, <2>1, <2>2
  <2> QED
    BY <1>1, <2>1, <2>3 DEF Waking, Ignored
<1>4. ASSUME events' # <<>> PROVE events'[Len(events')] = events[Len(events)]
  <2>1. Len(events') # 0
    BY <1>1, <1>4
  <2> QED
    BY <1>2, <2>1
<1>5. LastWakes'
  BY <1>1, <1>4 DEF Watched, LastWakes, Ignored
<1> QED
  BY <1>3, <1>5

\* What the service has read is current, or a scan is to come: also when the
\* queue of events is full, because what is last in it causes one.
THEOREM WatchedHolds == Spec => []Watched
<1> USE ContentsAssumption, ArgAssumption
<1>1. Init => Watched
  BY DEF Init, Watched, OpenThere, LastWakes, Current, Idle
<1>2. TypeOK /\ TypeOK' /\ Watched /\ [Next]_vars => Watched'
  <2> SUFFICES ASSUME TypeOK, TypeOK', Watched, [Next]_vars PROVE Watched'
    OBVIOUS
  <2>1. ASSUME NEW n \in Names, RemoveFeature(n) PROVE Watched'
    <3>1. /\ files' = [files EXCEPT ![n] = Missing]
          /\ call' = Moved(n, "file", "gone") /\ Notify("remove", n)
          /\ UNCHANGED <<scan, local>>
      BY <2>1 DEF RemoveFeature
    <3>2. \A m \in Names \ {n} : files'[m] = files[m]
      BY <3>1 DEF TypeOK
    <3>3. OpenThere'
      <4> SUFFICES ASSUME NEW w \in Writers, call'[w] # Idle,
                          call'[w].inode = "file"
                   PROVE  files'[call'[w].name] # Missing
        BY DEF OpenThere
      <4>1. /\ call[w] # Idle /\ call'[w].name = call[w].name
            /\ call[w].name # n /\ call[w].inode = "file"
        BY <3>1, MovedChanges, MovedInode
      <4>2. call[w].name \in Names
        BY <4>1 DEF TypeOK, Calls
      <4> QED
        BY <3>2, <4>1, <4>2 DEF Watched, OpenThere
    <3> QED
      BY <3>1, <3>2, <3>3, ChangeWatched DEF Watched
  <2>2. ASSUME NEW w \in Writers, NEW n \in Names, Rename(w, n) PROVE Watched'
    <3>1. /\ files' = [files EXCEPT ![n] = temps[n]] /\ temps[n] # Missing
          /\ call' = [Moved(n, "temp", "file") EXCEPT ![w] = Idle]
          /\ Notify("put", n) /\ UNCHANGED <<scan, local>>
      BY <2>2 DEF Rename, Return
    <3>2. files'[n] # Missing /\ \A m \in Names \ {n} : files'[m] = files[m]
      BY <3>1 DEF TypeOK
    <3>3. OpenThere'
      <4> SUFFICES ASSUME NEW x \in Writers, call'[x] # Idle,
                          call'[x].inode = "file"
                   PROVE  files'[call'[x].name] # Missing
        BY DEF OpenThere
      <4>1. x # w /\ call'[x] = Moved(n, "temp", "file")[x]
        BY <3>1, MovedType
      <4>2. /\ call[x] # Idle /\ call'[x].name = call[x].name
            /\ call[x].name # n =>
                   call'[x] = call[x]
        BY <4>1, MovedChanges
      <4>3. call[x].name \in Names
        BY <4>2 DEF TypeOK, Calls
      <4> QED
        BY <3>2, <4>2, <4>3 DEF Watched, OpenThere
    <3> QED
      BY <3>1, <3>2, <3>3, ChangeWatched DEF Watched
  <2>3. ASSUME NEW w \in Writers, Write(w) PROVE Watched'
    <3> DEFINE n == call[w].name
    <3>1. call[w] \in Calls /\ call[w] # Idle
      BY <2>3 DEF Write, TypeOK, Idle
    <3>2. /\ call' = [call EXCEPT ![w].step = "rename", ![w].inode = "gone"]
          /\ UNCHANGED <<scan, local>>
      BY <2>3 DEF Write
    <3>3. \A x \in Writers :
             /\ call'[x] # Idle => call[x] # Idle
             /\ call'[x] # Idle /\ call'[x].inode = "file" =>
                    call'[x] = call[x]
      BY <3>1, <3>2 DEF TypeOK, Calls
    <3>4. CASE call[w].inode = "file"
      <4>1. PICK content \in Written(files[n], call[w].value) :
                files' = [files EXCEPT ![n] = content]
        BY <2>3, <3>4 DEF Write
      <4>2. Notify("put", n)
        BY <2>3, <3>4 DEF Write
      <4>3. content # Missing /\ n \in Names
        BY <3>1 DEF Written, Calls
      <4>4. files'[n] # Missing /\ \A m \in Names \ {n} : files'[m] = files[m]
        BY <4>1, <4>3 DEF TypeOK
      <4>5. OpenThere'
        <5> SUFFICES ASSUME NEW x \in Writers, call'[x] # Idle,
                            call'[x].inode = "file"
                     PROVE  files'[call'[x].name] # Missing
          BY DEF OpenThere
        <5>1. call'[x] = call[x] /\ call[x] # Idle /\ call[x].name \in Names
          BY <3>3 DEF TypeOK, Calls
        <5> HIDE DEF n
        <5> QED
          BY <4>4, <5>1 DEF Watched, OpenThere
      <4>6. LastWakes' /\ \A m \in Names : Current(m)'
        <5> HIDE DEF n
        <5> QED
          BY <3>2, <4>2, <4>3, <4>4, ChangeWatched
      <4> QED
        BY <4>5, <4>6 DEF Watched
    <3>5. CASE call[w].inode # "file"
      <4>1. UNCHANGED <<files, events, lost>>
        BY <2>3, <3>1, <3>5 DEF Write, Calls
      <4> QED
        <5>1. OpenThere'
          BY <3>3, <4>1 DEF Watched, OpenThere
        <5> QED
          BY <3>2, <4>1, <5>1 DEF Watched, LastWakes, Ignored,
             Current, Mend, Waking, Configured, KilledByNull
    <3> QED
      BY <3>4, <3>5
  <2>4. ASSUME UNCHANGED <<files, events, scan, lost, local>>, OpenThere'
        PROVE  Watched'
    BY <2>4 DEF Watched, LastWakes, Ignored, Current, Mend, Waking,
       Configured, KilledByNull
  <2>5. ASSUME NEW w \in Writers, NEW n \in Names, NEW v \in Documents,
               Open(w, n, v)
        PROVE  Watched'
    <3>1. UNCHANGED <<files, events, scan, lost, local>>
      BY <2>5 DEF Open
    <3>2. /\ call'[w].inode = "temp"
          /\ \A x \in Writers \ {w} : call'[x] = call[x]
      BY <2>5 DEF Open, TypeOK
    <3> QED
      BY <2>4, <3>1, <3>2 DEF Watched, OpenThere
  <2>6. ASSUME NEW w \in Writers, NEW n \in Names, Unlink(w, n) PROVE Watched'
    <3>1. /\ UNCHANGED <<files, events, scan, lost, local>>
          /\ call' = [Moved(n, "temp", "gone") EXCEPT ![w] = Idle]
      BY <2>6 DEF Unlink, Return
    <3>2. OpenThere'
      <4> SUFFICES ASSUME NEW x \in Writers, call'[x] # Idle,
                          call'[x].inode = "file"
                   PROVE  files'[call'[x].name] # Missing
        BY DEF OpenThere
      <4>1. x # w /\ call'[x] = Moved(n, "temp", "gone")[x]
        BY <3>1, MovedType
      <4>2. /\ call[x] # Idle /\ call'[x].name = call[x].name
            /\ call[x].inode = "file"
        BY <4>1, MovedChanges, MovedInode
      <4> QED
        BY <3>1, <4>2 DEF Watched, OpenThere
    <3> QED
      BY <2>4, <3>1, <3>2
  <2>7. ASSUME NEW w \in Writers, RenameFails(w) \/ Abandon(w) PROVE Watched'
    <3>1. UNCHANGED <<files, events, scan, lost, local>>
      BY <2>7 DEF RenameFails, Abandon, Return
    <3>2. \A x \in Writers : call'[x] # Idle =>
             /\ call[x] # Idle /\ call'[x].name = call[x].name
             /\ call'[x].inode = call[x].inode
      BY <2>7 DEF RenameFails, Abandon, Return, TypeOK, Calls, Idle
    <3> QED
      BY <2>4, <3>1, <3>2 DEF Watched, OpenThere
  <2>8. CASE UNCHANGED vars
    BY <2>4, <2>8 DEF Watched, OpenThere
  <2>9. ASSUME UNCHANGED <<disk, writers>> PROVE OpenThere'
    BY <2>9 DEF Watched, OpenThere
  <2>10. CASE Start \/ Stop
    BY <2>9, <2>10 DEF Start, Stop, Reset, Watched, LastWakes, Current
  <2>11. CASE ReadDir
    <3>1. \A n \in Names : Current(n)'
      BY <2>11 DEF ReadDir, Current, Configured, Parsed
    <3>2. LastWakes'
      BY <2>11 DEF ReadDir, Watched, LastWakes, Ignored
    <3> QED
      BY <2>9, <2>11, <3>1, <3>2 DEF ReadDir, Watched
  <2>12. CASE ReadDirFails
    BY <2>9, <2>12 DEF ReadDirFails, Watched, LastWakes, Ignored, Current, Mend
  <2>13. ASSUME NEW n \in Names, ReadFile(n) PROVE Watched'
    <3>1. draft'[n] = Configured(n)
      BY <2>13 DEF ReadFile, Watched, Current, Configured, TypeOK, FeatureMaps
    <3>2. \A m \in Names \ {n} : draft'[m] = draft[m]
      BY <2>13 DEF ReadFile, TypeOK, FeatureMaps
    <3>3. \A m \in Names : Current(m)'
      BY <2>13, <3>1, <3>2 DEF ReadFile, Watched, Current, Configured, Mend,
         Waking, Ignored
    <3> QED
      BY <2>9, <2>13, <3>3 DEF ReadFile, Watched, LastWakes, Ignored
  <2>14. ASSUME NEW n \in Names, ReadFileFails(n) PROVE Watched'
    BY <2>9, <2>14 DEF ReadFileFails, Watched, LastWakes, Ignored, Current,
       Configured, Mend, Waking
  <2>15. CASE Update \/ KeepFeatures
    <3>1. /\ pc = "read" /\ toRead = {} /\ pc' = "idle"
          /\ UNCHANGED <<disk, writers, events, toRead, unread, lost>>
      BY <2>15 DEF Update, KeepFeatures, EndScan, Scanned
    <3>2. \A n \in Names : local'[n] = draft[n]
      <4>1. CASE Update
        BY <4>1 DEF Update, EndScan
      <4>2. CASE KeepFeatures
        BY <4>2 DEF KeepFeatures, EndScan, Differ, Nils, Vanished, Compared
      <4> QED
        BY <2>15, <4>1, <4>2
    <3> QED
      BY <2>9, <3>1, <3>2 DEF Watched, LastWakes, Ignored, Current,
         Configured, Mend, Waking
  <2>16. CASE Panic
    BY <2>9, <2>16 DEF Panic, Nils, Compared, Watched, LastWakes, Current,
       KilledByNull
  <2>17. CASE TakeEvent
    <3>1. /\ pc' = "list" /\ Serving /\ events # <<>>
          /\ events' = Tail(events)
          /\ UNCHANGED <<disk, writers, toRead, draft, unread, lost, local>>
      BY <2>17 DEF TakeEvent
    <3>2. events' # <<>> => events'[Len(events')] = events[Len(events)]
      BY <3>1 DEF TypeOK
    <3>3. LastWakes'
      BY <3>1, <3>2 DEF Watched, LastWakes, Ignored
    <3> QED
      BY <2>9, <3>1, <3>3 DEF Watched, Current
  <2>18. CASE DropEvent
    BY <2>9, <2>18, TailWakes DEF DropEvent, Watched, Current, Configured, Mend,
       KilledByNull
  <2> QED
    BY <2>1, <2>2, <2>3, <2>5, <2>6, <2>7, <2>8, <2>10, <2>11, <2>12, <2>13,
       <2>14, <2>15, <2>16, <2>17, <2>18 DEF Next, Administer, Scan
<1> QED
  BY <1>1, <1>2, TypeCorrect, PTL DEF Spec

\* No change of the configuration is missed, unless the file could not be read,
\* null ended the service or a removal was lost.
THEOREM ScanDueHolds == Spec => []ScanDue
<1>1. TypeOK /\ Watched => ScanDue
  BY DEF TypeOK, Watched, Current, Mend, ScanDue
<1> QED
  BY <1>1, TypeCorrect, WatchedHolds, PTL
=============================================================================
