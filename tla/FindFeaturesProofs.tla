------------------------ MODULE FindFeaturesProofs ------------------------
(***************************************************************************)
(* What the find-features command finds, for every tree and all names: it  *)
(* prints no host without one of the features, and it misses none when it  *)
(* is asked for one feature only.                                          *)
(***************************************************************************)
EXTENDS FindFeatures, MonitorProofs

USE DEF disk, writer, watch, queue, monitor, vars, command

\* The command is a client that Monitor allows: it receives, and never closes.
LEMMA FindStep ==
    ASSUME [FindNext]_<<vars, command>>
    PROVE  [Next]_vars
<1>1. CASE Writing
  BY <1>1 DEF Next
<1>2. CASE (Adding \/ EndBoot \/ Handle \/ Drop \/ Accumulate) /\ DiskUnchanged
  BY <1>2 DEF Accumulate, Watching, Next
<1>3. CASE (SeeBoot \/ Exit) /\ DiskUnchanged
  BY <1>3 DEF SeeBoot, Exit, DiskUnchanged
<1> QED
  BY <1>1, <1>2, <1>3 DEF FindNext

\* FindFeatures implements Monitor, but for what a monitor's client must do.
THEOREM FindsByMonitor == FindSpec => Init /\ [][Next]_vars
<1>1. FindInit => Init
  BY DEF FindInit
<1> QED
  BY <1>1, FindStep, PTL DEF FindSpec

\* The types of Monitor hold while the command runs.
LEMMA FindType == FindSpec => []TypeInv
BY TypeInit, TypeStep, FindsByMonitor, PTL

\* What a step makes of the hosts and of what is known: nothing, or what the
\* feature at the head of the queue says.
LEMMA FindChanges ==
    ASSUME TypeInv, [FindNext]_<<vars, command>>
    PROVE  \/ UNCHANGED <<view, hosts>>
           \/ \E f \in Features, h \in Hosts, v \in Values \cup {None} :
                 /\ view' = [view EXCEPT ![<<f, h>>] = v]
                 /\ hosts' = IF f \notin Names THEN hosts
                             ELSE IF v # None THEN hosts \cup {h}
                             ELSE hosts \ {h}
<1>1. CASE Accumulate
  <2> DEFINE item == Head(queued)
  <2>1. queued # <<>> /\ item # Boot /\ queued \in Seq(Items \cup {Boot})
    BY <1>1 DEF Accumulate, Deliver, Sending, TypeInv, TypeOK
  <2>2. item \in Items
    BY <2>1
  <2>3. PICK f \in Features, h \in Hosts : item.path = <<f, h>>
    BY <2>2 DEF Items, Paths
  <2>4. /\ item.value \in Values \cup {None}
        /\ Dir(item.path) = f /\ item.path[2] = h
    BY <2>2, <2>3 DEF Items, Dir
  <2>5. /\ view' = [view EXCEPT ![<<f, h>>] = item.value]
        /\ hosts' = IF f \notin Names THEN hosts
                    ELSE IF item.value # None THEN hosts \cup {h}
                    ELSE hosts \ {h}
    BY <1>1, <2>3, <2>4 DEF Accumulate, Deliver
  <2> QED
    BY <2>4, <2>5
<1>2. CASE Writing /\ UNCHANGED command
  BY <1>2 DEF Writing, command
<1>3. CASE (Adding \/ EndBoot \/ Handle \/ Drop) /\ UNCHANGED command
  BY <1>3 DEF Adding, Looking, WatchRoot, ReadRoot, AddFeature, ReadDir, Open, EndOpen,
              EndAdd, EndBoot, Handle, HandleMkdir, HandleCreate, HandleRemove,
              HandleRmroot, Drop, command
<1>4. CASE SeeBoot \/ Exit \/ UNCHANGED <<vars, command>>
  BY <1>4 DEF SeeBoot, Exit, command
<1> QED
  BY <1>1, <1>2, <1>3, <1>4 DEF FindNext

\* HostsHaveFeature: a host that is printed has one of the features asked for,
\* by all that the monitor told the command, for any names.
THEOREM HostsHaveFeatureHolds ==
    ASSUME Names \subseteq Features
    PROVE  FindSpec => []HostsHaveFeature
<1>1. FindInit => HostsHaveFeature
  BY DEF FindInit, HostsHaveFeature
<1>2. TypeInv /\ HostsHaveFeature /\ [FindNext]_<<vars, command>> =>
          HostsHaveFeature'
  <2> SUFFICES ASSUME TypeInv, HostsHaveFeature, [FindNext]_<<vars, command>>
               PROVE  HostsHaveFeature'
    OBVIOUS
  <2>1. CASE UNCHANGED <<view, hosts>>
    BY <2>1 DEF HostsHaveFeature, Found
  <2>2. ASSUME NEW f \in Features, NEW h \in Hosts, NEW v \in Values \cup {None},
               view' = [view EXCEPT ![<<f, h>>] = v],
               hosts' = IF f \notin Names THEN hosts
                        ELSE IF v # None THEN hosts \cup {h}
                        ELSE hosts \ {h}
        PROVE  HostsHaveFeature'
    <3>1. /\ view'[<<f, h>>] = v
          /\ \A g \in Features, k \in Hosts :
                g # f \/ k # h => view'[<<g, k>>] = view[<<g, k>>]
      BY <2>2 DEF TypeInv, TypeOK, Trees, Paths
    <3> QED
      BY <2>2, <3>1 DEF HostsHaveFeature, Found
  <2> QED
    BY <2>1, <2>2, FindChanges
<1> QED
  BY <1>1, <1>2, FindType, PTL DEF FindSpec

\* HostsFound holds of a command that is asked for one feature: it takes two
\* of a host, of which one is removed, to make it miss the host.
THEOREM HostsFoundByOneName ==
    ASSUME NEW name \in Features, Names = {name}
    PROVE  FindSpec => []HostsFound
<1>1. FindInit => HostsFound
  BY DEF FindInit, Init, HostsFound, Found, Paths
<1>2. TypeInv /\ HostsFound /\ [FindNext]_<<vars, command>> => HostsFound'
  <2> SUFFICES ASSUME TypeInv, HostsFound, [FindNext]_<<vars, command>>
               PROVE  HostsFound'
    OBVIOUS
  <2>1. CASE UNCHANGED <<view, hosts>>
    BY <2>1 DEF HostsFound, Found
  <2>2. ASSUME NEW f \in Features, NEW h \in Hosts, NEW v \in Values \cup {None},
               view' = [view EXCEPT ![<<f, h>>] = v],
               hosts' = IF f \notin Names THEN hosts
                        ELSE IF v # None THEN hosts \cup {h}
                        ELSE hosts \ {h}
        PROVE  HostsFound'
    <3>1. /\ view'[<<f, h>>] = v
          /\ \A g \in Features, k \in Hosts :
                g # f \/ k # h => view'[<<g, k>>] = view[<<g, k>>]
      BY <2>2 DEF TypeInv, TypeOK, Trees, Paths
    <3> QED
      BY <2>2, <3>1 DEF HostsFound, Found
  <2> QED
    BY <2>1, <2>2, FindChanges
<1> QED
  BY <1>1, <1>2, FindType, PTL DEF FindSpec
=============================================================================
