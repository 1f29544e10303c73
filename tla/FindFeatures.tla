--------------------------- MODULE FindFeatures ---------------------------
(***************************************************************************)
(* The find-features command (cmd/nameq/command/monitor.go): a client of a *)
(* FeatureMonitor that collects the hosts with one of the features it was  *)
(* asked for, and prints them when the existing features have been told.   *)
(* It never closes the monitor.                                            *)
(***************************************************************************)
EXTENDS Monitor

CONSTANTS
    Names      \* the features asked for

VARIABLES
    bootNil,   \* monitor.Boot has been set to nil
    hosts,     \* the hosts in the accumulator, whose order of printing is left out
    exited     \* the command has printed the hosts, or timed out

command == <<bootNil, hosts, exited>>

FindInit == Init /\ bootNil = FALSE /\ hosts = {} /\ exited = FALSE

\* A feature arrives on monitor.C.
Accumulate ==
    LET f == Head(queued)
    IN  /\ ~exited
        /\ Deliver
        /\ hosts' = IF Dir(f.path) \notin Names THEN hosts
                    ELSE IF f.value # None THEN hosts \cup {f.path[2]}
                    ELSE hosts \ {f.path[2]}
        /\ UNCHANGED <<bootNil, exited>>

\* Boot is seen closed; a feature that is ready may be taken first.
SeeBoot ==
    /\ ~exited /\ ~bootNil /\ boot = "closed"
    /\ bootNil' = TRUE
    /\ UNCHANGED <<watch, events, monitor, hosts, exited>>

\* The hosts are printed, if there are any, unless another feature is ready;
\* the monitor may not have got to its select.  If not, the timeout occurs.
\* Either happens at once when monitor.C is closed.
Exit ==
    /\ ~exited /\ (bootNil \/ pc = "closed")
    /\ exited' = TRUE
    /\ UNCHANGED <<watch, events, monitor, bootNil, hosts>>

FindNext ==
    \/ Writing /\ UNCHANGED command
    \/ /\ \/ (Adding \/ EndBoot \/ Handle \/ Drop) /\ UNCHANGED command
          \/ Accumulate
          \/ SeeBoot
          \/ Exit
       /\ DiskUnchanged

FindSpec == FindInit /\ [][FindNext]_<<vars, command>>
----------------------------------------------------------------------------
\* "This command prints the current hosts which have at least one of the
\* specified features": by all that the monitor told the command.
Found == {h \in Hosts : \E f \in Names : view[<<f, h>>] # None}

HostsFound == hosts = Found

\* As far as it goes: what is printed has one of the features.
HostsHaveFeature == hosts \subseteq Found
=============================================================================
