------------------------------- MODULE MCParts -------------------------------
(* The parts of the system that share no state, each on a small instance   *)
(* of its module: a behaviour is one of `part`, and the others stay in     *)
(* their initial states.                                                   *)
(*                                                                         *)
(* The watcher has two: "moves" with the constants of the .cfg, where the  *)
(* queues are long enough, nothing fails, and one side of a rename is      *)
(* missing; and "faults", where the queues have one entry and whatever can *)
(* fail does. The store's counter is exhausted before every upload has been *)
(* used.                                                                   *)
(*                                                                         *)
(* Some bounds are joint: where a process is killed one command fewer is   *)
(* run; a store that fails does not start again; and a workflow in which a *)
(* request times out is not killed.                                        *)
EXTENDS WatchIngress, Parts

CONSTANTS m1, m2, i1, i2, i3, chunk, r1, r2

VARIABLE part

pullVars == <<version, streams, current, handlers, removing, cursors, puller,
    place, pulls, edits, losses>>
daemonVars == <<windows, record, daemons, startLock, portLock, managers,
    commands, kills, crashes>>
storeVars == <<leases, artifacts, staging, final, pendingBytes, finalizedBytes,
    nextAccess, used, later, now, faults, restarts>>
workflowVars == <<runs, asked, answers, lock, recorded, lane, active, late,
    cleanup, recording, committed, outside, connected, left>>

Faults == INSTANCE WatchIngress WITH
    QueueCap <- 1, ChannelCap <- 1, MaxEdits <- 2, MaxMoves <- 0,
    MaxFaults <- 2, RacingDisk <- TRUE

ASSUME PullIsSane == Pull!PullAssumption
ASSUME DaemonIsSane == Daemon!DaemonAssumption
ASSUME StoreIsSane == Store!StoreAssumption
ASSUME WorkflowIsSane == Workflow!WorkflowAssumption

PartsInit ==
    /\ part \in {"moves", "faults", "pull", "daemon", "store", "workflow"}
    /\ Init /\ Pull!Init /\ Daemon!Init /\ Store!Init /\ Workflow!Init
    /\ part \notin {"moves", "faults"} => disk = {}
    /\ part # "daemon" => windows

PartsNext ==
    \/ /\ \/ part = "moves" /\ Next
          \/ part = "faults" /\ Faults!Next
       /\ UNCHANGED <<part, pullVars, daemonVars, storeVars, workflowVars>>
    \/ /\ part = "pull" /\ Pull!Next
       /\ UNCHANGED <<part, vars, daemonVars, storeVars, workflowVars>>
    \/ /\ part = "daemon" /\ Daemon!Next /\ (crashes' = MaxCrashes \/ commands' > 0)
       /\ UNCHANGED <<part, vars, pullVars, storeVars, workflowVars>>
    \/ /\ part = "store" /\ Store!Next /\ (faults' = 0 \/ restarts' = 0)
       /\ UNCHANGED <<part, vars, pullVars, daemonVars, workflowVars>>
    \/ /\ part = "workflow" /\ Workflow!Next /\ (left'["timeouts"] > 0 \/ left'["crashes"] > 0)
       /\ UNCHANGED <<part, vars, pullVars, daemonVars, storeVars>>

PartsSpec ==
    PartsInit /\ [][PartsNext]_<<part, vars, pullVars, daemonVars, storeVars,
                                 workflowVars>>
===============================================================================
