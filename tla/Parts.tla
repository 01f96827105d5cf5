-------------------------------- MODULE Parts --------------------------------
(* A pull, the daemons of a project, the store of its artifacts and a       *)
(* workflow, each under names that none of the others has, so that one     *)
(* module can speak of all of them; what each promises, in one property.   *)

CONSTANTS
    None,
    \* SnapshotPull
    ServiceCount, MaxPulls, PullEdits, MaxLosses,
    \* DaemonLifecycle
    Managers, MaxBoots, MaxPort, MaxCommands, MaxKills, MaxCrashes,
    \* ArtifactStore
    Ids, Chunks, MaxBytes, MaxTotal, MaxPending, MaxLeases, LeaseTtl, FinalTtl,
    MaxSequence, MaxTime, StoreFaults, MaxRestarts,
    \* WorkflowRun
    Runs, GroupSize, MaxQueue, MaxTimeouts, RunFaults, RunCrashes,
    MaxDisconnects, MaxOthers

VARIABLES
    \* SnapshotPull
    version, streams, current, handlers, removing, cursors, puller, place,
    pulls, edits, losses,
    \* DaemonLifecycle
    windows, record, daemons, startLock, portLock, managers, commands, kills,
    crashes,
    \* ArtifactStore
    leases, artifacts, staging, final, pendingBytes, finalizedBytes, nextAccess,
    used, later, now, faults, restarts,
    \* WorkflowRun
    runs, asked, answers, lock, recorded, lane, active, late, cleanup,
    recording, committed, outside, connected, left

Pull == INSTANCE SnapshotPull WITH
    N <- ServiceCount, MaxEdits <- PullEdits, studio <- place

Daemon == INSTANCE DaemonLifecycle

Store == INSTANCE ArtifactStore WITH MaxFaults <- StoreFaults

Workflow == INSTANCE WorkflowRun WITH
    N <- GroupSize, MaxFaults <- RunFaults, MaxCrashes <- RunCrashes

-------------------------------------------------------------------------------
(* Each service a pull has written is one version of it, and a pull is      *)
(* written for all its services or for none.                               *)
PullIsWhole == Pull!ServicesAreWhole /\ Pull!PullIsAtomic

(* While it serves, the daemon of a project is the only one, and its record *)
(* is not deleted, so it can be found.                                     *)
DaemonIsKnown == []Daemon!OneDaemon /\ Daemon!LiveRecordKept

(* A published artifact is what its lease promised; the accounts of the     *)
(* store are those of its entries, and the least recently used artifact has *)
(* the smallest number.                                                    *)
StoreIsConsistent ==
    Store!PublishedIsWhole /\ Store!AccountsAreExact /\ Store!UsesAreOrdered

(* Whole groups are committed, a run that reports success has committed its *)
(* group, and once the record exists nothing of the workflow runs again.    *)
GroupIsWhole ==
    [](Workflow!AtomicGroup /\ Workflow!SuccessIsWhole) /\ Workflow!RecordedIsFinal
===============================================================================
