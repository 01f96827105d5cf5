---------------------------- MODULE WatchIngress ----------------------------
(***************************************************************************)
(* The filesystem watcher of the daemon (daemon/src/watch.rs) and the      *)
(* bridge behind it (daemon/src/watch_bridge.rs).                          *)
(*                                                                         *)
(* Three threads hand changes on: the notify callback tags a debounced     *)
(* batch and puts it into a tiny bounded queue, drain_loop classifies it   *)
(* into operations and broadcasts them, the bridge emits them to Studio.   *)
(* Whenever one of them can no longer be exact it raises a quarantine:     *)
(* batches are dropped, generations are discarded, and the bridge ends in  *)
(* a shutdown event, after which the plugin reconnects and takes a fresh   *)
(* snapshot.  The promise is that nothing is lost on the way.              *)
(*                                                                         *)
(* A file is present or absent; every file belongs to one projection.      *)
(* The conflict engine behind the bridge lets every operation through      *)
(* here.  The plugin's reconnect is external and one step.                 *)
(***************************************************************************)
EXTENDS Naturals, Sequences, FiniteSets

CONSTANTS
    Files,        \* paths of the synced projection
    Wake,         \* RawIngress::Wake
    Resync,       \* WatchEvent::Resync
    QueueCap,     \* RAW_INGRESS_CAP
    ChannelCap,   \* CHANNEL_CAP
    MaxEdits,     \* bound: changes made to the disk
    MaxMoves,     \* bound: how many of them are unpaired renames
    MaxFaults,    \* bound: faults of the backend, of a scan, of a read
    SlowDrain,    \* a reconnect may overtake the drain thread
    RacingDisk    \* the disk may change while the manifest is brought up

ASSUME BoundsAssumption ==
    /\ QueueCap \in Nat \ {0} /\ ChannelCap \in Nat \ {0}
    /\ MaxEdits \in Nat /\ MaxMoves \in Nat /\ MaxFaults \in Nat
    /\ SlowDrain \in BOOLEAN /\ RacingDisk \in BOOLEAN

VARIABLES
    disk,        \* files that exist
    dirty,       \* files with a native event the debouncer still holds
    unpaired,    \* it also holds one side of a rename
    budget,      \* edits, moves and faults so far (bound)
    callback,    \* where the notify callback is
    tagged,      \* the batch it works on
    generation,  \* RawIngressState.generation
    quarantine,  \* RawIngressState.quarantine: none, resync or silent
    queue,       \* the raw ingress queue
    drain,       \* where drain_loop is
    held,        \* the item it took from the queue
    discarded,   \* discarded_through, 0 for None
    plan,        \* operations it still has to publish
    scanned,     \* what its service scan saw
    applied,     \* the operation it published last
    manifest,    \* ProjectionManifest
    channel,     \* the watcher broadcast, as the bridge's receiver sees it
    lagged,      \* that receiver was overrun
    bridge,      \* where the bridge task is
    handling,    \* the operation it works on
    fresh,       \* the manifest its reset has scanned
    studio,      \* the projection the plugin has
    linked       \* the plugin is connected and past its snapshot

diskVars    == <<disk, dirty, unpaired>>
callVars    == <<callback, tagged>>
barrierVars == <<generation, quarantine>>
drainVars   == <<drain, held, discarded, plan, scanned, applied>>
chanVars    == <<channel, lagged>>
bridgeVars  == <<bridge, handling, fresh>>
peerVars    == <<studio, linked>>
vars == <<diskVars, budget, callVars, barrierVars, queue, drainVars,
          manifest, chanVars, bridgeVars, peerVars>>

Batch == [generation : Nat, paths : SUBSET Files, oneSided : BOOLEAN]
Op    == [path : Files, present : BOOLEAN]

(* The signals are variants of their own beside the batches and operations. *)
ASSUME SignalsAssumption == Wake \notin Batch /\ Resync \notin Op

NoBatch == [generation |-> 0, paths |-> {}, oneSided |-> FALSE]

TypeOK ==
    /\ disk \subseteq Files /\ dirty \subseteq Files /\ unpaired \in BOOLEAN
    /\ budget \in [edits : Nat, moves : Nat, faults : Nat]
    /\ callback \in {"idle", "tagged", "faulty", "waking"}
    /\ tagged \in Batch
    /\ generation \in Nat
    /\ quarantine \in {"none", "resync", "silent"}
    /\ queue \in Seq(Batch \cup {Wake}) /\ Len(queue) <= QueueCap
    /\ drain \in {"recv", "held", "planning", "flushing", "publishing",
                  "applying"}
    /\ held \in Batch \cup {Wake} /\ (drain = "planning" => held # Wake)
    /\ discarded \in Nat /\ discarded <= generation
    /\ plan \subseteq Op /\ applied \subseteq Op
    /\ scanned \subseteq Files /\ manifest \subseteq Files
    /\ channel \in Seq(Op \cup {Resync}) /\ Len(channel) <= ChannelCap
    /\ lagged \in BOOLEAN
    /\ bridge \in {"recv", "grace", "resetting", "waking", "scanning",
                   "storing", "subscribing", "announcing"}
    /\ handling \subseteq Op /\ fresh \subseteq Files
    /\ studio \subseteq Files /\ linked \in BOOLEAN

(* The daemon has scanned the project and Studio has its first snapshot.   *)
Init ==
    /\ disk \in SUBSET Files /\ dirty = {} /\ unpaired = FALSE
    /\ budget = [edits |-> 0, moves |-> 0, faults |-> 0]
    /\ callback = "idle" /\ tagged = NoBatch
    /\ generation = 0 /\ quarantine = "none" /\ queue = <<>>
    /\ drain = "recv" /\ held = Wake /\ discarded = 0
    /\ plan = {} /\ scanned = {} /\ applied = {} /\ manifest = disk
    /\ channel = <<>> /\ lagged = FALSE
    /\ bridge = "recv" /\ handling = {} /\ fresh = {}
    /\ studio = disk /\ linked = TRUE

-----------------------------------------------------------------------------
After(files, op) == IF op.present THEN files \cup {op.path}
                    ELSE files \ {op.path}

(* RawIngressBarrier::activate.  A silent activation, made by the bridge,  *)
(* subsumes a fault; a fault never replaces a quarantine.                  *)
Activate(silently) ==
    IF silently
    THEN generation' = generation + 1 /\ quarantine' = "silent"
    ELSE IF quarantine = "none"
    THEN generation' = generation + 1 /\ quarantine' = "resync"
    ELSE UNCHANGED barrierVars

(* wake_raw_drain: a full queue wakes the drain anyway.                    *)
WakeDrain ==
    queue' = IF Len(queue) < QueueCap THEN Append(queue, Wake) ELSE queue

(* tx.send: an overrun receiver loses its oldest event.                    *)
Broadcast(event) ==
    IF Len(channel) < ChannelCap
    THEN channel' = Append(channel, event) /\ UNCHANGED lagged
    ELSE channel' = Append(Tail(channel), event) /\ lagged' = TRUE

(* Mutant of Flush: every quarantine is flushed as a silent one.           *)
FlushQuietly ==
    /\ quarantine # "none"
    /\ queue' = <<>> /\ UNCHANGED chanVars
    /\ discarded' = generation
    /\ generation' = generation + 1
    /\ quarantine' = "none"

(* flush_raw_quarantine, under the barrier's lock.                         *)
Flush ==
    /\ quarantine # "none"
    /\ queue' = <<>>
    /\ IF quarantine = "resync" THEN Broadcast(Resync) ELSE UNCHANGED chanVars
    /\ discarded' = generation
    /\ generation' = generation + 1
    /\ quarantine' = "none"

Fault ==
    /\ budget.faults < MaxFaults
    /\ budget' = [budget EXCEPT !.faults = @ + 1]

-----------------------------------------------------------------------------
(* The user's editor, or another program.                                  *)

(* Between the plan of a batch and the manifest's last entry from it.      *)
ManifestBehind == drain \in {"publishing", "applying"}

DiskChange ==
    /\ budget.edits < MaxEdits
    /\ RacingDisk \/ ~ManifestBehind

(* A file appears or goes; the backend reports the path.                   *)
Edit(f) ==
    /\ DiskChange
    /\ budget' = [budget EXCEPT !.edits = @ + 1]
    /\ disk' = IF f \in disk THEN disk \ {f} ELSE disk \cup {f}
    /\ dirty' = dirty \cup {f}
    /\ UNCHANGED <<unpaired, callVars, barrierVars, queue, drainVars,
                   manifest, chanVars, bridgeVars, peerVars>>

(* A rename of which the backend reports one side, or none it can pair.    *)
Move(f, g) ==
    /\ DiskChange /\ budget.moves < MaxMoves
    /\ budget' = [budget EXCEPT !.edits = @ + 1, !.moves = @ + 1]
    /\ f \in disk /\ g \notin disk
    /\ disk' = (disk \ {f}) \cup {g}
    /\ unpaired' = TRUE
    /\ UNCHANGED <<dirty, callVars, barrierVars, queue, drainVars,
                   manifest, chanVars, bridgeVars, peerVars>>

-----------------------------------------------------------------------------
(* enqueue_raw_result, on the debouncer's thread.                          *)

(* The batch is tagged before anything else; under quarantine it is        *)
(* dropped.                                                                *)
TagBatch ==
    /\ callback = "idle" /\ (dirty # {} \/ unpaired)
    /\ dirty' = {} /\ unpaired' = FALSE
    /\ IF quarantine = "none"
       THEN /\ tagged' = [generation |-> generation, paths |-> dirty,
                          oneSided |-> unpaired]
            /\ callback' = "tagged"
       ELSE callback' = "waking" /\ UNCHANGED tagged
    /\ UNCHANGED <<disk, budget, barrierVars, queue, drainVars, manifest,
                   chanVars, bridgeVars, peerVars>>

(* The backend reports an error, asks for a rescan or exceeds the cap.     *)
BackendFault ==
    /\ callback = "tagged" /\ Fault
    /\ callback' = "faulty"
    /\ UNCHANGED <<diskVars, tagged, barrierVars, queue, drainVars, manifest,
                   chanVars, bridgeVars, peerVars>>

EnqueueBatch ==
    /\ callback = "tagged"
    /\ IF Len(queue) < QueueCap
       THEN queue' = Append(queue, tagged) /\ callback' = "idle"
       ELSE callback' = "faulty" /\ UNCHANGED queue
    /\ UNCHANGED <<diskVars, budget, tagged, barrierVars, drainVars,
                   manifest, chanVars, bridgeVars, peerVars>>

(* Mutant of CallbackActivates: it leaves the wake-up to the next batch.   *)
ActivateWithoutWake ==
    /\ callback = "faulty"
    /\ Activate(FALSE)
    /\ callback' = "idle"
    /\ UNCHANGED <<diskVars, budget, tagged, queue, drainVars, manifest,
                   chanVars, bridgeVars, peerVars>>

CallbackActivates ==
    /\ callback = "faulty"
    /\ Activate(FALSE)
    /\ callback' = "waking"
    /\ UNCHANGED <<diskVars, budget, tagged, queue, drainVars, manifest,
                   chanVars, bridgeVars, peerVars>>

CallbackWakes ==
    /\ callback = "waking"
    /\ WakeDrain
    /\ callback' = "idle"
    /\ UNCHANGED <<diskVars, budget, tagged, barrierVars, drainVars,
                   manifest, chanVars, bridgeVars, peerVars>>

-----------------------------------------------------------------------------
(* drain_loop.                                                             *)

TakeItem ==
    /\ drain = "recv" /\ queue # <<>>
    /\ held' = Head(queue) /\ queue' = Tail(queue)
    /\ drain' = "held"
    /\ UNCHANGED <<diskVars, budget, callVars, barrierVars, discarded, plan,
                   scanned, applied, manifest, chanVars, bridgeVars,
                   peerVars>>

(* Mutant of CheckItem: a wake is taken for a batch.                       *)
CheckGenerationOnly ==
    /\ drain = "held"
    /\ \/ /\ Flush /\ drain' = "recv"
       \/ /\ quarantine = "none"
          /\ drain' = IF held # Wake /\ discarded > 0 /\ held.generation <= discarded
                      THEN "recv" ELSE "planning"
          /\ UNCHANGED <<barrierVars, queue, chanVars, discarded>>
    /\ UNCHANGED <<diskVars, budget, callVars, held, plan, scanned, applied,
                   manifest, bridgeVars, peerVars>>

(* The barrier is looked at before the item; a wake and a batch of a       *)
(* discarded generation are dropped.                                       *)
CheckItem ==
    /\ drain = "held"
    /\ \/ /\ Flush /\ drain' = "recv"
       \/ /\ quarantine = "none"
          /\ drain' = IF \/ held = Wake
                         \/ discarded > 0 /\ held.generation <= discarded
                      THEN "recv" ELSE "planning"
          /\ UNCHANGED <<barrierVars, queue, chanVars, discarded>>
    /\ UNCHANGED <<diskVars, budget, callVars, held, plan, scanned, applied,
                   manifest, bridgeVars, peerVars>>

(* Mutant of PlanBatch: only the reported paths are classified.            *)
PlanReported ==
    /\ drain = "planning"
    /\ plan' = {[path |-> f, present |-> f \in disk] : f \in held.paths}
    /\ scanned' = disk
    /\ drain' = "publishing"
    /\ UNCHANGED <<diskVars, budget, callVars, barrierVars, queue, held,
                   discarded, applied, manifest, chanVars, bridgeVars,
                   peerVars>>

(* Classification: a path's operation says whether it exists by now.  One  *)
(* unpaired rename makes the batch a comparison of manifest and disk.      *)
PlanBatch ==
    /\ drain = "planning"
    /\ LET paths == IF held.oneSided
                    THEN (manifest \ disk) \cup (disk \ manifest)
                    ELSE held.paths
       IN  plan' = {[path |-> f, present |-> f \in disk] : f \in paths}
    /\ scanned' = disk
    /\ drain' = "publishing"
    /\ UNCHANGED <<diskVars, budget, callVars, barrierVars, queue, held,
                   discarded, applied, manifest, chanVars, bridgeVars,
                   peerVars>>

(* A batch that cannot be classified exactly, or a scan that fails.        *)
DrainFault ==
    /\ drain = "planning" /\ Fault
    /\ Activate(FALSE)
    /\ drain' = "flushing"
    /\ UNCHANGED <<diskVars, callVars, queue, held, discarded, plan, scanned,
                   applied, manifest, chanVars, bridgeVars, peerVars>>

DrainFlushes ==
    /\ drain = "flushing"
    /\ Flush
    /\ drain' = "recv"
    /\ UNCHANGED <<diskVars, budget, callVars, held, plan, scanned, applied,
                   manifest, bridgeVars, peerVars>>

(* send_op_unless_quarantined, one operation per step.                     *)
PublishOp ==
    /\ drain = "publishing" /\ plan # {}
    /\ \/ /\ Flush
          /\ plan' = {} /\ drain' = "recv"
          /\ UNCHANGED applied
       \/ /\ quarantine = "none"
          /\ \E op \in plan :
               /\ Broadcast(op)
               /\ plan' = plan \ {op} /\ applied' = {op}
          /\ drain' = "applying"
          /\ UNCHANGED <<barrierVars, queue, discarded>>
    /\ UNCHANGED <<diskVars, budget, callVars, held, scanned, manifest,
                   bridgeVars, peerVars>>

(* apply_published_op looks at the disk again.                             *)
ApplyToManifest ==
    /\ drain = "applying"
    /\ \E op \in applied :
         manifest' = After(manifest, [op EXCEPT !.present =
                                        @ /\ op.path \in disk])
    /\ applied' = {} /\ drain' = "publishing"
    /\ UNCHANGED <<diskVars, budget, callVars, barrierVars, queue, held,
                   discarded, plan, scanned, chanVars, bridgeVars, peerVars>>

(* After a comparison the scan becomes the manifest.                       *)
FinishBatch ==
    /\ drain = "publishing" /\ plan = {}
    /\ manifest' = IF held.oneSided THEN scanned ELSE manifest
    /\ drain' = "recv"
    /\ UNCHANGED <<diskVars, budget, callVars, barrierVars, queue, held,
                   discarded, plan, scanned, applied, chanVars, bridgeVars,
                   peerVars>>

-----------------------------------------------------------------------------
(* spawn_watch_bridge.                                                     *)

(* A path that has to be read is read now; one that has gone is an error.  *)
(* A delete waits for the grace first.                                     *)
ReceiveOp ==
    /\ bridge = "recv" /\ ~lagged
    /\ channel # <<>> /\ Head(channel) # Resync
    /\ channel' = Tail(channel)
    /\ LET op == Head(channel)
       IN  \/ /\ op.present => op.path \in disk
              /\ bridge' = "grace" /\ handling' = {op}
              /\ UNCHANGED budget
           \/ /\ op.present /\ op.path \notin disk
              /\ bridge' = "resetting"
              /\ UNCHANGED <<handling, budget>>
           \/ /\ Fault
              /\ bridge' = "resetting" /\ UNCHANGED handling
    /\ UNCHANGED <<diskVars, callVars, barrierVars, queue, drainVars,
                   manifest, lagged, fresh, peerVars>>

(* handle_op: the event reaches a connected plugin.                        *)
EmitOp ==
    /\ bridge = "grace"
    /\ \E op \in handling :
         studio' = IF linked THEN After(studio, op) ELSE studio
    /\ handling' = {} /\ bridge' = "recv"
    /\ UNCHANGED <<diskVars, budget, callVars, barrierVars, queue, drainVars,
                   manifest, chanVars, fresh, linked>>

ReceiveResync ==
    /\ bridge = "recv"
    /\ \/ lagged /\ lagged' = FALSE /\ UNCHANGED channel
       \/ /\ ~lagged /\ channel # <<>> /\ Head(channel) = Resync
          /\ channel' = Tail(channel) /\ UNCHANGED lagged
    /\ bridge' = "resetting"
    /\ UNCHANGED <<diskVars, budget, callVars, barrierVars, queue, drainVars,
                   manifest, handling, fresh, peerVars>>

(* discard_retained_tail, step by step.                                    *)
ResetActivates ==
    /\ bridge = "resetting"
    /\ Activate(TRUE)
    /\ bridge' = "waking"
    /\ UNCHANGED <<diskVars, budget, callVars, queue, drainVars, manifest,
                   chanVars, handling, fresh, peerVars>>

(* Mutant of ResetWakes: the silent quarantine waits for the next batch.   *)
ResetWithoutWake ==
    /\ bridge = "waking"
    /\ bridge' = "scanning"
    /\ UNCHANGED <<diskVars, budget, callVars, barrierVars, queue, drainVars,
                   manifest, chanVars, handling, fresh, peerVars>>

ResetWakes ==
    /\ bridge = "waking"
    /\ WakeDrain
    /\ bridge' = "scanning"
    /\ UNCHANGED <<diskVars, budget, callVars, barrierVars, drainVars,
                   manifest, chanVars, handling, fresh, peerVars>>

(* scan_all; a scan that fails keeps the manifest there is.                *)
ResetScans ==
    /\ bridge = "scanning"
    /\ \/ /\ fresh' = disk /\ bridge' = "storing"
          /\ UNCHANGED budget
       \/ /\ Fault
          /\ bridge' = "subscribing" /\ UNCHANGED fresh
    /\ UNCHANGED <<diskVars, callVars, barrierVars, queue, drainVars,
                   manifest, chanVars, handling, peerVars>>

ResetStores ==
    /\ bridge = "storing"
    /\ manifest' = fresh
    /\ bridge' = "subscribing"
    /\ UNCHANGED <<diskVars, budget, callVars, barrierVars, queue, drainVars,
                   chanVars, handling, fresh, peerVars>>

ResetSubscribes ==
    /\ bridge = "subscribing"
    /\ channel' = <<>> /\ lagged' = FALSE
    /\ bridge' = "announcing"
    /\ UNCHANGED <<diskVars, budget, callVars, barrierVars, queue, drainVars,
                   manifest, handling, fresh, peerVars>>

(* Mutant of AnnounceShutdown: the plugin is not told.                     *)
ResetQuietly ==
    /\ bridge = "announcing"
    /\ bridge' = "recv"
    /\ UNCHANGED <<diskVars, budget, callVars, barrierVars, queue, drainVars,
                   manifest, chanVars, handling, fresh, peerVars>>

(* The shutdown event closes the plugin's connection.                      *)
AnnounceShutdown ==
    /\ bridge = "announcing"
    /\ linked' = FALSE
    /\ bridge' = "recv"
    /\ UNCHANGED <<diskVars, budget, callVars, barrierVars, queue, drainVars,
                   manifest, chanVars, handling, fresh, studio>>

(* The plugin reconnects and starts from a snapshot of the disk.           *)
Reconnect ==
    /\ ~linked /\ (SlowDrain \/ quarantine = "none")
    /\ studio' = disk /\ linked' = TRUE
    /\ UNCHANGED <<diskVars, budget, callVars, barrierVars, queue, drainVars,
                   manifest, chanVars, bridgeVars>>

-----------------------------------------------------------------------------
Callback == \/ TagBatch \/ BackendFault \/ EnqueueBatch
            \/ CallbackActivates \/ CallbackWakes
Drain == \/ TakeItem \/ CheckItem \/ PlanBatch \/ DrainFault \/ DrainFlushes
         \/ PublishOp \/ ApplyToManifest \/ FinishBatch
Bridge == \/ ReceiveOp \/ EmitOp \/ ReceiveResync \/ ResetActivates
          \/ ResetWakes \/ ResetScans \/ ResetStores \/ ResetSubscribes
          \/ AnnounceShutdown

Next ==
    \/ \E f \in Files : Edit(f)
    \/ \E f, g \in Files : Move(f, g)
    \/ Callback \/ Drain \/ Bridge \/ Reconnect

(* The three threads run, and a plugin that was shut down comes back.      *)
Fairness == /\ WF_vars(Callback) /\ WF_vars(Drain) /\ WF_vars(Bridge)
            /\ WF_vars(Reconnect)

Spec == Init /\ [][Next]_vars
FairSpec == Spec /\ Fairness

-----------------------------------------------------------------------------
(* No lost wake-up: a raised quarantine is always on its way to be         *)
(* flushed.  Either an item waits in the queue, or drain_loop is on the    *)
(* way to look, or whoever raised it still has to wake the drain.          *)
NoLostWakeup ==
    quarantine # "none" => \/ queue # <<>>
                           \/ drain \in {"held", "flushing"}
                           \/ callback = "waking" \/ bridge = "waking"

Idle == /\ dirty = {} /\ ~unpaired /\ callback = "idle"
        /\ quarantine = "none" /\ queue = <<>>
        /\ drain = "recv" /\ channel = <<>> /\ ~lagged
        /\ bridge = "recv" /\ linked

(* Once every change has gone through the pipeline, Studio has what the    *)
(* disk has: a dropped batch, a discarded generation and an abandoned      *)
(* broadcast are each covered by the snapshot of a later reconnect.        *)
NothingLost == Idle => studio = disk

(* The same promise, as far as the code keeps it: while no rename has been *)
(* reported by one side only; or nothing was reset and the disk waited for *)
(* the manifest.                                                           *)
StudioFollows ==
    Idle /\ (budget.moves = 0 \/ (generation = 0 /\ ~RacingDisk)) => studio = disk

(* While no quarantine has been raised, the comparison of a service with   *)
(* the manifest finds what an unpaired rename moved: Studio keeps nothing  *)
(* that is gone from the disk, and the manifest is the disk again.         *)
MovesAreExact ==
    Idle /\ generation = 0 => studio = disk /\ manifest = disk

(* When the disk comes to rest, so does Studio, with the same files.       *)
Converges == <>[](studio = disk)

(* A quarantine ends.                                                      *)
QuarantineEnds == quarantine # "none" ~> quarantine = "none"
=============================================================================
