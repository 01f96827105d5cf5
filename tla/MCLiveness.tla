------------------------------ MODULE MCLiveness ------------------------------
(* The liveness properties of the router, of the watcher, of a streamed    *)
(* push and of the first synchronisation, each on a small instance of its  *)
(* module.  A behaviour is one of `part`; the others stay in their initial *)
(* states, where none of their fair actions is enabled.                    *)
EXTENDS Naturals

CONSTANTS p1, c1, r1, r2, NoConn, file1, file2, Wake, Resync, Absent, None,
          w1, k1, k2

VARIABLES
    part,
    \* PluginRouting
    main, recv, send, kind, rejecting, closing, outbox, requestRx, missed,
    failing, active, routes, expired, stage, forwarded, responses, delivered,
    \* WatchIngress
    disk, dirty, unpaired, budget, callback, tagged, generation, quarantine,
    queue, drain, held, discarded, plan, scanned, applied, manifest, channel,
    lagged, bridge, handling, fresh, studio, linked,
    \* StreamCommit
    live, backups, owed, session, fence, worker, undo, baseline, plugin,
    inflight, answer, grant, outcome, told, started, edits, faults, crashes,
    aborts,
    \* InitialChoice
    trees, comparison, prep, slot, deciding, grants, replays, poll, chooser,
    requests, window, mail, verdict, done, compared, synced, informed, left

routerVars == <<main, recv, send, kind, rejecting, closing, outbox, requestRx,
    missed, failing, active, routes, expired, stage, forwarded, responses,
    delivered>>
watcherVars == <<disk, dirty, unpaired, budget, callback, tagged, generation,
    quarantine, queue, drain, held, discarded, plan, scanned, applied, manifest,
    channel, lagged, bridge, handling, fresh, studio, linked>>
streamVars == <<live, backups, owed, session, fence, worker, undo, baseline,
    plugin, inflight, answer, grant, outcome, told, started, edits, faults,
    crashes, aborts>>
choiceVars == <<trees, comparison, prep, slot, deciding, grants, replays, poll,
    chooser, requests, window, mail, verdict, done, compared, synced, informed,
    left>>

(* Queues of one entry: overflow and Lagged happen on nearly every path.   *)
(* The client is not refused; the plugin may be.                           *)
Router == INSTANCE PluginRouting WITH
    Plugins <- {p1}, Clients <- {c1}, Requests <- {r1, r2},
    Origin <- [r \in {r1, r2} |-> c1], MaxRoutes <- 2, MaxRoutesPerConn <- 1,
    OutCapacity <- 1, RequestCapacity <- 1

Watcher == INSTANCE WatchIngress WITH
    Files <- {file1, file2}, QueueCap <- 1, ChannelCap <- 1, MaxEdits <- 2,
    MaxMoves <- 0, MaxFaults <- 1, SlowDrain <- FALSE, RacingDisk <- TRUE

Stream == INSTANCE StreamCommit WITH
    N <- 2, G <- 2, Present <- {1, 2}, Strict <- {2}, KeepBackups <- 1,
    EditsDuringSwap <- FALSE, MaxEdits <- 1, MaxFaults <- 2, MaxCrashes <- 0,
    MaxTicks <- 0, MaxAborts <- 0

(* The same streams, which the plugin may abandon.                         *)
Abandoned == INSTANCE StreamCommit WITH
    N <- 2, G <- 2, Present <- {1, 2}, Strict <- {2}, KeepBackups <- 1,
    EditsDuringSwap <- FALSE, MaxEdits <- 0, MaxFaults <- 1, MaxCrashes <- 0,
    MaxTicks <- 0, MaxAborts <- 1

(* One comparison, one window, and calls that are lost.                    *)
Choice == INSTANCE InitialChoice WITH
    N <- 1, Windows <- {w1}, Polls <- {k1, k2}, MaxScans <- 1, MaxEdits <- 1,
    MaxSubmits <- 1,
    Budgets <- {[scans |-> 1, edits |-> 0, submits |-> 1, losses |-> 1,
                 expiries |-> 0, crashes |-> 0]},
    disk <- trees, session <- comparison, plugin <- chooser,
    inflight <- requests, told <- informed, budget <- left

Init ==
    /\ part \in {"router", "watcher", "stream", "abandoned", "choice"}
    /\ Router!Init /\ Watcher!Init /\ Stream!Init /\ Choice!Init
    /\ part # "choice" => trees = <<<<TRUE>>>>
    /\ part # "watcher" => disk = {}

Next ==
    \/ /\ part = "router" /\ Router!Next /\ ~ rejecting'[c1]
       /\ UNCHANGED <<part, watcherVars, streamVars, choiceVars>>
    \/ /\ part = "watcher" /\ Watcher!Next
       /\ UNCHANGED <<part, routerVars, streamVars, choiceVars>>
    \/ /\ \/ part = "stream" /\ Stream!Next
          \/ part = "abandoned" /\ Abandoned!Next
       /\ UNCHANGED <<part, routerVars, watcherVars, choiceVars>>
    \/ /\ part = "choice" /\ Choice!Next
       /\ UNCHANGED <<part, routerVars, watcherVars, streamVars>>

Spec ==
    /\ Init /\ [][Next]_<<part, routerVars, watcherVars, streamVars, choiceVars>>
    /\ Router!Fairness /\ Watcher!Fairness /\ Stream!Fairness
    /\ Choice!Fairness

-------------------------------------------------------------------------------
(* Every registered request ends, although Studio may never answer.        *)
EveryRequestEnds == Router!EveryRequestEnds

(* A plugin connection that ends gives the active slot up.                 *)
SlotIsReleased == Router!SlotIsReleased

(* When the disk comes to rest, so does Studio, with the same files.       *)
Converges == Watcher!Converges

(* A quarantine ends.                                                      *)
QuarantineEnds == Watcher!QuarantineEnds

(* A stream ends, whatever requests are lost.                              *)
StreamEnds == Stream!StreamEnds

(* A service that was moved off its place comes back, or recovery is       *)
(* reported.                                                               *)
ServiceReturns == Stream!ServiceReturns

(* A decision reaches the plugin that waits for it.                        *)
DecisionLands == Choice!DecisionLands
===============================================================================
