----------------------------- MODULE StreamCommit -----------------------------
(***************************************************************************)
(* A streamed push: the plugin sends one generation of the project service *)
(* by service, the daemon replaces each service on the disk by two renames *)
(* and, when the generation cannot be finished, takes the services it has  *)
(* replaced back.  Modelled from daemon/src/http_apply.rs, http.rs (types, *)
(* Drop), conflict.rs (checkpoint) and doPushPath of plugin/Plugin.luau.   *)
(*                                                                         *)
(* A tree is named by the generation that wrote it (0: the user) and by    *)
(* the user's last edit of it.  The contents of a chunk are left out, its  *)
(* place in the stream is not.                                             *)
(***************************************************************************)
EXTENDS Naturals, FiniteSets

CONSTANTS
    N,                \* services 1..N, in the order of SYNCED_SERVICES
    G,                \* streams 1..G
    Present,          \* services the project has at the start
    Strict,           \* streams that carry an initial Studio choice
    KeepBackups,      \* MAX_SUCCESSFUL_STREAM_BACKUPS
    EditsDuringSwap,  \* may an edit hit a rollback between check and rename?
    MaxEdits, MaxFaults, MaxCrashes, MaxTicks, MaxAborts,  \* bounds
    Absent, None

Services == 1..N
Streams  == 1..G

ASSUME StreamAssumption ==
    /\ N \in Nat \ {0} /\ G \in Nat \ {0}
    /\ Present \subseteq Services /\ Strict \subseteq Streams
    /\ {KeepBackups, MaxEdits, MaxFaults, MaxCrashes, MaxTicks, MaxAborts} \subseteq Nat
    /\ EditsDuringSwap \in BOOLEAN

ASSUME AbsentAssumption == Absent \notin [gen : 0..G, edit : 0..MaxEdits]

VARIABLES
    \* the disk
    live,       \* the tree of each service, or Absent
    backups,    \* .rosync-backups: one transaction per replaced service
    owed,       \* <<service, tree>>: the user's work that must be somewhere
    \* the daemon
    session,    \* the PushStreamAccumulator of the project, or None
    fence,      \* the fingerprint thread and what it has found
    worker,     \* the thread of commit_streamed_service
    undo,       \* a rollback of a generation under way, or None
    baseline,   \* the conflict engine: the tree both sides agree on
    \* the plugin and the network
    plugin, inflight, answer, grant,
    \* observation and bounds
    outcome, told, started, edits, faults, crashes, aborts

vars == <<live, backups, owed, session, fence, worker, undo, baseline, plugin,
          inflight, answer, grant, outcome, told, started, edits, faults, crashes, aborts>>
bounds == <<started, edits, faults, crashes, aborts>>

Trees  == [gen : 0..G, edit : 0..MaxEdits]
Tree(g) == [gen |-> g, edit |-> 0]
Phases == {"structure", "fence", "sources", "commit"}
Bodies == [stream : Streams, svc : Services, phase : Phases, chunk : 0..MaxTicks]
Body(g, s, p, c) == [stream |-> g, svc |-> s, phase |-> p, chunk |-> c]
Requests == [body : Bodies, try : 1..2]
Entries == [s : Services, created : BOOLEAN]

(* An answer: where the daemon goes on, or how the stream has ended.        *)
Kinds == {"advance", "complete", "error", "stale", "rolled-back", "partial"}
Replies == [kind : Kinds, svc : Services, phase : Phases, chunk : 0..MaxTicks]
Advance(s, p, c) == [kind |-> "advance", svc |-> s, phase |-> p, chunk |-> c]
Ends(kind, b) == [kind |-> kind, svc |-> b.svc, phase |-> b.phase, chunk |-> b.chunk]

NoFence == [at |-> "none", tree |-> Absent]
Idle == [at |-> "idle", s |-> 1, fenced |-> Absent]
(* The worker holds StreamCommitControl from its first rename to its end.   *)
Locked == {"moved", "verified", "installed", "restore", "check", "aside", "back"}

Backup(s, g) == {b \in backups : b.s = s /\ b.stream = g}
Baselines == [Services -> Trees \cup {Absent}]

DiskOK ==
    /\ live \in Baselines
    /\ backups \subseteq [s : Services, stream : Streams, tree : Trees,
                          mark : {"open", "promoted", "marked"}]
    /\ owed \subseteq Services \X Trees

Sessions == [stream : Streams, svc : Services, phase : Phases, chunk : 0..MaxTicks,
             fenced : Trees \cup {Absent}, expected : Baselines, done : BOOLEAN,
             committed : SUBSET Entries, checkpoint : Baselines \cup {None},
             last : Bodies \cup {None}, reply : Replies \cup {None}]
Undos == [stream : Streams, todo : SUBSET Entries, kept : SUBSET Entries,
          at : {"check", "aside", "back"}, checkpoint : Baselines,
          partial : SUBSET Services, req : Requests \cup {None}]

ASSUME NoneAssumption == None \notin Sessions \cup Undos \cup Requests \cup Baselines

DaemonOK ==
    /\ session \in Sessions \cup {None}
    /\ fence \in [at : {"none", "running", "done", "failed"}, tree : Trees \cup {Absent}]
    /\ worker \in [at : {"idle", "staging", "staged", "ready", "ok", "failed", "partial"}
                        \cup Locked, s : Services, fenced : Trees \cup {Absent}]
    /\ undo \in Undos \cup {None}
    /\ baseline \in Baselines

PluginOK ==
    /\ plugin \in [at : {"idle", "waiting", "stopped"}, body : Bodies, try : 1..2]
    /\ inflight \subseteq Requests
    /\ answer \in Replies \cup {None}
    /\ grant \in Baselines \cup {None}

CountsOK ==
    /\ outcome \in [Streams -> {"none", "complete", "failed", "partial", "crashed"}]
    /\ told \subseteq Streams /\ started \in 0..G
    /\ edits \in 0..MaxEdits /\ faults \in 0..MaxFaults
    /\ crashes \in 0..MaxCrashes /\ aborts \in 0..MaxAborts

TypeOK == DiskOK /\ DaemonOK /\ PluginOK /\ CountsOK

Init ==
    /\ live = [s \in Services |-> IF s \in Present THEN Tree(0) ELSE Absent]
    /\ backups = {}
    /\ owed = {<<s, Tree(0)>> : s \in Present}
    /\ session = None /\ fence = NoFence /\ worker = Idle /\ undo = None
    /\ baseline = live
    /\ plugin = [at |-> "idle", body |-> Body(1, 1, "structure", 0), try |-> 1]
    /\ inflight = {} /\ answer = None /\ grant = None
    /\ outcome = [g \in Streams |-> "none"]
    /\ told = {} /\ started = 0 /\ edits = 0 /\ faults = 0 /\ crashes = 0 /\ aborts = 0

-------------------------------------------------------------------------------
(* The user and the watcher.                                                *)

(* A rollback takes the services back in reverse order.                     *)
Latest(e) == e \in undo.todo /\ \A f \in undo.todo : f.s <= e.s

(* It looks at the installed tree and moves it aside in two system calls.   *)
InSwap(s) == \/ worker.at = "aside" /\ worker.s = s
             \/ undo # None /\ undo.at = "aside" /\ \E e \in undo.todo : Latest(e) /\ e.s = s

UserEdits(s) ==
    /\ edits < MaxEdits
    /\ live[s] # Absent
    /\ InSwap(s) => EditsDuringSwap
    /\ LET new == [live[s] EXCEPT !.edit = edits + 1]
       IN  /\ live' = [live EXCEPT ![s] = new]
           /\ owed' = (owed \ {<<s, live[s]>>}) \cup {<<s, new>>}
    /\ edits' = edits + 1
    /\ UNCHANGED <<backups, session, fence, worker, undo, baseline, plugin, inflight,
                   answer, grant, outcome, told, started, faults, crashes, aborts>>

UserCreates(s) ==
    /\ edits < MaxEdits
    /\ live[s] = Absent
    /\ live' = [live EXCEPT ![s] = [gen |-> 0, edit |-> edits + 1]]
    /\ owed' = owed \cup {<<s, live'[s]>>}
    /\ edits' = edits + 1
    /\ UNCHANGED <<backups, session, fence, worker, undo, baseline, plugin, inflight,
                   answer, grant, outcome, told, started, faults, crashes, aborts>>

(* The watch bridge records an edit the plugin has taken (record_sync).     *)
WatchRecords(s) ==
    /\ <<s, live[s]>> \in owed
    /\ baseline[s] # live[s]
    /\ baseline' = [baseline EXCEPT ![s] = live[s]]
    /\ UNCHANGED <<live, backups, owed, session, fence, worker, undo, plugin, inflight,
                   answer, grant, outcome, told, bounds>>

-------------------------------------------------------------------------------
(* The plugin: doPushPath, postExact, acceptAdvance.                        *)

Post(b, n) == /\ plugin' = [at |-> "waiting", body |-> b, try |-> n]
              /\ inflight' = inflight \cup {[body |-> b, try |-> n]}
              /\ answer' = None

PluginStarts ==
    /\ plugin.at = "idle"
    /\ started < G
    /\ started' = started + 1
    /\ Post(Body(started', 1, "structure", 0), 1)
    /\ grant' = IF started' \in Strict THEN live ELSE None
    /\ UNCHANGED <<live, backups, owed, session, fence, worker, undo, baseline,
                   outcome, told, edits, faults, crashes, aborts>>

(* What acceptAdvance takes for the answer to b.                            *)
Continues(b, a) ==
    \/ a.kind = "complete" /\ b.svc = N /\ b.phase = "commit"
    \/ /\ a.kind = "advance"
       /\ \/ b.phase \in {"fence", "commit"} /\ a = Advance(b.svc, b.phase, b.chunk + 1)
          \/ b.phase = "structure" /\ a = Advance(b.svc, "fence", 0)
          \/ b.phase = "fence"     /\ a = Advance(b.svc, "sources", 0)
          \/ b.phase = "sources"   /\ a = Advance(b.svc, "commit", 0)
          \/ b.phase = "commit"    /\ a = Advance(b.svc + 1, "structure", 0)

(* The fields of a partial answer, and those validatePartialReceipt allows. *)
PartialFields == {"ok", "action", "streamId", "error", "failedService",
    "recoveryRequired", "backups", "committedServices", "rolledBackServices",
    "rollbackWarnings", "rollbackErrors"}
AllowedFields == {"ok", "action", "streamId", "error", "failedService",
    "recoveryRequired", "backups", "committedServices"}

Leaves(at) == plugin' = [plugin EXCEPT !.at = at]

(* An exact second attempt, then the initial compare starts over.           *)
Retries == IF plugin.try = 1 THEN Post(plugin.body, 2)
           ELSE Leaves("idle") /\ answer' = None /\ UNCHANGED inflight

PluginAnswered ==
    /\ plugin.at = "waiting" /\ answer # None
    /\ \/ /\ Continues(plugin.body, answer)
          /\ \/ /\ answer.kind = "complete"
                /\ Leaves("idle") /\ answer' = None /\ UNCHANGED inflight
             \/ /\ answer.kind = "advance"
                /\ Post(Body(plugin.body.stream, answer.svc, answer.phase, answer.chunk), 1)
       \/ /\ answer.kind = "partial" /\ PartialFields \subseteq AllowedFields
          /\ Leaves("stopped") /\ answer' = None /\ UNCHANGED inflight
       \/ /\ \/ answer.kind = "stale"
             \/ answer.kind \in {"advance", "complete"} /\ ~Continues(plugin.body, answer)
          /\ Leaves("idle") /\ answer' = None /\ UNCHANGED inflight
       \/ /\ \/ answer.kind \in {"error", "rolled-back"}
             \/ answer.kind = "partial" /\ ~(PartialFields \subseteq AllowedFields)
          /\ Retries
    /\ told' = IF answer.kind = "partial" THEN told \cup {plugin.body.stream} ELSE told
    /\ UNCHANGED <<live, backups, owed, session, fence, worker, undo, baseline, grant,
                   outcome, bounds>>

(* The call fails, or takes longer than the client waits; what was sent may *)
(* still arrive.  The bound is on calls that are still under way.           *)
Call == [body |-> plugin.body, try |-> plugin.try]
UnderWay == \/ Call \in inflight
            \/ undo # None /\ undo.req = Call

PluginTimesOut ==
    /\ plugin.at = "waiting" /\ answer = None
    /\ IF UnderWay THEN aborts < MaxAborts /\ aborts' = aborts + 1 ELSE UNCHANGED aborts
    /\ Retries
    /\ UNCHANGED <<live, backups, owed, session, fence, worker, undo, baseline, grant,
                   outcome, told, started, edits, faults, crashes>>

(* Studio changes, the user disconnects or the next generation takes over.  *)
PluginAborts ==
    /\ plugin.at = "waiting"
    /\ aborts < MaxAborts /\ aborts' = aborts + 1
    /\ Leaves("idle") /\ answer' = None
    /\ UNCHANGED <<live, backups, owed, session, fence, worker, undo, baseline, inflight,
                   grant, outcome, told, started, edits, faults, crashes>>

Lose(r) ==
    /\ r \in inflight
    /\ aborts < MaxAborts /\ aborts' = aborts + 1
    /\ inflight' = inflight \ {r}
    /\ UNCHANGED <<live, backups, owed, session, fence, worker, undo, baseline, plugin,
                   answer, grant, outcome, told, started, edits, faults, crashes>>

-------------------------------------------------------------------------------
(* The daemon takes one request at a time: the session's mutex is held      *)
(* through a rollback.                                                      *)

Replied(r, a) ==
    /\ inflight' = inflight \ {r}
    /\ answer' = IF plugin = [at |-> "waiting", body |-> r.body, try |-> r.try]
                 THEN a ELSE answer

SessionOf(g) == session # None /\ session.stream = g

IsStart(b) == b = Body(b.stream, 1, "structure", 0)

NewSession(g) ==
    [stream |-> g, svc |-> 1, phase |-> "structure", chunk |-> 0, fenced |-> Absent,
     expected |-> IF g \in Strict THEN grant ELSE baseline,
     done |-> FALSE, committed |-> {}, checkpoint |-> baseline, last |-> None, reply |-> None]

(* The service whose commit could not be taken back.                        *)
Stranded == {s \in {worker.s} : worker.at = "partial"}

(* Drop for PushStreamAccumulator: a worker that has not crossed its commit *)
(* fence is cancelled, the receipt of one that has is recovered, and what   *)
(* was replaced is taken back.  A session that has ended holds no           *)
(* checkpoint and is only forgotten.                                        *)
Drops ==
    /\ worker.at \notin Locked
    /\ undo' = IF session.checkpoint = None THEN None
               ELSE [stream |-> session.stream,
                     todo |-> session.committed \cup
                              IF worker.at = "ok"
                              THEN {[s |-> worker.s, created |-> worker.fenced = Absent]}
                              ELSE {},
                     kept |-> {}, at |-> "check", checkpoint |-> session.checkpoint,
                     partial |-> Stranded, req |-> None]
    /\ worker' = Idle /\ fence' = NoFence

(* Mutant of NoSession: the grant of a strict stream is not looked at.       *)
OpensUnchecked(r) ==
    /\ ~SessionOf(r.body.stream) /\ IsStart(r.body)
    /\ session' = NewSession(r.body.stream)
    /\ IF session = None THEN UNCHANGED <<fence, worker, undo>> ELSE Drops
    /\ UNCHANGED <<inflight, answer, grant, live, backups, baseline, outcome, faults>>

(* No session of this stream: only its first chunk may open one, a strict   *)
(* one with a grant that still describes the disk, and the checkpoint is    *)
(* taken before a session in the way is dropped.                            *)
NoSession(r) ==
    LET g == r.body.stream
        stale == g \in Strict /\ (g # started \/ grant # live)
    IN  /\ ~SessionOf(g)
        /\ \/ /\ ~IsStart(r.body)
              /\ Replied(r, Ends("error", r.body))
              /\ UNCHANGED <<session, fence, worker, undo, grant>>
           \/ /\ IsStart(r.body) /\ stale
              /\ Replied(r, Ends("stale", r.body))
              /\ grant' = IF g \in Strict THEN None ELSE grant
              /\ UNCHANGED <<session, fence, worker, undo>>
           \/ /\ IsStart(r.body) /\ ~stale
              /\ session' = NewSession(g)
              /\ grant' = IF g \in Strict THEN None ELSE grant
              /\ IF session = None THEN UNCHANGED <<fence, worker, undo>> ELSE Drops
              /\ UNCHANGED <<inflight, answer>>
    /\ UNCHANGED <<live, backups, baseline, outcome, faults>>

Replays(r) ==
    /\ SessionOf(r.body.stream)
    /\ \/ session.last = r.body /\ Replied(r, session.reply)
       \/ session.last # r.body /\ session.done /\ Replied(r, Ends("error", r.body))
    /\ UNCHANGED <<live, backups, session, fence, worker, undo, baseline, grant, outcome, faults>>

Fresh(r) == SessionOf(r.body.stream) /\ ~session.done /\ session.last # r.body

(* Mutant of Fails: only the service that failed is given up.               *)
FailsAlone(r) ==
    /\ worker.at \notin Locked
    /\ session' = None /\ baseline' = session.checkpoint
    /\ worker' = Idle /\ fence' = NoFence
    /\ Replied(r, Ends("error", r.body))
    /\ UNCHANGED <<live, backups, undo, grant, outcome, faults>>

(* The error path of streamed_push.                                         *)
Fails(r) ==
    /\ worker.at \notin Locked
    /\ \/ /\ worker.at = "ok"
          /\ Replied(r, Ends("error", r.body))
          /\ UNCHANGED <<session, fence, worker, undo, baseline, outcome>>
       \/ /\ worker.at # "ok" /\ session.committed # {}
          /\ undo' = [stream |-> session.stream, todo |-> session.committed, kept |-> {},
                      at |-> "check", checkpoint |-> session.checkpoint,
                      partial |-> Stranded, req |-> r]
          /\ worker' = Idle /\ fence' = NoFence
          /\ UNCHANGED <<session, baseline, outcome, inflight, answer>>
       \/ /\ worker.at # "ok" /\ session.committed = {}
          /\ baseline' = session.checkpoint
          /\ worker' = Idle /\ fence' = NoFence /\ UNCHANGED undo
          /\ IF worker.at = "partial"
             THEN /\ session' = [session EXCEPT !.done = TRUE, !.checkpoint = None,
                                   !.last = r.body, !.reply = Ends("partial", r.body)]
                  /\ outcome' = [outcome EXCEPT ![session.stream] = "partial"]
                  /\ Replied(r, Ends("partial", r.body))
             ELSE /\ session' = None
                  /\ Replied(r, Ends("error", r.body))
                  /\ UNCHANGED outcome
    /\ UNCHANGED <<live, backups, grant, faults>>

Advances(r, s, p, c) == Replied(r, Advance(s, p, c))
At(b) == b.svc = session.svc /\ b.phase = session.phase /\ b.chunk = session.chunk

OutOfOrder(r) == Fresh(r) /\ ~At(r.body) /\ Fails(r)

(* Structure: the whole service has come; the fingerprint thread starts.    *)
Structure(r) ==
    /\ Fresh(r) /\ At(r.body) /\ session.phase = "structure"
    /\ session' = [session EXCEPT !.phase = "fence", !.chunk = 0, !.last = r.body,
                                  !.reply = Advance(session.svc, "fence", 0)]
    /\ fence' = [at |-> "running", tree |-> Absent]
    /\ Advances(r, session.svc, "fence", 0)
    /\ UNCHANGED <<live, backups, worker, undo, baseline, grant, outcome, faults>>

(* A continuation tick while a thread is at work.                           *)
Tick(r) ==
    /\ session.chunk < MaxTicks
    /\ session' = [session EXCEPT !.chunk = @ + 1, !.last = r.body,
                     !.reply = Advance(session.svc, session.phase, session.chunk + 1)]
    /\ Advances(r, session.svc, session.phase, session.chunk + 1)
    /\ UNCHANGED <<live, backups, fence, worker, undo, baseline, grant, outcome, faults>>

StrictOk == session.stream \in Strict => fence.tree = session.expected[session.svc]

DiskFence(r) ==
    /\ Fresh(r) /\ At(r.body) /\ session.phase = "fence"
    /\ \/ fence.at = "running" /\ Tick(r)
       \/ /\ fence.at = "done" /\ StrictOk
          /\ session' = [session EXCEPT !.phase = "sources", !.chunk = 0, !.last = r.body,
                           !.fenced = fence.tree, !.reply = Advance(session.svc, "sources", 0)]
          /\ fence' = NoFence
          /\ Advances(r, session.svc, "sources", 0)
          /\ UNCHANGED <<live, backups, worker, undo, baseline, grant, outcome, faults>>
       \/ fence.at = "done" /\ ~StrictOk /\ Fails(r)
       \/ fence.at = "failed" /\ Fails(r)

Sources(r) ==
    /\ Fresh(r) /\ At(r.body) /\ session.phase = "sources"
    /\ session' = [session EXCEPT !.phase = "commit", !.chunk = 0, !.last = r.body,
                                  !.reply = Advance(session.svc, "commit", 0)]
    /\ worker' = [at |-> "staging", s |-> session.svc, fenced |-> session.fenced]
    /\ Advances(r, session.svc, "commit", 0)
    /\ UNCHANGED <<live, backups, fence, undo, baseline, grant, outcome, faults>>

Retained == session.committed \cup {[s |-> worker.s, created |-> worker.fenced = Absent]}

(* finalize_successful_stream_backups: each transaction is renamed and gets *)
(* a marker, either may fail (p, m); the oldest marked ones are removed.    *)
Age(b) == b.stream * (N + 1) + b.s
Finalized(g, p, m) ==
    LET marked == {IF b.stream # g \/ b.s \in p THEN b
                   ELSE [b EXCEPT !.mark = IF b.s \in m THEN "promoted" ELSE "marked"]
                     : b \in backups}
        Newer(b) == {c \in marked : c.mark = "marked" /\ Age(c) > Age(b)}
    IN  {b \in marked : b.mark = "marked" => Cardinality(Newer(b)) < KeepBackups}

Completes(r) ==
    \E p, m \in SUBSET Services :
       /\ faults + Cardinality(p \cup m) <= MaxFaults
       /\ faults' = faults + Cardinality(p \cup m)
       /\ baseline' = [s \in Services |-> Tree(session.stream)]
       /\ backups' = Finalized(session.stream, p, m)
       /\ session' = [session EXCEPT !.done = TRUE, !.committed = Retained, !.last = r.body,
                        !.checkpoint = None, !.reply = Ends("complete", r.body)]
       /\ outcome' = [outcome EXCEPT ![session.stream] = "complete"]
       /\ worker' = Idle
       /\ Replied(r, Ends("complete", r.body))
       /\ UNCHANGED <<live, fence, undo, grant>>

(* Mutant of DiskRevalidate: each service's baselines are recorded when the *)
(* service is there.                                                        *)
RecordsAtOnce(r) ==
    /\ Fresh(r) /\ At(r.body) /\ session.phase = "commit"
    /\ \/ worker.at \notin {"ok", "failed", "partial"} /\ Tick(r)
       \/ worker.at \in {"failed", "partial"} /\ Fails(r)
       \/ /\ worker.at = "ok" /\ session.svc < N
          /\ baseline' = [baseline EXCEPT ![session.svc] = Tree(session.stream)]
          /\ session' = [session EXCEPT !.svc = @ + 1, !.phase = "structure", !.chunk = 0,
                           !.committed = Retained, !.last = r.body, !.fenced = Absent,
                           !.reply = Advance(session.svc + 1, "structure", 0)]
          /\ worker' = Idle
          /\ Advances(r, session.svc + 1, "structure", 0)
          /\ UNCHANGED <<live, backups, fence, undo, grant, outcome, faults>>
       \/ worker.at = "ok" /\ session.svc = N /\ Completes(r)

DiskRevalidate(r) ==
    /\ Fresh(r) /\ At(r.body) /\ session.phase = "commit"
    /\ \/ worker.at \notin {"ok", "failed", "partial"} /\ Tick(r)
       \/ worker.at \in {"failed", "partial"} /\ Fails(r)
       \/ /\ worker.at = "ok" /\ session.svc < N
          /\ session' = [session EXCEPT !.svc = @ + 1, !.phase = "structure", !.chunk = 0,
                           !.committed = Retained, !.last = r.body, !.fenced = Absent,
                           !.reply = Advance(session.svc + 1, "structure", 0)]
          /\ worker' = Idle
          /\ Advances(r, session.svc + 1, "structure", 0)
          /\ UNCHANGED <<live, backups, fence, undo, baseline, grant, outcome, faults>>
       \/ worker.at = "ok" /\ session.svc = N /\ Completes(r)

(* A finished generation has the right to what it has replaced: pruning may *)
(* take it.                                                                 *)
Saved(w) == \E b \in backups : b.s = w[1] /\ b.tree = w[2]
Prunable(w) == \E b \in backups :
    /\ b.s = w[1] /\ b.tree = w[2]
    /\ \/ b.mark = "marked"
       \/ SessionOf(b.stream) /\ outcome'[b.stream] = "complete"

(* streamed_push.                                                           *)
Receive(r) ==
    /\ r \in inflight /\ undo = None
    /\ \/ NoSession(r) \/ Replays(r) \/ OutOfOrder(r) \/ Structure(r)
       \/ DiskFence(r) \/ Sources(r) \/ DiskRevalidate(r)
    /\ owed' = {w \in owed : Prunable(w) => Saved(w)'}
    /\ UNCHANGED <<plugin, told, started, edits, crashes, aborts>>

(* Mutant of Expire: only a stream that has ended is forgotten.             *)
ExpiresEnded ==
    /\ session # None /\ session.done /\ undo = None
    /\ \A r \in inflight : r.body.stream # session.stream
    /\ Drops
    /\ session' = None
    /\ UNCHANGED <<live, backups, owed, baseline, plugin, inflight, answer, grant,
                   outcome, told, bounds>>

(* schedule_push_stream_cleanup: 15 minutes without progress, or 2 after    *)
(* the end; a plugin that still works on the stream answers sooner.         *)
Expire ==
    /\ session # None /\ undo = None
    /\ plugin.at = "waiting" => plugin.body.stream # session.stream
    /\ \A r \in inflight : r.body.stream # session.stream
    /\ Drops
    /\ session' = None
    /\ UNCHANGED <<live, backups, owed, baseline, plugin, inflight, answer, grant,
                   outcome, told, bounds>>

-------------------------------------------------------------------------------
(* The two threads.                                                         *)


Goes(at) == worker' = [worker EXCEPT !.at = at]
Same == live[worker.s] = worker.fenced
Mine == CHOOSE b \in backups : b.s = worker.s /\ b.stream = session.stream

(* A system call, a guard or an input fails.                                *)
Fault == faults < MaxFaults /\ faults' = faults + 1
NoFault == UNCHANGED faults
FaultOr(refused) == \/ Fault
                    \/ refused /\ NoFault

FenceCaptures ==
    /\ fence.at = "running"
    /\ \/ NoFault /\ fence' = [at |-> "done", tree |-> live[session.svc]]
       \/ Fault /\ fence' = [fence EXCEPT !.at = "failed"]
    /\ UNCHANGED <<live, backups, owed, session, worker, undo, baseline, plugin, inflight,
                   answer, grant, outcome, told, started, edits, crashes, aborts>>

(* Copy the service to the stage and fence it; write the new tree there.    *)
Stage ==
    /\ worker.at = "staging"
    /\ \/ Same /\ NoFault /\ Goes("staged")
       \/ ~Same /\ NoFault /\ Goes("failed")
       \/ Fault /\ Goes("failed")
    /\ UNCHANGED <<live, backups>>

LastLook ==
    /\ worker.at = "staged" /\ NoFault
    /\ Goes(IF Same THEN "ready" ELSE "failed")
    /\ UNCHANGED <<live, backups>>

(* Behind the commit lock: an existing service goes to its backup, a        *)
(* missing one is installed at once and not looked at again.                *)
MoveAway ==
    /\ worker.at = "ready" /\ worker.fenced # Absent
    /\ \/ /\ live[worker.s] # Absent /\ NoFault
          /\ backups' = backups \cup {[s |-> worker.s, stream |-> session.stream,
                                       tree |-> live[worker.s], mark |-> "open"]}
          /\ live' = [live EXCEPT ![worker.s] = Absent]
          /\ Goes("moved")
       \/ /\ FaultOr(live[worker.s] = Absent)
          /\ Goes("failed") /\ UNCHANGED <<live, backups>>

InstallNew ==
    /\ worker.at = "ready" /\ worker.fenced = Absent
    /\ \/ /\ live[worker.s] = Absent /\ NoFault
          /\ live' = [live EXCEPT ![worker.s] = Tree(session.stream)]
          /\ Goes("ok")
       \/ /\ FaultOr(live[worker.s] # Absent)
          /\ Goes("failed") /\ UNCHANGED live
    /\ UNCHANGED backups

(* Mutant of VerifyMoved: what has changed is left in the backup.           *)
VerifyAndLeave ==
    /\ worker.at = "moved"
    /\ \/ Mine.tree = worker.fenced /\ NoFault /\ Goes("verified")
       \/ Mine.tree # worker.fenced /\ NoFault /\ Goes("failed")
    /\ UNCHANGED <<live, backups>>

VerifyMoved ==
    /\ worker.at = "moved"
    /\ \/ Mine.tree = worker.fenced /\ NoFault /\ Goes("verified")
       \/ Mine.tree # worker.fenced /\ NoFault /\ Goes("restore")
       \/ Fault /\ Goes("restore")
    /\ UNCHANGED <<live, backups>>

Install ==
    /\ worker.at = "verified"
    /\ \/ /\ live[worker.s] = Absent /\ NoFault
          /\ live' = [live EXCEPT ![worker.s] = Tree(session.stream)]
          /\ Goes("installed")
       \/ /\ FaultOr(live[worker.s] # Absent)
          /\ Goes("restore") /\ UNCHANGED live
    /\ UNCHANGED backups

Commit ==
    /\ worker.at = "installed"
    /\ \/ NoFault /\ Goes("ok")
       \/ Fault /\ Goes("check")
    /\ UNCHANGED <<live, backups>>

(* restore_stream_backup_before_install.                                    *)
RestoreBefore ==
    /\ worker.at = "restore"
    /\ \/ /\ live[worker.s] = Absent /\ NoFault
          /\ live' = [live EXCEPT ![worker.s] = Mine.tree]
          /\ backups' = backups \ {Mine}
          /\ Goes("failed")
       \/ /\ FaultOr(live[worker.s] # Absent)
          /\ Goes("partial") /\ UNCHANGED <<live, backups>>

(* Mutant of RestoreCheck: the installed tree is not looked at.             *)
RestoreBlindly ==
    /\ worker.at = "check" /\ NoFault
    /\ Goes("aside")
    /\ UNCHANGED <<live, backups>>

(* restore_stream_backup_after_install, in its three steps.                 *)
RestoreCheck ==
    /\ worker.at = "check"
    /\ \/ live[worker.s] = Tree(session.stream) /\ NoFault /\ Goes("aside")
       \/ live[worker.s] # Tree(session.stream) /\ NoFault /\ Goes("partial")
       \/ Fault /\ Goes("partial")
    /\ UNCHANGED <<live, backups>>

RestoreAside ==
    /\ worker.at = "aside" /\ NoFault
    /\ live' = [live EXCEPT ![worker.s] = Absent]
    /\ Goes("back")
    /\ UNCHANGED backups

(* When the backup cannot be moved back the new tree is put back in its     *)
(* place, if that succeeds.                                                 *)
RestoreBack ==
    /\ worker.at = "back"
    /\ \/ /\ live[worker.s] = Absent /\ NoFault
          /\ live' = [live EXCEPT ![worker.s] = Mine.tree]
          /\ backups' = backups \ {Mine}
          /\ Goes("failed")
       \/ /\ live[worker.s] # Absent /\ NoFault
          /\ Goes("partial") /\ UNCHANGED <<live, backups>>
       \/ /\ Fault /\ Goes("partial") /\ UNCHANGED backups
          /\ \/ /\ live[worker.s] = Absent
                /\ live' = [live EXCEPT ![worker.s] = Tree(session.stream)]
             \/ UNCHANGED live

WorkerStep ==
    /\ \/ Stage \/ LastLook \/ MoveAway \/ InstallNew \/ VerifyMoved \/ Install \/ Commit
       \/ RestoreBefore \/ RestoreCheck \/ RestoreAside \/ RestoreBack
    /\ UNCHANGED <<owed, session, fence, undo, baseline, plugin, inflight, answer, grant,
                   outcome, told, started, edits, crashes, aborts>>

-------------------------------------------------------------------------------
(* rollback_stream_generation.                                              *)

Ours(e) == CHOOSE b \in backups : b.s = e.s /\ b.stream = undo.stream

Undone(e) == undo' = [undo EXCEPT !.todo = @ \ {e}, !.at = "check"]
Refused(e) == undo' = [undo EXCEPT !.todo = @ \ {e}, !.kept = @ \cup {e}, !.at = "check"]

(* rollback_created_stream_service.                                         *)
UndoCreated(e) ==
    /\ undo.at = "check" /\ e.created
    /\ \/ live[e.s] = Absent /\ Undone(e) /\ NoFault /\ UNCHANGED live
       \/ /\ live[e.s] = Tree(undo.stream) /\ NoFault
          /\ live' = [live EXCEPT ![e.s] = Absent]
          /\ Undone(e)
       \/ /\ FaultOr(live[e.s] \notin {Absent, Tree(undo.stream)})
          /\ Refused(e) /\ UNCHANGED live
    /\ UNCHANGED backups

(* rollback_replaced_stream_service, by restore_stream_backup_after_install.*)
UndoCheck(e) ==
    /\ undo.at = "check" /\ ~e.created
    /\ \/ live[e.s] = Tree(undo.stream) /\ NoFault /\ undo' = [undo EXCEPT !.at = "aside"]
       \/ live[e.s] # Tree(undo.stream) /\ NoFault /\ Refused(e)
       \/ Fault /\ Refused(e)
    /\ UNCHANGED <<live, backups>>

UndoAside(e) ==
    /\ undo.at = "aside" /\ NoFault
    /\ live' = [live EXCEPT ![e.s] = Absent]
    /\ undo' = [undo EXCEPT !.at = "back"]
    /\ UNCHANGED backups

UndoBack(e) ==
    /\ undo.at = "back"
    /\ \/ /\ live[e.s] = Absent /\ NoFault
          /\ live' = [live EXCEPT ![e.s] = Ours(e).tree]
          /\ backups' = backups \ {Ours(e)}
          /\ Undone(e)
       \/ /\ live[e.s] # Absent /\ NoFault
          /\ Refused(e) /\ UNCHANGED <<live, backups>>
       \/ /\ Fault /\ Refused(e) /\ UNCHANGED backups
          /\ \/ /\ live[e.s] = Absent
                /\ live' = [live EXCEPT ![e.s] = Tree(undo.stream)]
             \/ UNCHANGED live

UndoStep ==
    /\ undo # None
    /\ \E e \in undo.todo :
          Latest(e) /\ (UndoCreated(e) \/ UndoCheck(e) \/ UndoAside(e) \/ UndoBack(e))
    /\ UNCHANGED <<owed, session, fence, worker, baseline, plugin, inflight, answer, grant,
                   outcome, told, started, edits, crashes, aborts>>

(* The end of a rollback: the engine's checkpoint is restored, and whoever  *)
(* asked is told.  A dropped session that had replaced nothing leaves no    *)
(* trace.                                                                   *)
Broken == undo.partial # {} \/ undo.kept # {}
Unwound == IF Broken THEN "partial" ELSE "failed"

UndoEnds ==
    /\ undo # None /\ undo.todo = {}
    /\ baseline' = undo.checkpoint
    /\ undo' = None
    /\ IF undo.req = None
       THEN /\ outcome' = [outcome EXCEPT ![undo.stream] = IF Broken THEN "partial" ELSE @]
            /\ UNCHANGED <<session, inflight, answer>>
       ELSE LET b == undo.req.body
                a == Ends(IF Broken THEN "partial" ELSE "rolled-back", b)
            IN  /\ outcome' = [outcome EXCEPT ![undo.stream] = Unwound]
                /\ session' = [session EXCEPT !.done = TRUE, !.committed = undo.kept,
                                 !.checkpoint = None, !.last = b, !.reply = a]
                /\ Replied(undo.req, a)
    /\ UNCHANGED <<live, backups, owed, fence, worker, plugin, grant, told, bounds>>

(* The services the stream under way has replaced, or is about to take back.*)
OpenStream == CASE undo # None -> undo.stream
                [] undo = None /\ session # None /\ ~session.done -> session.stream
                [] OTHER -> 0
InDoubt ==
    LET entries == CASE undo # None -> undo.todo \cup undo.kept
                     [] undo = None /\ OpenStream # 0 -> session.committed
                     [] OTHER -> {}
        stranded == IF undo = None THEN {} ELSE undo.partial
    IN  {e.s : e \in entries} \cup stranded \cup {s \in {worker.s} : worker.at \in Locked \cup {"ok", "partial"}}

(* The daemon stops at any point and starts again: no journal is read.      *)
Crash ==
    /\ crashes < MaxCrashes /\ crashes' = crashes + 1
    /\ outcome' = IF InDoubt = {} THEN outcome
                  ELSE [outcome EXCEPT ![OpenStream] = "crashed"]
    /\ session' = None /\ fence' = NoFence /\ worker' = Idle /\ undo' = None
    /\ baseline' = [s \in Services |-> Absent]
    /\ inflight' = {} /\ grant' = None
    /\ UNCHANGED <<live, backups, owed, plugin, answer, told, started, edits, faults, aborts>>

-------------------------------------------------------------------------------
Next ==
    \/ \E s \in Services : UserEdits(s) \/ UserCreates(s) \/ WatchRecords(s)
    \/ PluginStarts \/ PluginAnswered \/ PluginTimesOut \/ PluginAborts
    \/ \E r \in inflight : Lose(r) \/ Receive(r)
    \/ Expire \/ FenceCaptures \/ WorkerStep \/ UndoStep \/ UndoEnds \/ Crash

Spec == Init /\ [][Next]_vars

(* Both threads run, the timer of a session fires, a handler answers, and   *)
(* the client's calls have deadlines.                                       *)
Fairness ==
    /\ WF_vars(WorkerStep) /\ WF_vars(FenceCaptures) /\ WF_vars(Expire)
    /\ WF_vars(UndoStep) /\ WF_vars(UndoEnds)
    /\ WF_vars(\E r \in inflight : Receive(r))
    /\ WF_vars(PluginAnswered) /\ WF_vars(PluginTimesOut)

FairSpec == Spec /\ Fairness

-------------------------------------------------------------------------------
(* What is promised.                                                        *)

(* No work of the user is lost: a tree the user has written last is the     *)
(* live one or lies in a backup, at every step of a commit, of a rollback   *)
(* and of a crash; pruning takes only what a finished generation has        *)
(* replaced.                                                                *)
NoUserTreeLost == \A w \in owed : live[w[1]] = w[2] \/ Saved(w)

(* The conflict engine never takes a tree as a generation wrote it for      *)
(* agreed before every service of that generation is on the disk: a         *)
(* rollback leaves no trace in it (docs/SYNC_INVARIANTS.md: baselines come  *)
(* last).  A tree the user has edited since is the watcher's to record.     *)
BaselineIsPublished ==
    \A s \in Services : baseline[s] # Absent =>
        \/ baseline[s].gen = 0 \/ baseline[s].edit # 0
        \/ outcome[baseline[s].gen] = "complete"

(* The disk as it would be if the stream under way were taken back.         *)
Base(s) == IF s \notin InDoubt THEN live[s]
           ELSE IF Backup(s, OpenStream) = {} THEN Absent
           ELSE (CHOOSE b \in Backup(s, OpenStream) : TRUE).tree
Published == [g \in Streams |-> {s \in Services : Base(s) # Absent /\ Base(s).gen = g}]

(* The generation is installed whole, or taken back whole, or the client is *)
(* told that it is neither (docs/SYNC_INVARIANTS.md, Reconciliation: "a     *)
(* failed publish rolls back every service already published", "mixed       *)
(* generations are never reported as success").                             *)
Abstract == INSTANCE Generation WITH published <- Published
GenerationSpec == Abstract!Spec

(* A stream does not stay open: it ends by its last chunk, its failure, its *)
(* expiry or the daemon's death, whatever requests are lost.                *)
OpenFor(g) == SessionOf(g) /\ ~session.done
StreamEnds == \A g \in Streams : OpenFor(g) ~> ~OpenFor(g)

(* A service a commit or a rollback has moved off its place comes back, or  *)
(* recovery is reported, or the daemon has died on the way.                 *)
Away(s) == live[s] = Absent /\ \E w \in owed : w[1] = s
Reported == \E g \in Streams : outcome[g] \in {"partial", "crashed"}
ServiceReturns == \A s \in Services : Away(s) ~> live[s] # Absent \/ Reported

(* What is not kept: a plugin that has been given a partial answer stops    *)
(* for good (the comment in postExact of plugin/Plugin.luau).               *)
PartialStops == told # {} => plugin.at = "stopped"
===============================================================================
