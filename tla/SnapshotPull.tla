----------------------------- MODULE SnapshotPull -----------------------------
(***************************************************************************)
(* A pull: the plugin stages the disk, service by service, from a stream   *)
(* of the daemon, and writes all of it into Studio at the end, under one   *)
(* recording.  Modelled from POST /snapshot/stream (snapshot_stream of     *)
(* daemon/src/http.rs) and doPullPath of plugin/Plugin.luau.               *)
(*                                                                         *)
(* Of a service on the disk only its version is kept.  Each phase is one   *)
(* chunk; the ticks that wait for a thread change nothing but the number   *)
(* of the next one, so a request waits for the thread instead.             *)
(***************************************************************************)
EXTENDS Naturals, Sequences

CONSTANTS
    N,                              \* services 1..N, as in SYNCED_SERVICES
    MaxPulls, MaxEdits, MaxLosses,  \* bounds
    None

(* What the proofs assume of the constants: there is a service.             *)
PullAssumption == N \in Nat \ {0}

Services == 1..N
Kinds    == {"full", "selective"}

VARIABLES
    version,  \* per service: the version on the disk
    streams,  \* the accumulators made so far; a stream's id is its index
    current,  \* the project's entry in SNAPSHOT_STREAM_ACCUMULATORS, or 0
    handlers, \* requests at work: each with the accumulator it has fetched
    removing, \* handlers that failed and have not removed the entry yet
    cursors,  \* requests on their way
    puller,   \* the plugin
    studio,   \* per service: the pull and the versions last written
    pulls, edits, losses  \* bounds

diskPart   == <<version, edits>>
daemonPart == <<streams, current, handlers, removing>>
pluginPart == <<cursors, puller, studio, pulls, losses>>
vars       == <<diskPart, daemonPart, pluginPart>>

(* The answer to the last tick of a preparation is the structure.  After    *)
(* the sources comes the tick that ends their phase; there are deletes only *)
(* when the pull is selective.                                              *)
PhaseAfter(phase, kind) ==
    CASE phase = "prepare" -> "sources"
      [] phase = "sources" -> "checked"
      [] phase = "checked" /\ kind = "selective" -> "deletes"
      [] OTHER -> "prepare"
LastPhase(kind) == IF kind = "selective" THEN "deletes" ELSE "checked"

NoThread == [at |-> "none", gen |-> 0, files |-> 0, fp |-> 0, again |-> 0]

(* The thread that prepares a service; what it has captured stays there.    *)
Preparing(s) == [NoThread EXCEPT !.at = "emitting", !.gen = version[s]]

Init ==
    /\ version = [s \in Services |-> 1]
    /\ streams = <<>> /\ current = 0 /\ handlers = {} /\ removing = {}
    /\ cursors = {} /\ pulls = 0 /\ edits = 0 /\ losses = 0
    /\ puller = [at |-> "idle", pull |-> 0, kind |-> "full", id |-> 0,
                 call |-> None, answer |-> None, staged |-> <<>>, applied |-> 0,
                 dirty |-> FALSE]
    /\ studio = [s \in Services |-> [pull |-> 0, structure |-> 0, sources |-> 0]]

Edit(s) ==
    /\ edits < MaxEdits /\ edits' = edits + 1
    /\ version' = [version EXCEPT ![s] = @ + 1]
    /\ UNCHANGED <<daemonPart, pluginPart>>

--------------------------------------------------------------------------------
(* The daemon.                                                              *)

Answers(r, says) == puller' = IF puller.call = r THEN [puller EXCEPT !.answer = says] ELSE puller
Fail == [id |-> 0, ok |-> FALSE, phase |-> "error", data |-> 0, over |-> FALSE]

(* A start that was answered and is the last thing the stream has heard is  *)
(* answered again; any other makes a stream that replaces the project's.    *)
Start(r) ==
    /\ r \in cursors /\ r.phase = "start" /\ cursors' = cursors \ {r}
    /\ IF current # 0 /\ streams[current].pull = r.pull /\ streams[current].heard.phase = "start"
       THEN Answers(r, streams[current].says) /\ UNCHANGED <<streams, current>>
       ELSE LET id   == Len(streams) + 1
                says == [Fail EXCEPT !.id = id, !.ok = TRUE, !.phase = "prepare"]
            IN /\ streams' = Append(streams,
                     [pull |-> r.pull, kind |-> r.kind, service |-> 1, phase |-> "prepare",
                      thread |-> Preparing(1), heard |-> r, says |-> says, over |-> FALSE])
               /\ current' = id
               /\ Answers(r, says)
    /\ UNCHANGED <<diskPart, handlers, removing, studio, pulls, losses>>

(* Any other request fetches the accumulator and then waits for its lock.   *)
Fetch(r) ==
    /\ r \in cursors /\ r.phase # "start" /\ cursors' = cursors \ {r}
    /\ IF current = 0 THEN Answers(r, Fail) /\ UNCHANGED handlers
       ELSE handlers' = handlers \cup {[r |-> r, id |-> current]} /\ UNCHANGED puller
    /\ UNCHANGED <<diskPart, streams, current, removing, studio, pulls, losses>>

(* A thread whose stream is gone is heard by nobody.                        *)
Heard(id) == id = current \/ \E h \in handlers : h.id = id

(* The thread: the tree is emitted between two looks at its generation, the *)
(* generations of the files are taken after that; then a second thread      *)
(* reads the fingerprint of all contents.                                   *)
Thread(id) ==
    LET t == streams[id].thread
        s == streams[id].service
    IN /\ Heard(id)
       /\ t.at \in {"emitting", "emitted"} \/ (t.at = "ready" /\ t.fp = 0)
       /\ streams' = [streams EXCEPT ![id].thread =
            CASE t.at = "emitting" -> [t EXCEPT !.at = IF t.gen = version[s]
                                                       THEN "emitted" ELSE "failed"]
              [] t.at = "emitted"  -> [t EXCEPT !.at = "ready", !.files = version[s]]
              [] t.at = "ready" /\ t.fp = 0 -> [t EXCEPT !.fp = version[s]]]
       /\ UNCHANGED <<diskPart, current, handlers, removing, pluginPart>>

(* poll_revalidated_pull_fingerprint: the fingerprint is read once more,    *)
(* by a thread that starts when all that comes before has been sent.        *)
Again(id) ==
    LET x == streams[id] IN
    /\ Heard(id)
    /\ x.phase \in {"checked", "deletes"} /\ x.thread.again = 0
    /\ streams' = [streams EXCEPT ![id].thread.again = version[x.service]]
    /\ UNCHANGED <<diskPart, current, handlers, removing, pluginPart>>

(* What the phase needs is there, and what it finds is good.                *)
Ready(x) ==
    CASE x.phase = "prepare" -> x.thread.at \in {"ready", "failed"}
      [] x.phase = "sources" -> x.thread.fp # 0
      [] OTHER               -> x.thread.again # 0
GoodUnchecked(x) ==   \* mutant: the fingerprint may be of another generation
    CASE x.phase = "prepare" -> x.thread.at = "ready"
      [] x.phase = "sources" -> version[x.service] = x.thread.files
      [] OTHER               -> x.thread.again = x.thread.fp
Good(x) ==
    CASE x.phase = "prepare" -> x.thread.at = "ready"
      [] x.phase = "sources" -> /\ x.thread.fp = x.thread.gen
                                /\ version[x.service] = x.thread.files
      [] OTHER               -> x.thread.again = x.thread.fp
Data(x) == CASE x.phase = "prepare" -> x.thread.gen
             [] x.phase = "sources" -> version[x.service]
             [] OTHER               -> 0

(* The next state of the stream, once a phase has been answered.            *)
Beyond(x, r, says) ==
    LET y == [x EXCEPT !.phase = PhaseAfter(x.phase, x.kind), !.heard = r, !.says = says] IN
    CASE says.over -> [x EXCEPT !.heard = r, !.says = says, !.over = TRUE]
      [] ~says.over /\ x.phase = LastPhase(x.kind) ->
            [y EXCEPT !.service = @ + 1, !.thread = Preparing(x.service + 1)]
      [] x.phase = "checked" /\ x.kind = "selective" -> [y EXCEPT !.thread.again = 0]
      [] OTHER -> y

Wants(x, r) == r.service = x.service /\ r.phase = x.phase

(* snapshot_stream, under the accumulator's lock: the request before is     *)
(* answered again, one that is out of place is refused, and one that fails  *)
(* leads to the removal of the stream.                                      *)
Serve(h) ==
    LET x == streams[h.id]
        r == h.r
        says == [id |-> h.id, ok |-> TRUE, phase |-> x.phase, data |-> Data(x),
                 over |-> x.service = N /\ x.phase = LastPhase(x.kind)]
        stranger == r.id # h.id \/ r.pull # x.pull
    IN /\ h \in handlers /\ handlers' = handlers \ {h}
       /\ \/ /\ stranger /\ Answers(h.r, Fail)
             /\ UNCHANGED <<streams, removing>>
          \/ /\ ~stranger /\ x.heard = [r EXCEPT !.try = x.heard.try]
             /\ Answers(r, x.says) /\ UNCHANGED <<streams, removing>>
          \/ /\ ~stranger /\ x.heard # [r EXCEPT !.try = x.heard.try]
             /\ x.over \/ ~Wants(x, r)
             /\ Answers(r, Fail) /\ UNCHANGED <<streams, removing>>
          \/ /\ ~stranger /\ ~x.over /\ Wants(x, r) /\ Ready(x)
             /\ x.heard # [r EXCEPT !.try = x.heard.try]
             /\ IF Good(x)
                THEN /\ streams' = [streams EXCEPT ![h.id] = Beyond(x, r, says)]
                     /\ Answers(r, says) /\ UNCHANGED removing
                ELSE /\ removing' = removing \cup {[r |-> r, id |-> h.id, phase |-> x.phase]}
                     /\ UNCHANGED <<streams, puller>>
       /\ UNCHANGED <<diskPart, current, cursors, studio, pulls, losses>>

(* A stream that failed while it was prepared takes away whatever stream    *)
(* the project has by now; one that failed later only itself.               *)
Remove(f) ==
    /\ f \in removing /\ removing' = removing \ {f}
    /\ current' = IF f.phase = "prepare" \/ current = f.id THEN 0 ELSE current
    /\ Answers(f.r, Fail)
    /\ UNCHANGED <<diskPart, streams, handlers, cursors, studio, pulls, losses>>

(* A stream nobody has asked for some time is removed.                      *)
Expire ==
    /\ current # 0 /\ losses < MaxLosses /\ losses' = losses + 1
    /\ current' = 0
    /\ UNCHANGED <<diskPart, streams, handlers, removing, cursors, puller, studio, pulls>>

--------------------------------------------------------------------------------
(* The plugin.                                                              *)

Sends(p, service, phase) ==
    LET r == [pull |-> p.pull, kind |-> p.kind, id |-> p.id, service |-> service,
              phase |-> phase, try |-> 1]
    IN puller' = [p EXCEPT !.call = r, !.answer = None] /\ cursors' = cursors \cup {r}
Gone == puller' = [puller EXCEPT !.at = "idle", !.id = 0, !.call = None, !.answer = None,
                                 !.staged = <<>>]

Pull ==
    /\ puller.at = "idle" /\ pulls < MaxPulls /\ pulls' = pulls + 1
    /\ \E kind \in Kinds :
          Sends([puller EXCEPT !.at = "pulling", !.pull = pulls + 1, !.kind = kind, !.id = 0,
                              !.dirty = FALSE, !.staged = <<>>], 1, "start")
    /\ UNCHANGED <<diskPart, daemonPart, studio, losses>>

(* postExact: a request is sent twice, then the pull is given up.           *)
Retries ==
    IF puller.call.try = 1
    THEN LET r == [puller.call EXCEPT !.try = 2] IN
         /\ puller' = [puller EXCEPT !.call = r, !.answer = None]
         /\ cursors' = cursors \cup {r}
    ELSE Gone /\ UNCHANGED cursors

Refused ==
    /\ puller.at = "pulling" /\ puller.answer # None /\ ~puller.answer.ok
    /\ IF puller.dirty THEN Gone /\ UNCHANGED cursors ELSE Retries
    /\ UNCHANGED <<diskPart, daemonPart, studio, pulls, losses>>

TimesOut ==
    /\ puller.at = "pulling" /\ puller.answer = None
    /\ losses < MaxLosses /\ losses' = losses + 1
    /\ Retries
    /\ UNCHANGED <<diskPart, daemonPart, studio, pulls>>

(* What arrived is staged; no live service is touched before the last one.  *)
Stage(a, service) ==
    CASE a.phase = "prepare" /\ puller.call.phase # "start" -> Append(puller.staged, [structure |-> a.data, sources |-> 0])
      [] a.phase = "sources"   -> [puller.staged EXCEPT ![service].sources = a.data]
      [] OTHER               -> puller.staged
Accepts ==
    LET a == puller.answer
        r == puller.call
        p == [puller EXCEPT !.id = a.id, !.staged = Stage(a, r.service)]
        started == r.phase = "start"
        service == IF ~started /\ a.phase = LastPhase(puller.kind)
                   THEN r.service + 1 ELSE r.service
    IN /\ puller.at = "pulling" /\ a # None /\ a.ok
       /\ IF puller.dirty \/ (~started /\ a.id # puller.id) THEN Gone /\ UNCHANGED cursors
          ELSE IF a.over
          THEN /\ puller' = [p EXCEPT !.at = "applying", !.applied = 0, !.answer = None]
               /\ UNCHANGED cursors
          ELSE Sends(p, service, IF started THEN "prepare" ELSE PhaseAfter(a.phase, puller.kind))
       /\ UNCHANGED <<diskPart, daemonPart, studio, pulls, losses>>

(* The user changes something: the mutation guard notices.                  *)
Touch ==
    /\ puller.at \in {"pulling", "applying"} /\ ~puller.dirty
    /\ losses < MaxLosses /\ losses' = losses + 1
    /\ puller' = [puller EXCEPT !.dirty = TRUE]
    /\ UNCHANGED <<diskPart, daemonPart, cursors, studio, pulls>>

(* applyStagedService, one service after the other, yielding in between.    *)
Apply ==
    /\ puller.at = "applying" /\ ~puller.dirty /\ puller.applied < N
    /\ LET s == puller.applied + 1 IN
       /\ studio' = [studio EXCEPT ![s] = [pull |-> puller.pull,
                        structure |-> puller.staged[s].structure,
                        sources |-> puller.staged[s].sources]]
       /\ puller' = [puller EXCEPT !.applied = s, !.call = IF s = 1 THEN studio ELSE @]
    /\ UNCHANGED <<diskPart, daemonPart, cursors, pulls, losses>>

(* The recording is committed, or cancelled, which puts Studio back; when   *)
(* neither Cancel nor Undo work, the plugin stops.                          *)
Commit ==
    /\ puller.at = "applying" /\ ~puller.dirty /\ puller.applied = N
    /\ Gone
    /\ UNCHANGED <<diskPart, daemonPart, cursors, studio, pulls, losses>>
CancelNothing ==   \* mutant: the recording is just finished
    /\ puller.at = "applying" /\ puller.dirty
    /\ Gone
    /\ UNCHANGED <<diskPart, daemonPart, cursors, studio, pulls, losses>>
Cancel ==
    /\ puller.at = "applying" /\ puller.dirty
    /\ \/ /\ studio' = IF puller.applied = 0 THEN studio ELSE puller.call
          /\ Gone
       \/ puller' = [puller EXCEPT !.at = "halted"] /\ UNCHANGED studio
    /\ UNCHANGED <<diskPart, daemonPart, cursors, pulls, losses>>

--------------------------------------------------------------------------------
Next ==
    \/ \E s \in Services : Edit(s)
    \/ \E r \in cursors : Start(r) \/ Fetch(r)
    \/ \E h \in handlers : Serve(h)
    \/ \E f \in removing : Remove(f)
    \/ \E id \in 1..Len(streams) : Thread(id) \/ Again(id)
    \/ Expire \/ Pull \/ Refused \/ TimesOut \/ Accepts \/ Touch \/ Apply \/ Commit \/ Cancel

Spec == Init /\ [][Next]_vars

--------------------------------------------------------------------------------
(* A service arrives in Studio as it once was on the disk: its scripts are  *)
(* of the tree they are in, although the two are read at different times,   *)
(* by several threads, under an editor.                                     *)
ServicesAreWhole == \A s \in Services : studio[s].structure = studio[s].sources

(* Studio has all services of one pull, or of none: a pull that is given up *)
(* in its midst leaves nothing behind, unless the plugin stops and says so. *)
PullIsAtomic ==
    puller.at \notin {"applying", "halted"} =>
        \A s, t \in Services : studio[s].pull = studio[t].pull

================================================================================
