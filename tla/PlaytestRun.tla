----------------------------- MODULE PlaytestRun -----------------------------
(* `rosync playtest run`: the command that owns a playtest from its start  *)
(* to its teardown (playtest_run.rs), and the plugin that starts the test, *)
(* boots the script in it, queues what it emits and decides how it has     *)
(* ended (Playscript.luau and the playtest handlers of Plugin.luau).       *)
(*                                                                         *)
(* Requests carry a key the command has chosen, clientRunId.  A response   *)
(* may be lost while its request is still to be executed, and the command  *)
(* then asks again, looks at the state of the job, or cancels by its key.  *)
(* `job.status` is what the plugin believes, `studio` whether the test     *)
(* runs.                                                                   *)
EXTENDS Naturals, Sequences, FiniteSetsExt

CONSTANTS
    Attempts,      \* START_MAX_ATTEMPTS
    QueueMax,      \* QUEUE_MAX_EVENTS
    PollMax,       \* POLL_MAX_EVENTS
    Budgets,       \* bounds: how many events the script emits, requests fail on
                   \* their way, calls of Studio fail, others stop the test
    None

VARIABLES
    keepOpen,      \* --keep-open
    cmd,           \* the command: what it does, why, its cursor and outcome
    waits,         \* the number of the request it waits for, or None
    reply,         \* the answer to it, or None
    inbox,         \* requests on their way to the plugin
    job,           \* the job and its run, or None
    tombstone,     \* the key has been cancelled before a start
    studio,        \* the playtest runs
    script,        \* the script in the playtest
    stop,          \* stopPlaytestJob: who has called it, with force or not
    term,          \* onPlayscriptTerminalRequested: where it is, or None
    cancel,        \* the handler of the cancellation, or None
    events,        \* run._events
    dropped,       \* run._queueDropped
    seq,           \* run._nextSequence
    printed,       \* history: the frames the command has printed
    emitted,       \* history: frames the run has queued or dropped
    refused,       \* history: Studio, or the router, has refused to stop it
    left           \* what the bounds leave

command == <<keepOpen, cmd>>
network == <<waits, reply, inbox>>
queue == <<events, dropped, seq>>
teardown == <<stop, term, cancel>>
test == <<studio, script>>
history == <<printed, emitted, refused>>
vars == <<command, network, job, tombstone, test, teardown, queue, history, left>>

Active == {"running", "stopping"}
Ended == cmd.pc \in {"done", "dead"}
Run == [status |-> "running", stopRequested |-> FALSE, booted |-> FALSE,
        pending |-> FALSE, claim |-> None, terminal |-> None]

Init ==
    /\ keepOpen \in BOOLEAN
    /\ cmd = [pc |-> "start", why |-> "start", attempt |-> 1, sent |-> FALSE,
              cursor |-> 0, pending |-> None, outcome |-> None]
    /\ waits = None /\ reply = None /\ inbox = {}
    /\ job = None /\ tombstone = FALSE /\ studio = FALSE /\ script = "off"
    /\ stop = None /\ term = None /\ cancel = None
    /\ events = <<>> /\ dropped = 0 /\ seq = 1
    /\ printed = <<>> /\ emitted = 0 /\ refused = FALSE
    /\ left \in Budgets

(* What the variables hold.                                                *)
Kinds == {"success", "failure", "timeout", "bootFailure", "aborted",
          "start response lost"}
Ends == [kind : Kinds, stopError : BOOLEAN]
Whys == {"start", "run", "recover", "heartbeat", "transport", "timeout", "interrupt"}
Commands == [pc : {"start", "poll", "status", "cancel", "done", "dead"},
             why : Whys, attempt : Nat, sent : BOOLEAN, cursor : Nat,
             pending : Kinds \cup {None}, outcome : Kinds \cup {None}]
Frames == [seq : Nat, type : {"event", "end", "dropped"}, count : Nat]
Requests == [id : Nat, op : {"start", "poll", "status", "cancel"}, after : Nat,
             why : Whys, force : BOOLEAN]
Replies == [kind : {"ok", "error", "lost", "refused"}, outcome : Ends \cup {None},
            frames : Seq(Frames), more : BOOLEAN, active : BOOLEAN]
Jobs == [status : {"running", "stopping", "stopped", "completed", "failed"},
         stopRequested : BOOLEAN, booted : BOOLEAN, pending : BOOLEAN,
         claim : {"success", "failure", None}, terminal : Ends \cup {None}]
Stops == [by : {"terminal", "cancel", "other"}, force : BOOLEAN]
Decisions == [phase : {"runners", "stop", "audit"}, end : Ends]
Cancels == [id : Nat, cleanup : {"waits", "none", "failed", "confirmed"}]

PlaytestAssumption ==
    /\ QueueMax \in Nat \ {0} /\ PollMax \in Nat
    /\ Budgets \subseteq [events : Nat, losses : Nat, faults : Nat, stops : Nat]
    /\ None \notin Nat /\ None \notin Ends /\ None \notin Replies
    /\ None \notin Jobs /\ None \notin Stops /\ None \notin Decisions
    /\ None \notin Cancels

TypeOK ==
    /\ keepOpen \in BOOLEAN /\ cmd \in Commands
    /\ waits \in Nat \cup {None} /\ reply \in Replies \cup {None}
    /\ inbox \subseteq Requests
    /\ job \in Jobs \cup {None} /\ tombstone \in BOOLEAN /\ studio \in BOOLEAN
    /\ script \in {"off", "booting", "running"}
    /\ stop \in Stops \cup {None} /\ term \in Decisions \cup {None}
    /\ cancel \in Cancels \cup {None}
    /\ events \in Seq(Frames) /\ dropped \in Nat /\ seq \in Nat
    /\ printed \in Seq(Frames) /\ emitted \in Nat /\ refused \in BOOLEAN
    /\ left \in [events : Nat, losses : Nat, faults : Nat, stops : Nat]

Spend(b) == left[b] > 0 /\ left' = [left EXCEPT ![b] = @ - 1]

-------------------------------------------------------------------------------
(* The command sends its next request.                                     *)
Number ==
    1 + Max({0} \cup {m.id : m \in inbox}
                \cup (IF cancel = None THEN {} ELSE {cancel.id}))

Request(op) ==
    [id |-> Number, op |-> op, after |-> cmd.cursor, why |-> cmd.why,
     force |-> cmd.why # "timeout" \/ ~ keepOpen]

Ask ==
    /\ cmd.pc \in {"start", "poll", "status", "cancel"} /\ waits = None
    /\ inbox' = inbox \cup {Request(cmd.pc)}
    /\ waits' = Number
    /\ cmd' = [cmd EXCEPT !.sent = @ \/ cmd.pc = "start"]
    /\ UNCHANGED <<keepOpen, reply, job, tombstone, test, teardown, queue,
                   history, left>>

Answer(kind) ==
    [kind |-> kind, outcome |-> None, frames |-> <<>>, more |-> FALSE,
     active |-> FALSE]

(* A start waits in the lane of the plugin's writes; the others overtake   *)
(* it.  Apart from that requests are executed in the order they were sent, *)
(* the lost ones too, or never.                                            *)
Before(x, m) == x.id <= m.id /\ (x.op = "start" <=> m.op = "start")
Take(m) == inbox' = {x \in inbox : ~ Before(x, m)}

(* The plugin's answer reaches the command if it still waits for it.       *)
Respond(m, r) ==
    /\ Take(m)
    /\ reply' = IF waits = m.id THEN r ELSE reply
    /\ UNCHANGED waits

(* No answer comes in time; the request may yet be executed.               *)
Lose ==
    /\ waits # None /\ reply = None /\ Spend("losses")
    /\ reply' = Answer("lost")
    /\ UNCHANGED <<command, waits, inbox, job, tombstone, test, teardown, queue,
                   history>>

(* The router answers that the plugin is not there; a request that was not *)
(* executed never will be.                                                 *)
Refuse ==
    /\ waits # None /\ reply = None /\ Spend("losses")
    /\ reply' = Answer("refused")
    /\ inbox' = {m \in inbox : m.id # waits}
    /\ refused' = (refused \/ cmd.pc = "cancel")
    /\ UNCHANGED <<command, waits, job, tombstone, test, teardown, queue, printed,
                   emitted>>

-------------------------------------------------------------------------------
(* Ends of the command and of its requests.                                *)
Heard == waits' = None /\ reply' = None /\ UNCHANGED inbox
Go(pc, why) == cmd' = [cmd EXCEPT !.pc = pc, !.why = why]
Finish(kind) == cmd' = [cmd EXCEPT !.pc = "done", !.outcome = kind]
Lost == reply.kind \in {"lost", "refused"}

(* received_outcome: what a terminal of the plugin makes of the run.       *)
Outcome(t) == IF t.stopError THEN "aborted" ELSE t.kind

Hears(pc) == cmd.pc = pc /\ reply # None
Rest == UNCHANGED <<keepOpen, job, tombstone, test, teardown, queue>>

(* start_owned_run: two attempts, then the cancellation of the key.        *)
NextAttempt ==
    IF cmd.attempt < Attempts THEN cmd' = [cmd EXCEPT !.attempt = @ + 1]
    ELSE IF cmd.sent THEN Go("cancel", "start") ELSE Finish("bootFailure")

CannotConnect ==
    /\ cmd.pc = "start" /\ waits = None /\ Spend("losses")
    /\ NextAttempt
    /\ UNCHANGED <<network, history>> /\ Rest

StartAnswered ==
    /\ Hears("start") /\ Heard
    /\ \/ reply.kind = "ok" /\ Go("poll", "run")
       \/ reply.kind = "error" /\ Finish("bootFailure")
       \/ Lost /\ NextAttempt
    /\ UNCHANGED <<history, left>> /\ Rest

(* A poll's frames are printed; the run is over when the plugin has an     *)
(* outcome and nothing more to say.  After a lost poll, or when the        *)
(* heartbeat is stale, the command looks at the job.                       *)
LastSeq(frames) == IF frames = <<>> THEN cmd.cursor ELSE frames[Len(frames)].seq
PollAnswered ==
    /\ Hears("poll") /\ Heard
    /\ \/ Lost /\ Go("status", "recover") /\ UNCHANGED printed
       \/ /\ reply.kind = "ok"
          /\ printed' = printed \o reply.frames
          /\ LET over == IF reply.outcome # None THEN Outcome(reply.outcome)
                         ELSE cmd.pending
                 now == [cmd EXCEPT !.cursor = LastSeq(reply.frames),
                                    !.pending = over]
             IN \/ /\ over # None /\ ~ reply.more
                   /\ cmd' = [now EXCEPT !.pc = "done", !.outcome = over]
                \/ ~ (over # None /\ ~ reply.more) /\ cmd' = now
                \/ /\ over = None
                   /\ cmd' = [now EXCEPT !.pc = "status", !.why = "heartbeat"]
    /\ UNCHANGED <<emitted, refused, left>> /\ Rest

(* The deadline passes, or the user interrupts the command.                *)
StopsWaiting ==
    /\ cmd.pc = "poll"
    /\ waits' = None /\ reply' = None /\ UNCHANGED inbox
    /\ \E why \in {"timeout", "interrupt"} : Go("cancel", why)
    /\ UNCHANGED <<history, left>> /\ Rest

(* recover_transport, the check of a stale heartbeat, and the looks after  *)
(* a cancellation of which nothing was heard.                              *)
Abort(why) == IF keepOpen THEN Finish("aborted") ELSE Go("cancel", why)
StatusAnswered ==
    /\ Hears("status") /\ Heard
    /\ \/ cmd.why = "interrupt" /\ Finish("aborted")
       \/ /\ cmd.why # "interrupt" /\ reply.outcome # None
          /\ Finish(Outcome(reply.outcome))
       \/ /\ cmd.why = "timeout" /\ reply.outcome = None
          /\ Finish(IF keepOpen \/ (reply.kind = "ok" /\ ~ reply.active)
                    THEN "timeout" ELSE "aborted")
       \/ /\ cmd.why = "heartbeat" /\ reply.outcome = None
          /\ IF reply.kind = "ok" /\ ~ reply.active
             THEN Go("cancel", "heartbeat") ELSE Go("poll", "run")
       \/ /\ cmd.why = "recover" /\ reply.outcome = None
          /\ \/ reply.kind = "ok" /\ reply.active /\ Go("poll", "run")
             \/ reply.kind = "ok" /\ ~ reply.active /\ Abort("transport")
             \/ Lost /\ UNCHANGED cmd
             \/ Lost /\ Abort("transport")
             \/ Lost /\ Go("cancel", "timeout")
    /\ UNCHANGED <<history, left>> /\ Rest

(* After a cancellation: what the plugin says has happened, or, when it    *)
(* says nothing, what can be said without it.                              *)
CancelAnswered ==
    /\ Hears("cancel") /\ Heard
    /\ \/ /\ reply.kind = "ok"
          /\ Finish(IF cmd.why = "start" /\ ~ reply.outcome.stopError
                       /\ reply.outcome.kind = "start response lost"
                    THEN "bootFailure" ELSE Outcome(reply.outcome))
       \/ /\ reply.kind # "ok" /\ cmd.why = "start"
          /\ Finish(IF reply.kind = "refused" THEN "bootFailure" ELSE "aborted")
       \/ /\ reply.kind # "ok" /\ cmd.why \in {"timeout", "interrupt"}
          /\ Go("status", cmd.why)
       \/ /\ reply.kind # "ok" /\ cmd.why \notin {"start", "timeout", "interrupt"}
          /\ Finish("aborted")
    /\ UNCHANGED <<history, left>> /\ Rest

(* The process is killed.                                                  *)
Dies ==
    /\ ~ Ended /\ Spend("losses")
    /\ cmd' = [cmd EXCEPT !.pc = "dead"]
    /\ waits' = None /\ reply' = None /\ UNCHANGED <<inbox, history>> /\ Rest

-------------------------------------------------------------------------------
(* The queue of frames.  A full one drops the newest and counts it; the    *)
(* count is queued as soon as there is a next frame or poll, at the price  *)
(* of the oldest, which it counts as well.                                 *)
Frame(type, n, count) == [seq |-> n, type |-> type, count |-> count]

MarkedUncounted ==
    IF dropped = 0 THEN [events |-> events, seq |-> seq]
    ELSE [events |-> Append(IF Len(events) >= QueueMax THEN Tail(events) ELSE events,
                            Frame("dropped", seq, dropped)),
          seq |-> seq + 1]

Marked ==
    IF dropped = 0 THEN [events |-> events, seq |-> seq]
    ELSE LET full == Len(events) >= QueueMax
             lost == IF ~ full THEN 0
                     ELSE IF Head(events).type = "dropped" THEN Head(events).count
                     ELSE 1
         IN [events |-> Append(IF full THEN Tail(events) ELSE events,
                               Frame("dropped", seq, dropped + lost)),
             seq |-> seq + 1]

Enqueue(type) ==
    IF Len(Marked.events) >= QueueMax
    THEN /\ dropped' = 1
         /\ events' = Marked.events /\ seq' = Marked.seq
    ELSE /\ dropped' = 0
         /\ events' = Append(Marked.events, Frame(type, Marked.seq, 0))
         /\ seq' = Marked.seq + 1

-------------------------------------------------------------------------------
Undecided == job.terminal = None /\ ~ job.pending
Free == Undecided /\ job.claim = None

(* requestTerminal and what onPlayscriptTerminalRequested does at once:    *)
(* with --keep-open the runners are cancelled, otherwise the playtest is   *)
(* stopped, unless somebody else is stopping it or it is over.             *)
Terminal(kind, stopError) == [kind |-> kind, stopError |-> stopError]

Decide(kind, force, j) ==
    IF keepOpen /\ kind \notin {"aborted", "start response lost"} /\ ~ force
    THEN /\ job' = [j EXCEPT !.pending = TRUE]
         /\ term' = [phase |-> "runners", end |-> Terminal(kind, FALSE)]
         /\ UNCHANGED stop
    ELSE CASE j.status = "stopping" ->
                /\ job' = [j EXCEPT !.pending = TRUE]
                /\ term' = [phase |-> "audit", end |-> Terminal("aborted", TRUE)]
                /\ UNCHANGED stop
           [] j.status = "running" ->
                /\ job' = [j EXCEPT !.pending = TRUE, !.status = "stopping",
                                    !.stopRequested = TRUE]
                /\ term' = [phase |-> "stop", end |-> Terminal(kind, FALSE)]
                /\ stop' = [by |-> "terminal",
                            force |-> force \/ kind \in {"timeout", "bootFailure"}]
           [] OTHER ->
                /\ job' = [j EXCEPT !.pending = TRUE]
                /\ term' = [phase |-> "audit", end |-> Terminal(kind, FALSE)]
                /\ UNCHANGED stop

(* The handler of a start: a key is started once, and never after it was   *)
(* cancelled.  Studio may be busy with another test.                       *)
StartsCancelled(m) ==
    /\ m.op = "start"
    /\ \/ /\ job = None
          /\ job' = Run /\ studio' = TRUE /\ script' = "booting"
          /\ Respond(m, Answer("ok")) /\ UNCHANGED left
       \/ /\ job # None
          /\ Respond(m, Answer("ok"))
          /\ UNCHANGED <<job, test, left>>
       \/ /\ job = None /\ Spend("faults")
          /\ Respond(m, Answer("error"))
          /\ UNCHANGED <<job, test>>
    /\ UNCHANGED <<command, tombstone, teardown, queue, history>>

Start(m) ==
    /\ m.op = "start"
    /\ \/ /\ job = None /\ ~ tombstone
          /\ job' = Run /\ studio' = TRUE /\ script' = "booting"
          /\ Respond(m, Answer("ok")) /\ UNCHANGED left
       \/ /\ job # None
          /\ Respond(m, Answer("ok"))
          /\ UNCHANGED <<job, test, left>>
       \/ /\ job = None
          /\ \/ tombstone /\ UNCHANGED left
             \/ ~ tombstone /\ Spend("faults")
          /\ Respond(m, Answer("error"))
          /\ UNCHANGED <<job, test>>
    /\ UNCHANGED <<command, tombstone, teardown, queue, history>>

(* Coordinator:poll, once it has something to say or has waited.  What the *)
(* command has seen is removed: the first frames, as a queue is in the     *)
(* order of its numbers.                                                   *)
Unseen(frames, after) ==
    LET new == {i \in DOMAIN frames : frames[i].seq > after}
    IN SubSeq(frames, Min(new \cup {Len(frames) + 1}), Len(frames))

Poll(m) ==
    /\ m.op = "poll"
    /\ LET rest == Unseen(Marked.events, m.after)
           some == SubSeq(rest, 1, IF Len(rest) < PollMax THEN Len(rest) ELSE PollMax)
       IN /\ events' = rest
          /\ Respond(m, [Answer("ok") EXCEPT !.frames = some,
                                             !.more = Len(rest) > PollMax,
                                             !.outcome = job.terminal])
    /\ dropped' = 0 /\ seq' = Marked.seq
    /\ UNCHANGED <<command, job, tombstone, test, teardown, history, left>>

Status(m) ==
    /\ m.op = "status"
    /\ Respond(m, [Answer("ok") EXCEPT !.active = job.status \in Active,
                                       !.outcome = job.terminal])
    /\ UNCHANGED <<command, job, tombstone, test, teardown, queue, history, left>>

(* playtest_run_cancel: before a start it leaves a tombstone; it stops     *)
(* what a decided run has left open; it asks for a decision where there is *)
(* none, and waits for it.                                                 *)
CancelNothing(m) ==
    /\ job = None
    /\ tombstone' = TRUE
    /\ Respond(m, [Answer("ok") EXCEPT
                     !.outcome = Terminal("start response lost", FALSE)])
    /\ UNCHANGED <<job, teardown>>

CancelDecided(m) ==
    /\ job # None /\ job.terminal # None
    /\ Take(m)
    /\ IF m.force /\ job.status = "running"
       THEN /\ job' = [job EXCEPT !.status = "stopping", !.stopRequested = TRUE]
            /\ stop' = [by |-> "cancel", force |-> TRUE]
            /\ cancel' = [id |-> m.id, cleanup |-> "waits"]
       ELSE /\ UNCHANGED <<job, stop>>
            /\ cancel' = [id |-> m.id,
                          cleanup |-> IF m.force /\ job.status = "stopping"
                                      THEN "failed" ELSE "none"]
    /\ UNCHANGED <<waits, reply, tombstone, term>>

CancelOpen(m) ==
    /\ job # None /\ job.terminal = None
    /\ Take(m)
    /\ cancel' = [id |-> m.id, cleanup |-> "none"]
    /\ IF Free
       THEN Decide(IF m.why = "start" THEN "start response lost"
                   ELSE IF m.why = "timeout" THEN "timeout" ELSE "aborted",
                   m.force, job)
       ELSE UNCHANGED <<job, stop, term>>
    /\ UNCHANGED <<waits, reply, tombstone>>

Cancel(m) ==
    /\ m.op = "cancel"
    /\ CancelNothing(m) \/ CancelDecided(m) \/ CancelOpen(m)
    /\ UNCHANGED <<command, test, queue, history, left>>

CancelGivesUp ==
    /\ cancel # None /\ job.terminal = None
    /\ cancel' = None
    /\ reply' = IF waits = cancel.id /\ reply = None THEN Answer("error") ELSE reply
    /\ UNCHANGED <<command, waits, inbox, job, tombstone, test, stop, term, queue,
                   history, left>>

CancelReturns ==
    /\ cancel # None /\ cancel.cleanup # "waits" /\ job.terminal # None
    /\ cancel' = None
    /\ LET end == IF cancel.cleanup = "failed" THEN Terminal("aborted", TRUE)
                  ELSE IF cancel.cleanup = "confirmed"
                       THEN Terminal(job.terminal.kind, FALSE)
                  ELSE job.terminal
       IN reply' = IF waits = cancel.id /\ reply = None
                   THEN [Answer("ok") EXCEPT !.outcome = end] ELSE reply
    /\ UNCHANGED <<command, waits, inbox, job, tombstone, test, stop, term, queue,
                   history, left>>

-------------------------------------------------------------------------------
(* The playtest ends, on request or by itself; a run that nothing has      *)
(* decided is then decided.                                                *)
JobEnds ==
    /\ studio
    /\ studio' = FALSE /\ script' = "off"
    /\ \E ended \in {"completed", "failed"} :
          LET j == [job EXCEPT !.status = IF job.stopRequested THEN "stopped" ELSE ended]
          IN IF Free
             THEN /\ job' = [j EXCEPT !.pending = TRUE]
                  /\ term' = [phase |-> "audit",
                              end |-> Terminal(IF ~ j.booted /\ j.status = "failed"
                                               THEN "bootFailure" ELSE "aborted", FALSE)]
             ELSE job' = j /\ UNCHANGED term
    /\ UNCHANGED <<command, network, tombstone, stop, cancel, queue, history, left>>

(* stopPlaytestJob comes to its end: the playtest has ended, or Studio     *)
(* refuses.  A forced stop that is refused gives the job up.               *)
Stopped(ok) ==
    /\ term' = IF stop.by # "terminal" THEN term
               ELSE [phase |-> "audit",
                     end |-> IF ok THEN term.end ELSE Terminal("aborted", TRUE)]
    /\ cancel' = IF stop.by # "cancel" \/ cancel = None THEN cancel
                 ELSE [cancel EXCEPT !.cleanup = IF ok THEN "confirmed" ELSE "failed"]
    /\ stop' = None

StopReturns ==
    /\ stop # None /\ job.status # "stopping"
    /\ Stopped(TRUE)
    /\ UNCHANGED <<command, network, job, tombstone, test, queue, history, left>>

StopFails ==
    /\ stop # None /\ Spend("faults")
    /\ Stopped(FALSE)
    /\ job' = IF stop.force THEN [job EXCEPT !.status = "failed"]
              ELSE [job EXCEPT !.stopRequested = FALSE,
                               !.status = IF @ = "stopping" THEN "running" ELSE @]
    /\ refused' = (refused \/ stop.force)
    /\ UNCHANGED <<command, network, tombstone, test, queue, printed, emitted>>

(* Another command stops the playtest.                                     *)
OtherStop ==
    /\ job # None /\ job.status = "running" /\ Spend("stops")
    /\ job' = [job EXCEPT !.status = "stopping", !.stopRequested = TRUE]
    /\ \E force \in BOOLEAN : stop' = [by |-> "other", force |-> force]
    /\ UNCHANGED <<command, network, tombstone, test, term, cancel, queue, history>>

(* cancelOpenPlayscriptRunners, for a playtest that is kept open.          *)
RunnersCancelled ==
    /\ term # None /\ term.phase = "runners"
    /\ \/ term' = [term EXCEPT !.phase = "audit"] /\ UNCHANGED left
       \/ /\ Spend("faults")
          /\ term' = [phase |-> "audit", end |-> Terminal("aborted", TRUE)]
    /\ UNCHANGED <<command, network, job, tombstone, test, stop, cancel, queue, history>>

(* The completion is written to the log, and the run is decided.           *)
Finalize ==
    /\ term # None /\ term.phase = "audit"
    /\ term' = None
    /\ job' = [job EXCEPT !.pending = FALSE, !.terminal = term.end]
    /\ Enqueue("end")
    /\ emitted' = emitted + 1
    /\ UNCHANGED <<command, network, tombstone, test, stop, cancel, printed, refused,
                   left>>

-------------------------------------------------------------------------------
(* The script in the playtest.                                             *)
Decides(kind) ==
    /\ Decide(kind, FALSE, job)
    /\ UNCHANGED <<command, network, tombstone, test, cancel, queue, history, left>>

Boots ==
    /\ script = "booting" /\ Undecided
    /\ script' = "running"
    /\ job' = [job EXCEPT !.booted = TRUE]
    /\ UNCHANGED <<command, network, tombstone, studio, teardown, queue, history, left>>

(* The script cannot be compiled, or no context is ready in time.          *)
BootFails == job # None /\ Free /\ ~ job.booted /\ Decides("bootFailure")

(* The plugin's own timer, and the watch over the runtime's connection.    *)
TimerFires == job # None /\ Free /\ Decides("timeout")
Vanishes == job # None /\ Free /\ job.booted /\ Decides("aborted")

Emits ==
    /\ script = "running" /\ Spend("events")
    /\ Undecided
    /\ Enqueue("event")
    /\ emitted' = emitted + 1
    /\ UNCHANGED <<command, network, job, tombstone, test, teardown, printed, refused>>

(* The first completion is claimed; its result is fetched in chunks, which *)
(* may fail.                                                               *)
Completes ==
    /\ script = "running" /\ Free
    /\ \E kind \in {"success", "failure"} : job' = [job EXCEPT !.claim = kind]
    /\ UNCHANGED <<command, network, tombstone, test, teardown, queue, history, left>>

Fetched ==
    /\ job # None /\ job.claim # None /\ Undecided
    /\ \/ Decide(job.claim, FALSE, [job EXCEPT !.claim = None]) /\ UNCHANGED left
       \/ Decide("failure", FALSE, [job EXCEPT !.claim = None]) /\ Spend("faults")
    /\ UNCHANGED <<command, network, tombstone, test, cancel, queue, history>>

-------------------------------------------------------------------------------
Next ==
    \/ Ask \/ Lose \/ Refuse
    \/ CannotConnect \/ StartAnswered \/ PollAnswered \/ StopsWaiting
    \/ StatusAnswered \/ CancelAnswered \/ Dies
    \/ \E m \in inbox : Start(m) \/ Poll(m) \/ Status(m) \/ Cancel(m)
    \/ CancelGivesUp \/ CancelReturns
    \/ JobEnds \/ StopReturns \/ StopFails \/ OtherStop
    \/ RunnersCancelled \/ Finalize
    \/ Boots \/ BootFails \/ TimerFires \/ Vanishes
    \/ Emits \/ Completes \/ Fetched

Spec == Init /\ [][Next]_vars

-------------------------------------------------------------------------------
(* "stops the playtest before the command exits" (ro-sync.md:542): a       *)
(* command that was not told to keep the playtest open, and reports        *)
(* anything but an abort, has left no playtest behind and no start that is *)
(* still to come, whatever was lost, retried or late.  What Studio refuses *)
(* to stop by force runs on, and so does a test whose cancellation finds no *)
(* plugin (a start that was lost is then reported as a failure to boot).   *)
NothingLeft ==
    /\ cmd.pc = "done" /\ cmd.outcome # "aborted" /\ ~ keepOpen /\ ~ refused
    => ~ studio

(* "they are never silently discarded" (ro-sync.md:632): when a poll has   *)
(* told the command of the end, every frame has been printed or counted as *)
(* dropped, in the order of the run.                                       *)
Weight(frame) == IF frame.type = "dropped" THEN frame.count ELSE 1
Told == MapThenSumSet(Weight, Range(printed))

EventsAccounted ==
    /\ \A i, k \in DOMAIN printed : i < k => printed[i].seq < printed[k].seq
    /\ cmd.pc = "done" /\ cmd.why = "run" => Told >= emitted

===============================================================================
