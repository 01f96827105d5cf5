------------------------------ MODULE WorkflowRun ------------------------------
(* `rosync run` of one workflow, a single atomic group of N writes with an *)
(* idempotency key, by several processes, and the write lane of the plugin *)
(* that executes them (workflow_command.rs; transaction_begin,             *)
(* transaction_finish and the remote write queue of Plugin.luau).          *)
(*                                                                         *)
(* A run looks for the record of an earlier one, takes the lock file and   *)
(* looks again; it writes the record after its last step.  The group is a  *)
(* recording of Studio: its writes are undone together when it is          *)
(* cancelled.  The lane runs one write at a time, in their order; a        *)
(* handler may take long, and an answer may come too late for the run,     *)
(* which goes on without it.  All runs are of one workflow, so their       *)
(* transaction has one id, and requests and responses are those the router *)
(* carries (PluginRouting): in order, or failed when the plugin is lost.   *)
EXTENDS Naturals, Sequences

CONSTANTS
    Runs,            \* processes
    N,               \* writes of the group
    MaxQueue,        \* REMOTE_WRITE_QUEUE_MAX
    MaxTimeouts,     \* bound on the requests, waits and handlers that time out
    MaxFaults,       \* bound on the writes and records that fail
    MaxCrashes,      \* bound on the processes that are killed
    MaxDisconnects,  \* bound on the times the plugin loses its connection
    MaxOthers,       \* bound on the writes of other commands
    None

VARIABLES
    runs,         \* process -> what it asks or does next, its step, its outcome
    asked,        \* process -> the request it waits for, or None
    answers,      \* process -> the answer to that request, or None
    lock,         \* the lock file: the process that made it, or None
    recorded,     \* the idempotency record exists
    lane,         \* remoteWriteQueue
    active,       \* the item whose handler runs, or None
    late,         \* that item's executionTimedOut
    cleanup,      \* remoteWriteCleanupRequested
    recording,    \* the runs' writes in the recording that is active, or None
    committed,    \* history: the recordings that were committed
    outside,      \* history: the writes that were made outside of a recording
    connected,    \* the plugin is connected
    left          \* what the bounds leave

files == <<lock, recorded>>
process == <<runs, files>>
calls == <<asked, answers>>
queue == <<lane, active, late, cleanup>>
studio == <<recording, committed, outside>>
vars == <<process, calls, queue, studio, connected, left>>

Requests == {"begin", "write", "commit", "cancel"}
Over == {"done", "dead"}
Item(r, op, k) == [run |-> r, op |-> op, step |-> k, expired |-> FALSE]

(* The first k writes of a run, and all of them.                            *)
Writes(r, k) == [j \in 1..k |-> <<r, j>>]
Group(r) == Writes(r, N)

(* What the proofs assume of the constants: nothing else is called None.    *)
WorkflowAssumption ==
    /\ N \in Nat \ {0} /\ MaxQueue \in Nat
    /\ MaxTimeouts \in Nat /\ MaxFaults \in Nat /\ MaxCrashes \in Nat
    /\ MaxDisconnects \in Nat /\ MaxOthers \in Nat
    /\ None \notin Runs \cup Requests \cup {"ok", "error"}
    /\ \A r \in Runs, k \in 0..N : None # Writes(r, k)

Init ==
    /\ runs = [r \in Runs |-> [pc |-> "replay", step |-> 1, outcome |-> "open"]]
    /\ asked = [r \in Runs |-> None] /\ answers = [r \in Runs |-> None]
    /\ lock = None /\ recorded = FALSE
    /\ lane = <<>> /\ active = None /\ late = FALSE /\ cleanup = FALSE
    /\ recording = None /\ committed = <<>> /\ outside = {}
    /\ connected = TRUE
    /\ left = [timeouts |-> MaxTimeouts, faults |-> MaxFaults,
               crashes |-> MaxCrashes, disconnects |-> MaxDisconnects,
               others |-> MaxOthers]

Go(r, pc) == runs' = [runs EXCEPT ![r].pc = pc]
End(r, pc, outcome) ==
    runs' = [runs EXCEPT ![r].pc = pc, ![r].outcome = outcome]
Spend(b) == left[b] > 0 /\ left' = [left EXCEPT ![b] = @ - 1]

-------------------------------------------------------------------------------
(* workflow_replay_idempotency, before the lock is taken and after.        *)
FirstLook(r) ==
    /\ runs[r].pc = "replay"
    /\ IF recorded THEN End(r, "done", "replayed") ELSE Go(r, "lock")
    /\ UNCHANGED <<files, calls, queue, studio, connected, left>>

(* The lock file is created or the run fails.                              *)
TakeLock(r) ==
    /\ runs[r].pc = "lock"
    /\ IF lock = None THEN lock' = r /\ Go(r, "look")
       ELSE UNCHANGED lock /\ End(r, "done", "failed")
    /\ UNCHANGED <<recorded, calls, queue, studio, connected, left>>

(* A run that does not look again once it has the lock.                    *)
LooksOnce(r) ==
    /\ runs[r].pc = "look"
    /\ Go(r, "begin")
    /\ UNCHANGED <<files, calls, queue, studio, connected, left>>

SecondLook(r) ==
    /\ runs[r].pc = "look"
    /\ IF recorded THEN End(r, "unlock", "replayed") ELSE Go(r, "begin")
    /\ UNCHANGED <<files, calls, queue, studio, connected, left>>

(* write_json_atomic, after a run without a failure.                       *)
Save(r) ==
    /\ runs[r].pc = "save"
    /\ \/ recorded' = TRUE /\ End(r, "unlock", "ok") /\ UNCHANGED left
       \/ Spend("faults") /\ End(r, "unlock", "failed") /\ UNCHANGED recorded
    /\ UNCHANGED <<lock, calls, queue, studio, connected>>

(* Dropping the lock removes the file by its name.                         *)
Unlock(r) ==
    /\ runs[r].pc = "unlock"
    /\ lock' = None
    /\ Go(r, "done")
    /\ UNCHANGED <<recorded, calls, queue, studio, connected, left>>

(* A process is killed: its lock file and its recording stay.              *)
Crash(r) ==
    /\ runs[r].pc \notin Over
    /\ Spend("crashes")
    /\ Go(r, "dead")
    /\ asked' = [asked EXCEPT ![r] = None]
    /\ answers' = [answers EXCEPT ![r] = None]
    /\ UNCHANGED <<files, queue, studio, connected>>

(* The user removes a lock file once no run is active, as the error says.  *)
RemoveLock ==
    /\ lock # None
    /\ \A r \in Runs : runs[r].pc \in {"replay", "lock"} \cup Over
    /\ lock' = None
    /\ UNCHANGED <<runs, recorded, calls, queue, studio, connected, left>>

-------------------------------------------------------------------------------
(* An item is answered once; the run may have gone on already.             *)
Answer(as, items, answer) ==
    [r \in Runs |->
        IF as[r] = None /\ \E i \in items : /\ i.run = r /\ i.op = asked[r]
                                            /\ i.step = runs[r].step
        THEN answer ELSE as[r]]

Must(i) == i.op = "cancel"                          \* mustExecuteAfterTimeout

(* enqueueRemoteWrite: a full queue refuses; a cancellation evicts the     *)
(* newest ordinary write for its place.                                    *)
Ordinary == {k \in DOMAIN lane : ~ Must(lane[k])}
Newest(k) == \A j \in Ordinary : j <= k
Without(k) == SubSeq(lane, 1, k - 1) \o SubSeq(lane, k + 1, Len(lane))

Enqueue(i) ==
    \/ /\ Len(lane) < MaxQueue
       /\ lane' = Append(lane, i)
       /\ UNCHANGED answers
    \/ /\ Len(lane) >= MaxQueue /\ Must(i)
       /\ \E k \in Ordinary :
             /\ Newest(k)
             /\ lane' = Append(Without(k), i)
             /\ answers' = Answer(answers, {lane[k]}, "error")
    \/ /\ Len(lane) >= MaxQueue /\ ~ (Must(i) /\ Ordinary # {})
       /\ answers' = [answers EXCEPT ![i.run] = "error"]
       /\ UNCHANGED lane

(* The next request of a run; the router refuses it without a plugin.      *)
Ask(r) ==
    /\ runs[r].pc \in Requests /\ asked[r] = None
    /\ asked' = [asked EXCEPT ![r] = runs[r].pc]
    /\ \/ connected /\ Enqueue(Item(r, runs[r].pc, runs[r].step))
       \/ /\ ~ connected /\ answers' = [answers EXCEPT ![r] = "error"]
          /\ UNCHANGED lane
    /\ UNCHANGED <<process, active, late, cleanup, studio, connected, left>>

(* A write of another command, `rosync set` say, joins the lane.           *)
Other ==
    /\ connected /\ Len(lane) < MaxQueue /\ Spend("others")
    /\ lane' = Append(lane, Item(None, "write", 1))
    /\ UNCHANGED <<process, calls, active, late, cleanup, studio, connected>>

(* A run that commits what it has when a write fails.                      *)
AfterKeepsGoing(r, ok) ==
    CASE runs[r].pc = "begin" ->
            IF ok THEN Go(r, "write") ELSE End(r, "unlock", "failed")
      [] runs[r].pc = "write" ->
            IF runs[r].step = N THEN Go(r, "commit")
            ELSE runs' = [runs EXCEPT ![r].step = @ + 1]
      [] runs[r].pc = "commit" -> Go(r, IF ok THEN "save" ELSE "cancel")
      [] OTHER -> End(r, "unlock", IF ok THEN "rolled back" ELSE "failed")

(* run_workflow after an answer: a failed begin ends the run, a failed     *)
(* write or commit cancels, a cancellation ends it however it goes.        *)
After(r, ok) ==
    CASE runs[r].pc = "begin" ->
            IF ok THEN Go(r, "write") ELSE End(r, "unlock", "failed")
      [] runs[r].pc = "write" ->
            IF ~ ok THEN Go(r, "cancel")
            ELSE IF runs[r].step = N THEN Go(r, "commit")
            ELSE runs' = [runs EXCEPT ![r].step = @ + 1]
      [] runs[r].pc = "commit" -> Go(r, IF ok THEN "save" ELSE "cancel")
      [] OTHER -> End(r, "unlock", IF ok THEN "rolled back" ELSE "failed")

Receive(r) ==
    /\ asked[r] # None
    /\ \/ answers[r] # None /\ After(r, answers[r] = "ok") /\ UNCHANGED left
       \/ answers[r] = None /\ Spend("timeouts") /\ After(r, FALSE)
    /\ asked' = [asked EXCEPT ![r] = None]
    /\ answers' = [answers EXCEPT ![r] = None]
    /\ UNCHANGED <<files, queue, studio, connected>>

-------------------------------------------------------------------------------
(* The lane takes its next item; one that has expired is passed over,      *)
(* unless it is a cancellation.                                            *)
Take ==
    /\ active = None /\ lane # <<>>
    /\ lane' = Tail(lane)
    /\ active' = IF Head(lane).expired /\ ~ Must(Head(lane)) THEN None
                 ELSE Head(lane)
    /\ UNCHANGED <<process, calls, late, cleanup, studio, connected, left>>

(* expireQueuedWrite: an item waits too long in the queue, and its run is  *)
(* told so; a cancellation stays.                                          *)
WaitTimesOut(k) ==
    /\ ~ lane[k].expired /\ Spend("timeouts")
    /\ answers' = Answer(answers, {lane[k]}, "error")
    /\ lane' = [lane EXCEPT ![k].expired = ~ Must(lane[k])]
    /\ UNCHANGED <<process, asked, active, late, cleanup, studio, connected>>

(* A handler runs too long: its run is told so, the handler goes on.       *)
HandlerTimesOut ==
    /\ active # None /\ ~ late /\ Spend("timeouts")
    /\ late' = TRUE
    /\ answers' = Answer(answers, {active}, "error")
    /\ UNCHANGED <<process, asked, lane, active, cleanup, studio, connected>>

(* A begin that joins the recording that is active.                        *)
CanJoin(ok) ==
    CASE active.op = "commit" -> ok => recording # None
      [] active.op \in {"begin", "write"} -> TRUE
      [] OTHER -> ok \/ recording # None

(* transaction_begin, a write, transaction_finish: whether the handler can *)
(* succeed or fail, and what it does to the recording.                     *)
Can(ok) ==
    CASE active.op = "begin" -> ok => recording = None
      [] active.op = "commit" -> ok => recording # None
      [] active.op = "write" -> TRUE
      [] OTHER -> ok \/ recording # None

Fault(ok) ==
    /\ ~ ok
    /\ \/ active.op = "write"
       \/ active.op = "begin" /\ recording = None
       \/ active.op \in {"commit", "cancel"} /\ recording # None

Change == <<active.run, active.step>>

(* A recording has the writes of other commands, too, but nothing tells     *)
(* them apart: only those of runs are kept.                                 *)
Recorded(ok) ==
    CASE active.op = "begin" -> IF ok /\ recording = None THEN <<>> ELSE recording
      [] active.op = "write" -> IF ok /\ recording # None /\ active.run # None
                                THEN Append(recording, Change) ELSE recording
      [] OTHER -> IF ok THEN None ELSE recording

Handled(ok) ==
    /\ Can(ok)
    /\ IF Fault(ok) THEN Spend("faults") ELSE UNCHANGED left
    /\ committed' = IF active.op = "commit" /\ ok
                    THEN Append(committed, recording) ELSE committed
    /\ outside' = IF active.op = "write" /\ ok /\ recording = None
                  THEN outside \cup {Change} ELSE outside

Expired(q) == [k \in DOMAIN q |-> [q[k] EXCEPT !.expired = TRUE]]
Items(q) == {q[k] : k \in DOMAIN q}

(* finishRemoteRequest, unless the run has been told of a timeout.         *)
Answered(ok) ==
    IF late THEN answers
    ELSE Answer(answers, {active}, IF ok THEN "ok" ELSE "error")

(* A handler returns.  After one that overran, or during which the plugin  *)
(* was lost, requestRemoteWriteCleanup cancels the recording, which stays  *)
(* if Studio does not finish it, and all that waits.                       *)
Return ==
    /\ active # None
    /\ \E ok \in BOOLEAN :
          /\ Handled(ok)
          /\ IF late \/ cleanup
             THEN /\ recording' \in {None, Recorded(ok)}
                  /\ lane' = Expired(lane)
                  /\ answers' = Answer(Answered(ok), Items(lane), "error")
             ELSE /\ recording' = Recorded(ok)
                  /\ answers' = Answered(ok)
                  /\ UNCHANGED lane
    /\ active' = None /\ late' = FALSE /\ cleanup' = FALSE
    /\ UNCHANGED <<process, asked, connected>>

-------------------------------------------------------------------------------
(* The router answers for a plugin that is lost.                           *)
Unrouted ==
    [r \in Runs |-> IF asked[r] # None /\ answers[r] = None THEN "error"
                    ELSE answers[r]]

(* The plugin loses its connection: what waits is cancelled, the recording *)
(* now or when the handler returns.                                        *)
Disconnect ==
    /\ connected /\ Spend("disconnects")
    /\ connected' = FALSE
    /\ answers' = Unrouted
    /\ lane' = Expired(lane)
    /\ cleanup' = (active # None)
    /\ recording' \in (IF active # None THEN {recording} ELSE {None, recording})
    /\ UNCHANGED <<process, asked, active, late, committed, outside>>

(* The plugin is loaded anew: its queue and its handler are gone, and the  *)
(* recording whose identifier it had stored is cancelled.                  *)
Reload ==
    /\ connected /\ Spend("disconnects")
    /\ connected' = FALSE
    /\ answers' = Unrouted
    /\ lane' = <<>> /\ active' = None /\ late' = FALSE /\ cleanup' = FALSE
    /\ recording' = None
    /\ UNCHANGED <<process, asked, committed, outside>>

Connect ==
    /\ ~ connected /\ connected' = TRUE
    /\ UNCHANGED <<process, calls, queue, studio, left>>

Next ==
    \/ \E r \in Runs : \/ FirstLook(r) \/ TakeLock(r) \/ SecondLook(r)
                       \/ Save(r) \/ Unlock(r) \/ Crash(r)
                       \/ Ask(r) \/ Receive(r)
    \/ \E k \in DOMAIN lane : WaitTimesOut(k)
    \/ Other \/ RemoveLock \/ Take \/ HandlerTimesOut \/ Return
    \/ Disconnect \/ Reload \/ Connect

Spec == Init /\ [][Next]_vars

-------------------------------------------------------------------------------
OfRuns(w) == w[1] # None
Connected == left["disconnects"] = MaxDisconnects
Alone == left["others"] = MaxOthers

(* What is committed is the whole group of one run, whatever times out,    *)
(* fails or is killed.  While the plugin stays connected and no other      *)
(* command shares its lane, no write is made outside of a recording        *)
(* either: the cleanup after another command that overran ends a recording *)
(* whose run does not know.                                                *)
AtomicGroup ==
    /\ \A k \in DOMAIN committed : \E r \in Runs : committed[k] = Group(r)
    /\ Connected /\ Alone => \A w \in outside : ~ OfRuns(w)

(* A run that reports success has committed its group, and one that was    *)
(* told of an earlier run's success finds a group committed.               *)
SuccessIsWhole ==
    \A r \in Runs :
        /\ runs[r].outcome = "ok" =>
              \E k \in DOMAIN committed : committed[k] = Group(r)
        /\ runs[r].outcome = "replayed" => committed # <<>>

(* Once the record exists nothing of the workflow runs again.              *)
RecordedIsFinal ==
    [][recorded => /\ UNCHANGED committed
                   /\ \A w \in outside' \ outside : ~ OfRuns(w)]_vars

(* "Losing that session makes commit intent unknowable, so fail closed and *)
(* roll back" (Plugin.luau:11842): a run that reports its group as rolled  *)
(* back has left none of its writes.                                       *)
RolledBackIsUndone ==
    \A r \in Runs : runs[r].outcome = "rolled back" =>
        \A w \in outside : w[1] # r

===============================================================================
