------------------------------ MODULE SourceSync ------------------------------
(***************************************************************************)
(* One source file and its script: the conflict engine of the daemon       *)
(* (daemon/src/conflict.rs) between the threads that use it, and the part  *)
(* of the Studio plugin (plugin/Plugin.luau) that captures editor text and *)
(* applies what the daemon sends.                                          *)
(*                                                                         *)
(*    user saves -> disk -> watch bridge -> toStudio -> plugin -> script   *)
(*    user types -> script -> debounce -> outgoing -> toDaemon -> disk     *)
(*                                                                         *)
(* The engine keeps three maps behind three mutexes, so one action here is *)
(* one critical section of the bridge, of the push handler or of a         *)
(* resolution; what each of them still holds in its hands is a record.     *)
(* An acknowledgement is a push of the text the plugin has applied; the    *)
(* daemon cannot tell it from an edit.                                     *)
(*                                                                         *)
(* Paths are independent unless one is renamed, so there is one path here, *)
(* and renames are left out, as are the script's own creation, deletion    *)
(* and move in Studio.  A push that is not fully written makes the plugin  *)
(* close its connection and compare both sides again; that comparison is   *)
(* one step here (Reconcile), taken while the daemon has nothing in hand   *)
(* but a choice whose acknowledgement it may still be waiting for.         *)
(***************************************************************************)
EXTENDS Naturals, Sequences

CONSTANTS
    DiskTexts,     \* texts the user saves to the file
    StudioTexts,   \* texts the user types in Studio
    Base,          \* the text both sides start from
    None,          \* no file, no script, no baseline, no expected text
    Settings       \* what may happen, and how often: one of these

Texts == DiskTexts \cup StudioTexts \cup {Base}

(* Windows in which the outcome differs; a run names those it leaves open. *)
RaceNames == {
    "overlap",         \* the daemon's threads use the engine at the same time
    "crossing",        \* an event and a captured edit cross on their ways
    "quiet delete",    \* the user deletes a file just written by a push
    "late choice"}     \* a resolution still waits when both sides are compared

ASSUME TextsAssumption == None \notin Texts
ASSUME SettingsAssumption ==
    Settings \subseteq [races : SUBSET RaceNames, saves : Nat, typed : Nat,
                        choices : Nat]

VARIABLES
    setting,    \* the setting of this behaviour
    disk,       \* the file
    event,      \* the watcher has a change of it that the bridge has not read
    quiet,      \* push_quiet holds its path
    baseline,   \* ConflictEngine.baselines
    conflict,   \* ConflictEngine.conflicts
    pending,    \* ConflictEngine.pending_fs_destructive
    bridge,     \* the watch bridge: where it is and the text it holds
    push,       \* the push handler: where it is, its text and what it read
    choice,     \* a resolution: where it is and what resolve returned
    toStudio,   \* events on their way to the plugin, None for a delete
    toDaemon,   \* push frames on their way to the daemon
    script,     \* the script's text in Studio
    editing,    \* sourceSyncState.pending: a debounce is running
    expected,   \* sourceSyncState.expected
    outgoing,   \* pendingOps
    worker,     \* the op worker: where it is and the text it applies
    linked,     \* the plugin's connection is open
    refused,    \* a push-result on its way reports a push not fully written
    budget,     \* saves, edits and resolutions so far (bound)
    diskPast,   \* every text the file has had (observed)
    scriptPast  \* every text the script has had (observed)

fileVars   == <<disk, event, quiet, diskPast>>
engineVars == <<baseline, conflict, pending>>
wireVars   == <<toStudio, toDaemon, refused>>
editorVars == <<script, editing, expected, scriptPast>>
pluginVars == <<editorVars, outgoing, worker, linked>>
vars == <<setting, fileVars, engineVars, bridge, push, choice, wireVars,
          pluginVars, budget>>

Races      == setting.races
MaxSaves   == setting.saves     \* bound: saves and deletions of the file
MaxTyped   == setting.typed     \* bound: edits in Studio
MaxChoices == setting.choices   \* bound: resolutions of a parked conflict

Content == Texts \cup {None}
Conflict == [fs : Content, studio : Content, deleted : BOOLEAN]
NoConflict == [fs |-> None, studio |-> None, deleted |-> FALSE]

BridgeAt == {"recv", "parked", "action", "baseline", "record", "unpark",
             "emit", "begin", "attach", "grace", "finish", "decide", "send",
             "forget", "drop"}
PushAt == {"recv", "look", "read", "pending", "clean", "parkDelete",
           "baseline", "write", "record", "unpark", "park"}
ChoiceAt == {"none", "write", "record", "unpark", "emit", "await", "repark",
             "restore", "install", "delete", "forget", "drop",
             "reparkDelete"}
WorkerAt == {"idle", "writing", "acking"}

Idle == [at |-> "recv", text |-> None]
NoPush == [at |-> "recv", text |-> None, seen |-> None]
NoChoice == [at |-> "none", fs |-> None, studio |-> None]
NoJob == [at |-> "idle", text |-> None]

BridgeState == [at : BridgeAt, text : Content]
PushState   == [at : PushAt, text : Content, seen : Content]
ChoiceState == [at : ChoiceAt, fs : Content, studio : Content]
WorkerState == [at : WorkerAt, text : Content]
Counters    == [saves : Nat, typed : Nat, choices : Nat]

FileType   == /\ disk \in Content /\ event \in BOOLEAN /\ quiet \in BOOLEAN
              /\ diskPast \subseteq Texts
EngineType == /\ baseline \in Content /\ conflict \in Conflict
              /\ pending \in BOOLEAN
              /\ conflict # NoConflict => conflict.studio \in Texts
BridgeType == bridge \in BridgeState
PushType   == /\ push \in PushState
              /\ (push.at = "recv") = (push.text = None)
ChoiceType == /\ choice \in ChoiceState
              /\ choice.at # "none" => choice.studio \in Texts
WireType   == /\ toStudio \in Seq(Content) /\ toDaemon \in Seq(Texts)
              /\ refused \in BOOLEAN
EditorType == /\ script \in Content /\ editing \in BOOLEAN
              /\ expected \in Content /\ scriptPast \subseteq Texts
QueueType  == outgoing \in Seq(Texts) /\ linked \in BOOLEAN
WorkerType == /\ worker \in WorkerState
              /\ (worker.at = "idle") = (worker.text = None)
CountType  == budget \in Counters
DataType   == /\ FileType /\ EngineType /\ BridgeType /\ PushType
              /\ ChoiceType /\ WireType /\ EditorType /\ QueueType
              /\ WorkerType /\ CountType

(* Every variable has its type; the handler and the worker hold a text     *)
(* exactly while they work on one, and a conflict always has Studio's.     *)
TypeOK == setting \in Settings /\ DataType

(* The initial comparison has recorded the text both sides have. *)
Init ==
    /\ setting \in Settings
    /\ disk = Base /\ event = FALSE /\ quiet = FALSE
    /\ baseline = Base /\ conflict = NoConflict /\ pending = FALSE
    /\ bridge = Idle /\ push = NoPush /\ choice = NoChoice
    /\ toStudio = <<>> /\ toDaemon = <<>>
    /\ script = Base /\ editing = FALSE /\ expected = None
    /\ outgoing = <<>> /\ worker = NoJob
    /\ linked = TRUE /\ refused = FALSE
    /\ budget = [saves |-> 0, typed |-> 0, choices |-> 0]
    /\ diskPast = {Base} /\ scriptPast = {Base}

-----------------------------------------------------------------------------
Parked == conflict # NoConflict

(* The threads that use the engine; the grace of a preflight and the wait  *)
(* for an acknowledgement are no use.                                      *)
BridgeBusy == bridge.at \notin {"recv", "finish"}
PushBusy   == push.at # "recv"
ChoiceBusy == choice.at \notin {"none", "await"}
MayEnter   == BridgeBusy \/ PushBusy \/ ChoiceBusy => "overlap" \in Races

(* write_synced_file_atomic; the watcher reports it like any other change. *)
WriteFile(text) ==
    /\ disk' = text /\ diskPast' = diskPast \cup {text}
    /\ event' = TRUE /\ quiet' = TRUE

(* Events go to the connections there are.                                 *)
Broadcast(text) ==
    /\ toStudio' = IF linked THEN Append(toStudio, text) ELSE toStudio
    /\ UNCHANGED <<toDaemon, refused>>

BridgeStep(at) == bridge' = [bridge EXCEPT !.at = at]
PushStep(at)   == push' = [push EXCEPT !.at = at]
ChoiceStep(at) == choice' = [choice EXCEPT !.at = at]

(* The handler is through with the push and answers it.                    *)
PushEnds(written) ==
    /\ push' = NoPush
    /\ refused' = (refused \/ (linked /\ ~written))
    /\ UNCHANGED <<toStudio, toDaemon>>

-----------------------------------------------------------------------------
(* The user's editor on the file.                                          *)

FileChange ==
    /\ budget.saves < MaxSaves
    /\ budget' = [budget EXCEPT !.saves = @ + 1]
    /\ event' = TRUE
    /\ UNCHANGED <<quiet, engineVars, bridge, push, choice, wireVars,
                   pluginVars>>

Save(text) ==
    /\ text # disk
    /\ disk' = text /\ diskPast' = diskPast \cup {text}
    /\ FileChange

DeleteFile ==
    /\ disk # None
    /\ quiet => "quiet delete" \in Races
    /\ disk' = None /\ UNCHANGED diskPast
    /\ FileChange

(* PUSH_QUIET_MS after the write. *)
QuietEnds ==
    /\ quiet /\ quiet' = FALSE
    /\ UNCHANGED <<disk, event, diskPast, engineVars, bridge, push, choice,
                   wireVars, pluginVars, budget>>

-----------------------------------------------------------------------------
(* The watch bridge.                                                       *)

(* An operation is read from the disk; a delete of a quiet path is         *)
(* skipped, a file that is there always goes through the engine.           *)
ReceiveOp ==
    /\ bridge.at = "recv" /\ event /\ MayEnter
    /\ event' = FALSE
    /\ bridge' = IF disk # None THEN [at |-> "parked", text |-> disk]
                 ELSE IF quiet THEN bridge
                 ELSE [at |-> "begin", text |-> None]
    /\ UNCHANGED <<disk, quiet, diskPast, engineVars, push, choice, wireVars,
                   pluginVars, budget>>

(* Mutant of CheckParked: a conflict keeps the text it was parked with.    *)
KeepParked ==
    /\ bridge.at = "parked"
    /\ IF ~Parked THEN BridgeStep("action") /\ UNCHANGED conflict
       ELSE IF conflict.studio = bridge.text
       THEN BridgeStep("record") /\ conflict' = NoConflict
       ELSE bridge' = Idle /\ UNCHANGED conflict
    /\ UNCHANGED <<fileVars, baseline, pending, push, choice, wireVars,
                   pluginVars, budget>>

(* on_fs_change: a parked conflict takes in the file's new text, or ends   *)
(* when the file has caught up with Studio.                                *)
CheckParked ==
    /\ bridge.at = "parked"
    /\ IF ~Parked THEN BridgeStep("action") /\ UNCHANGED conflict
       ELSE IF conflict.studio = bridge.text
       THEN BridgeStep("record") /\ conflict' = NoConflict
       ELSE /\ conflict' = [conflict EXCEPT !.fs = bridge.text]
            /\ bridge' = Idle
    /\ UNCHANGED <<fileVars, baseline, pending, push, choice, wireVars,
                   pluginVars, budget>>

(* A conflict over the file's own deletion blocks it, too.                 *)
CheckAction ==
    /\ bridge.at = "action"
    /\ bridge' = IF Parked /\ conflict.deleted THEN Idle
                 ELSE [bridge EXCEPT !.at = "baseline"]
    /\ UNCHANGED <<fileVars, engineVars, push, choice, wireVars, pluginVars,
                   budget>>

(* Mutant of CheckBaseline: what is sent counts as agreed.                 *)
AgreeWhenSent ==
    /\ bridge.at = "baseline"
    /\ BridgeStep(IF baseline = bridge.text THEN "record" ELSE "emit")
    /\ baseline' = bridge.text
    /\ UNCHANGED <<fileVars, conflict, pending, push, choice, wireVars,
                   pluginVars, budget>>

(* It propagates unless the text is the agreed one.  The baseline moves    *)
(* only with Studio's acknowledgement.                                     *)
CheckBaseline ==
    /\ bridge.at = "baseline"
    /\ BridgeStep(IF baseline = bridge.text THEN "record" ELSE "emit")
    /\ UNCHANGED <<fileVars, engineVars, push, choice, wireVars, pluginVars,
                   budget>>

(* record_sync, first the baseline, then the conflict.                     *)
BridgeRecords ==
    /\ \/ /\ bridge.at = "record"
          /\ baseline' = bridge.text /\ UNCHANGED conflict
          /\ BridgeStep("unpark")
       \/ /\ bridge.at = "unpark"
          /\ conflict' = NoConflict /\ UNCHANGED baseline
          /\ bridge' = Idle
    /\ UNCHANGED <<fileVars, pending, push, choice, wireVars, pluginVars,
                   budget>>

(* begin_fs_destructive: the preflight is announced, then a conflict that  *)
(* is already parked takes the deletion on.                                *)
BeginDelete ==
    /\ bridge.at = "begin"
    /\ pending' = TRUE
    /\ BridgeStep("attach")
    /\ UNCHANGED <<fileVars, baseline, conflict, push, choice, wireVars,
                   pluginVars, budget>>

(* Mutant of AttachDelete: a conflict keeps what it was parked with.       *)
AttachNothing ==
    /\ bridge.at = "attach"
    /\ BridgeStep("finish")
    /\ UNCHANGED <<fileVars, engineVars, push, choice, wireVars, pluginVars,
                   budget>>

AttachDelete ==
    /\ bridge.at = "attach"
    /\ conflict' = IF Parked THEN [conflict EXCEPT !.deleted = TRUE]
                   ELSE conflict
    /\ BridgeStep("finish")
    /\ UNCHANGED <<fileVars, baseline, pending, push, choice, wireVars,
                   pluginVars, budget>>

(* finish_fs_destructive, after the grace (which a burst skips): the       *)
(* preflight ends, then the conflicts are searched.                        *)
FinishDelete ==
    /\ bridge.at = "finish"
    /\ MayEnter
    /\ pending' = FALSE
    /\ BridgeStep("decide")
    /\ UNCHANGED <<fileVars, baseline, conflict, push, choice, wireVars,
                   pluginVars, budget>>

DecideDelete ==
    /\ bridge.at = "decide"
    /\ bridge' = IF Parked /\ conflict.deleted THEN Idle
                 ELSE [bridge EXCEPT !.at = "emit"]
    /\ UNCHANGED <<fileVars, engineVars, push, choice, wireVars, pluginVars,
                   budget>>

(* emit_op; a delete is followed by the bookkeeping of handle_op.          *)
EmitOp ==
    /\ bridge.at = "emit"
    /\ Broadcast(bridge.text)
    /\ bridge' = IF bridge.text = None THEN [bridge EXCEPT !.at = "forget"]
                 ELSE Idle
    /\ UNCHANGED <<fileVars, engineVars, push, choice, pluginVars, budget>>

(* forget_path, first the baseline, then the conflict.                     *)
BridgeForgets ==
    /\ \/ /\ bridge.at = "forget"
          /\ baseline' = None /\ UNCHANGED conflict
          /\ BridgeStep("drop")
       \/ /\ bridge.at = "drop"
          /\ conflict' = NoConflict /\ UNCHANGED baseline
          /\ bridge' = Idle
    /\ UNCHANGED <<fileVars, pending, push, choice, wireVars, pluginVars,
                   budget>>

-----------------------------------------------------------------------------
(* The push handler: apply_update_target, apply_source_bytes and           *)
(* on_studio_push.                                                         *)

DeletionComing == \E i \in DOMAIN toStudio : toStudio[i] = None

ReceivePush ==
    /\ push.at = "recv" /\ toDaemon # <<>> /\ MayEnter
    /\ DeletionComing => "crossing" \in Races
    /\ push' = [at |-> "look", text |-> Head(toDaemon), seen |-> None]
    /\ toDaemon' = Tail(toDaemon)
    /\ UNCHANGED <<fileVars, engineVars, bridge, choice, toStudio, refused,
                   pluginVars, budget>>

(* Mutant of LookAtTarget: a missing file is no error.                     *)
LookSilently ==
    /\ push.at = "look"
    /\ IF disk = None THEN PushEnds(TRUE)
       ELSE PushStep("read") /\ UNCHANGED wireVars
    /\ UNCHANGED <<fileVars, engineVars, bridge, choice, pluginVars,
                   budget>>

(* An update of a file that is not there is an error.                      *)
LookAtTarget ==
    /\ push.at = "look"
    /\ IF disk = None THEN PushEnds(FALSE)
       ELSE PushStep("read") /\ UNCHANGED wireVars
    /\ UNCHANGED <<fileVars, engineVars, bridge, choice, pluginVars,
                   budget>>

ReadTarget ==
    /\ push.at = "read"
    /\ push' = [push EXCEPT !.at = "pending", !.seen = disk]
    /\ UNCHANGED <<fileVars, engineVars, bridge, choice, wireVars,
                   pluginVars, budget>>

CheckPending ==
    /\ push.at = "pending"
    /\ PushStep(IF pending THEN "clean" ELSE "baseline")
    /\ UNCHANGED <<fileVars, engineVars, bridge, choice, wireVars,
                   pluginVars, budget>>

(* Within the preflight Studio either still has the agreed text, or the    *)
(* deletion and its text become a conflict.                                *)
CheckClean ==
    /\ push.at = "clean"
    /\ IF baseline = push.text THEN PushEnds(TRUE)
       ELSE PushStep("parkDelete") /\ UNCHANGED wireVars
    /\ UNCHANGED <<fileVars, engineVars, bridge, choice, pluginVars,
                   budget>>

ParkDelete ==
    /\ push.at = "parkDelete"
    /\ conflict' = [fs |-> push.seen, studio |-> push.text, deleted |-> TRUE]
    /\ PushEnds(FALSE)
    /\ UNCHANGED <<fileVars, baseline, pending, bridge, choice, pluginVars,
                   budget>>

(* The push is compared with the agreed text and the file as it was read.  *)
Decide ==
    /\ push.at = "baseline"
    /\ PushStep(IF push.seen = None THEN "write"
                ELSE IF push.seen = push.text THEN "record"
                ELSE IF push.seen = baseline THEN "write"
                ELSE "park")
    /\ UNCHANGED <<fileVars, engineVars, bridge, choice, wireVars,
                   pluginVars, budget>>

ApplyPush ==
    /\ push.at = "write"
    /\ WriteFile(push.text)
    /\ PushStep("record")
    /\ UNCHANGED <<engineVars, bridge, choice, wireVars, pluginVars, budget>>

PushRecords ==
    /\ \/ /\ push.at = "record"
          /\ baseline' = push.text /\ UNCHANGED conflict
          /\ PushStep("unpark") /\ UNCHANGED wireVars
       \/ /\ push.at = "unpark"
          /\ conflict' = NoConflict /\ UNCHANGED baseline
          /\ PushEnds(TRUE)
    /\ UNCHANGED <<fileVars, pending, bridge, choice, pluginVars, budget>>

ParkPush ==
    /\ push.at = "park"
    /\ conflict' = [fs |-> push.seen, studio |-> push.text, deleted |-> FALSE]
    /\ PushEnds(FALSE)
    /\ UNCHANGED <<fileVars, baseline, pending, bridge, choice, pluginVars,
                   budget>>

-----------------------------------------------------------------------------
(* /resolve: the conflict is taken out of the engine, and what the handler *)
(* does with it may fail.                                                  *)

Resolve ==
    /\ choice.at = "none" /\ Parked /\ MayEnter
    /\ budget.choices < MaxChoices
    /\ budget' = [budget EXCEPT !.choices = @ + 1]
    /\ conflict' = NoConflict
    /\ \E at \in IF conflict.deleted THEN {"delete", "restore"}
                 ELSE {"emit", "write"} :
         /\ at \in {"emit", "delete"} => linked
         /\ choice' = [at |-> at, fs |-> conflict.fs,
                       studio |-> conflict.studio]
    /\ UNCHANGED <<fileVars, baseline, pending, bridge, push, wireVars,
                   pluginVars>>

(* Keep Local: the file's text is sent, and the handler waits until the    *)
(* baseline says that Studio has acknowledged it.                          *)
SendLocal ==
    /\ choice.at = "emit"
    /\ Broadcast(choice.fs)
    /\ ChoiceStep("await")
    /\ UNCHANGED <<fileVars, engineVars, bridge, push, pluginVars, budget>>

AwaitAck ==
    /\ choice.at = "await" /\ MayEnter
    /\ IF baseline = choice.fs THEN choice' = NoChoice
       ELSE ChoiceStep("repark")
    /\ UNCHANGED <<fileVars, engineVars, bridge, push, wireVars, pluginVars,
                   budget>>

(* restore_resolved_conflict, park_fs_delete_conflict.                     *)
ParkAgain ==
    /\ choice.at \in {"repark", "reparkDelete"}
    /\ conflict' = [fs |-> IF choice.at = "repark" THEN choice.fs ELSE None,
                    studio |-> choice.studio,
                    deleted |-> choice.at = "reparkDelete"]
    /\ choice' = NoChoice
    /\ UNCHANGED <<fileVars, baseline, pending, bridge, push, wireVars,
                   pluginVars, budget>>

(* Keep Local of a deletion.                                               *)
SendDelete ==
    /\ choice.at = "delete"
    /\ Broadcast(None)
    /\ ChoiceStep("forget")
    /\ UNCHANGED <<fileVars, engineVars, bridge, push, pluginVars, budget>>

ChoiceForgets ==
    /\ \/ /\ choice.at = "forget"
          /\ baseline' = None /\ UNCHANGED conflict
          /\ ChoiceStep("drop")
       \/ /\ choice.at = "drop"
          /\ conflict' = NoConflict /\ UNCHANGED baseline
          /\ choice' = NoChoice
    /\ UNCHANGED <<fileVars, pending, bridge, push, wireVars, pluginVars,
                   budget>>

(* Keep Studio: its text is written.                                       *)
WriteChoice ==
    /\ choice.at \in {"write", "install"}
    /\ WriteFile(choice.studio)
    /\ ChoiceStep("record")
    /\ UNCHANGED <<engineVars, bridge, push, wireVars, pluginVars, budget>>

(* The write of a parked text fails: its conflict is gone, but a text is   *)
(* parked only as its push is refused, and then both sides are compared.   *)
WriteChoiceFails ==
    /\ choice.at \in {"write", "install"}
    /\ choice' = IF choice.at = "write" THEN NoChoice
                 ELSE [choice EXCEPT !.at = "reparkDelete"]
    /\ UNCHANGED <<fileVars, engineVars, bridge, push, wireVars, pluginVars,
                   budget>>

(* A deleted file is restored only while nothing is in its place.          *)
RestoreFile ==
    /\ choice.at = "restore"
    /\ ChoiceStep(IF disk # None THEN "reparkDelete" ELSE "install")
    /\ UNCHANGED <<fileVars, engineVars, bridge, push, wireVars, pluginVars,
                   budget>>

ChoiceRecords ==
    /\ \/ /\ choice.at = "record"
          /\ baseline' = choice.studio /\ UNCHANGED conflict
          /\ ChoiceStep("unpark")
       \/ /\ choice.at = "unpark"
          /\ conflict' = NoConflict /\ UNCHANGED baseline
          /\ choice' = NoChoice
    /\ UNCHANGED <<fileVars, pending, bridge, push, wireVars, pluginVars,
                   budget>>

-----------------------------------------------------------------------------
(* The Studio plugin.                                                      *)

(* queueEditorSourceChanged, for the text the script has got: the exact    *)
(* text of a remote write is no edit, anything else starts a debounce.     *)
EditorChanged(text) ==
    IF expected = text
    THEN editing' = FALSE /\ UNCHANGED expected
    ELSE editing' = TRUE /\ expected' = None

Type(text) ==
    /\ budget.typed < MaxTyped
    /\ budget' = [budget EXCEPT !.typed = @ + 1]
    /\ script \notin {None, text}
    /\ script' = text /\ scriptPast' = scriptPast \cup {text}
    /\ EditorChanged(text)
    /\ UNCHANGED <<fileVars, engineVars, bridge, push, choice, wireVars,
                   outgoing, worker, linked>>

(* The debounce ends: the text is read again, and queued.                  *)
CommitEdit ==
    /\ editing /\ editing' = FALSE
    /\ IF script = None THEN UNCHANGED <<expected, outgoing>>
       ELSE IF script = expected THEN UNCHANGED <<expected, outgoing>>
       ELSE expected' = None /\ outgoing' = Append(outgoing, script)
    /\ UNCHANGED <<fileVars, engineVars, bridge, push, choice, wireVars,
                   script, scriptPast, worker, linked, budget>>

(* flushPush.                                                              *)
FlushPush ==
    /\ outgoing # <<>> /\ linked
    /\ toDaemon' = toDaemon \o outgoing
    /\ outgoing' = <<>>
    /\ UNCHANGED <<fileVars, engineVars, bridge, push, choice, toStudio,
                   refused, editorVars, worker, linked, budget>>

(* Mutant of ApplyOp: a delete goes through the lane of the texts.         *)
ApplyThroughLane ==
    /\ worker.at = "idle" /\ toStudio # <<>>
    /\ toStudio' = Tail(toStudio)
    /\ editing' = FALSE /\ expected' = Head(toStudio)
    /\ worker' = [at |-> "writing", text |-> Head(toStudio)]
    /\ UNCHANGED <<fileVars, engineVars, bridge, push, choice, toDaemon,
                   refused, script, scriptPast, outgoing, linked, budget>>

(* The op worker takes the next operation.  A delete destroys the script   *)
(* and everything the plugin remembers of it; a text is expected before it *)
(* is written, which drops a debounce, and written unless it is there.     *)
ApplyOp ==
    /\ worker.at = "idle" /\ toStudio # <<>>
    /\ outgoing # <<>> \/ toDaemon # <<>> => "crossing" \in Races
    /\ toStudio' = Tail(toStudio)
    /\ LET text == Head(toStudio)
       IN  /\ editing' = FALSE /\ expected' = text
           /\ IF text = None
              THEN script' = None /\ UNCHANGED worker
              ELSE /\ worker' = [at |-> IF script = text THEN "acking"
                                        ELSE "writing", text |-> text]
                   /\ UNCHANGED script
    /\ UNCHANGED <<fileVars, engineVars, bridge, push, choice, toDaemon,
                   refused, scriptPast, outgoing, linked, budget>>

(* UpdateSourceAsync has run; the editor reports the new text.             *)
WriteScript ==
    /\ worker.at = "writing"
    /\ script' = worker.text /\ scriptPast' = scriptPast \cup {worker.text}
    /\ EditorChanged(worker.text)
    /\ worker' = [worker EXCEPT !.at = "acking"]
    /\ UNCHANGED <<fileVars, engineVars, bridge, push, choice, wireVars,
                   outgoing, linked, budget>>

(* sourceAckForAppliedOp: what Studio accepted is sent back, past the      *)
(* queue of edits, if the script still has it.                             *)
AckOp ==
    /\ worker.at = "acking"
    /\ toDaemon' = IF script = worker.text THEN Append(toDaemon, script)
                   ELSE toDaemon
    /\ worker' = NoJob
    /\ UNCHANGED <<fileVars, engineVars, bridge, push, choice, toStudio,
                   refused, editorVars, outgoing, linked, budget>>

(* A push-result with a conflict or an error: the plugin closes the        *)
(* connection and forgets what it was about to do.                         *)
Disconnect ==
    /\ refused /\ linked
    /\ linked' = FALSE /\ refused' = FALSE
    /\ toStudio' = <<>> /\ outgoing' = <<>> /\ worker' = NoJob
    /\ editing' = FALSE /\ expected' = None
    /\ UNCHANGED <<fileVars, engineVars, bridge, push, choice, toDaemon,
                   script, scriptPast, budget>>

(* The bounded initial comparison: it is clean, or the user chooses a side *)
(* and that side is copied.  Either way the baseline is recorded anew.     *)
Reconcile ==
    /\ ~linked /\ linked' = TRUE
    /\ ~event /\ bridge = Idle /\ push = NoPush /\ ~ChoiceBusy
    /\ toDaemon = <<>>
    /\ choice # NoChoice => "late choice" \in Races
    /\ \E text \in {disk, script} :
         /\ disk' = text /\ script' = text /\ baseline' = text
         /\ diskPast' = diskPast \cup ({text} \ {None})
         /\ scriptPast' = scriptPast \cup ({text} \ {None})
         /\ event' = (text # disk) /\ quiet' = (quiet \/ text # disk)
    /\ conflict' = NoConflict
    /\ editing' = FALSE /\ outgoing' = <<>>
    /\ UNCHANGED <<pending, bridge, push, choice, wireVars, expected, worker,
                   budget>>

-----------------------------------------------------------------------------
User == \/ \E text \in DiskTexts \cup {Base} : Save(text)
        \/ DeleteFile
        \/ \E text \in StudioTexts \cup {Base} : Type(text)
        \/ Resolve

Bridge == \/ ReceiveOp \/ CheckParked \/ CheckAction \/ CheckBaseline
          \/ BridgeRecords \/ BeginDelete \/ AttachDelete \/ FinishDelete
          \/ DecideDelete \/ EmitOp \/ BridgeForgets
PushHandler == \/ ReceivePush \/ LookAtTarget \/ ReadTarget \/ CheckPending
               \/ CheckClean \/ ParkDelete \/ Decide \/ ApplyPush
               \/ PushRecords \/ ParkPush
Choice == \/ SendLocal \/ AwaitAck \/ ParkAgain \/ SendDelete \/ ChoiceForgets
          \/ WriteChoice \/ WriteChoiceFails \/ RestoreFile \/ ChoiceRecords
Plugin == \/ CommitEdit \/ FlushPush \/ ApplyOp \/ WriteScript \/ AckOp
          \/ Disconnect \/ Reconcile

Next == /\ User \/ QuietEnds \/ Bridge \/ PushHandler \/ Choice \/ Plugin
        /\ UNCHANGED setting

Spec == Init /\ [][Next]_vars

-----------------------------------------------------------------------------
Settled == /\ linked /\ ~refused /\ ~event
           /\ bridge = Idle /\ push = NoPush /\ choice = NoChoice
           /\ toStudio = <<>> /\ toDaemon = <<>>
           /\ ~editing /\ outgoing = <<>> /\ worker = NoJob

(* "Per file we store the last value that both sides agreed on": a text    *)
(* becomes the baseline only if the file and the script have both had it,  *)
(* never because it was sent.                                              *)
BaselineWasShared ==
    baseline # None => baseline \in diskPast \cap scriptPast

(* What makes it so: every text in the daemon's hands is one the file or   *)
(* the script has had, and what is about to be recorded both have had.     *)
FileTraced   == disk # None => disk \in diskPast
EditorTraced == script # None => script \in scriptPast
QueueTraced  == outgoing \in Seq(scriptPast)
WireTraced   == toDaemon \in Seq(scriptPast)
EngineTraced == /\ BaselineWasShared
                /\ Parked => conflict.studio \in scriptPast
BridgeTraced == /\ bridge.text # None => bridge.text \in diskPast
                /\ bridge.at = "record"
                     => bridge.text \in scriptPast \cup {None}
PushTraced   == /\ PushBusy => push.text \in scriptPast
                /\ push.seen # None => push.seen \in diskPast
                /\ push.at = "record" => push.text \in diskPast
ChoiceTraced == /\ choice.at # "none" => choice.studio \in scriptPast
                /\ choice.at = "record" => choice.studio \in diskPast
Traced == /\ FileTraced /\ EditorTraced /\ QueueTraced /\ WireTraced
          /\ EngineTraced /\ BridgeTraced /\ PushTraced /\ ChoiceTraced

(* When everything has been handed on and no conflict waits for the user,  *)
(* the file and the script are the same.                                   *)
Agreement == Settled /\ ~Parked => disk = script

(* Threads that take turns, and edits that do not cross events, end with   *)
(* the same text on both sides or with a conflict the user sees.           *)
TurnsAgree == Races = {} => Agreement

(* What makes the file and the script agree, while the plugin trusts its    *)
(* connection: no conflict is parked and nothing is being resolved, for a  *)
(* push that parks one is refused, and a refusal ends in a comparison.     *)
Trusted == Races = {} /\ linked /\ ~refused
Latest(queue) == queue[Len(queue)]

NothingParked == conflict = NoConflict /\ choice = NoChoice
Cut == ~linked => /\ ~refused /\ toStudio = <<>>
                  /\ worker = NoJob /\ expected = None

(* The bridge has the text of the file in its hands, or its deletion.      *)
Carrying == bridge.at \in {"parked", "action", "baseline", "emit", "begin",
                           "attach", "finish", "decide", "forget"}
BridgeFollows ==
    /\ ~(BridgeBusy /\ PushBusy)
    /\ bridge.at \in {"parked", "action", "baseline", "record", "emit"} =>
          bridge.text = disk \/ event
    /\ bridge.at \in {"begin", "attach", "finish", "decide", "forget",
                      "drop"} =>
          bridge.text = None /\ (disk = None \/ event)
    /\ bridge.at = "record" => bridge.text = baseline
    /\ bridge.at \in {"unpark", "drop"} => disk = baseline \/ event
PushFollows ==
    /\ push.at \in {"pending", "baseline", "park"} => push.seen = disk \/ event
    /\ push.at \in {"clean", "parkDelete"} => bridge.at = "finish"
    /\ push.at = "record" => push.text = disk \/ event
    /\ push.at = "unpark" => /\ push.text = baseline
                             /\ disk = baseline \/ event
QuietFollows ==
    disk = None /\ quiet => /\ baseline = None /\ bridge.at = "recv"
                            /\ push.at \in {"recv", "look"}

(* A text that Studio sends is on its way, or will be.                     *)
Coming == \/ toDaemon # <<>> \/ outgoing # <<>> \/ editing
          \/ worker.at = "writing"
          \/ worker.at = "acking" /\ script = worker.text
          \/ toStudio # <<>> /\ Latest(toStudio) # None
FileIsHeard == \/ disk = baseline \/ event \/ Carrying
               \/ push.at \notin {"recv", "unpark"} \/ Coming

(* The text that will be the baseline once the daemon has heard all that    *)
(* Studio has said.                                                        *)
LastWord == IF outgoing # <<>> THEN Latest(outgoing)
            ELSE IF toDaemon # <<>> THEN Latest(toDaemon)
            ELSE IF PushBusy THEN push.text ELSE baseline
ScriptIsHeard ==
    \/ toStudio # <<>> \/ editing \/ worker.at = "writing"
    \/ worker.at = "acking" /\ script = worker.text
    \/ script = LastWord
    \/ bridge.at = "forget" /\ script = None
LastIsScript ==
    ~editing => /\ outgoing # <<>> => Latest(outgoing) = script
                /\ outgoing = <<>> /\ toDaemon # <<>> =>
                      Latest(toDaemon) = script
ExpectedFollows ==
    expected # None =>
        /\ ~editing /\ outgoing = <<>>
        /\ \/ script = expected
           \/ /\ worker = [at |-> "writing", text |-> expected]
              /\ toDaemon = <<>>
WorkerFollows == worker.at # "idle" => expected \in {None, worker.text}

(* A deletion on its way to Studio is the daemon's last word.              *)
DeletionFollows ==
    /\ DeletionComing => ~PushBusy
    /\ toStudio # <<>> /\ Latest(toStudio) = None =>
          /\ baseline = None \/ bridge.at = "forget"
          /\ disk = baseline \/ event \/ Carrying
    /\ bridge.at = "forget" =>
          IF toStudio = <<>> THEN script = None /\ worker.at = "idle"
          ELSE Latest(toStudio) = None
    /\ script = None => /\ ~editing /\ outgoing = <<>> /\ toDaemon = <<>>
                        /\ ~PushBusy
Followed ==
    /\ Cut /\ (pending => bridge.at \in {"attach", "finish"})
    /\ Trusted => /\ NothingParked /\ BridgeFollows /\ PushFollows
                  /\ QuietFollows /\ FileIsHeard /\ ScriptIsHeard
                  /\ LastIsScript /\ ExpectedFollows /\ WorkerFollows
                  /\ DeletionFollows

(* Threads that take turns, and a user who has not resolved anything yet.  *)
Undisturbed == Races \subseteq {"crossing"} /\ budget.choices = 0

(* Once the daemon has seen every change of the file, a parked conflict    *)
(* shows the text that is on disk: Keep Local sends what it shows.         *)
ConflictIsCurrent ==
    /\ ~event /\ bridge = Idle /\ push = NoPush /\ choice = NoChoice
    /\ Parked /\ ~conflict.deleted
    => conflict.fs = disk
ParkedIsCurrent == Undisturbed => ConflictIsCurrent

(* A deletion is not sent to Studio while a Studio text for the file is    *)
(* parked: the preflight has seen it.                                      *)
DeleteIsPreflighted == bridge.at = "emit" /\ bridge.text = None => ~Parked
DeleteWaits == Undisturbed => DeleteIsPreflighted

(* What makes the two hold.  One thread uses the engine at a time; a push   *)
(* that comes within the grace of a preflight hears of it; and whatever     *)
(* has changed the file is still to be read, or is in the conflict.         *)
TurnsTaken ==
    /\ choice = NoChoice /\ ~(BridgeBusy /\ PushBusy)
    /\ bridge.at = "finish" /\ PushBusy =>
          push.at \in {"look", "read", "pending", "clean", "parkDelete"}
DeletionSeen ==
    /\ bridge.at \in {"attach", "finish"} => pending
    /\ bridge.at \in {"finish", "decide"} /\ Parked => conflict.deleted
    /\ bridge.at \in {"action", "baseline", "record", "unpark", "emit",
                      "forget", "drop"} => ~Parked
FileFollowed ==
    /\ bridge.at = "parked" /\ ~event => bridge.text = disk
    /\ push.at \in {"pending", "baseline", "park"} /\ ~event =>
          push.seen = disk
    /\ disk = None /\ quiet => ~Parked /\ push.at \in {"recv", "look"}
    /\ Parked /\ ~conflict.deleted /\ ~event =>
          conflict.fs = disk \/ bridge.at \in {"parked", "begin", "attach"}
Orderly == Undisturbed => TurnsTaken /\ DeletionSeen /\ FileFollowed

(* A conflict takes two: while nobody types in Studio none is parked.      *)
ConflictTakesTwo == budget.typed = 0 => ~Parked
=============================================================================
