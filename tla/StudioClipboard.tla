---------------------------- MODULE StudioClipboard ----------------------------
(* The clipboard that carries instances from one Studio to another          *)
(* (daemon/src/studio_clipboard.rs, plugin/Clipboard.luau, and the lane of  *)
(* writes of plugin/Plugin.luau).                                           *)
(*                                                                          *)
(* `rosync copy` leases an artifact, has the plugin serialize the roots     *)
(* into it, and installs what it finds there as a payload named by its hash *)
(* and a manifest that names the payload.  `rosync paste` loads the two,    *)
(* puts the payload into an artifact, and has the plugin place it.  The     *)
(* commands are processes that may die; any number of them share the        *)
(* clipboard's directory, and those of one project the plugin's lane.       *)
(*                                                                          *)
(* A payload is what it holds: the shape of the roots and the text of a     *)
(* script below them, whose open editor may be ahead of its Source.  A hash *)
(* is the payload it is of, so a file of that name holds it.                *)
(*                                                                          *)
(* A request reaches the plugin and its answer the command within the       *)
(* second by which the plugin's deadline is the shorter: the command gives  *)
(* up only after it.  The plugin checks the deadline between its steps.     *)
EXTENDS Naturals, Sequences, FiniteSets

CONSTANTS
    Copies, Pastes,     \* commands
    MaxQueue,           \* REMOTE_WRITE_QUEUE_MAX
    MaxStrokes,         \* edits of the user
    MaxFaults,          \* failed requests, writes, evictions, disconnects
    MaxCrashes,         \* killed commands
    None

VARIABLES
    clip,       \* the directory: the manifest and the payload files
    held,       \* who has the lock of updates
    commands,   \* each command's step, and what it knows
    store,      \* each command's artifact
    lane,       \* the plugin's queue of writes
    expired,    \* queued, and not to be executed any more
    active,     \* the request the plugin executes
    work,       \* what its handler has so far
    due,        \* requests whose deadline in the plugin has passed
    studio,     \* the tree in the Studio that is copied
    placed,     \* what each paste has put into a Studio
    made,       \* what the plugin has serialized for copies, with its roots
    installs,   \* manifests written
    budget

vars == <<clip, held, commands, store, lane, expired, active, work, due, studio,
          placed, made, installs, budget>>

Commands == Copies \cup Pastes
Chunks == 2             \* a payload of two chunks

Texts == Nat
Contents == [shape : Texts, text : Texts]
Manifests == [payload : Contents, roots : Texts]

(* What the proofs assume of the constants.                                *)
ClipboardAssumption ==
    /\ Copies \cap Pastes = {}
    /\ None \notin Commands /\ None \notin Contents /\ None \notin Manifests
    /\ None \notin {"unreadable", "pasted", "refused"}

Fresh == [at |-> "idle", manifest |-> None, attempt |-> 0, since |-> 0, told |-> None]
NoArtifact == [bytes |-> 0, content |-> None, final |-> FALSE, open |-> FALSE]
Earlier == [payload |-> [shape |-> 0, text |-> 0], roots |-> 0]

Init ==
    /\ \/ clip = [manifest |-> None, payloads |-> {}] /\ made = {}
       \/ clip = [manifest |-> Earlier, payloads |-> {Earlier.payload}] /\ made = {Earlier}
    /\ held = None /\ active = None /\ work = None
    /\ commands = [c \in Commands |-> Fresh]
    /\ store = [c \in Commands |-> NoArtifact]
    /\ lane = <<>> /\ expired = {} /\ due = {}
    /\ studio = [shape |-> 0, text |-> 0]
    /\ placed = [p \in Pastes |-> None]
    /\ installs = 0
    /\ budget = [strokes |-> MaxStrokes, faults |-> MaxFaults, crashes |-> MaxCrashes]

At(c, step) == commands[c].at = step
Goes(c, step) == commands' = [commands EXCEPT ![c].at = step]
Tells(c, word) == commands' = [commands EXCEPT ![c].at = "ended", ![c].told = word]
Fault == budget.faults > 0 /\ budget' = [budget EXCEPT !.faults = @ - 1]

(* A command waits for the plugin's answer: `at` becomes the answer.        *)
Waits(c) == At(c, "waits")

-------------------------------------------------------------------------------
(* The plugin's lane of writes. *)

laneVars == <<lane, expired, active, work, due>>
diskVars == <<clip, held, installs>>
ghosts == <<placed, made>>

(* All of `who` that still wait hear that their request has failed.         *)
Refused(who) ==
    [c \in Commands |->
        IF c \in who /\ Waits(c) THEN [commands[c] EXCEPT !.at = "refused"] ELSE commands[c]]

Queued == {lane[i] : i \in 1..Len(lane)}

(* The lease is there, and the request is put into the lane or is refused.  *)
Send(c) ==
    IF Len(lane) < MaxQueue
    THEN lane' = Append(lane, c) /\ Goes(c, "waits")
    ELSE Goes(c, "refused") /\ UNCHANGED lane

Take ==
    /\ active = None /\ lane # <<>>
    /\ lane' = Tail(lane)
    /\ IF Head(lane) \in expired
       THEN UNCHANGED <<active, work>>
       ELSE active' = Head(lane) /\ work' = [at |-> "starts", content |-> None,
                                             roots |-> 0, begun |-> 0, bytes |-> 0]
    /\ UNCHANGED <<diskVars, commands, store, expired, due, studio, ghosts, budget>>

(* A request has waited in the queue for its ten seconds.                   *)
QueueTimeout(c) ==
    /\ c \in Queued \ expired
    /\ expired' = expired \cup {c}
    /\ commands' = Refused({c})
    /\ Fault
    /\ UNCHANGED <<diskVars, store, lane, active, work, due, studio, ghosts>>

Deadline(c) ==
    /\ c \in Queued \cup {active}
    /\ c \notin due
    /\ due' = due \cup {c}
    /\ Fault
    /\ UNCHANGED <<diskVars, commands, store, lane, expired, active, work, studio, ghosts>>

(* Six seconds after its deadline the active request is answered for its    *)
(* handler; what is queued behind is refused when the handler returns.      *)
HandlerTimeout ==
    /\ active # None /\ active \in due
    /\ Waits(active)
    /\ commands' = Refused({active})
    /\ UNCHANGED <<diskVars, store, laneVars, studio, ghosts, budget>>

(* The handler returns, with an answer and the manifest it is about; it is  *)
(* dropped if the request has been answered.                                *)
Returns(step, manifest) ==
    LET over == IF active \in due /\ ~Waits(active) THEN Queued ELSE {} IN
    /\ commands' = [c \in Commands |->
           IF c = active /\ Waits(c)
           THEN [commands[c] EXCEPT !.at = step, !.manifest = manifest]
           ELSE Refused(over)[c]]
    /\ expired' = expired \cup over
    /\ active' = None /\ work' = None
    /\ UNCHANGED <<lane, due>>

(* The session ends: the daemon answers those who wait, the plugin drops    *)
(* what is queued, and the active handler goes on.                          *)
Disconnect ==
    /\ \E c \in Commands : Waits(c)
    /\ expired' = expired \cup Queued
    /\ commands' = [c \in Commands |->
           IF Waits(c) THEN [commands[c] EXCEPT !.at = "cut"] ELSE commands[c]]
    /\ Fault
    /\ UNCHANGED <<diskVars, store, lane, active, work, due, studio, ghosts>>

-------------------------------------------------------------------------------
(* The handlers. *)

(* A step of the handler that finds its deadline passed, or that fails,     *)
(* ends it with an error.                                                   *)
Fails ==
    /\ active # None
    /\ IF active \in due THEN UNCHANGED budget ELSE Fault
    /\ Returns("refused", commands[active].manifest)
    /\ UNCHANGED <<diskVars, store, studio, ghosts>>

InTime(step) == active # None /\ work.at = step /\ active \notin due

Describe ==
    /\ active \in Copies /\ InTime("starts")
    /\ work' = [work EXCEPT !.at = "described", !.roots = studio.shape, !.begun = studio.text]
    /\ UNCHANGED <<diskVars, commands, store, lane, expired, active, due, studio, ghosts, budget>>

(* The engine's Source, which no edit in an open editor has reached.        *)
Serialize ==
    /\ InTime("described")
    /\ work' = [work EXCEPT !.at = "serialized", !.content = [shape |-> studio.shape, text |-> 0]]
    /\ UNCHANGED <<diskVars, commands, store, lane, expired, active, due, studio, ghosts, budget>>

(* The detached copy gets the texts of the editors if the shape is still    *)
(* the same, and is serialized again.                                       *)
RefreshedNot(content) == content       \* mutant: the editors are not asked
Refreshed(content) == [content EXCEPT !.text = studio.text]
Refresh ==
    /\ InTime("serialized")
    /\ IF work.content.shape = studio.shape
       THEN /\ work' = [work EXCEPT !.at = "uploads", !.content = Refreshed(@)]
            /\ UNCHANGED <<commands, lane, expired, active, due>>
       ELSE Returns("refused", commands[active].manifest)
    /\ UNCHANGED <<diskVars, store, studio, ghosts, budget>>

Serialized == [payload |-> work.content, roots |-> work.roots]
Upload ==
    /\ InTime("uploads")
    /\ IF ~store[active].open
       THEN Returns("refused", None) /\ UNCHANGED <<store, made>>
       ELSE IF store[active].bytes < Chunks
       THEN /\ store' = [store EXCEPT ![active].bytes = @ + 1]
            /\ UNCHANGED <<commands, lane, expired, active, work, due, made>>
       ELSE /\ store' = [store EXCEPT ![active].content = work.content,
                                      ![active].final = TRUE, ![active].open = FALSE]
            /\ made' = made \cup {Serialized}
            /\ Returns("answered", Serialized)
    /\ UNCHANGED <<diskVars, studio, placed, budget>>

Download ==
    /\ active \in Pastes /\ InTime("starts")
    /\ IF ~store[active].final
       THEN Returns("refused", commands[active].manifest)
       ELSE /\ work' = IF work.bytes < Chunks
                       THEN [work EXCEPT !.bytes = @ + 1]
                       ELSE [work EXCEPT !.at = "decoded", !.content = store[active].content]
            /\ UNCHANGED <<commands, lane, expired, active, due>>
    /\ UNCHANGED <<diskVars, store, studio, ghosts, budget>>

(* The roots get their parents, the recording is committed and the answer   *)
(* sent in one turn of Studio; what fails in it is rolled back (Fails).  The *)
(* parents are of the request's roots.                                      *)
CommitsLate == active # None /\ work.at = "decoded"    \* mutant: in time or not

Commits == InTime("decoded")
Place ==
    /\ Commits
    /\ placed' = [placed EXCEPT ![active] =
           [payload |-> work.content, roots |-> commands[active].manifest.roots]]
    /\ Returns("answered", commands[active].manifest)
    /\ UNCHANGED <<diskVars, store, studio, made, budget>>

-------------------------------------------------------------------------------
(* `rosync copy`. *)

Copy(c) ==
    /\ c \in Copies /\ At(c, "idle")
    /\ store' = [store EXCEPT ![c].open = TRUE]
    /\ Send(c)
    /\ UNCHANGED <<diskVars, expired, active, work, due, studio, ghosts, budget>>

(* The artifact is looked up, and its file read and verified.               *)
Fetch(c) ==
    /\ c \in Copies /\ At(c, "answered")
    /\ IF store[c].final THEN Goes(c, "fetched") ELSE Tells(c, "failed")
    /\ UNCHANGED <<diskVars, store, laneVars, studio, ghosts, budget>>

Consumed(c) == store' = [store EXCEPT ![c] = NoArtifact]

LockableAlways == TRUE                 \* mutant: no lock

Lockable == held = None
Lock(c) ==
    /\ At(c, "fetched")
    /\ IF Lockable
       THEN held' = c /\ Goes(c, "locked") /\ UNCHANGED store
       ELSE Tells(c, "failed") /\ Consumed(c) /\ UNCHANGED held
    /\ UNCHANGED <<clip, installs, laneVars, studio, ghosts, budget>>

WritePayload(c) ==
    /\ At(c, "locked")
    /\ clip' = [clip EXCEPT !.payloads = @ \cup {commands[c].manifest.payload}]
    /\ Goes(c, "written")
    /\ UNCHANGED <<held, installs, store, laneVars, studio, ghosts, budget>>

WriteManifest(c) ==
    /\ At(c, "written")
    /\ clip' = [clip EXCEPT !.manifest = commands[c].manifest]
    /\ installs' = installs + 1
    /\ Goes(c, "named")
    /\ UNCHANGED <<held, store, laneVars, studio, ghosts, budget>>

(* Every other payload is removed, the lock dropped, and the artifact       *)
(* consumed.                                                                *)
CleanUp(c) ==
    /\ At(c, "named")
    /\ clip' = [clip EXCEPT !.payloads = @ \cap {commands[c].manifest.payload}]
    /\ held' = IF held = c THEN None ELSE held
    /\ Tells(c, "copied") /\ Consumed(c)
    /\ UNCHANGED <<installs, laneVars, studio, ghosts, budget>>

(* A write fails: its temporary file is removed, and the lock dropped.      *)
InstallFails(c) ==
    /\ At(c, "locked") \/ At(c, "written")
    /\ held' = IF held = c THEN None ELSE held
    /\ Tells(c, "failed") /\ Consumed(c)
    /\ Fault
    /\ UNCHANGED <<clip, installs, laneVars, studio, ghosts>>

-------------------------------------------------------------------------------
(* `rosync paste`. *)

ReadManifest(p) ==
    /\ p \in Pastes /\ At(p, "idle")
    /\ IF clip.manifest = None
       THEN Tells(p, "empty")
       ELSE commands' = [commands EXCEPT ![p].at = "loads", ![p].manifest = clip.manifest,
                 ![p].since = IF commands[p].attempt = 0 THEN installs ELSE @]
    /\ UNCHANGED <<diskVars, store, laneVars, studio, ghosts, budget>>

RetriesNever(p) == FALSE               \* mutant: reads once

Retries(p) == commands[p].attempt = 0
ReadPayload(p) ==
    /\ At(p, "loads")
    /\ IF commands[p].manifest.payload \in clip.payloads
       THEN Goes(p, "loaded")
       ELSE IF Retries(p)
       THEN commands' = [commands EXCEPT ![p].at = "idle", ![p].attempt = 1]
       ELSE Tells(p, "unreadable")
    /\ UNCHANGED <<diskVars, store, laneVars, studio, ghosts, budget>>

(* The artifact is leased, uploaded by this command alone, and finalized.   *)
Paste(p) ==
    /\ At(p, "loaded")
    /\ store' = [store EXCEPT ![p] = [bytes |-> Chunks, content |-> commands[p].manifest.payload,
                                      final |-> TRUE, open |-> FALSE]]
    /\ Send(p)
    /\ UNCHANGED <<diskVars, expired, active, work, due, studio, ghosts, budget>>

-------------------------------------------------------------------------------
(* Any command. *)

(* It hears from the plugin: a copy's lease is aborted, a paste's artifact  *)
(* consumed, whatever the answer.                                           *)
Hears(c) ==
    /\ \/ At(c, "refused") /\ Tells(c, "refused")
       \/ At(c, "cut") /\ Tells(c, "unknown")
       \/ c \in Pastes /\ At(c, "answered") /\ Tells(c, "pasted")
    /\ Consumed(c)
    /\ UNCHANGED <<diskVars, laneVars, studio, ghosts, budget>>

(* Its time is up: it asks nothing of the daemon any more, and the artifact *)
(* stays until it expires.                                                  *)
GivesUp(c) ==
    /\ Waits(c) /\ c \in due
    /\ Tells(c, "unknown")
    /\ UNCHANGED <<diskVars, store, laneVars, studio, ghosts, budget>>

Dies(c) ==
    /\ budget.crashes > 0 /\ ~At(c, "idle") /\ ~At(c, "ended")
    /\ Tells(c, "died")
    /\ held' = IF held = c THEN None ELSE held
    /\ budget' = [budget EXCEPT !.crashes = @ - 1]
    /\ UNCHANGED <<clip, installs, store, laneVars, studio, ghosts>>

(* The daemon evicts or expires an artifact.                                *)
Vanishes(c) ==
    /\ store[c] # NoArtifact
    /\ Consumed(c)
    /\ Fault
    /\ UNCHANGED <<diskVars, commands, laneVars, studio, ghosts>>

Stroke(field) ==
    /\ budget.strokes > 0
    /\ budget' = [budget EXCEPT !.strokes = @ - 1]
    /\ studio' = [studio EXCEPT ![field] = @ + 1]
    /\ UNCHANGED <<diskVars, commands, store, laneVars, ghosts>>

Next ==
    \/ Take \/ HandlerTimeout \/ Disconnect
    \/ Fails \/ Describe \/ Serialize \/ Refresh \/ Upload
    \/ Download \/ Place
    \/ \E c \in Commands :
          \/ QueueTimeout(c) \/ Deadline(c)
          \/ Copy(c) \/ Fetch(c) \/ Lock(c) \/ WritePayload(c) \/ WriteManifest(c)
          \/ CleanUp(c) \/ InstallFails(c)
          \/ ReadManifest(c) \/ ReadPayload(c) \/ Paste(c)
          \/ Hears(c) \/ GivesUp(c) \/ Dies(c) \/ Vanishes(c)
    \/ Stroke("shape") \/ Stroke("text")

Spec == Init /\ [][Next]_vars

-------------------------------------------------------------------------------
(* Whatever command dies wherever, the manifest's payload is there.         *)
ClipboardIsWhole == clip.manifest # None => clip.manifest.payload \in clip.payloads

(* A paste finds the clipboard unreadable only if at least two copies have  *)
(* been installed while it read.                                            *)
LoadIsOvertaken ==
    \A p \in Pastes : commands[p].told = "unreadable" => installs >= commands[p].since + 2

(* What a paste places is what one copy has serialized, with its own roots. *)
PasteIsOneCopy == \A p \in Pastes : placed[p] # None => placed[p] \in made

(* A paste that is reported has been placed, and of one that the plugin     *)
(* refused, or refuses for its handler, nothing is in Studio, then or later. *)
PasteIsTold ==
    \A p \in Pastes :
        /\ commands[p].told = "pasted" => placed[p] # None
        /\ commands[p].told = "refused" \/ At(p, "refused") => placed[p] = None

(* A copied script is at least as new as its editor was when the copy began. *)
CopyIsFresh ==
    active \in Copies /\ work.at = "uploads" => work.content.text >= work.begun

===============================================================================
