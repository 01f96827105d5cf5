------------------------------ MODULE PluginProofs ------------------------------
(***************************************************************************)
(* Theorems about PluginRouting, for every number of plugins, clients and  *)
(* requests and every capacity; about StudioClipboard, for any copies,     *)
(* pastes, faults, crashes and edits; and about PluginLink, for any URLs,  *)
(* projects and budgets in which no cancelled request is answered late.    *)
(*                                                                         *)
(* The router: a route exists only for a request whose handler is past     *)
(* registering it and which has no response yet (RouteInv); a handler runs *)
(* only while its recv_loop reads, and a recv_loop reads only while        *)
(* handle_ws waits for it (TaskInv).  From these the slot owner is live,   *)
(* no route outlives its client, and nobody answers twice.                 *)
(*                                                                         *)
(* The clipboard: a command is in the lane once and asks once (LaneOnce,   *)
(* AsksOnce); who updates has the lock, and what was read is there until   *)
(* the next manifest is written (Updates, Reads); who was refused has      *)
(* placed nothing, and its request is dropped or late (Refusal).           *)
(*                                                                         *)
(* The link: one coroutine of the newest number goes on, and all others    *)
(* are older (OneGoes, Numbered); hooks are installed by a comparison or   *)
(* are the link's (HooksAreOne); a boot is a daemon for good, and each     *)
(* coroutine knows which of them it was told of (BootsAreNew, CapIsBase,   *)
(* ComparesKnow, LoopsKnow).                                               *)
(***************************************************************************)
EXTENDS PluginRouting, SharedClipboard, OwnedLink, Sequences, TLAPS

-------------------------------------------------------------------------------
(* The clipboard. *)

Commands  == Copies \cup Pastes
Contents  == Clip!Contents
Manifests == Clip!Manifests
InLane == {lane[i] : i \in 1 .. Len(lane)}
Asked  == InLane \cup {handling}
Step(c) == commands[c].at

Records == [at : {"idle", "loads", "loaded", "waits", "answered", "refused", "cut",
                  "fetched", "locked", "written", "named", "ended"},
            manifest : Manifests \cup {None}, attempt : {0, 1}, since : Nat,
            told : {None, "empty", "copied", "failed", "unreadable", "refused",
                    "unknown", "pasted", "died"}]
Artifacts == [bytes : Nat, content : Contents \cup {None}, final : BOOLEAN, open : BOOLEAN]
Works == [at : {"starts", "described", "serialized", "uploads", "decoded"},
          content : Contents \cup {None}, roots : Nat, begun : Nat, bytes : Nat]
Clips == [manifest : Manifests \cup {None}, payloads : SUBSET Contents]

ClipTypes ==
    /\ clip \in Clips
    /\ commands \in [Commands -> Records]
    /\ store \in [Commands -> Artifacts]
    /\ lane \in Seq(Commands)
    /\ handling \in Commands \cup {None}
    /\ handling # None => work \in Works
    /\ studio \in Contents
    /\ placed \in [Pastes -> Manifests \cup {None}]
    /\ made \subseteq Manifests
    /\ installs \in Nat

(* A command asks the plugin once: it is in the lane at one place, or has its handler, and
   only after it has left its own first steps. *)
LaneOnce ==
    /\ \A i, j \in 1 .. Len(lane) : lane[i] = lane[j] => i = j
    /\ handling \notin InLane

Early == {"idle", "loads", "loaded"}
AsksOnce(c) == c \in Asked => Step(c) \notin Early

(* What a handler has so far is of its command. *)
WorkHolds ==
    /\ handling \in Copies =>
          /\ work.at \in {"starts", "described", "serialized", "uploads"}
          /\ work.at # "starts" => work.begun <= studio.text
          /\ work.at \in {"serialized", "uploads"} => work.content \in Contents
          /\ work.at = "uploads" => work.content.text >= work.begun
    /\ handling \in Pastes =>
          /\ work.at \in {"starts", "decoded"}
          /\ work.at = "decoded" => work.content = commands[handling].manifest.payload

(* A manifest was made by the plugin, and an artifact of a paste holds the payload of the
   manifest that was read. *)
Updating == {"fetched", "locked", "written", "named"}
Known(c) ==
    /\ commands[c].manifest # None => commands[c].manifest \in made
    /\ Step(c) \in Updating => c \in Copies
    /\ Step(c) \in {"loads", "loaded"} => c \in Pastes
    /\ c \in Copies /\ Step(c) \in Updating \cup {"answered"} => commands[c].manifest # None
    /\ c \in Pastes =>
          /\ Step(c) \in {"loads", "loaded"} \/ c \in Asked => commands[c].manifest # None
          /\ Step(c) \in Early => ~ store[c].final
          /\ store[c].final => store[c].content = commands[c].manifest.payload

(* Who updates has the lock; its payload is written, and its manifest too. *)
Updates(c) ==
    /\ Step(c) \in {"locked", "written", "named"} => held = c
    /\ Step(c) = "written" => commands[c].manifest.payload \in clip.payloads
    /\ Step(c) = "named" => clip.manifest = commands[c].manifest

(* What was read is in the clipboard until the next manifest is written. *)
Reads(c) ==
    LET r == commands[c] IN
    /\ r.at = "idle" /\ r.attempt = 1 => installs >= r.since + 1
    /\ r.at = "loads" => /\ installs >= r.since + r.attempt
                         /\ installs = r.since + r.attempt => clip.manifest = r.manifest
    /\ r.told # None => r.at = "ended"
    /\ r.told = "unreadable" => installs >= r.since + 2

(* Who was refused has placed nothing, and never will: it is out of the lane, or will be
   dropped from it, or its handler is late. *)
Refusal(p) ==
    /\ placed[p] = None
    /\ p \in InLane => p \in dropped
    /\ p = handling => p \in due

Told(p) ==
    /\ p \in Asked \/ Step(p) \in Early => placed[p] = None
    /\ Step(p) = "answered" \/ commands[p].told = "pasted" => placed[p] # None
    /\ Step(p) = "refused" \/ commands[p].told = "refused" => Refusal(p)

CommandHolds(c) ==
    AsksOnce(c) /\ Known(c) /\ Updates(c) /\ Reads(c) /\ (c \in Pastes => Told(c))

ClipHolds ==
    /\ clip.manifest # None => clip.manifest \in made
    /\ Clip!ClipboardIsWhole /\ Clip!PasteIsOneCopy

ClipInv ==
    /\ Clip!ClipboardAssumption /\ ClipTypes
    /\ LaneOnce /\ WorkHolds /\ ClipHolds
    /\ \A c \in Commands : CommandHolds(c)

LEMMA NoneIsApart ==
    ASSUME Clip!ClipboardAssumption
    PROVE  /\ Commands = Clip!Commands /\ InLane = Clip!Queued
           /\ Copies \cap Pastes = {} /\ None \notin Commands
           /\ None \notin Contents /\ None \notin Manifests
           /\ None # "unreadable" /\ None # "pasted" /\ None # "refused"
BY DEF Clip!ClipboardAssumption, Commands, Clip!Commands, Contents, Manifests, InLane,
   Clip!Queued

LEMMA ClipInit == Clip!ClipboardAssumption /\ Clip!Init => ClipInv
<1> SUFFICES ASSUME Clip!ClipboardAssumption, Clip!Init PROVE ClipInv OBVIOUS
<1>1. [shape |-> 0, text |-> 0] \in Contents /\ Clip!Earlier \in Manifests
  BY DEF Contents, Clip!Contents, Clip!Texts, Manifests, Clip!Manifests, Clip!Earlier
<1>2. /\ commands = [c \in Commands |-> Clip!Fresh] /\ store = [c \in Commands |-> Clip!NoArtifact]
      /\ lane = <<>> /\ handling = None /\ installs = 0
      /\ studio = [shape |-> 0, text |-> 0] /\ placed = [p \in Pastes |-> None]
  BY NoneIsApart DEF Clip!Init
<1>3. Clip!Fresh \in Records /\ Clip!NoArtifact \in Artifacts
  BY DEF Clip!Fresh, Records, Clip!NoArtifact, Artifacts
<1>4. \/ clip = [manifest |-> None, payloads |-> {}] /\ made = {}
      \/ clip = [manifest |-> Clip!Earlier, payloads |-> {Clip!Earlier.payload}]
           /\ made = {Clip!Earlier}
  BY DEF Clip!Init
<1>5. ClipTypes
  <2>1. clip \in Clips /\ made \subseteq Manifests
    BY <1>1, <1>4 DEF Clips, Manifests, Clip!Manifests, Contents
  <2> QED BY <1>1, <1>2, <1>3, <2>1 DEF ClipTypes
<1>6. LaneOnce /\ WorkHolds BY <1>2, NoneIsApart DEF LaneOnce, InLane, WorkHolds, Commands
<1>7. ClipHolds BY <1>2, <1>4 DEF ClipHolds, Clip!ClipboardIsWhole, Clip!PasteIsOneCopy
<1>8. ASSUME NEW c \in Commands PROVE CommandHolds(c)
  <2>1. commands[c] = Clip!Fresh /\ store[c] = Clip!NoArtifact BY <1>2
  <2>2. c \notin Asked BY <1>2, NoneIsApart DEF Asked, InLane
  <2>3. /\ Step(c) = "idle" /\ commands[c].manifest = None /\ commands[c].told = None
        /\ commands[c].attempt = 0 /\ ~ store[c].final
    BY <2>1 DEF Clip!Fresh, Clip!NoArtifact, Step
  <2> QED BY <1>2, <2>2, <2>3, NoneIsApart DEF CommandHolds, AsksOnce, Known, Updates,
     Reads, Told, Updating, Early, Step
<1> QED BY <1>5, <1>6, <1>7, <1>8 DEF ClipInv

-------------------------------------------------------------------------------
(* How a command changes. *)

Steps == {"idle", "loads", "loaded", "waits", "answered", "refused", "cut",
          "fetched", "locked", "written", "named", "ended"}
Words == {"empty", "copied", "failed", "unreadable", "refused", "unknown", "pasted", "died"}

LEMMA FieldsOf ==
    ASSUME NEW r \in Records
    PROVE  /\ \A s \in Steps : [r EXCEPT !.at = s] \in Records
           /\ \A w \in Words : [r EXCEPT !.at = "ended", !.told = w] \in Records
           /\ \A s \in Steps, m \in Manifests \cup {None} :
                 [r EXCEPT !.at = s, !.manifest = m] \in Records
<1>1. \A s \in Steps : [r EXCEPT !.at = s] \in Records BY DEF Records, Steps
<1>2. \A w \in Words : [r EXCEPT !.at = "ended", !.told = w] \in Records
  BY DEF Records, Words
<1>3. \A s \in Steps, m \in Manifests \cup {None} :
         [r EXCEPT !.at = s, !.manifest = m] \in Records
  BY DEF Records, Steps
<1> QED BY <1>1, <1>2, <1>3

LEMMA GoesTo ==
    ASSUME ClipTypes, NEW c \in Commands, NEW s \in Steps, Clip!Goes(c, s)
    PROVE  /\ commands' \in [Commands -> Records]
           /\ \A d \in Commands : d # c => commands'[d] = commands[d]
           /\ commands'[c].at = s /\ commands'[c].manifest = commands[c].manifest
           /\ commands'[c].attempt = commands[c].attempt
           /\ commands'[c].since = commands[c].since /\ commands'[c].told = commands[c].told
<1>1. commands \in [Commands -> Records] /\ commands[c] \in Records BY DEF ClipTypes
<1> DEFINE q == [commands[c] EXCEPT !.at = s]
<1>2. commands' = [commands EXCEPT ![c] = q] BY <1>1 DEF Clip!Goes
<1>3. /\ q \in Records /\ q.at = s /\ q.manifest = commands[c].manifest
      /\ q.attempt = commands[c].attempt
      /\ q.since = commands[c].since /\ q.told = commands[c].told
  BY <1>1, FieldsOf DEF Records
<1> HIDE DEF q
<1> QED BY <1>1, <1>2, <1>3

LEMMA TellsTo ==
    ASSUME ClipTypes, NEW c \in Commands, NEW w \in Words, Clip!Tells(c, w)
    PROVE  /\ commands' \in [Commands -> Records]
           /\ \A d \in Commands : d # c => commands'[d] = commands[d]
           /\ commands'[c].at = "ended" /\ commands'[c].manifest = commands[c].manifest
           /\ commands'[c].attempt = commands[c].attempt
           /\ commands'[c].since = commands[c].since /\ commands'[c].told = w
<1>1. commands \in [Commands -> Records] /\ commands[c] \in Records BY DEF ClipTypes
<1> DEFINE q == [commands[c] EXCEPT !.at = "ended", !.told = w]
<1>2. commands' = [commands EXCEPT ![c] = q] BY <1>1 DEF Clip!Tells
<1>3. /\ q \in Records /\ q.at = "ended" /\ q.manifest = commands[c].manifest
      /\ q.attempt = commands[c].attempt
      /\ q.since = commands[c].since /\ q.told = w
  BY <1>1, FieldsOf DEF Records
<1> HIDE DEF q
<1> QED BY <1>1, <1>2, <1>3

LEMMA ConsumedIs ==
    ASSUME ClipTypes, NEW c \in Commands, Clip!Consumed(c)
    PROVE  /\ store' \in [Commands -> Artifacts] /\ ~ store'[c].final
           /\ \A d \in Commands : d # c => store'[d] = store[d]
<1>1. Clip!NoArtifact \in Artifacts /\ ~ Clip!NoArtifact.final
  BY DEF Clip!NoArtifact, Artifacts
<1> QED BY <1>1 DEF ClipTypes, Clip!Consumed

(* A step of one command that leaves the plugin and the clipboard alone. *)
LEMMA OneCommand ==
    ASSUME ClipInv, NEW c \in Commands,
           UNCHANGED <<clip, installs, lane, dropped, handling, work, due, studio, placed,
                       made>>,
           commands' \in [Commands -> Records], store' \in [Commands -> Artifacts],
           \A d \in Commands : d # c =>
               /\ commands'[d] = commands[d] /\ store'[d] = store[d]
               /\ held = d => held' = d,
           c = handling /\ c \in Pastes => commands'[c].manifest = commands[c].manifest,
           CommandHolds(c)'
    PROVE  ClipInv'
<1>1. ClipTypes' BY DEF ClipInv, ClipTypes
<1>2. LaneOnce' BY DEF ClipInv, LaneOnce, InLane
<1>3. WorkHolds' BY DEF ClipInv, WorkHolds, Commands
<1>4. ClipHolds' BY DEF ClipInv, ClipHolds, Clip!ClipboardIsWhole, Clip!PasteIsOneCopy
<1>5. ASSUME NEW d \in Commands, d # c PROVE CommandHolds(d)'
  <2>1. CommandHolds(d) /\ commands'[d] = commands[d] /\ store'[d] = store[d]
        /\ (held = d => held' = d)
    BY <1>5 DEF ClipInv
  <2>2. Asked' = Asked /\ InLane' = InLane BY DEF Asked, InLane
  <2> QED BY <2>1, <2>2 DEF CommandHolds, AsksOnce, Known, Updates, Reads, Told, Refusal,
     Step
<1> QED BY <1>1, <1>2, <1>3, <1>4, <1>5 DEF ClipInv, Clip!ClipboardAssumption

(* The artifact of a command that is over is not its paste's any more. *)
LEMMA Ending ==
    ASSUME ClipInv, NEW c \in Commands, NEW w \in Words, Clip!Tells(c, w),
           UNCHANGED <<clip, installs, lane, dropped, handling, work, due, studio, placed,
                       made>>,
           Clip!Consumed(c) \/ store' = store,
           \A d \in Commands : d # c => (held = d => held' = d),
           w = "unreadable" => installs >= commands[c].since + 2,
           c \in Pastes /\ w = "pasted" => placed[c] # None,
           c \in Pastes /\ w = "refused" => Refusal(c)
    PROVE  ClipInv'
<1>1. /\ commands' \in [Commands -> Records]
      /\ \A d \in Commands : d # c => commands'[d] = commands[d]
      /\ commands'[c].at = "ended" /\ commands'[c].manifest = commands[c].manifest
      /\ commands'[c].attempt = commands[c].attempt
      /\ commands'[c].since = commands[c].since /\ commands'[c].told = w
  BY TellsTo DEF ClipInv
<1>2. /\ store' \in [Commands -> Artifacts] /\ (store'[c].final => store'[c] = store[c])
      /\ \A d \in Commands : d # c => store'[d] = store[d]
  BY ConsumedIs DEF ClipInv, ClipTypes
<1>3. CommandHolds(c) BY DEF ClipInv
<1>4. Asked' = Asked /\ InLane' = InLane BY DEF Asked, InLane
<1>5. AsksOnce(c)' BY <1>1 DEF AsksOnce, Step, Early
<1>6. Known(c)' BY <1>1, <1>2, <1>3, <1>4 DEF CommandHolds, Known, Step, Updating, Early
<1>7. Updates(c)' BY <1>1 DEF Updates, Step
<1>8. Reads(c)' BY <1>1 DEF Reads
<1>9. c \in Pastes => Told(c)'
  BY <1>1, <1>3, <1>4 DEF CommandHolds, Told, Step, Refusal, Early
<1>10. CommandHolds(c)' BY <1>5, <1>6, <1>7, <1>8, <1>9 DEF CommandHolds
<1> QED BY <1>1, <1>2, <1>10, OneCommand

(* Who goes on to a step that the plugin and the reads do not matter for. *)
LEMMA GoingOn ==
    ASSUME ClipInv, NEW c \in Commands, NEW s \in Steps, Clip!Goes(c, s),
           s \notin {"waits", "idle", "loads", "answered", "refused", "written", "named"},
           UNCHANGED <<clip, installs, lane, dropped, handling, work, due, studio, placed,
                       made, store>>,
           \A d \in Commands : d # c => (held = d => held' = d),
           s = "locked" => held' = c,
           commands[c].told = None,
           s \in Updating => c \in Copies /\ commands[c].manifest # None,
           s = "loaded" => Step(c) = "loads"
    PROVE  ClipInv'
<1>1. /\ commands' \in [Commands -> Records]
      /\ \A d \in Commands : d # c => commands'[d] = commands[d]
      /\ commands'[c].at = s /\ commands'[c].manifest = commands[c].manifest
      /\ commands'[c].attempt = commands[c].attempt
      /\ commands'[c].since = commands[c].since /\ commands'[c].told = commands[c].told
  BY GoesTo DEF ClipInv
<1>2. store' \in [Commands -> Artifacts] BY DEF ClipInv, ClipTypes
<1>3. CommandHolds(c) BY DEF ClipInv
<1>4. Asked' = Asked /\ InLane' = InLane BY DEF Asked, InLane
<1>5. AsksOnce(c)' BY <1>1, <1>3, <1>4 DEF CommandHolds, AsksOnce, Step, Early
<1>6. Known(c)' BY <1>1, <1>3, <1>4 DEF CommandHolds, Known, Step, Updating, Early
<1>7. Updates(c)' BY <1>1 DEF Updates, Step
<1>8. Reads(c)' BY <1>1, NoneIsApart DEF ClipInv, Reads
<1>9. c \in Pastes => Told(c)'
  BY <1>1, <1>3, <1>4, NoneIsApart DEF ClipInv, CommandHolds, Told, Step, Refusal, Early
<1>10. CommandHolds(c)' BY <1>5, <1>6, <1>7, <1>8, <1>9 DEF CommandHolds
<1> QED BY <1>1, <1>2, <1>10, OneCommand

LEMMA NotTold ==
    ASSUME ClipInv, NEW c \in Commands, Step(c) # "ended" PROVE commands[c].told = None
BY DEF ClipInv, CommandHolds, Reads, Step

-------------------------------------------------------------------------------
(* What the processes do. *)

LEMMA ProcessKeeps ==
    ASSUME ClipInv, NEW c \in Commands,
           \/ Clip!Fetch(c) \/ Clip!Lock(c) \/ Clip!InstallFails(c)
           \/ Clip!ReadPayload(c) \/ Clip!Hears(c) \/ Clip!GivesUp(c) \/ Clip!Dies(c)
    PROVE  ClipInv'
<1>1. CommandHolds(c) BY DEF ClipInv
<1>2. \A d \in Commands : d # c => (held = d => held' = d)
  BY NoneIsApart DEF ClipInv, Clip!Fetch, Clip!Lock, Clip!InstallFails, Clip!Lockable,
     Clip!ReadPayload, Clip!Hears, Clip!GivesUp, Clip!Dies, Clip!diskVars
<1>3. CASE Clip!Fetch(c)
  <2> USE <1>3 DEF Clip!Fetch
  <2>1. Step(c) = "answered" /\ c \in Copies BY DEF Clip!At, Step
  <2>2. CASE Clip!Goes(c, "fetched")
    BY <1>1, <1>2, <2>1, <2>2, NotTold, GoingOn DEF Clip!diskVars, Clip!laneVars,
       Clip!ghosts, Steps, Updating, CommandHolds, Known
  <2>3. CASE Clip!Tells(c, "failed")
    BY <1>2, <2>3, Ending DEF Clip!diskVars, Clip!laneVars, Clip!ghosts, Words
  <2> QED BY <2>2, <2>3
<1>4. CASE Clip!Lock(c)
  <2> USE <1>4 DEF Clip!Lock
  <2>1. Step(c) = "fetched" BY DEF Clip!At, Step
  <2>2. CASE held' = c /\ Clip!Goes(c, "locked") /\ UNCHANGED store
    BY <1>1, <1>2, <2>1, <2>2, NotTold, GoingOn DEF Clip!laneVars, Clip!ghosts, Steps,
       Updating, CommandHolds, Known
  <2>3. CASE Clip!Tells(c, "failed") /\ Clip!Consumed(c)
    BY <1>2, <2>3, Ending DEF Clip!laneVars, Clip!ghosts, Words
  <2> QED BY <2>2, <2>3
<1>5. CASE Clip!InstallFails(c)
  BY <1>2, <1>5, Ending DEF Clip!InstallFails, Clip!laneVars, Clip!ghosts, Words
<1>6. CASE Clip!ReadPayload(c)
  <2>1. Step(c) = "loads" BY <1>6 DEF Clip!ReadPayload, Clip!At, Step
  <2>2. CASE Clip!Goes(c, "loaded")
    BY <1>1, <1>2, <1>6, <2>1, <2>2, NotTold, GoingOn DEF Clip!ReadPayload, Clip!diskVars,
       Clip!laneVars, Clip!ghosts, Steps, Updating
  <2>3. ASSUME commands[c].manifest.payload \notin clip.payloads
        PROVE  installs >= commands[c].since + commands[c].attempt + 1
    <3>1. commands[c].manifest # clip.manifest
      <4>1. commands[c].manifest # None BY <1>1, <2>1 DEF CommandHolds, Known
      <4> QED BY <2>3, <4>1 DEF ClipInv, ClipHolds, Clip!ClipboardIsWhole
    <3>2. installs \in Nat /\ commands[c].since \in Nat /\ commands[c].attempt \in {0, 1}
      BY DEF ClipInv, ClipTypes, Records
    <3> QED BY <1>1, <2>1, <3>1, <3>2 DEF CommandHolds, Reads, Step
  <2>4. CASE /\ commands[c].manifest.payload \notin clip.payloads
             /\ commands' = [commands EXCEPT ![c].at = "idle", ![c].attempt = 1]
    <3> DEFINE q == [commands[c] EXCEPT !.at = "idle", !.attempt = 1]
    <3>1. commands[c] \in Records /\ commands' = [commands EXCEPT ![c] = q]
      BY <2>4 DEF ClipInv, ClipTypes
    <3>2. /\ q \in Records /\ q.at = "idle" /\ q.attempt = 1 /\ q.since = commands[c].since
          /\ q.manifest = commands[c].manifest /\ q.told = commands[c].told
      BY <3>1 DEF Records
    <3> HIDE DEF q
    <3>3. /\ commands' \in [Commands -> Records] /\ commands'[c] = q
          /\ \A d \in Commands : d # c => commands'[d] = commands[d]
      BY <3>1, <3>2 DEF ClipInv, ClipTypes
    <3>4. UNCHANGED <<clip, installs, lane, dropped, handling, work, due, studio, placed,
                      made, store>>
      BY <1>6 DEF Clip!ReadPayload, Clip!diskVars, Clip!laneVars, Clip!ghosts
    <3>5. Asked' = Asked /\ InLane' = InLane BY <3>4 DEF Asked, InLane
    <3>6. commands[c].told = None /\ c \in Pastes
      BY <1>1, <2>1, NotTold DEF CommandHolds, Known
    <3> USE <3>2, <3>4 DEF ClipInv
    <3>7. AsksOnce(c)' /\ Known(c)' /\ Updates(c)'
      BY <1>1, <2>1, <3>3, <3>5, <3>6, NoneIsApart DEF CommandHolds, AsksOnce, Known,
         Updates, Step, Updating, Early
    <3>8. Reads(c)'
      <4>1. installs \in Nat /\ commands[c].since \in Nat /\ commands[c].attempt \in {0, 1}
        BY <3>1 DEF ClipTypes, Records
      <4>2. installs' >= q.since + 1 BY <2>3, <2>4, <4>1
      <4> QED BY <3>3, <3>6, <4>2, NoneIsApart DEF Reads
    <3>9. Told(c)'
      BY <1>1, <2>1, <3>3, <3>5, <3>6, NoneIsApart DEF CommandHolds, Told, Step, Refusal,
         Early
    <3>10. CommandHolds(c)' BY <3>7, <3>8, <3>9 DEF CommandHolds
    <3>11. store' \in [Commands -> Artifacts] BY DEF ClipTypes
    <3> QED BY <1>2, <3>3, <3>10, <3>11, OneCommand
  <2>5. CASE /\ commands[c].manifest.payload \notin clip.payloads
             /\ ~ Clip!Retries(c) /\ Clip!Tells(c, "unreadable")
    <3>1. installs >= commands[c].since + 2
      <4>1. installs \in Nat /\ commands[c].since \in Nat /\ commands[c].attempt = 1
        BY <2>5 DEF ClipInv, ClipTypes, Records, Clip!Retries
      <4> QED BY <2>3, <2>5, <4>1
    <3> QED BY <1>2, <1>6, <2>5, <3>1, Ending DEF Clip!ReadPayload, Clip!diskVars,
       Clip!laneVars, Clip!ghosts, Words
  <2> QED BY <1>6, <2>2, <2>4, <2>5 DEF Clip!ReadPayload
<1>7. CASE Clip!Hears(c)
  <2>1. PICK w \in {"refused", "unknown", "pasted"} :
           /\ Clip!Tells(c, w)
           /\ w = "refused" => Step(c) = "refused"
           /\ w = "pasted" => Step(c) = "answered"
    BY <1>7 DEF Clip!Hears, Clip!At, Step
  <2>2. c \in Pastes => /\ w = "pasted" => placed[c] # None
                        /\ w = "refused" => Refusal(c)
    BY <1>1, <2>1 DEF CommandHolds, Told
  <2> QED BY <1>2, <1>7, <2>1, <2>2, Ending DEF Clip!Hears, Clip!diskVars, Clip!laneVars,
     Clip!ghosts, Words
<1>8. CASE Clip!GivesUp(c)
  BY <1>2, <1>8, Ending DEF Clip!GivesUp, Clip!diskVars, Clip!laneVars, Clip!ghosts, Words
<1>9. CASE Clip!Dies(c)
  BY <1>2, <1>9, Ending DEF Clip!Dies, Clip!laneVars, Clip!ghosts, Words
<1> QED BY <1>3, <1>4, <1>5, <1>6, <1>7, <1>8, <1>9

(* Who updates is alone with the clipboard: the others have the lock's word for it, or read
   a manifest that is overtaken. *)
LEMMA Installing ==
    ASSUME ClipInv, NEW c \in Commands, held = c,
           UNCHANGED <<lane, dropped, handling, work, due, studio, placed, made>>,
           commands' \in [Commands -> Records], store' \in [Commands -> Artifacts],
           \A d \in Commands : d # c => commands'[d] = commands[d] /\ store'[d] = store[d],
           commands'[c].manifest = commands[c].manifest,
           clip' \in Clips, installs' \in Nat, installs' >= installs,
           installs' = installs => clip'.manifest = clip.manifest,
           clip'.manifest # None => clip'.manifest \in made
             /\ clip'.manifest.payload \in clip'.payloads,
           CommandHolds(c)'
    PROVE  ClipInv'
<1>1. ClipTypes' BY DEF ClipInv, ClipTypes
<1>2. LaneOnce' BY DEF ClipInv, LaneOnce, InLane
<1>3. WorkHolds' BY DEF ClipInv, WorkHolds, Commands
<1>4. ClipHolds' BY DEF ClipInv, ClipHolds, Clip!ClipboardIsWhole, Clip!PasteIsOneCopy
<1>5. ASSUME NEW d \in Commands, d # c PROVE CommandHolds(d)'
  <2>1. CommandHolds(d) /\ commands'[d] = commands[d] /\ store'[d] = store[d]
    BY <1>5 DEF ClipInv
  <2>2. Asked' = Asked /\ InLane' = InLane BY DEF Asked, InLane
  <2>3. AsksOnce(d)' /\ Known(d)' /\ (d \in Pastes => Told(d)')
    BY <2>1, <2>2 DEF CommandHolds, AsksOnce, Known, Told, Refusal, Step
  <2>4. Updates(d)' BY <1>5, <2>1 DEF CommandHolds, Updates, Step
  <2>5. Reads(d)'
    <3>1. /\ installs \in Nat /\ commands[d].since \in Nat /\ commands[d].attempt \in {0, 1}
      BY DEF ClipInv, ClipTypes, Records
    <3> QED BY <2>1, <3>1 DEF CommandHolds, Reads
  <2> QED BY <2>3, <2>4, <2>5 DEF CommandHolds
<1> QED BY <1>1, <1>2, <1>3, <1>4, <1>5 DEF ClipInv, Clip!ClipboardAssumption

LEMMA InstallKeeps ==
    ASSUME ClipInv, NEW c \in Commands,
           Clip!WritePayload(c) \/ Clip!WriteManifest(c) \/ Clip!CleanUp(c)
    PROVE  ClipInv'
<1>1. /\ CommandHolds(c) /\ Step(c) \in {"locked", "written", "named"}
  BY DEF ClipInv, Clip!WritePayload, Clip!WriteManifest, Clip!CleanUp, Clip!At, Step
<1> DEFINE m == commands[c].manifest
<1>2. /\ held = c /\ c \in Copies /\ c \notin Pastes
      /\ m \in made /\ m \in Manifests /\ m # None
  <2>1. held = c /\ c \in Copies /\ m # None
    BY <1>1 DEF CommandHolds, Known, Updates, Updating
  <2>2. m \in made BY <1>1, <2>1 DEF CommandHolds, Known
  <2> QED BY <2>1, <2>2, NoneIsApart DEF ClipInv, ClipTypes
<1>3. m.payload \in Contents BY <1>2 DEF Manifests, Clip!Manifests, Contents
<1>4. commands[c].told = None BY <1>1, NotTold
<1>5. clip \in Clips /\ installs \in Nat /\ store \in [Commands -> Artifacts]
  BY DEF ClipInv, ClipTypes
<1>6. (clip.manifest # None => clip.manifest \in made
       /\ clip.manifest.payload \in clip.payloads)
  BY DEF ClipInv, ClipHolds, Clip!ClipboardIsWhole
<1>7. UNCHANGED <<lane, dropped, handling, work, due, studio, placed, made>>
  BY DEF Clip!WritePayload, Clip!WriteManifest, Clip!CleanUp, Clip!laneVars, Clip!ghosts
<1>8. Asked' = Asked /\ InLane' = InLane BY <1>7 DEF Asked, InLane
<1>9. ASSUME NEW s \in {"written", "named"}, Clip!Goes(c, s), store' = store, held' = held,
             s = "written" => m.payload \in clip'.payloads,
             s = "named" => clip'.manifest = m
      PROVE  /\ CommandHolds(c)' /\ commands' \in [Commands -> Records]
             /\ \A d \in Commands : d # c => commands'[d] = commands[d]
             /\ commands'[c].manifest = m
  <2>1. /\ commands' \in [Commands -> Records]
        /\ \A d \in Commands : d # c => commands'[d] = commands[d]
        /\ commands'[c].at = s /\ commands'[c].manifest = m
        /\ commands'[c].attempt = commands[c].attempt
        /\ commands'[c].since = commands[c].since /\ commands'[c].told = commands[c].told
    BY <1>9, GoesTo DEF ClipInv, Steps
  <2>2. AsksOnce(c)' /\ Known(c)'
    BY <1>2, <1>7, <1>8, <2>1 DEF AsksOnce, Known, Step, Early, Updating
  <2>3. Updates(c)' /\ Reads(c)'
    BY <1>2, <1>4, <1>9, <2>1, NoneIsApart DEF ClipInv, Updates, Reads, Step
  <2> QED BY <1>2, <2>1, <2>2, <2>3 DEF CommandHolds
<1>10. CASE Clip!WritePayload(c)
  <2>1. clip' = [clip EXCEPT !.payloads = @ \cup {m.payload}] /\ Clip!Goes(c, "written")
        /\ UNCHANGED <<held, installs, store>>
    BY <1>10 DEF Clip!WritePayload
  <2>2. clip' \in Clips /\ clip'.manifest = clip.manifest
        /\ clip'.payloads = clip.payloads \cup {m.payload}
    BY <1>3, <1>5, <2>1 DEF Clips
  <2>3. /\ CommandHolds(c)' /\ commands' \in [Commands -> Records]
        /\ \A d \in Commands : d # c => commands'[d] = commands[d]
        /\ commands'[c].manifest = m
    BY <1>9, <2>1, <2>2
  <2> QED BY <1>2, <1>5, <1>6, <1>7, <2>1, <2>2, <2>3, Installing
<1>11. CASE Clip!WriteManifest(c)
  <2>1. clip' = [clip EXCEPT !.manifest = m] /\ Clip!Goes(c, "named")
        /\ UNCHANGED <<held, store>> /\ installs' = installs + 1 /\ Step(c) = "written"
    BY <1>11 DEF Clip!WriteManifest, Clip!At, Step
  <2>2. clip' \in Clips /\ clip'.manifest = m /\ clip'.payloads = clip.payloads
    BY <1>2, <1>5, <2>1 DEF Clips
  <2>3. /\ CommandHolds(c)' /\ commands' \in [Commands -> Records]
        /\ \A d \in Commands : d # c => commands'[d] = commands[d]
        /\ commands'[c].manifest = m
    BY <1>9, <2>1, <2>2
  <2>4. m.payload \in clip.payloads BY <1>1, <2>1 DEF CommandHolds, Updates
  <2>5. installs' \in Nat /\ installs' >= installs /\ installs' # installs BY <1>5, <2>1
  <2> QED BY <1>2, <1>5, <1>7, <2>1, <2>2, <2>3, <2>4, <2>5, Installing
<1>12. CASE Clip!CleanUp(c)
  <2>1. clip' = [clip EXCEPT !.payloads = @ \cap {m.payload}] /\ Clip!Tells(c, "copied")
        /\ installs' = installs /\ Clip!Consumed(c) /\ Step(c) = "named"
    BY <1>12 DEF Clip!CleanUp, Clip!At, Step
  <2>2. clip' \in Clips /\ clip'.manifest = clip.manifest
        /\ clip'.payloads = clip.payloads \cap {m.payload}
    BY <1>5, <2>1 DEF Clips
  <2>3. clip.manifest = m BY <1>1, <2>1 DEF CommandHolds, Updates
  <2>4. /\ commands' \in [Commands -> Records]
        /\ \A d \in Commands : d # c => commands'[d] = commands[d]
        /\ commands'[c].at = "ended" /\ commands'[c].manifest = m
        /\ commands'[c].told = "copied"
    BY <2>1, TellsTo DEF ClipInv, Words
  <2>5. CommandHolds(c)'
    BY <1>2, <1>7, <2>4 DEF CommandHolds, AsksOnce, Known, Updates, Reads, Step, Early,
       Updating
  <2>6. store' \in [Commands -> Artifacts]
        /\ \A d \in Commands : d # c => store'[d] = store[d]
    BY <2>1, ConsumedIs DEF ClipInv
  <2> QED
    BY SMTT(60), <1>2, <1>5, <1>6, <1>7, <2>1, <2>2, <2>3, <2>4, <2>5, <2>6, Installing
<1> QED BY <1>10, <1>11, <1>12

LEMMA ReadKeeps ==
    ASSUME ClipInv, NEW c \in Commands, Clip!ReadManifest(c) \/ Clip!Vanishes(c)
    PROVE  ClipInv'
<1>1. CommandHolds(c) /\ clip \in Clips /\ installs \in Nat /\ commands[c] \in Records
      /\ commands \in [Commands -> Records] /\ store \in [Commands -> Artifacts]
  BY DEF ClipInv, ClipTypes
<1>2. UNCHANGED <<clip, installs, held, lane, dropped, handling, work, due, studio, placed,
                  made>>
  BY DEF Clip!ReadManifest, Clip!Vanishes, Clip!diskVars, Clip!laneVars, Clip!ghosts
<1>3. Asked' = Asked /\ InLane' = InLane BY <1>2 DEF Asked, InLane
<1>4. CASE Clip!ReadManifest(c) /\ clip.manifest = None
  BY <1>2, <1>4, Ending DEF Clip!ReadManifest, Words
<1>5. CASE Clip!ReadManifest(c) /\ clip.manifest # None
  <2> DEFINE q == [commands[c] EXCEPT !.at = "loads", !.manifest = clip.manifest,
                       !.since = IF commands[c].attempt = 0 THEN installs ELSE @]
  <2>1. commands' = [commands EXCEPT ![c] = q] /\ store' = store
        /\ c \in Pastes /\ Step(c) = "idle"
    BY <1>1, <1>5 DEF Clip!ReadManifest, Clip!At, Step
  <2>2. clip.manifest \in made /\ clip.manifest \in Manifests
    BY <1>1, <1>5 DEF ClipInv, ClipHolds, Clips
  <2>3. /\ q \in Records /\ q.at = "loads" /\ q.manifest = clip.manifest
        /\ q.attempt = commands[c].attempt /\ q.told = commands[c].told
        /\ q.since = IF commands[c].attempt = 0 THEN installs ELSE commands[c].since
    BY <1>1, <2>2 DEF Records
  <2> HIDE DEF q
  <2>4. /\ commands' \in [Commands -> Records] /\ commands'[c] = q
        /\ \A d \in Commands : d # c => commands'[d] = commands[d]
    BY <1>1, <2>1, <2>3
  <2>5. c \notin Asked /\ commands[c].told = None /\ ~ store[c].final /\ c \notin Copies
    BY <1>1, <2>1, NotTold, NoneIsApart DEF ClipInv, CommandHolds, AsksOnce, Known, Early
  <2>6. AsksOnce(c)' /\ Known(c)' /\ Updates(c)' /\ Told(c)'
    BY <1>2, <1>3, <1>5, <2>1, <2>2, <2>3, <2>4, <2>5, NoneIsApart DEF ClipInv,
       CommandHolds, AsksOnce, Known, Updates, Told, Step, Updating, Early
  <2>7. Reads(c)'
    <3>1. commands[c].since \in Nat /\ commands[c].attempt \in {0, 1} BY <1>1 DEF Records
    <3>2. commands[c].attempt = 1 => installs >= commands[c].since + 1
      BY <1>1, <2>1 DEF CommandHolds, Reads, Step
    <3> QED BY <1>1, <1>2, <2>3, <2>4, <2>5, <3>1, <3>2, NoneIsApart DEF ClipInv, Reads
  <2>8. CommandHolds(c)' BY <2>6, <2>7 DEF CommandHolds
  <2>9. c # handling BY <2>5 DEF Asked
  <2> QED BY <1>1, <1>2, <2>1, <2>4, <2>8, <2>9, OneCommand
<1>6. CASE Clip!Vanishes(c)
  <2>1. commands' = commands /\ Clip!Consumed(c) BY <1>6 DEF Clip!Vanishes
  <2>2. /\ store' \in [Commands -> Artifacts] /\ ~ store'[c].final
        /\ \A d \in Commands : d # c => store'[d] = store[d]
    BY <2>1, ConsumedIs DEF ClipInv
  <2>3. CommandHolds(c)'
    BY <1>1, <1>2, <1>3, <2>1, <2>2 DEF CommandHolds, AsksOnce, Known, Updates, Reads, Told,
       Refusal, Step
  <2> QED BY <1>1, <1>2, <2>1, <2>2, <2>3, OneCommand
<1> QED BY <1>4, <1>5, <1>6
-------------------------------------------------------------------------------
(* What the plugin does. *)

(* A step of the lane changes a command only from waiting to its answer. *)
Answers(d) ==
    /\ commands'[d].told = commands[d].told /\ commands'[d].since = commands[d].since
    /\ commands'[d].attempt = commands[d].attempt
    /\ d \in Pastes => commands'[d].manifest = commands[d].manifest
    /\ \/ Step(d)' = Step(d) /\ commands'[d].manifest = commands[d].manifest
       \/ /\ Step(d) = "waits" /\ Step(d)' \in {"refused", "cut", "answered"}
          /\ commands'[d].manifest # None => commands'[d].manifest \in made'
          /\ d \in Copies /\ Step(d)' = "answered" => commands'[d].manifest # None

LEMMA LaneKeeps ==
    ASSUME ClipInv, ClipTypes', UNCHANGED <<clip, held, installs>>,
           LaneOnce', WorkHolds', made \subseteq made', Clip!PasteIsOneCopy',
           Asked' \subseteq Asked \cup {None},
           \A d \in Commands : Answers(d),
           \A d \in Pastes : store'[d] = store[d],
           \A d \in Pastes : Told(d)'
    PROVE  ClipInv'
<1> USE DEF CommandHolds
<1>1. ClipHolds' BY DEF ClipInv, ClipHolds, Clip!ClipboardIsWhole
<1>2. ASSUME NEW d \in Commands PROVE CommandHolds(d)'
  <2>1. CommandHolds(d) /\ Answers(d) BY DEF ClipInv
  <2> USE <2>1
  <2>2. AsksOnce(d)' /\ (d \in Asked' => d \in Asked)
    BY NoneIsApart DEF ClipInv, AsksOnce, Answers, Early
  <2>3. Known(d)'
    <3>1. d \in Pastes => commands'[d].manifest = commands[d].manifest /\ store'[d] = store[d]
      BY DEF Answers
    <3>2. commands'[d].manifest # None => commands'[d].manifest \in made'
      BY DEF Known, Answers
    <3>3. \/ Step(d)' = Step(d) /\ commands'[d].manifest = commands[d].manifest
          \/ Step(d) = "waits" /\ Step(d)' \in {"refused", "cut", "answered"}
      BY DEF Answers
    <3>4. (Step(d)' \in Updating => d \in Copies)
            /\ (Step(d)' \in {"loads", "loaded"} => d \in Pastes)
      BY <3>3 DEF Known, Updating
    <3>5. d \in Copies /\ Step(d)' \in Updating \cup {"answered"} =>
            commands'[d].manifest # None
      BY DEF Known, Answers, Updating
    <3>6. d \in Pastes =>
            /\ (Step(d)' \in {"loads", "loaded"} \/ d \in Asked' =>
                commands'[d].manifest # None)
            /\ (Step(d)' \in Early => ~ store'[d].final)
            /\ (store'[d].final => store'[d].content = commands'[d].manifest.payload)
      BY <2>2, <3>1, <3>3 DEF Known, Early
    <3> QED BY <3>2, <3>4, <3>5, <3>6 DEF Known, Step
  <2>4. Updates(d)' BY DEF Updates, Answers, Step
  <2>5. Reads(d)'
    <3>1. commands[d].told # None => Step(d) = "ended" BY DEF Reads, Step
    <3> QED BY <3>1 DEF Reads, Answers, Step
  <2> QED BY <2>2, <2>3, <2>4, <2>5
<1> QED BY <1>1, <1>2 DEF ClipInv, Clip!ClipboardAssumption

(* Who is not answered by the step is told as before. *)
LEMMA ToldStays ==
    ASSUME ClipInv, NEW d \in Pastes, placed'[d] = placed[d],
           commands'[d].told = commands[d].told,
           Step(d)' = Step(d) \/ Step(d)' = "cut",
           Asked' \subseteq Asked, InLane' \subseteq InLane, dropped \subseteq dropped',
           due \subseteq due',
           d = handling' => d = handling \/ d \notin dropped
    PROVE  Told(d)'
<1>1. Told(d) BY DEF ClipInv, CommandHolds, Commands
<1>2. Refusal(d) => Refusal(d)'
  <2>1. d = handling' => d \in Asked BY DEF Asked
  <2> QED BY <2>1 DEF Refusal, Asked
<1>3. Step(d)' = Step(d) \/ Step(d)' \notin {"answered", "refused"} OBVIOUS
<1> QED BY <1>1, <1>2, <1>3 DEF Told, Early

(* What was asked by those who are refused now is dropped, or late. *)
LEMMA RefusedIs ==
    ASSUME ClipInv, NEW who, commands' = Clip!Refused(who)
    PROVE  /\ commands' \in [Commands -> Records]
           /\ \A d \in Commands :
                /\ commands'[d].told = commands[d].told
                     /\ commands'[d].since = commands[d].since
                /\ commands'[d].attempt = commands[d].attempt
                /\ commands'[d].manifest = commands[d].manifest
                /\ \/ commands'[d].at = commands[d].at
                   \/ commands[d].at = "waits" /\ d \in who /\ commands'[d].at = "refused"
<1>1. commands \in [Commands -> Records] /\ Commands = Clip!Commands
  BY NoneIsApart DEF ClipInv, ClipTypes
<1>2. ASSUME NEW d \in Commands
      PROVE  /\ commands'[d] = IF d \in who /\ commands[d].at = "waits"
                               THEN [commands[d] EXCEPT !.at = "refused"] ELSE commands[d]
             /\ commands'[d] \in Records
  <2>1. commands'[d] = IF d \in who /\ commands[d].at = "waits"
                      THEN [commands[d] EXCEPT !.at = "refused"] ELSE commands[d]
    BY SMTT(60), <1>1 DEF Clip!Refused, Clip!Waits, Clip!At
  <2>2. [commands[d] EXCEPT !.at = "refused"] \in Records BY <1>1, FieldsOf DEF Steps
  <2> QED BY <1>1, <2>1, <2>2
<1>3. commands' \in [Commands -> Records] BY <1>1, <1>2 DEF Clip!Refused
<1>4. ASSUME NEW d \in Commands
      PROVE  /\ commands'[d].told = commands[d].told /\ commands'[d].since = commands[d].since
             /\ commands'[d].attempt = commands[d].attempt
             /\ commands'[d].manifest = commands[d].manifest
             /\ \/ commands'[d].at = commands[d].at
                \/ commands[d].at = "waits" /\ d \in who /\ commands'[d].at = "refused"
  BY ZenonT(60), <1>1, <1>2, <1>4 DEF Records
<1> QED BY <1>3, <1>4

(* The handler's command gets its answer, unless it has one; what was queued behind a late
   handler is refused and dropped. *)
LEMMA ReturnsTo ==
    ASSUME ClipInv, handling \in Commands, NEW s \in {"refused", "answered"},
           NEW m \in Manifests \cup {None}, Clip!Returns(s, m)
    PROVE  /\ commands' \in [Commands -> Records]
           /\ handling' = None /\ lane' = lane /\ due' = due /\ dropped \subseteq dropped'
           /\ \A d \in Commands :
                /\ commands'[d].told = commands[d].told
                     /\ commands'[d].since = commands[d].since
                /\ commands'[d].attempt = commands[d].attempt
                /\ \/ /\ commands'[d].at = commands[d].at
                      /\ commands'[d].manifest = commands[d].manifest
                      /\ ~ (d = handling /\ commands[d].at = "waits")
                   \/ /\ commands[d].at = "waits" /\ d \in InLane /\ d \in dropped'
                      /\ commands'[d].at = "refused" /\ d # handling
                      /\ commands'[d].manifest = commands[d].manifest
                   \/ /\ d = handling /\ commands[d].at = "waits"
                      /\ commands'[d].at = s /\ commands'[d].manifest = m
<1>1. commands \in [Commands -> Records] /\ Commands = Clip!Commands /\ InLane = Clip!Queued
  BY NoneIsApart DEF ClipInv, ClipTypes
<1> DEFINE over == IF handling \in due /\ ~ Clip!Waits(handling) THEN Clip!Queued ELSE {}
           q(d) == IF d = handling /\ Clip!Waits(d)
                   THEN [commands[d] EXCEPT !.at = s, !.manifest = m]
                   ELSE Clip!Refused(over)[d]
<1>2. /\ commands' = [d \in Commands |-> q(d)] /\ dropped' = dropped \cup over
      /\ handling' = None /\ lane' = lane /\ due' = due
  BY <1>1, Zenon DEF Clip!Returns
<1>3. over \subseteq InLane BY <1>1
<1>4. ASSUME NEW d \in Commands
      PROVE  q(d) = IF d = handling /\ commands[d].at = "waits"
                    THEN [commands[d] EXCEPT !.at = s, !.manifest = m]
                    ELSE IF d \in over /\ commands[d].at = "waits"
                    THEN [commands[d] EXCEPT !.at = "refused"] ELSE commands[d]
  <2>1. Clip!Refused(over)[d] = IF d \in over /\ commands[d].at = "waits"
                               THEN [commands[d] EXCEPT !.at = "refused"] ELSE commands[d]
    <3> HIDE DEF over
    <3> QED BY <1>1 DEF Clip!Refused, Clip!Waits, Clip!At
  <2>2. Clip!Waits(d) <=> commands[d].at = "waits" BY DEF Clip!Waits, Clip!At
  <2> HIDE DEF over
  <2> QED BY <2>1, <2>2
<1> HIDE DEF over, q
<1>5. ASSUME NEW d \in Commands PROVE q(d) \in Records
  <2>1. /\ [commands[d] EXCEPT !.at = s, !.manifest = m] \in Records
        /\ [commands[d] EXCEPT !.at = "refused"] \in Records /\ commands[d] \in Records
    BY <1>1, FieldsOf DEF Steps
  <2> QED BY <1>4, <2>1
<1>6. commands' \in [Commands -> Records] /\ \A d \in Commands : commands'[d] = q(d)
  BY <1>2, <1>5
<1>7. ASSUME NEW d \in Commands
      PROVE  /\ commands'[d].told = commands[d].told /\ commands'[d].since = commands[d].since
             /\ commands'[d].attempt = commands[d].attempt
             /\ \/ /\ commands'[d].at = commands[d].at
                   /\ commands'[d].manifest = commands[d].manifest
                   /\ ~ (d = handling /\ commands[d].at = "waits")
                \/ /\ commands[d].at = "waits" /\ d \in InLane /\ d \in dropped'
                   /\ commands'[d].at = "refused" /\ d # handling
                   /\ commands'[d].manifest = commands[d].manifest
                \/ /\ d = handling /\ commands[d].at = "waits"
                   /\ commands'[d].at = s /\ commands'[d].manifest = m
  <2>1. commands[d] \in Records /\ commands'[d] = q(d) BY <1>1, <1>6
  <2>2. CASE d = handling /\ commands[d].at = "waits"
    <3>1. commands'[d] = [commands[d] EXCEPT !.at = s, !.manifest = m] BY <1>4, <2>1, <2>2
    <3> QED BY <2>1, <2>2, <3>1 DEF Records
  <2>3. CASE ~ (d = handling /\ commands[d].at = "waits") /\ d \in over
          /\ commands[d].at = "waits"
    <3>1. commands'[d] = [commands[d] EXCEPT !.at = "refused"] BY <1>4, <2>1, <2>3
    <3> QED BY <1>2, <1>3, <2>1, <2>3, <3>1 DEF Records
  <2>4. CASE ~ (d = handling /\ commands[d].at = "waits")
          /\ ~ (d \in over /\ commands[d].at = "waits")
    <3>1. commands'[d] = commands[d] BY <1>4, <2>1, <2>4
    <3> QED BY <2>4, <3>1
  <2> QED BY <2>2, <2>3, <2>4
<1> QED BY <1>2, <1>6, <1>7
LEMMA HeadLeaves ==
    ASSUME ClipInv, lane # <<>>, lane' = Tail(lane)
    PROVE  /\ lane' \in Seq(Commands) /\ Head(lane) \in Commands /\ Head(lane) \in InLane
           /\ InLane' \subseteq InLane /\ Head(lane) \notin InLane'
           /\ \A i, j \in 1 .. Len(lane') : lane'[i] = lane'[j] => i = j
<1>1. lane \in Seq(Commands) /\ \A i, j \in 1 .. Len(lane) : lane[i] = lane[j] => i = j
  BY DEF ClipInv, ClipTypes, LaneOnce
<1>2. /\ lane' \in Seq(Commands) /\ Head(lane) = lane[1] /\ 1 \in 1 .. Len(lane)
      /\ Len(lane') = Len(lane) - 1 /\ Len(lane) \in Nat
      /\ \A i \in 1 .. Len(lane') : lane'[i] = lane[i + 1] /\ i + 1 \in 1 .. Len(lane)
  BY <1>1
<1>3. Head(lane) \in Commands /\ Head(lane) \in InLane BY <1>1, <1>2 DEF InLane
<1>4. InLane' \subseteq InLane BY <1>2 DEF InLane
<1>5. Head(lane) \notin InLane'
  <2> SUFFICES ASSUME NEW i \in 1 .. Len(lane'), lane'[i] = lane[1] PROVE FALSE
    BY <1>2 DEF InLane
  <2>1. i + 1 = 1 BY <1>1, <1>2
  <2> QED BY <1>2, <2>1
<1>6. ASSUME NEW i \in 1 .. Len(lane'), NEW j \in 1 .. Len(lane'), lane'[i] = lane'[j]
      PROVE  i = j
  <2>1. i + 1 = j + 1 BY <1>1, <1>2, <1>6
  <2> QED BY <1>2, <2>1
<1> QED BY <1>2, <1>3, <1>4, <1>5, <1>6

LEMMA TakeKeeps == ASSUME ClipInv, Clip!Take PROVE ClipInv'
<1>1. /\ handling = None /\ lane # <<>> /\ lane' = Tail(lane)
      /\ UNCHANGED <<clip, held, installs, commands, store, dropped, due, studio, placed, made>>
  BY DEF Clip!Take, Clip!diskVars, Clip!ghosts
<1>2. /\ lane' \in Seq(Commands) /\ Head(lane) \in Commands /\ Head(lane) \in InLane
      /\ InLane' \subseteq InLane /\ Head(lane) \notin InLane'
      /\ \A i, j \in 1 .. Len(lane') : lane'[i] = lane'[j] => i = j
  BY <1>1, HeadLeaves
<1> DEFINE new == [at |-> "starts", content |-> None, roots |-> 0, begun |-> 0, bytes |-> 0]
<1>3. \/ handling' = None
      \/ handling' = Head(lane) /\ Head(lane) \notin dropped /\ work' = new
  BY <1>1 DEF Clip!Take
<1>4. new \in Works /\ new.at = "starts" BY DEF Works
<1> HIDE DEF new
<1>5. ClipTypes' BY <1>1, <1>2, <1>3, <1>4 DEF ClipInv, ClipTypes
<1>6. LaneOnce'
  <2>1. None \notin InLane' BY <1>2, NoneIsApart DEF ClipInv, InLane
  <2> QED BY <1>2, <1>3, <2>1 DEF LaneOnce
<1>7. WorkHolds' BY <1>3, <1>4, NoneIsApart DEF ClipInv, WorkHolds, Commands
<1>8. Clip!PasteIsOneCopy' BY <1>1 DEF ClipInv, ClipHolds, Clip!PasteIsOneCopy
<1>9. Asked' \subseteq Asked BY <1>1, <1>2, <1>3 DEF Asked
<1>10. \A d \in Commands : Answers(d) BY <1>1 DEF Answers, Step
<1>11. ASSUME NEW d \in Pastes PROVE Told(d)'
  <2>1. d # None BY NoneIsApart DEF ClipInv, Commands
  <2> QED BY <1>1, <1>2, <1>3, <1>9, <2>1, ToldStays DEF Step
<1> QED BY <1>1, <1>5, <1>6, <1>7, <1>8, <1>9, <1>10, <1>11, LaneKeeps

(* The lane and the handler stay, and some that asked are told. *)
LEMMA TellingKeeps ==
    ASSUME ClipInv, commands' \in [Commands -> Records],
           UNCHANGED <<clip, held, installs, store, lane, handling, work, studio, placed,
                       made>>,
           dropped \subseteq dropped', due \subseteq due',
           \A d \in Commands :
               /\ commands'[d].told = commands[d].told /\ commands'[d].since = commands[d].since
               /\ commands'[d].attempt = commands[d].attempt
               /\ commands'[d].manifest = commands[d].manifest
               /\ \/ commands'[d].at = commands[d].at
                  \/ commands[d].at = "waits" /\ commands'[d].at = "cut"
                  \/ /\ commands[d].at = "waits" /\ commands'[d].at = "refused"
                     /\ d \in Asked
                     /\ d \in InLane => d \in dropped'
                     /\ d = handling => d \in due'
    PROVE  ClipInv'
<1>1. ClipTypes' BY DEF ClipInv, ClipTypes
<1>2. LaneOnce' /\ InLane' = InLane /\ Asked' = Asked
  BY DEF ClipInv, LaneOnce, InLane, Asked
<1>3. WorkHolds' BY DEF ClipInv, WorkHolds, Commands
<1>4. Clip!PasteIsOneCopy' BY DEF ClipInv, ClipHolds, Clip!PasteIsOneCopy
<1>5. ASSUME NEW d \in Commands PROVE Answers(d)
  <2>1. commands[d].manifest # None => commands[d].manifest \in made
    BY DEF ClipInv, CommandHolds, Known
  <2> QED BY <2>1 DEF Answers, Step
<1>6. ASSUME NEW d \in Pastes PROVE Told(d)'
  <2>1. d \in Commands /\ Told(d) BY DEF ClipInv, CommandHolds, Commands
  <2>2. CASE commands'[d].at = commands[d].at \/ commands'[d].at = "cut"
    BY <1>2, <2>1, <2>2, ToldStays DEF Step
  <2>3. CASE /\ commands[d].at = "waits" /\ commands'[d].at = "refused"
             /\ d \in Asked
             /\ (d \in InLane => d \in dropped')
             /\ (d = handling => d \in due')
    <3>1. placed[d] = None /\ commands[d].told = None BY <2>1, <2>3, NotTold DEF Told, Step
    <3>2. Refusal(d)' BY <1>2, <2>3, <3>1 DEF Refusal
    <3> QED BY <2>1, <2>3, <3>1, <3>2, NoneIsApart DEF ClipInv, Told, Step
  <2> QED BY <2>1, <2>2, <2>3
<1> QED BY <1>1, <1>2, <1>3, <1>4, <1>5, <1>6, LaneKeeps DEF Commands

LEMMA TimeKeeps ==
    ASSUME ClipInv,
           \/ \E c \in Commands : Clip!QueueTimeout(c) \/ Clip!Deadline(c)
           \/ Clip!HandlerTimeout \/ Clip!Disconnect
    PROVE  ClipInv'
<1>1. commands \in [Commands -> Records] /\ Commands = Clip!Commands /\ InLane = Clip!Queued
  BY NoneIsApart DEF ClipInv, ClipTypes
<1>2. ASSUME NEW c \in Commands, Clip!QueueTimeout(c) PROVE ClipInv'
  <2>1. /\ UNCHANGED <<clip, held, installs, store, lane, handling, work, due, studio, placed, made>>
        /\ commands' = Clip!Refused({c}) /\ c \in InLane /\ dropped' = dropped \cup {c}
    BY <1>1, <1>2 DEF Clip!QueueTimeout, Clip!diskVars, Clip!ghosts
  <2>2. c # handling /\ c \in Asked BY <2>1 DEF ClipInv, LaneOnce, Asked
  <2> QED BY ZenonT(60), <2>1, <2>2, RefusedIs, TellingKeeps
<1>3. ASSUME NEW c \in Commands, Clip!Deadline(c) PROVE ClipInv'
  <2>1. /\ UNCHANGED <<clip, held, installs, store, lane, handling, work, studio, placed, made,
                       commands, dropped>>
        /\ due \subseteq due'
    BY <1>3 DEF Clip!Deadline, Clip!diskVars, Clip!ghosts
  <2> QED BY <1>1, <2>1, TellingKeeps
<1>4. CASE Clip!HandlerTimeout
  <2>1. /\ UNCHANGED <<clip, held, installs, store, lane, handling, work, due, studio,
                       placed, made,
                       dropped>>
        /\ commands' = Clip!Refused({handling}) /\ handling \in due
    BY <1>4 DEF Clip!HandlerTimeout, Clip!diskVars, Clip!laneVars, Clip!ghosts
  <2>2. handling \notin InLane /\ handling \in Asked BY DEF ClipInv, LaneOnce, Asked
  <2> QED BY SMTT(60), <2>1, <2>2, RefusedIs, TellingKeeps
<1>5. CASE Clip!Disconnect
  <2>1. /\ UNCHANGED <<clip, held, installs, store, lane, handling, work, due, studio, placed, made>>
        /\ dropped \subseteq dropped'
        /\ commands' = [d \in Commands |-> IF commands[d].at = "waits"
                           THEN [commands[d] EXCEPT !.at = "cut"] ELSE commands[d]]
    BY <1>1, <1>5 DEF Clip!Disconnect, Clip!diskVars, Clip!ghosts, Clip!Waits, Clip!At
  <2>2. ASSUME NEW d \in Commands
        PROVE  /\ commands'[d] \in Records
               /\ commands'[d].told = commands[d].told /\ commands'[d].since = commands[d].since
               /\ commands'[d].attempt = commands[d].attempt
               /\ commands'[d].manifest = commands[d].manifest
               /\ \/ commands'[d].at = commands[d].at
                  \/ commands[d].at = "waits" /\ commands'[d].at = "cut"
    <3>1. commands[d] \in Records /\ [commands[d] EXCEPT !.at = "cut"] \in Records
      BY <1>1, FieldsOf DEF Steps
    <3>2. CASE commands[d].at = "waits"
      <4>1. commands'[d] = [commands[d] EXCEPT !.at = "cut"] BY <2>1, <3>2
      <4> QED BY <3>1, <3>2, <4>1 DEF Records
    <3>3. CASE commands[d].at # "waits"
      <4>1. commands'[d] = commands[d] BY <2>1, <3>3
      <4> QED BY <3>1, <4>1
    <3> QED BY <3>2, <3>3
  <2>3. commands' \in [Commands -> Records] BY <2>1, <2>2
  <2> QED BY <2>1, <2>2, <2>3, TellingKeeps
<1> QED BY <1>2, <1>3, <1>4, <1>5

(* The end of a handler. *)
LEMMA ReturnKeeps ==
    ASSUME ClipInv, handling \in Commands, NEW s \in {"refused", "answered"},
           NEW m \in Manifests \cup {None}, Clip!Returns(s, m),
           UNCHANGED <<clip, held, installs, studio>>,
           made \subseteq made', made' \subseteq Manifests,
           m # None => m \in made',
           handling \in Pastes => m = commands[handling].manifest,
           handling \in Copies /\ s = "answered" => m # None,
           store' \in [Commands -> Artifacts], \A d \in Pastes : store'[d] = store[d],
           placed' \in [Pastes -> Manifests \cup {None}],
           \A d \in Pastes : placed'[d] = IF d = handling /\ s = "answered" THEN m
             ELSE placed[d],
           s = "answered" /\ handling \in Pastes => handling \notin due /\ m # None
    PROVE  ClipInv'
<1> DEFINE h == handling
<1>1. /\ commands' \in [Commands -> Records]
      /\ handling' = None /\ lane' = lane /\ due' = due /\ dropped \subseteq dropped'
      /\ \A d \in Commands :
            /\ commands'[d].told = commands[d].told /\ commands'[d].since = commands[d].since
            /\ commands'[d].attempt = commands[d].attempt
            /\ \/ /\ commands'[d].at = commands[d].at
                  /\ commands'[d].manifest = commands[d].manifest
                  /\ ~ (d = handling /\ commands[d].at = "waits")
               \/ /\ commands[d].at = "waits" /\ d \in InLane /\ d \in dropped'
                  /\ commands'[d].at = "refused" /\ d # handling
                  /\ commands'[d].manifest = commands[d].manifest
               \/ /\ d = handling /\ commands[d].at = "waits"
                  /\ commands'[d].at = s /\ commands'[d].manifest = m
  BY ReturnsTo
<1>2. InLane' = InLane /\ Asked' = InLane \cup {None} /\ h \notin InLane /\ None \notin InLane
  BY <1>1, NoneIsApart DEF ClipInv, LaneOnce, InLane, Asked, ClipTypes
<1>3. ClipTypes' BY <1>1 DEF ClipInv, ClipTypes
<1>4. LaneOnce' BY <1>1, <1>2 DEF ClipInv, LaneOnce
<1>5. WorkHolds' BY <1>1, NoneIsApart DEF ClipInv, WorkHolds, Commands
<1>6. Clip!PasteIsOneCopy' BY DEF ClipInv, ClipHolds, Clip!PasteIsOneCopy
<1>7. ASSUME NEW d \in Commands PROVE Answers(d)
  <2>1. commands[d].manifest # None => commands[d].manifest \in made'
    BY DEF ClipInv, CommandHolds, Known
  <2>2. d \in Pastes => d \notin Copies BY NoneIsApart DEF ClipInv
  <2> QED BY <1>1, <2>1, <2>2 DEF Answers, Step
<1>8. ASSUME NEW d \in Pastes PROVE Told(d)'
  <2>1. d \in Commands /\ d # None /\ Told(d) /\ AsksOnce(d)
    BY NoneIsApart DEF ClipInv, CommandHolds, Commands
  <2> USE <2>1
  <2>2. commands[d].at = "waits" => commands[d].told = None BY NotTold DEF Step
  <2>3. None # "pasted" /\ None # "refused" BY NoneIsApart DEF ClipInv
  <2>4. CASE d # h
    <3>1. placed'[d] = placed[d] /\ (d \in Asked' => d \in Asked) BY <1>2, <2>4 DEF Asked
    <3> USE <1>1, <3>1
    <3>2. Refusal(d) => Refusal(d)' BY <1>2 DEF Refusal
    <3>3. CASE commands'[d].at = commands[d].at BY <3>2, <3>3 DEF Told, Step
    <3>4. CASE /\ commands[d].at = "waits" /\ d \in InLane /\ d \in dropped'
               /\ commands'[d].at = "refused"
      <4>1. placed[d] = None BY <3>4 DEF Told, Asked
      <4>2. Refusal(d)' BY <3>4, <4>1 DEF Refusal
      <4> QED BY <2>2, <2>3, <3>4, <4>1, <4>2 DEF Told, Step
    <3> QED BY <2>4, <3>3, <3>4
  <2>5. CASE d = h
    <3>1. d \notin Asked' /\ placed[d] = None BY <1>2, <2>5 DEF Told, Asked
    <3>2. placed'[d] = None => Refusal(d)' BY <1>1, <1>2, <2>5 DEF Refusal
    <3>3. s = "answered" => placed'[d] # None /\ ~ Refusal(d) BY <2>5 DEF Refusal
    <3>4. s = "refused" => placed'[d] = None BY <2>5, <3>1
    <3>5. CASE commands[d].at = "waits"
      <4>1. commands'[d].at = s /\ commands'[d].told = None BY <1>1, <2>2, <2>5, <3>5
      <4> QED BY <2>3, <3>1, <3>2, <3>3, <3>4, <4>1 DEF Told, Step, Early
    <3>6. CASE commands[d].at # "waits"
      <4>1. commands'[d].at = commands[d].at /\ commands'[d].told = commands[d].told
        BY <1>1, <3>6
      <4> QED BY <3>1, <3>2, <3>3, <3>4, <4>1 DEF Told, Step, AsksOnce, Asked
    <3> QED BY <3>5, <3>6
  <2> QED BY <2>4, <2>5
<1>9. Asked' \subseteq Asked \cup {None} BY <1>2 DEF Asked
<1> QED BY <1>3, <1>4, <1>5, <1>6, <1>7, <1>8, <1>9, LaneKeeps
(* A step of the handler that is not its last. *)
LEMMA WorkKeeps ==
    ASSUME ClipInv, handling \in Commands, work' \in Works, WorkHolds',
           UNCHANGED <<clip, held, installs, commands, lane, dropped, handling, due,
                       studio, placed, made>>,
           store' \in [Commands -> Artifacts], \A d \in Pastes : store'[d] = store[d]
    PROVE  ClipInv'
<1>1. ClipTypes' BY DEF ClipInv, ClipTypes
<1>2. LaneOnce' /\ InLane' = InLane /\ Asked' = Asked
  BY DEF ClipInv, LaneOnce, InLane, Asked
<1>3. Clip!PasteIsOneCopy' BY DEF ClipInv, ClipHolds, Clip!PasteIsOneCopy
<1>4. \A d \in Commands : Answers(d) BY DEF Answers, Step
<1>5. \A d \in Pastes : Told(d)' BY <1>2, ToldStays DEF Step
<1> QED BY <1>1, <1>2, <1>3, <1>4, <1>5, LaneKeeps

LEMMA MoreOf ==
    /\ \A r \in Artifacts, x \in Contents :
          /\ [r EXCEPT !.bytes = @ + 1] \in Artifacts
          /\ [r EXCEPT !.content = x, !.final = TRUE, !.open = FALSE] \in Artifacts
    /\ \A w \in Works, x \in Contents \cup {None} :
          /\ [w EXCEPT !.bytes = @ + 1] \in Works /\ [w EXCEPT !.bytes = @ + 1].at = w.at
          /\ [w EXCEPT !.at = "decoded", !.content = x] \in Works
          /\ [w EXCEPT !.at = "decoded", !.content = x].at = "decoded"
          /\ [w EXCEPT !.at = "decoded", !.content = x].content = x
<1>1. ASSUME NEW r \in Artifacts, NEW x \in Contents
      PROVE  [r EXCEPT !.content = x, !.final = TRUE, !.open = FALSE] \in Artifacts
  BY DEF Artifacts
<1>2. ASSUME NEW r \in Artifacts PROVE [r EXCEPT !.bytes = @ + 1] \in Artifacts
  BY DEF Artifacts
<1>3. ASSUME NEW w \in Works
      PROVE  [w EXCEPT !.bytes = @ + 1] \in Works /\ [w EXCEPT !.bytes = @ + 1].at = w.at
  BY DEF Works
<1>4. ASSUME NEW w \in Works, NEW x \in Contents \cup {None}
      PROVE  /\ [w EXCEPT !.at = "decoded", !.content = x] \in Works
             /\ [w EXCEPT !.at = "decoded", !.content = x].at = "decoded"
             /\ [w EXCEPT !.at = "decoded", !.content = x].content = x
  BY DEF Works
<1> QED BY <1>1, <1>2, <1>3, <1>4

LEMMA CopyKeeps ==
    ASSUME ClipInv, Clip!Describe \/ Clip!Serialize \/ Clip!Refresh \/ Clip!Upload
    PROVE  ClipInv'
<1>1. handling # None /\ handling \in Commands /\ work \in Works
  BY DEF ClipInv, ClipTypes, Clip!Describe, Clip!Serialize, Clip!Refresh, Clip!Upload,
     Clip!InTime
<1>2. handling \in Copies /\ handling \notin Pastes
  <2>1. handling \in Copies \/ work.at \in {"described", "serialized", "uploads"}
    BY DEF Clip!Describe, Clip!Serialize, Clip!Refresh, Clip!Upload, Clip!InTime
  <2> QED BY <1>1, <2>1, NoneIsApart DEF ClipInv, WorkHolds, Commands
<1> DEFINE m == commands[handling].manifest
<1>3. /\ m \in Manifests \cup {None} /\ (m # None => m \in made)
      /\ commands[handling] \in Records /\ store \in [Commands -> Artifacts]
      /\ placed \in [Pastes -> Manifests \cup {None}] /\ made \subseteq Manifests
      /\ studio \in Contents /\ studio.shape \in Nat /\ studio.text \in Nat
  BY <1>1 DEF ClipInv, ClipTypes, CommandHolds, Known, Records, Contents, Clip!Contents,
     Clip!Texts
<1>4. CASE Clip!Describe
  <2> DEFINE new ==
        [work EXCEPT !.at = "described", !.roots = studio.shape, !.begun = studio.text]
  <2>1. new \in Works /\ new.at = "described" /\ new.begun = studio.text
    BY <1>1, <1>3 DEF Works
  <2>2. /\ work' = new
        /\ UNCHANGED <<clip, held, installs, commands, lane, dropped, handling, due,
                       studio, placed, made, store>>
    BY <1>4 DEF Clip!Describe, Clip!diskVars, Clip!ghosts
  <2> HIDE DEF new
  <2>3. WorkHolds' BY <1>2, <1>3, <2>1, <2>2 DEF WorkHolds
  <2> QED BY <1>1, <1>3, <2>1, <2>2, <2>3, WorkKeeps
<1>5. CASE Clip!Serialize
  <2> DEFINE text == [shape |-> studio.shape, text |-> 0]
             new  == [work EXCEPT !.at = "serialized", !.content = text]
  <2>1. text \in Contents BY <1>3 DEF Contents, Clip!Contents, Clip!Texts
  <2>2. new \in Works /\ new.at = "serialized" /\ new.begun = work.begun /\ new.content = text
    BY <1>1, <2>1 DEF Works
  <2>3. /\ work' = new /\ work.at = "described"
        /\ UNCHANGED <<clip, held, installs, commands, lane, dropped, handling, due,
                       studio, placed, made, store>>
    BY <1>5 DEF Clip!Serialize, Clip!InTime, Clip!diskVars, Clip!ghosts
  <2> HIDE DEF new, text
  <2>4. WorkHolds' BY <1>2, <2>1, <2>2, <2>3 DEF ClipInv, WorkHolds
  <2> QED BY <1>1, <1>3, <2>2, <2>3, <2>4, WorkKeeps
<1>6. CASE Clip!Refresh
  <2>1. /\ UNCHANGED <<clip, held, installs, studio, placed, made, store>>
        /\ work.at = "serialized"
    BY <1>6 DEF Clip!Refresh, Clip!InTime, Clip!diskVars, Clip!ghosts
  <2>2. work.content \in Contents BY <1>2, <2>1 DEF ClipInv, WorkHolds
  <2>3. CASE Clip!Returns("refused", m) BY <1>1, <1>2, <1>3, <2>1, <2>3, ReturnKeeps
  <2> DEFINE text == Clip!Refreshed(work.content)
             new  == [work EXCEPT !.at = "uploads", !.content = text]
  <2>4. CASE work' = new /\ UNCHANGED <<commands, lane, dropped, handling, due>>
    <3> USE <1>3, <1>1, <2>1
    <3>1. text \in Contents /\ text.text = studio.text
      BY <2>2 DEF Contents, Clip!Contents, Clip!Texts, Clip!Refreshed
    <3> HIDE DEF text
    <3>2. new \in Works /\ new.at = "uploads" /\ new.begun = work.begun /\ new.content = text
      BY <3>1 DEF Works
    <3>3. work.begun \in Nat /\ work.begun <= studio.text
      BY <1>2 DEF ClipInv, WorkHolds, Works
    <3>4. WorkHolds' BY <1>2, <2>4, <3>1, <3>2, <3>3 DEF WorkHolds
    <3> QED BY <2>4, <3>2, <3>4, WorkKeeps
  <2> QED BY <1>6, <2>3, <2>4 DEF Clip!Refresh
<1>7. CASE Clip!Upload
  <2>1. /\ UNCHANGED <<clip, held, installs, studio, placed>> /\ work.at = "uploads"
    BY <1>7 DEF Clip!Upload, Clip!InTime, Clip!diskVars
  <2>2. work.content \in Contents BY <1>2, <2>1 DEF ClipInv, WorkHolds
  <2> USE <1>1
  <2>3. store[handling] \in Artifacts BY <1>3
  <2>4. CASE Clip!Returns("refused", None) /\ UNCHANGED <<store, made>>
    BY <1>2, <1>3, <2>1, <2>4, ReturnKeeps
  <2> DEFINE more == [store[handling] EXCEPT !.bytes = @ + 1]
             last == [store[handling] EXCEPT !.content = work.content, !.final = TRUE,
                      !.open = FALSE]
  <2>5. more \in Artifacts /\ last \in Artifacts BY <2>2, <2>3, MoreOf
  <2>6. CASE /\ store' = [store EXCEPT ![handling] = more]
             /\ UNCHANGED <<commands, lane, dropped, handling, work, due, made>>
    <3> HIDE DEF more
    <3>1. store' \in [Commands -> Artifacts] /\ \A d \in Pastes : store'[d] = store[d]
      BY <1>2, <1>3, <2>5, <2>6 DEF Commands
    <3>2. WorkHolds' BY <2>1, <2>6 DEF ClipInv, WorkHolds
    <3> QED BY <2>1, <2>6, <3>1, <3>2, WorkKeeps
  <2>7. CASE /\ store' = [store EXCEPT ![handling] = last]
             /\ made' = made \cup {Clip!Serialized}
             /\ Clip!Returns("answered", Clip!Serialized)
    <3> HIDE DEF last
    <3>1. store' \in [Commands -> Artifacts] /\ \A d \in Pastes : store'[d] = store[d]
      BY <1>2, <1>3, <2>5, <2>7 DEF Commands
    <3>2. Clip!Serialized \in Manifests /\ Clip!Serialized # None
      <4>1. Clip!Serialized \in Manifests
        BY <2>2 DEF Works, Clip!Serialized, Manifests, Clip!Manifests, Contents, Clip!Texts
      <4> QED BY <4>1, NoneIsApart DEF ClipInv
    <3> QED BY <1>2, <1>3, <2>1, <2>7, <3>1, <3>2, ReturnKeeps
  <2> QED BY <1>7, <2>4, <2>6, <2>7 DEF Clip!Upload
<1> QED BY <1>4, <1>5, <1>6, <1>7

LEMMA PasteKeeps ==
    ASSUME ClipInv, Clip!Fails \/ Clip!Download \/ Clip!Place PROVE ClipInv'
<1>1. handling # None /\ handling \in Commands /\ work \in Works
  BY DEF ClipInv, ClipTypes, Clip!Fails, Clip!Download, Clip!Place, Clip!Commits,
     Clip!InTime
<1> DEFINE m == commands[handling].manifest
<1>2. /\ m \in Manifests \cup {None} /\ (m # None => m \in made)
      /\ store \in [Commands -> Artifacts] /\ made \subseteq Manifests
      /\ placed \in [Pastes -> Manifests \cup {None}]
      /\ (handling \in Pastes => m # None) /\ handling \in Asked
      /\ CommandHolds(handling)
  BY <1>1 DEF ClipInv, ClipTypes, CommandHolds, Known, Records, Asked
<1>3. ASSUME Clip!Returns("refused", m),
             UNCHANGED <<clip, held, installs, studio, placed, made, store>>
      PROVE  ClipInv'
  BY <1>1, <1>2, <1>3, ReturnKeeps
<1>4. CASE Clip!Fails BY <1>3, <1>4 DEF Clip!Fails, Clip!diskVars, Clip!ghosts
<1>5. CASE Clip!Download
  <2>1. /\ UNCHANGED <<clip, held, installs, studio, placed, made, store>>
        /\ handling \in Pastes /\ handling \notin Copies /\ work.at = "starts"
    BY <1>5, NoneIsApart DEF ClipInv, Clip!Download, Clip!InTime, Clip!diskVars, Clip!ghosts
  <2>2. CASE Clip!Returns("refused", m) BY <1>3, <2>1, <2>2
  <2> DEFINE more == [work EXCEPT !.bytes = @ + 1]
             last == [work EXCEPT !.at = "decoded", !.content = store[handling].content]
  <2>3. CASE /\ store[handling].final /\ (work' = more \/ work' = last)
             /\ UNCHANGED <<commands, lane, dropped, handling, due>>
    <3>0. store[handling].content \in Contents \cup {None} BY <1>1, <1>2 DEF Artifacts
    <3>1. /\ more \in Works /\ more.at = "starts"
          /\ last \in Works /\ last.at = "decoded" /\ last.content = store[handling].content
      BY <1>1, <2>1, <3>0, MoreOf, Zenon
    <3> HIDE DEF more, last
    <3>2. store[handling].content = m.payload BY <1>2, <2>1, <2>3 DEF CommandHolds, Known
    <3>3. WorkHolds' BY <2>1, <2>3, <3>1, <3>2 DEF WorkHolds
    <3> QED BY <1>1, <1>2, <2>1, <2>3, <3>1, <3>3, WorkKeeps
  <2> QED BY <1>5, <2>2, <2>3 DEF Clip!Download
<1>6. CASE Clip!Place
  <2>1. /\ UNCHANGED <<clip, held, installs, studio, made, store>>
        /\ work.at = "decoded" /\ handling \notin due
        /\ placed' = [placed EXCEPT ![handling] = [payload |-> work.content, roots |-> m.roots]]
        /\ Clip!Returns("answered", m)
    BY <1>6 DEF Clip!Place, Clip!Commits, Clip!InTime, Clip!diskVars
  <2>2. handling \in Pastes /\ handling \notin Copies /\ work.content = m.payload
    BY <1>1, <2>1, NoneIsApart DEF ClipInv, WorkHolds, Commands
  <2>3. [payload |-> work.content, roots |-> m.roots] = m
    BY <1>2, <2>2 DEF Manifests, Clip!Manifests
  <2>4. /\ placed' \in [Pastes -> Manifests \cup {None}]
        /\ \A d \in Pastes : placed'[d] = IF d = handling THEN m ELSE placed[d]
    BY <1>2, <2>1, <2>2, <2>3
  <2> QED BY <1>1, <1>2, <2>1, <2>2, <2>4, ReturnKeeps
<1> QED BY <1>4, <1>5, <1>6
-------------------------------------------------------------------------------
(* The whole step. *)

LEMMA SendTo ==
    ASSUME ClipInv, NEW c \in Commands, c \notin Asked, Clip!Send(c)
    PROVE  /\ lane' \in Seq(Commands) /\ InLane' \in {InLane, InLane \cup {c}}
           /\ \A i, j \in 1 .. Len(lane') : lane'[i] = lane'[j] => i = j
           /\ \/ Clip!Goes(c, "waits")
              \/ Clip!Goes(c, "refused") /\ InLane' = InLane
<1>1. /\ lane \in Seq(Commands) /\ \A i, j \in 1 .. Len(lane) : lane[i] = lane[j] => i = j
      /\ c \notin InLane
  BY DEF ClipInv, ClipTypes, LaneOnce, Asked
<1>2. CASE lane' = Append(lane, c) /\ Clip!Goes(c, "waits")
  <2>1. /\ lane' \in Seq(Commands) /\ Len(lane') = Len(lane) + 1 /\ Len(lane) \in Nat
        /\ lane'[Len(lane')] = c
        /\ \A i \in 1 .. Len(lane) : lane'[i] = lane[i] /\ lane[i] # c
    BY <1>1, <1>2 DEF InLane
  <2>2. \A i \in 1 .. Len(lane') : i \in 1 .. Len(lane) \/ i = Len(lane') BY <2>1
  <2>3. InLane' = InLane \cup {c}
    <3>1. 1 .. Len(lane') = 1 .. Len(lane) \cup {Len(lane')} BY <2>1
    <3> QED BY <2>1, <3>1 DEF InLane
  <2> QED BY <1>1, <1>2, <2>1, <2>2, <2>3
<1>3. CASE Clip!Goes(c, "refused") /\ UNCHANGED lane BY <1>1, <1>3 DEF InLane
<1> QED BY <1>2, <1>3 DEF Clip!Send

LEMMA SendKeeps ==
    ASSUME ClipInv, NEW c \in Commands, Clip!Copy(c) \/ Clip!Paste(c)
    PROVE  ClipInv'
<1>1. /\ CommandHolds(c) /\ Step(c) \in Early /\ c \notin Asked /\ commands[c].told = None
      /\ (c \in Pastes => placed[c] = None) /\ Clip!Send(c)
      /\ UNCHANGED <<clip, held, installs, dropped, handling, work, due, studio, placed, made>>
  <2>1. /\ CommandHolds(c) /\ Step(c) \in Early /\ Step(c) # "ended" /\ Clip!Send(c)
        /\ UNCHANGED <<clip, held, installs, dropped, handling, work, due, studio, placed,
                       made>>
    BY DEF ClipInv, Clip!Copy, Clip!Paste, Clip!At, Step, Early, Clip!diskVars, Clip!ghosts
  <2>2. c \notin Asked /\ commands[c].told = None /\ (c \in Pastes => placed[c] = None)
    BY <2>1, NotTold DEF CommandHolds, AsksOnce, Told
  <2> QED BY <2>1, <2>2
<1>2. /\ lane' \in Seq(Commands) /\ InLane' \in {InLane, InLane \cup {c}}
      /\ \A i, j \in 1 .. Len(lane') : lane'[i] = lane'[j] => i = j
      /\ \/ Clip!Goes(c, "waits")
         \/ Clip!Goes(c, "refused") /\ InLane' = InLane
  BY <1>1, SendTo
<1>3. /\ commands' \in [Commands -> Records]
      /\ \A d \in Commands : d # c => commands'[d] = commands[d]
      /\ commands'[c].at \in {"waits", "refused"} /\ commands'[c].told = None
      /\ (commands'[c].at = "refused" => InLane' = InLane)
      /\ commands'[c].manifest = commands[c].manifest
  <2>1. CASE Clip!Goes(c, "waits") BY <1>1, <2>1, GoesTo DEF ClipInv, Steps
  <2>2. CASE Clip!Goes(c, "refused") /\ InLane' = InLane
    BY <1>1, <2>2, GoesTo DEF ClipInv, Steps
  <2> QED BY <1>2, <2>1, <2>2
<1>4. /\ store' \in [Commands -> Artifacts] /\ \A d \in Commands : d # c => store'[d] = store[d]
      /\ c \in Pastes => /\ commands[c].manifest # None
                         /\ store'[c].content = commands[c].manifest.payload
  <2>1. store \in [Commands -> Artifacts] /\ commands[c] \in Records
    BY DEF ClipInv, ClipTypes
  <2>2. CASE Clip!Copy(c)
    <3> DEFINE new == [store[c] EXCEPT !.open = TRUE]
    <3>1. new \in Artifacts /\ store' = [store EXCEPT ![c] = new] /\ c \notin Pastes
      BY <2>1, <2>2, NoneIsApart DEF ClipInv, Artifacts, Clip!Copy
    <3> QED BY <2>1, <3>1
  <2>3. CASE Clip!Paste(c)
    <3> DEFINE new == [bytes |-> Clip!Chunks, content |-> commands[c].manifest.payload,
                       final |-> TRUE, open |-> FALSE]
    <3>1. Step(c) = "loaded" /\ c \in Pastes /\ commands[c].manifest # None
      BY <1>1, <2>3 DEF Clip!Paste, Clip!At, Step, CommandHolds, Known
    <3>2. new \in Artifacts /\ new.content = commands[c].manifest.payload
      BY <2>1, <3>1 DEF Records, Artifacts, Clip!Chunks, Manifests, Clip!Manifests, Contents
    <3>3. store' = [store EXCEPT ![c] = new] BY <2>3 DEF Clip!Paste
    <3> HIDE DEF new
    <3> QED BY <2>1, <3>1, <3>2, <3>3
  <2> QED BY <2>2, <2>3
<1>5. ClipTypes' BY <1>1, <1>2, <1>3, <1>4 DEF ClipInv, ClipTypes
<1>6. LaneOnce' BY <1>1, <1>2 DEF ClipInv, LaneOnce, Asked
<1>7. WorkHolds'
  <2>1. handling \in Pastes => commands'[handling].manifest = commands[handling].manifest
    BY <1>3 DEF Commands
  <2> QED BY <1>1, <2>1 DEF ClipInv, WorkHolds
<1>8. ClipHolds' BY <1>1 DEF ClipInv, ClipHolds, Clip!ClipboardIsWhole, Clip!PasteIsOneCopy
<1>9. ASSUME NEW d \in Commands, d # c PROVE CommandHolds(d)'
  <2>1. CommandHolds(d) /\ commands'[d] = commands[d] /\ store'[d] = store[d]
    BY <1>3, <1>4, <1>9 DEF ClipInv
  <2>2. (d \in Asked' <=> d \in Asked) /\ (d \in InLane' <=> d \in InLane)
    BY <1>1, <1>2, <1>9 DEF Asked
  <2> QED BY <1>1, <2>1, <2>2 DEF CommandHolds, AsksOnce, Known, Updates, Reads, Told,
     Refusal, Step
<1>10. CommandHolds(c)'
  <2>1. AsksOnce(c)' /\ Updates(c)' /\ Reads(c)'
    BY <1>3, NoneIsApart DEF ClipInv, AsksOnce, Updates, Reads, Step, Early
  <2>2. Known(c)' BY <1>1, <1>3, <1>4 DEF CommandHolds, Known, Step, Early, Updating
  <2>3. c \in Pastes => Told(c)'
    <3>1. commands'[c].at = "refused" => c \notin InLane' /\ c # handling
      BY <1>1, <1>3 DEF Asked
    <3> QED BY <1>1, <1>3, <3>1, NoneIsApart DEF ClipInv, Told, Refusal, Step
  <2> QED BY <2>1, <2>2, <2>3 DEF CommandHolds
<1> QED BY <1>5, <1>6, <1>7, <1>8, <1>9, <1>10 DEF ClipInv, Clip!ClipboardAssumption

LEMMA StrokeKeeps ==
    ASSUME ClipInv, Clip!Stroke("shape") \/ Clip!Stroke("text") PROVE ClipInv'
<1>1. /\ UNCHANGED <<clip, held, installs, commands, store, lane, dropped, handling, work, due,
                     placed, made>>
      /\ studio' = [studio EXCEPT !["shape"] = @ + 1]
           \/ studio' = [studio EXCEPT !["text"] = @ + 1]
  BY DEF Clip!Stroke, Clip!diskVars, Clip!laneVars, Clip!ghosts
<1> USE <1>1 DEF ClipInv
<1>2. studio \in Contents /\ Contents = [shape : Nat, text : Nat]
  BY DEF ClipTypes, Contents, Clip!Contents, Clip!Texts
<1>3. studio' \in Contents /\ studio'.text >= studio.text BY <1>2
<1>4. ClipTypes' BY <1>3 DEF ClipTypes
<1>5. LaneOnce' /\ InLane' = InLane /\ Asked' = Asked BY DEF LaneOnce, InLane, Asked
<1>6. WorkHolds'
  <2>1. handling \in Copies => handling # None /\ work.begun \in Nat
    BY NoneIsApart DEF ClipTypes, Works, Commands
  <2>2. studio.text \in Nat /\ studio'.text \in Nat BY <1>2, <1>3
  <2> QED BY <1>3, <2>1, <2>2 DEF WorkHolds
<1>7. Clip!PasteIsOneCopy' BY DEF ClipHolds, Clip!PasteIsOneCopy
<1>8. (\A d \in Commands : Answers(d)) /\ (\A d \in Pastes : Told(d)')
  BY <1>5, ToldStays DEF Answers, Step
<1> QED BY <1>4, <1>5, <1>6, <1>7, <1>8, LaneKeeps

LEMMA ClipStep == ClipInv /\ [Clip!Next]_(Clip!vars) => ClipInv'
<1> SUFFICES ASSUME ClipInv, [Clip!Next]_(Clip!vars) PROVE ClipInv' OBVIOUS
<1>1. Commands = Clip!Commands BY NoneIsApart DEF ClipInv
<1>2. CASE \/ Clip!Take \/ Clip!HandlerTimeout \/ Clip!Disconnect
           \/ Clip!Fails \/ Clip!Describe \/ Clip!Serialize \/ Clip!Refresh \/ Clip!Upload
           \/ Clip!Download \/ Clip!Place
  BY <1>2, TakeKeeps, TimeKeeps, CopyKeeps, PasteKeeps
<1>3. CASE Clip!Stroke("shape") \/ Clip!Stroke("text") BY <1>3, StrokeKeeps
<1>4. ASSUME NEW c \in Commands,
             \/ Clip!QueueTimeout(c) \/ Clip!Deadline(c)
             \/ Clip!Copy(c) \/ Clip!Fetch(c) \/ Clip!Lock(c) \/ Clip!WritePayload(c)
             \/ Clip!WriteManifest(c) \/ Clip!CleanUp(c) \/ Clip!InstallFails(c)
             \/ Clip!ReadManifest(c) \/ Clip!ReadPayload(c) \/ Clip!Paste(c)
             \/ Clip!Hears(c) \/ Clip!GivesUp(c) \/ Clip!Dies(c) \/ Clip!Vanishes(c)
      PROVE  ClipInv'
  BY <1>4, TimeKeeps, SendKeeps, InstallKeeps, ReadKeeps, ProcessKeeps
<1>5. CASE UNCHANGED Clip!vars
  BY <1>5 DEF Clip!vars, ClipInv, ClipTypes, LaneOnce, InLane, WorkHolds, ClipHolds,
     Clip!ClipboardIsWhole, Clip!PasteIsOneCopy, Clip!ClipboardAssumption, CommandHolds,
     AsksOnce, Asked, Known, Updates, Reads, Told, Refusal, Step
<1> QED BY <1>1, <1>2, <1>3, <1>4, <1>5 DEF Clip!Next

(* Whatever command dies or fails at whatever step of its update, the manifest's payload is
   in the directory, and a paste finds it unreadable only if two copies were installed while
   it read. *)
THEOREM ClipboardIsKept ==
    Clip!ClipboardAssumption =>
        (Clip!Spec => [](Clip!ClipboardIsWhole /\ Clip!LoadIsOvertaken))
<1>1. ClipInv => Clip!ClipboardIsWhole /\ Clip!LoadIsOvertaken
  BY DEF ClipInv, ClipHolds, CommandHolds, Reads, Commands, Clip!LoadIsOvertaken
<1> QED BY <1>1, ClipInit, ClipStep, PTL DEF Clip!Spec

(* What a paste puts into Studio is what one copy serialized, with its roots; a paste that
   is reported has been placed, and of one that was refused nothing is in Studio, then or
   later; a copied script is at least as new as its editor was when the copy began. *)
THEOREM PastesAreTrue ==
    Clip!ClipboardAssumption =>
        (Clip!Spec => [](Clip!PasteIsOneCopy /\ Clip!PasteIsTold /\ Clip!CopyIsFresh))
<1>1. ClipInv => Clip!PasteIsOneCopy /\ Clip!CopyIsFresh
  BY DEF ClipInv, ClipHolds, WorkHolds, Clip!CopyIsFresh
<1>2. ClipInv => Clip!PasteIsTold
  BY DEF ClipInv, CommandHolds, Told, Refusal, Step, Commands, Clip!PasteIsTold, Clip!At
<1> QED BY <1>1, <1>2, ClipInit, ClipStep, PTL DEF Clip!Spec

(* The clipboard is whole and readable, a paste places what one copy has serialized, or
   nothing, and is reported as what it is (ClipboardHolds). *)
THEOREM ClipboardStaysTrue ==
    Clip!ClipboardAssumption => (Clip!Spec => []ClipboardHolds)
<1>1. Clip!ClipboardIsWhole /\ Clip!LoadIsOvertaken /\ Clip!PasteIsOneCopy
        /\ Clip!PasteIsTold /\ Clip!CopyIsFresh => ClipboardHolds
  BY DEF ClipboardHolds
<1> QED BY <1>1, ClipboardIsKept, PastesAreTrue, PTL

-------------------------------------------------------------------------------
(* The router. *)

(* A handler runs inside its recv_loop, a recv_loop inside handle_ws. *)
TaskInv ==
    /\ \A r \in Requests :
         stage[r] \in InHandler => recv[Origin[r]] = "reading"
    /\ \A c \in Conns : recv[c] = "reading" => main[c] = "serving"

(* A request has no response and no route before it is registered, and a response only once
   its route is gone. *)
RouteInv ==
    /\ \A r \in Requests :
         stage[r] \in {"unsent", "checked"} => r \notin routes
                                               /\ responses[r] = 0
    /\ AnsweredAtMostOnce

USE PeersAssumption, LimitsAssumption
    DEF PeersAssumption, LimitsAssumption, Conns

-----------------------------------------------------------------------------
(* Handing a response over keeps the types of the queues. *)
LEMMA RespondType ==
    ASSUME TypeOK, NEW r \in Requests, Respond(r)
    PROVE  /\ closing' \in [Conns -> BOOLEAN]
           /\ outbox' \in [Conns -> Queue(OutCapacity)]
           /\ responses' \in [Requests -> Nat]
<1>1. responses' \in [Requests -> Nat] BY DEF TypeOK, Respond
<1>2. Origin[r] \in Conns OBVIOUS
<1>3. CASE send[Origin[r]] # "ended" /\ Len(outbox[Origin[r]]) < OutCapacity
  <2>1. outbox[Origin[r]] \in Queue(OutCapacity) BY <1>2 DEF TypeOK
  <2>2. Append(outbox[Origin[r]], r) \in Queue(OutCapacity) BY <1>3, <2>1 DEF Queue
  <2>3. /\ outbox' = [outbox EXCEPT ![Origin[r]] = Append(@, r)]
        /\ UNCHANGED closing
    BY <1>3 DEF Respond
  <2> QED BY <1>1, <2>2, <2>3 DEF TypeOK
<1>4. CASE ~(send[Origin[r]] # "ended" /\ Len(outbox[Origin[r]]) < OutCapacity)
  BY <1>1, <1>2, <1>4 DEF TypeOK, Respond
<1> QED BY <1>3, <1>4

(* So does failing a route, which may be gone already. *)
LEMMA FailRouteType ==
    ASSUME TypeOK, NEW r \in Requests, FailRoute(r)
    PROVE  /\ closing' \in [Conns -> BOOLEAN]
           /\ outbox' \in [Conns -> Queue(OutCapacity)]
           /\ responses' \in [Requests -> Nat]
           /\ routes' \subseteq Requests
           /\ expired' \subseteq Requests
<1>1. CASE r \in routes BY <1>1, RespondType DEF FailRoute, AnswerRoute, TypeOK
<1>2. CASE r \notin routes BY <1>2 DEF FailRoute, TypeOK, queueVars, tableVars
<1> QED BY <1>1, <1>2

(* Every variable keeps its type: the router's state stays well formed. *)
THEOREM TypeCorrect == Spec => []TypeOK
<1>1. Init => TypeOK BY DEF Init, TypeOK, Kinds, InHandler, Queue
<1>2. TypeOK /\ [Next]_vars => TypeOK'
  <2> SUFFICES ASSUME TypeOK, [Next]_vars PROVE TypeOK' OBVIOUS
  <2> USE DEF TypeOK, Kinds, InHandler, connVars, queueVars, rxVars,
              tableVars, observed
  <2>1. ASSUME NEW c \in Conns, Connect(c) PROVE TypeOK' BY <2>1 DEF Connect
  <2>2. ASSUME NEW c \in Conns, Hello(c) PROVE TypeOK'
    <3> USE <2>2 DEF Hello
    <3>1. CASE c \in Clients /\ UNCHANGED <<active, rejecting>>
                 /\ kind' = [kind EXCEPT ![c] = "Client"]
      BY <3>1
    <3>2. CASE active' = c /\ kind' = [kind EXCEPT ![c] = "Plugin"]
                 /\ UNCHANGED rejecting
      BY <3>2
    <3>3. CASE rejecting' = [rejecting EXCEPT ![c] = TRUE]
                 /\ UNCHANGED <<active, kind>>
      BY <3>3
    <3> QED BY <3>1, <3>2, <3>3
  <2>3. ASSUME NEW c \in Conns, RejectHello(c) PROVE TypeOK' BY <2>3 DEF RejectHello
  <2>4. ASSUME NEW c \in Conns, PeerCloses(c) PROVE TypeOK' BY <2>4 DEF PeerCloses
  <2>5. ASSUME NEW c \in Conns, WriteResponse(c) PROVE TypeOK'
    <3>1. outbox[c] \in Queue(OutCapacity) /\ outbox[c] # <<>> BY <2>5 DEF WriteResponse
    <3>2. /\ Tail(outbox[c]) \in Queue(OutCapacity)
          /\ Head(outbox[c]) \in Requests
      BY <3>1 DEF Queue
    <3> QED BY <2>5, <3>2 DEF WriteResponse
  <2>6. ASSUME NEW c \in Conns, SendLoopBreaks(c) PROVE TypeOK' BY <2>6 DEF SendLoopBreaks
  <2>7. ASSUME NEW c \in Conns, CleanupStep(c) PROVE TypeOK'
    <3>1. CASE JoinLoops(c) BY <3>1 DEF JoinLoops, Queue
    <3>2. CASE ReleaseSlot(c) BY <3>2 DEF ReleaseSlot
    <3>3. CASE SnapshotRoutes(c) BY <3>3 DEF SnapshotRoutes
    <3>4. CASE AllRoutesFailed(c) BY <3>4 DEF AllRoutesFailed
    <3>5. CASE PurgeRoutes(c) BY <3>5 DEF PurgeRoutes
    <3> QED BY <2>7, <3>1, <3>2, <3>3, <3>4, <3>5 DEF CleanupStep
  <2>8. ASSUME NEW c \in Plugins, ForwardRequest(c) PROVE TypeOK'
    <3>1. requestRx[c] \in Queue(RequestCapacity) /\ requestRx[c] # <<>>
      BY <2>8 DEF ForwardRequest
    <3>2. /\ Tail(requestRx[c]) \in Queue(RequestCapacity)
          /\ Head(requestRx[c]) \in Requests
      BY <3>1 DEF Queue
    <3> QED BY <2>8, <3>2 DEF ForwardRequest
  <2>9. ASSUME NEW c \in Plugins, ForwardFails(c) PROVE TypeOK'
    <3>1. requestRx[c] \in Queue(RequestCapacity) /\ requestRx[c] # <<>>
      BY <2>9 DEF ForwardFails
    <3>2. /\ Tail(requestRx[c]) \in Queue(RequestCapacity)
          /\ Head(requestRx[c]) \in Requests
      BY <3>1 DEF Queue
    <3> QED BY <2>9, <3>2, FailRouteType DEF ForwardFails
  <2>10. ASSUME NEW c \in Plugins, RequestsLagged(c) PROVE TypeOK'
    <3> USE <2>10 DEF RequestsLagged
    <3>1. CASE IsActivePlugin(c)
      <4>1. /\ missed' = [missed EXCEPT ![c] = FALSE]
            /\ send' = [send EXCEPT ![c] = "lagged"]
            /\ failing' = [failing EXCEPT ![c] = routes]
        BY <3>1
      <4> QED BY <4>1
    <3>2. CASE ~IsActivePlugin(c) BY <3>2
    <3> QED BY <3>1, <3>2
  <2>11. ASSUME NEW c \in Plugins, SweepExpired(c) PROVE TypeOK' BY <2>11 DEF SweepExpired
  <2>12. ASSUME NEW c \in Plugins, SendLoopResumes(c) PROVE TypeOK'
    BY <2>12 DEF SendLoopResumes
  <2>13. ASSUME NEW c \in Plugins, FailNext(c) PROVE TypeOK'
    <3>1. PICK r \in failing[c] :
                 /\ failing' = [failing EXCEPT ![c] = @ \ {r}]
                 /\ FailRoute(r)
      BY <2>13 DEF FailNext
    <3>2. r \in Requests BY <3>1
    <3> QED BY <2>13, <3>1, <3>2, FailRouteType DEF FailNext
  <2>14. ASSUME NEW c \in Plugins, NEW r \in Requests, ReceiveResponse(c, r)
         PROVE TypeOK'
    BY <2>14, RespondType DEF ReceiveResponse, AnswerRoute
  <2>15. ASSUME NEW r \in Requests, ReceiveRequest(r) PROVE TypeOK'
    <3>1. CASE active = NoConn BY <2>15, <3>1, RespondType DEF ReceiveRequest
    <3>2. CASE active # NoConn BY <2>15, <3>2 DEF ReceiveRequest
    <3> QED BY <3>1, <3>2
  <2>16. ASSUME NEW r \in Requests, HandlerStep(r) PROVE TypeOK'
    <3>1. CASE RegisterRoute(r)
      <4> USE <3>1 DEF RegisterRoute
      <4>1. CASE AtRouteLimit(Origin[r]) BY <4>1, RespondType
      <4>2. CASE ~AtRouteLimit(Origin[r])
        <5>1. /\ stage' = [stage EXCEPT ![r] = "registered"]
              /\ routes' = routes \cup {r}
              /\ UNCHANGED <<expired, queueVars>>
          BY <4>2, Zenon
        <5>2. UNCHANGED <<connVars, rxVars, failing, active, observed>> BY Zenon
        <5> QED BY <5>1, <5>2
      <4> QED BY <4>1, <4>2
    <3>2. CASE BroadcastRequest(r)
      <4> USE <3>2 DEF BroadcastRequest
      <4>1. requestRx' \in [Plugins -> Queue(RequestCapacity)] BY DEF Queue
      <4>2. missed' \in [Plugins -> BOOLEAN] BY Zenon
      <4>3. CASE FailRoute(r) /\ stage' = [stage EXCEPT ![r] = "handled"]
        BY <4>1, <4>2, <4>3, FailRouteType
      <4>4. CASE /\ UNCHANGED <<tableVars, queueVars>>
                 /\ stage' = [stage EXCEPT ![r] = "broadcast"]
        BY <4>1, <4>2, <4>4
      <4> QED BY <4>3, <4>4
    <3>3. CASE RecheckPlugin(r)
      <4>1. CASE active = NoConn BY <3>3, <4>1, FailRouteType DEF RecheckPlugin
      <4>2. CASE active # NoConn BY <3>3, <4>2 DEF RecheckPlugin
      <4> QED BY <4>1, <4>2
    <3> QED BY <2>16, <3>1, <3>2, <3>3 DEF HandlerStep
  <2>17. ASSUME NEW r \in Requests, Expire(r) PROVE TypeOK' BY <2>17 DEF Expire
  <2>18. CASE UNCHANGED vars BY <2>18 DEF vars
  <2> QED BY <2>1, <2>2, <2>3, <2>4, <2>5, <2>6, <2>7, <2>8, <2>9, <2>10, <2>11, <2>12,
     <2>13, <2>14, <2>15, <2>16, <2>17, <2>18 DEF Next
<1> QED BY <1>1, <1>2, PTL DEF Spec

-----------------------------------------------------------------------------
(* The tasks of a connection nest. *)
LEMMA TaskInvInductive ==
    ASSUME TypeOK, TaskInv, [Next]_vars
    PROVE  TaskInv'
<1> USE DEF TypeOK, TaskInv, InHandler,
            connVars, queueVars, rxVars, tableVars, observed
<1>1. ASSUME NEW c \in Conns, Connect(c) PROVE TaskInv' BY <1>1 DEF Connect
<1>2. ASSUME NEW c \in Conns, Hello(c) PROVE TaskInv' BY <1>2 DEF Hello
<1>3. ASSUME NEW c \in Conns, RejectHello(c) PROVE TaskInv' BY <1>3 DEF RejectHello
<1>4. ASSUME NEW c \in Conns, PeerCloses(c) PROVE TaskInv' BY <1>4 DEF PeerCloses, Busy
<1>5. ASSUME NEW c \in Conns, WriteResponse(c) PROVE TaskInv' BY <1>5 DEF WriteResponse
<1>6. ASSUME NEW c \in Conns, SendLoopBreaks(c) PROVE TaskInv' BY <1>6 DEF SendLoopBreaks
<1>7. ASSUME NEW c \in Conns, JoinLoops(c) PROVE TaskInv' BY <1>7 DEF JoinLoops, Busy
<1>8. ASSUME NEW c \in Conns, ReleaseSlot(c) PROVE TaskInv' BY <1>8 DEF ReleaseSlot
<1>9. ASSUME NEW c \in Conns, SnapshotRoutes(c) PROVE TaskInv' BY <1>9 DEF SnapshotRoutes
<1>10. ASSUME NEW c \in Conns, AllRoutesFailed(c) PROVE TaskInv'
  BY <1>10 DEF AllRoutesFailed
<1>11. ASSUME NEW c \in Conns, PurgeRoutes(c) PROVE TaskInv' BY <1>11 DEF PurgeRoutes
<1>12. ASSUME NEW c \in Plugins, ForwardRequest(c) PROVE TaskInv'
  BY <1>12 DEF ForwardRequest
<1>13. ASSUME NEW c \in Plugins, ForwardFails(c) PROVE TaskInv' BY <1>13 DEF ForwardFails
<1>14. ASSUME NEW c \in Plugins, RequestsLagged(c) PROVE TaskInv'
  BY <1>14 DEF RequestsLagged
<1>15. ASSUME NEW c \in Plugins, SweepExpired(c) PROVE TaskInv' BY <1>15 DEF SweepExpired
<1>16. ASSUME NEW c \in Plugins, SendLoopResumes(c) PROVE TaskInv'
  BY <1>16 DEF SendLoopResumes
<1>17. ASSUME NEW c \in Plugins, FailNext(c) PROVE TaskInv' BY <1>17 DEF FailNext
<1>18. ASSUME NEW c \in Plugins, NEW r \in Requests, ReceiveResponse(c, r)
       PROVE TaskInv'
  BY <1>18 DEF ReceiveResponse
<1>19. ASSUME NEW r \in Requests, ReceiveRequest(r) PROVE TaskInv'
  <2>1. recv[Origin[r]] = "reading" /\ UNCHANGED <<recv, main>>
    BY <1>19 DEF ReceiveRequest, Listening
  <2>2. \A q \in Requests : q # r => stage'[q] = stage[q] BY <1>19 DEF ReceiveRequest
  <2> QED BY <2>1, <2>2
<1>20. ASSUME NEW r \in Requests, RegisterRoute(r) PROVE TaskInv' BY <1>20 DEF RegisterRoute
<1>21. ASSUME NEW r \in Requests, BroadcastRequest(r) PROVE TaskInv'
  BY <1>21 DEF BroadcastRequest
<1>22. ASSUME NEW r \in Requests, RecheckPlugin(r) PROVE TaskInv' BY <1>22 DEF RecheckPlugin
<1>23. ASSUME NEW r \in Requests, Expire(r) PROVE TaskInv' BY <1>23 DEF Expire
<1>24. CASE UNCHANGED vars BY <1>24 DEF vars
<1> QED BY <1>1, <1>2, <1>3, <1>4, <1>5, <1>6, <1>7, <1>8, <1>9, <1>10, <1>11, <1>12, <1>13,
   <1>14, <1>15, <1>16, <1>17, <1>18, <1>19, <1>20, <1>21, <1>22, <1>23, <1>24 DEF Next,
   CleanupStep, HandlerStep

(* Failing a route removes it; a request that is not past registering is untouched, and
   nobody is answered a second time. *)
LEMMA FailRouteOnce ==
    ASSUME TypeOK, RouteInv, NEW r \in Requests, FailRoute(r)
    PROVE  /\ routes' = routes \ {r}
           /\ AnsweredAtMostOnce'
           /\ \A q \in Requests :
                stage[q] \in {"unsent", "checked"} => q \notin routes'
                                                     /\ responses'[q] = 0
<1> USE DEF TypeOK, RouteInv, AnsweredAtMostOnce, queueVars, tableVars
<1>1. CASE r \in routes
  <2>1. /\ routes' = routes \ {r}
        /\ responses' = [responses EXCEPT ![r] = @ + 1]
    BY <1>1 DEF FailRoute, AnswerRoute, Respond
  <2>2. responses[r] = 0 BY <1>1
  <2> QED BY <1>1, <2>1, <2>2
<1>2. CASE r \notin routes BY <1>2 DEF FailRoute
<1> QED BY <1>1, <1>2

(* A route and a response exclude each other. *)
LEMMA RouteInvInductive ==
    ASSUME TypeOK, RouteInv, [Next]_vars
    PROVE  RouteInv'
<1> USE DEF TypeOK, RouteInv, AnsweredAtMostOnce, InHandler,
           connVars, queueVars, rxVars, tableVars, observed
<1>1. ASSUME NEW c \in Conns, Connect(c) PROVE RouteInv' BY <1>1 DEF Connect
<1>2. ASSUME NEW c \in Conns, Hello(c) PROVE RouteInv' BY <1>2 DEF Hello
<1>3. ASSUME NEW c \in Conns, RejectHello(c) PROVE RouteInv' BY <1>3 DEF RejectHello
<1>4. ASSUME NEW c \in Conns, PeerCloses(c) PROVE RouteInv' BY <1>4 DEF PeerCloses
<1>5. ASSUME NEW c \in Conns, WriteResponse(c) PROVE RouteInv' BY <1>5 DEF WriteResponse
<1>6. ASSUME NEW c \in Conns, SendLoopBreaks(c) PROVE RouteInv' BY <1>6 DEF SendLoopBreaks
<1>7. ASSUME NEW c \in Conns, JoinLoops(c) PROVE RouteInv' BY <1>7 DEF JoinLoops
<1>8. ASSUME NEW c \in Conns, ReleaseSlot(c) PROVE RouteInv' BY <1>8 DEF ReleaseSlot
<1>9. ASSUME NEW c \in Conns, SnapshotRoutes(c) PROVE RouteInv' BY <1>9 DEF SnapshotRoutes
<1>10. ASSUME NEW c \in Conns, AllRoutesFailed(c) PROVE RouteInv'
  BY <1>10 DEF AllRoutesFailed
<1>11. ASSUME NEW c \in Conns, PurgeRoutes(c) PROVE RouteInv' BY <1>11 DEF PurgeRoutes
<1>12. ASSUME NEW c \in Plugins, ForwardRequest(c) PROVE RouteInv'
  BY <1>12 DEF ForwardRequest
<1>13. ASSUME NEW c \in Plugins, ForwardFails(c) PROVE RouteInv'
  <2>1. requestRx[c] \in Queue(RequestCapacity) /\ requestRx[c] # <<>>
    BY <1>13 DEF ForwardFails
  <2>2. Head(requestRx[c]) \in Requests BY <2>1 DEF Queue
  <2> QED BY <1>13, <2>2, FailRouteOnce DEF ForwardFails
<1>14. ASSUME NEW c \in Plugins, RequestsLagged(c) PROVE RouteInv'
  BY <1>14 DEF RequestsLagged
<1>15. ASSUME NEW c \in Plugins, SweepExpired(c) PROVE RouteInv' BY <1>15 DEF SweepExpired
<1>16. ASSUME NEW c \in Plugins, SendLoopResumes(c) PROVE RouteInv'
  BY <1>16 DEF SendLoopResumes
<1>17. ASSUME NEW c \in Plugins, FailNext(c) PROVE RouteInv'
  <2>1. PICK r \in failing[c] : FailRoute(r) BY <1>17 DEF FailNext
  <2>2. r \in Requests BY <2>1
  <2> QED BY <1>17, <2>1, <2>2, FailRouteOnce DEF FailNext
<1>18. ASSUME NEW c \in Plugins, NEW r \in Requests, ReceiveResponse(c, r)
       PROVE RouteInv'
  <2>1. FailRoute(r) /\ UNCHANGED stage BY <1>18 DEF ReceiveResponse, FailRoute
  <2> QED BY <2>1, FailRouteOnce
<1>19. ASSUME NEW r \in Requests, ReceiveRequest(r) PROVE RouteInv'
  <2>1. UNCHANGED routes /\ stage[r] = "unsent" BY <1>19 DEF ReceiveRequest
  <2>2. CASE active = NoConn
    <3>1. /\ stage' = [stage EXCEPT ![r] = "handled"]
          /\ responses' = [responses EXCEPT ![r] = @ + 1]
      BY <1>19, <2>2 DEF ReceiveRequest, Respond
    <3> QED BY <2>1, <3>1
  <2>3. CASE active # NoConn BY <1>19, <2>1, <2>3 DEF ReceiveRequest
  <2> QED BY <2>2, <2>3
<1>20. ASSUME NEW r \in Requests, RegisterRoute(r) PROVE RouteInv'
  <2>1. stage[r] = "checked" BY <1>20 DEF RegisterRoute
  <2>2. CASE AtRouteLimit(Origin[r])
    <3>1. /\ stage' = [stage EXCEPT ![r] = "handled"]
          /\ responses' = [responses EXCEPT ![r] = @ + 1]
          /\ UNCHANGED routes
      BY <1>20, <2>2 DEF RegisterRoute, Respond
    <3> QED BY <2>1, <3>1
  <2>3. CASE ~AtRouteLimit(Origin[r])
    <3>1. /\ stage' = [stage EXCEPT ![r] = "registered"]
          /\ routes' = routes \cup {r}
          /\ UNCHANGED responses
      BY <1>20, <2>3, Zenon DEF RegisterRoute
    <3> QED BY <2>1, <3>1
  <2> QED BY <2>2, <2>3
<1>21. ASSUME NEW r \in Requests, BroadcastRequest(r) PROVE RouteInv'
  <2>1. CASE /\ UNCHANGED <<tableVars, queueVars>>
             /\ stage' = [stage EXCEPT ![r] = "broadcast"]
    BY <2>1
  <2>2. CASE FailRoute(r) /\ stage' = [stage EXCEPT ![r] = "handled"] BY <2>2, FailRouteOnce
  <2> QED BY <1>21, <2>1, <2>2 DEF BroadcastRequest
<1>22. ASSUME NEW r \in Requests, RecheckPlugin(r) PROVE RouteInv'
  <2>1. CASE active = NoConn BY <1>22, <2>1, FailRouteOnce DEF RecheckPlugin
  <2>2. CASE active # NoConn BY <1>22, <2>2 DEF RecheckPlugin
  <2> QED BY <2>1, <2>2
<1>23. ASSUME NEW r \in Requests, Expire(r) PROVE RouteInv' BY <1>23 DEF Expire
<1>24. CASE UNCHANGED vars BY <1>24 DEF vars
<1> QED BY <1>1, <1>2, <1>3, <1>4, <1>5, <1>6, <1>7, <1>8, <1>9, <1>10, <1>11, <1>12, <1>13,
   <1>14, <1>15, <1>16, <1>17, <1>18, <1>19, <1>20, <1>21, <1>22, <1>23, <1>24 DEF Next,
   CleanupStep, HandlerStep

(* The slot belongs to a plugin that will release it. *)
LEMMA SlotOwnerInductive ==
    ASSUME TypeOK, TaskInv, SlotOwnerIsLive, [Next]_vars
    PROVE  SlotOwnerIsLive'
<1> USE DEF TypeOK, TaskInv, SlotOwnerIsLive, Kinds,
           connVars, queueVars, rxVars, tableVars, observed
<1>1. ASSUME NEW c \in Conns, Connect(c) PROVE SlotOwnerIsLive' BY <1>1 DEF Connect
<1>2. ASSUME NEW c \in Conns, Hello(c) PROVE SlotOwnerIsLive' BY <1>2 DEF Hello, Listening
<1>3. ASSUME NEW c \in Conns, RejectHello(c) PROVE SlotOwnerIsLive' BY <1>3 DEF RejectHello
<1>4. ASSUME NEW c \in Conns, PeerCloses(c) PROVE SlotOwnerIsLive' BY <1>4 DEF PeerCloses
<1>5. ASSUME NEW c \in Conns, WriteResponse(c) PROVE SlotOwnerIsLive'
  BY <1>5 DEF WriteResponse
<1>6. ASSUME NEW c \in Conns, SendLoopBreaks(c) PROVE SlotOwnerIsLive'
  BY <1>6 DEF SendLoopBreaks
<1>7. ASSUME NEW c \in Conns, JoinLoops(c) PROVE SlotOwnerIsLive' BY <1>7 DEF JoinLoops
<1>8. ASSUME NEW c \in Conns, ReleaseSlot(c) PROVE SlotOwnerIsLive' BY <1>8 DEF ReleaseSlot
<1>9. ASSUME NEW c \in Conns, SnapshotRoutes(c) PROVE SlotOwnerIsLive'
  BY <1>9 DEF SnapshotRoutes
<1>10. ASSUME NEW c \in Conns, AllRoutesFailed(c) PROVE SlotOwnerIsLive'
  BY <1>10 DEF AllRoutesFailed
<1>11. ASSUME NEW c \in Conns, PurgeRoutes(c) PROVE SlotOwnerIsLive'
  BY <1>11 DEF PurgeRoutes
<1>12. ASSUME NEW c \in Plugins, ForwardRequest(c) PROVE SlotOwnerIsLive'
  BY <1>12 DEF ForwardRequest
<1>13. ASSUME NEW c \in Plugins, ForwardFails(c) PROVE SlotOwnerIsLive'
  BY <1>13 DEF ForwardFails
<1>14. ASSUME NEW c \in Plugins, RequestsLagged(c) PROVE SlotOwnerIsLive'
  BY <1>14 DEF RequestsLagged
<1>15. ASSUME NEW c \in Plugins, SweepExpired(c) PROVE SlotOwnerIsLive'
  BY <1>15 DEF SweepExpired
<1>16. ASSUME NEW c \in Plugins, SendLoopResumes(c) PROVE SlotOwnerIsLive'
  BY <1>16 DEF SendLoopResumes
<1>17. ASSUME NEW c \in Plugins, FailNext(c) PROVE SlotOwnerIsLive' BY <1>17 DEF FailNext
<1>18. ASSUME NEW c \in Plugins, NEW r \in Requests, ReceiveResponse(c, r)
       PROVE SlotOwnerIsLive'
  BY <1>18 DEF ReceiveResponse
<1>19. ASSUME NEW r \in Requests, ReceiveRequest(r) PROVE SlotOwnerIsLive'
  BY <1>19 DEF ReceiveRequest
<1>20. ASSUME NEW r \in Requests, RegisterRoute(r) PROVE SlotOwnerIsLive'
  BY <1>20 DEF RegisterRoute
<1>21. ASSUME NEW r \in Requests, BroadcastRequest(r) PROVE SlotOwnerIsLive'
  BY <1>21 DEF BroadcastRequest
<1>22. ASSUME NEW r \in Requests, RecheckPlugin(r) PROVE SlotOwnerIsLive'
  BY <1>22 DEF RecheckPlugin
<1>23. ASSUME NEW r \in Requests, Expire(r) PROVE SlotOwnerIsLive' BY <1>23 DEF Expire
<1>24. CASE UNCHANGED vars BY <1>24 DEF vars
<1> QED BY <1>1, <1>2, <1>3, <1>4, <1>5, <1>6, <1>7, <1>8, <1>9, <1>10, <1>11, <1>12, <1>13,
   <1>14, <1>15, <1>16, <1>17, <1>18, <1>19, <1>20, <1>21, <1>22, <1>23, <1>24 DEF Next,
   CleanupStep, HandlerStep

(* Routes go before their client does. *)
LEMMA NoLeakedRouteInductive ==
    ASSUME TypeOK, TaskInv, NoLeakedRoute, [Next]_vars
    PROVE  NoLeakedRoute'
<1> USE DEF TypeOK, TaskInv, NoLeakedRoute, InHandler,
           connVars, queueVars, rxVars, tableVars, observed
<1>1. ASSUME NEW c \in Conns, Connect(c) PROVE NoLeakedRoute' BY <1>1 DEF Connect
<1>2. ASSUME NEW c \in Conns, Hello(c) PROVE NoLeakedRoute' BY <1>2 DEF Hello
<1>3. ASSUME NEW c \in Conns, RejectHello(c) PROVE NoLeakedRoute' BY <1>3 DEF RejectHello
<1>4. ASSUME NEW c \in Conns, PeerCloses(c) PROVE NoLeakedRoute' BY <1>4 DEF PeerCloses
<1>5. ASSUME NEW c \in Conns, WriteResponse(c) PROVE NoLeakedRoute'
  BY <1>5 DEF WriteResponse
<1>6. ASSUME NEW c \in Conns, SendLoopBreaks(c) PROVE NoLeakedRoute'
  BY <1>6 DEF SendLoopBreaks
<1>7. ASSUME NEW c \in Conns, JoinLoops(c) PROVE NoLeakedRoute' BY <1>7 DEF JoinLoops
<1>8. ASSUME NEW c \in Conns, ReleaseSlot(c) PROVE NoLeakedRoute' BY <1>8 DEF ReleaseSlot
<1>9. ASSUME NEW c \in Conns, SnapshotRoutes(c) PROVE NoLeakedRoute'
  BY <1>9 DEF SnapshotRoutes
<1>10. ASSUME NEW c \in Conns, AllRoutesFailed(c) PROVE NoLeakedRoute'
  BY <1>10 DEF AllRoutesFailed
<1>11. ASSUME NEW c \in Conns, PurgeRoutes(c) PROVE NoLeakedRoute' BY <1>11 DEF PurgeRoutes
<1>12. ASSUME NEW c \in Plugins, ForwardRequest(c) PROVE NoLeakedRoute'
  BY <1>12 DEF ForwardRequest
<1>13. ASSUME NEW c \in Plugins, ForwardFails(c) PROVE NoLeakedRoute'
  BY <1>13 DEF ForwardFails, FailRoute, AnswerRoute
<1>14. ASSUME NEW c \in Plugins, RequestsLagged(c) PROVE NoLeakedRoute'
  BY <1>14 DEF RequestsLagged
<1>15. ASSUME NEW c \in Plugins, SweepExpired(c) PROVE NoLeakedRoute'
  BY <1>15 DEF SweepExpired
<1>16. ASSUME NEW c \in Plugins, SendLoopResumes(c) PROVE NoLeakedRoute'
  BY <1>16 DEF SendLoopResumes
<1>17. ASSUME NEW c \in Plugins, FailNext(c) PROVE NoLeakedRoute'
  BY <1>17 DEF FailNext, FailRoute, AnswerRoute
<1>18. ASSUME NEW c \in Plugins, NEW r \in Requests, ReceiveResponse(c, r)
       PROVE NoLeakedRoute'
  BY <1>18 DEF ReceiveResponse, FailRoute, AnswerRoute
<1>19. ASSUME NEW r \in Requests, ReceiveRequest(r) PROVE NoLeakedRoute'
  BY <1>19 DEF ReceiveRequest
<1>20. ASSUME NEW r \in Requests, RegisterRoute(r) PROVE NoLeakedRoute'
  BY <1>20 DEF RegisterRoute
<1>21. ASSUME NEW r \in Requests, BroadcastRequest(r) PROVE NoLeakedRoute'
  BY <1>21 DEF BroadcastRequest, FailRoute, AnswerRoute
<1>22. ASSUME NEW r \in Requests, RecheckPlugin(r) PROVE NoLeakedRoute'
  BY <1>22 DEF RecheckPlugin, FailRoute, AnswerRoute
<1>23. ASSUME NEW r \in Requests, Expire(r) PROVE NoLeakedRoute' BY <1>23 DEF Expire
<1>24. CASE UNCHANGED vars BY <1>24 DEF vars
<1> QED BY <1>1, <1>2, <1>3, <1>4, <1>5, <1>6, <1>7, <1>8, <1>9, <1>10, <1>11, <1>12, <1>13,
   <1>14, <1>15, <1>16, <1>17, <1>18, <1>19, <1>20, <1>21, <1>22, <1>23, <1>24 DEF Next,
   CleanupStep, HandlerStep

(* Without an active plugin somebody answers for each route. *)
LEMMA NoOrphanInductive ==
    ASSUME TypeOK, NoOrphanedRoute, [Next]_vars
    PROVE  NoOrphanedRoute'
<1> USE DEF TypeOK, NoOrphanedRoute, WillBeFailed,
           connVars, queueVars, rxVars, tableVars, observed
<1>1. ASSUME NEW c \in Conns, Connect(c) PROVE NoOrphanedRoute' BY <1>1 DEF Connect
<1>2. ASSUME NEW c \in Conns, Hello(c) PROVE NoOrphanedRoute' BY <1>2 DEF Hello
<1>3. ASSUME NEW c \in Conns, RejectHello(c) PROVE NoOrphanedRoute' BY <1>3 DEF RejectHello
<1>4. ASSUME NEW c \in Conns, PeerCloses(c) PROVE NoOrphanedRoute' BY <1>4 DEF PeerCloses
<1>5. ASSUME NEW c \in Conns, WriteResponse(c) PROVE NoOrphanedRoute'
  BY <1>5 DEF WriteResponse
<1>6. ASSUME NEW c \in Conns, SendLoopBreaks(c) PROVE NoOrphanedRoute'
  BY <1>6 DEF SendLoopBreaks
<1>7. ASSUME NEW c \in Conns, JoinLoops(c) PROVE NoOrphanedRoute' BY <1>7 DEF JoinLoops
<1>8. ASSUME NEW c \in Conns, ReleaseSlot(c) PROVE NoOrphanedRoute' BY <1>8 DEF ReleaseSlot
<1>9. ASSUME NEW c \in Conns, SnapshotRoutes(c) PROVE NoOrphanedRoute'
  BY <1>9 DEF SnapshotRoutes
<1>10. ASSUME NEW c \in Conns, AllRoutesFailed(c) PROVE NoOrphanedRoute'
  BY <1>10 DEF AllRoutesFailed
<1>11. ASSUME NEW c \in Conns, PurgeRoutes(c) PROVE NoOrphanedRoute'
  BY <1>11 DEF PurgeRoutes
<1>12. ASSUME NEW c \in Plugins, ForwardRequest(c) PROVE NoOrphanedRoute'
  BY <1>12 DEF ForwardRequest
<1>13. ASSUME NEW c \in Plugins, ForwardFails(c) PROVE NoOrphanedRoute'
  BY <1>13 DEF ForwardFails, FailRoute, AnswerRoute
<1>14. ASSUME NEW c \in Plugins, RequestsLagged(c) PROVE NoOrphanedRoute'
  BY <1>14 DEF RequestsLagged, IsActivePlugin
<1>15. ASSUME NEW c \in Plugins, SweepExpired(c) PROVE NoOrphanedRoute'
  BY <1>15 DEF SweepExpired, IsActivePlugin
<1>16. ASSUME NEW c \in Plugins, SendLoopResumes(c) PROVE NoOrphanedRoute'
  BY <1>16 DEF SendLoopResumes
<1>17. ASSUME NEW c \in Plugins, FailNext(c) PROVE NoOrphanedRoute'
  <2>1. PICK r \in failing[c] :
               /\ failing' = [failing EXCEPT ![c] = @ \ {r}]
               /\ FailRoute(r)
    BY <1>17 DEF FailNext
  <2>2. routes' = routes \ {r} BY <2>1 DEF FailRoute, AnswerRoute
  <2> QED BY <1>17, <2>1, <2>2 DEF FailNext
<1>18. ASSUME NEW c \in Plugins, NEW r \in Requests, ReceiveResponse(c, r)
       PROVE NoOrphanedRoute'
  BY <1>18 DEF ReceiveResponse, FailRoute, AnswerRoute
<1>19. ASSUME NEW r \in Requests, ReceiveRequest(r) PROVE NoOrphanedRoute'
  BY <1>19 DEF ReceiveRequest
<1>20. ASSUME NEW r \in Requests, RegisterRoute(r) PROVE NoOrphanedRoute'
  <2>1. UNCHANGED <<active, main, failing>> /\ stage[r] = "checked"
    BY <1>20 DEF RegisterRoute
  <2>2. CASE AtRouteLimit(Origin[r])
    <3>1. UNCHANGED routes /\ stage' = [stage EXCEPT ![r] = "handled"]
      BY <1>20, <2>2 DEF RegisterRoute
    <3>2. \A q \in Requests : q # r => stage'[q] = stage[q] BY <3>1
    <3>3. \A q \in routes : WillBeFailed(q) => WillBeFailed(q)' BY <2>1, <3>2
    <3> QED BY <2>1, <3>1, <3>3
  <2>3. CASE ~AtRouteLimit(Origin[r])
    <3>1. /\ stage' = [stage EXCEPT ![r] = "registered"]
          /\ routes' = routes \cup {r}
      BY <1>20, <2>3, Zenon DEF RegisterRoute
    <3>2. stage'[r] = "registered" /\ WillBeFailed(r)' BY <3>1
    <3>3. \A q \in Requests : q # r => stage'[q] = stage[q] BY <3>1
    <3>4. \A q \in routes \ {r} : WillBeFailed(q) => WillBeFailed(q)' BY <2>1, <3>3
    <3> QED BY <2>1, <3>1, <3>2, <3>4
  <2> QED BY <2>2, <2>3
<1>21. ASSUME NEW r \in Requests, BroadcastRequest(r) PROVE NoOrphanedRoute'
  <2>1. UNCHANGED <<active, main, failing>> BY <1>21 DEF BroadcastRequest
  <2>2. CASE /\ UNCHANGED <<tableVars, queueVars>>
             /\ stage' = [stage EXCEPT ![r] = "broadcast"]
    BY <2>1, <2>2
  <2>3. CASE FailRoute(r) /\ stage' = [stage EXCEPT ![r] = "handled"]
    <3>1. routes' = routes \ {r} BY <2>3 DEF FailRoute, AnswerRoute
    <3> QED BY <2>1, <2>3, <3>1
  <2> QED BY <1>21, <2>2, <2>3 DEF BroadcastRequest
<1>22. ASSUME NEW r \in Requests, RecheckPlugin(r) PROVE NoOrphanedRoute'
  <2>1. CASE active = NoConn
    <3>1. FailRoute(r) /\ stage' = [stage EXCEPT ![r] = "handled"]
          /\ UNCHANGED <<active, main, failing>>
      BY <1>22, <2>1 DEF RecheckPlugin
    <3>2. routes' = routes \ {r} BY <3>1 DEF FailRoute, AnswerRoute
    <3> QED BY <3>1, <3>2
  <2>2. CASE active # NoConn BY <1>22, <2>2 DEF RecheckPlugin
  <2> QED BY <2>1, <2>2
<1>23. ASSUME NEW r \in Requests, Expire(r) PROVE NoOrphanedRoute' BY <1>23 DEF Expire
<1>24. CASE UNCHANGED vars BY <1>24 DEF vars
<1> QED BY <1>1, <1>2, <1>3, <1>4, <1>5, <1>6, <1>7, <1>8, <1>9, <1>10, <1>11, <1>12, <1>13,
   <1>14, <1>15, <1>16, <1>17, <1>18, <1>19, <1>20, <1>21, <1>22, <1>23, <1>24 DEF Next,
   CleanupStep, HandlerStep

-----------------------------------------------------------------------------
(* Whoever removes a route answers it: a client is handed at most one response per request,
   whichever of the answer, the deadline sweep, the failed write and the disconnect cleanups
   comes first. *)
THEOREM AtMostOneAnswer == Spec => []AnsweredAtMostOnce
<1>1. Init => RouteInv BY DEF Init, RouteInv, AnsweredAtMostOnce
<1>2. TypeOK /\ RouteInv /\ [Next]_vars => RouteInv' BY RouteInvInductive
<1>3. RouteInv => AnsweredAtMostOnce BY DEF RouteInv
<1> QED BY <1>1, <1>2, <1>3, TypeCorrect, PTL DEF Spec

(* A request accepted while the plugin goes away is not forgotten: its handler or the
   cleanup of the plugin's connection still fails it. *)
THEOREM NoRouteOrphaned == Spec => []NoOrphanedRoute
<1>1. Init => NoOrphanedRoute BY DEF Init, NoOrphanedRoute
<1>2. TypeOK /\ NoOrphanedRoute /\ [Next]_vars => NoOrphanedRoute' BY NoOrphanInductive
<1> QED BY <1>1, <1>2, TypeCorrect, PTL DEF Spec

(* The nesting of handler, recv_loop and handle_ws holds throughout. *)
LEMMA TasksNest == Spec => []TaskInv
<1>1. Init => TaskInv BY DEF Init, TaskInv, InHandler
<1>2. TypeOK /\ TaskInv /\ [Next]_vars => TaskInv' BY TaskInvInductive
<1> QED BY <1>1, <1>2, TypeCorrect, PTL DEF Spec

(* The active-plugin slot never outlives the connection that holds it. *)
THEOREM SlotNeverStuck == Spec => []SlotOwnerIsLive
<1>1. Init => SlotOwnerIsLive BY DEF Init, SlotOwnerIsLive
<1>2. TypeOK /\ TaskInv /\ SlotOwnerIsLive /\ [Next]_vars => SlotOwnerIsLive'
  BY SlotOwnerInductive
<1> QED BY <1>1, <1>2, TypeCorrect, TasksNest, PTL DEF Spec

(* A client that has left holds no entry of the bounded route table. *)
THEOREM NoRouteLeaks == Spec => []NoLeakedRoute
<1>1. Init => NoLeakedRoute BY DEF Init, NoLeakedRoute
<1>2. TypeOK /\ TaskInv /\ NoLeakedRoute /\ [Next]_vars => NoLeakedRoute'
  BY NoLeakedRouteInductive
<1> QED BY <1>1, <1>2, TypeCorrect, TasksNest, PTL DEF Spec

-------------------------------------------------------------------------------
(* The link. *)

(* Those of a set that are of a generation: one, or none. *)
Alone(S, g) == \E x \in S : x.gen = g /\ \A y \in S : y.gen = g => y = x
Absent(S, g) == \A x \in S : x.gen # g
Nobody == Absent(compares, link.gen) /\ Absent(timers, link.gen) /\ Absent(restarts, link.gen)
NoTry == \A a \in attempts : a.n # link.attempt

(* One of them goes on. *)
Live == link.connected /\ Alone(loops, link.gen) /\ Nobody /\ NoTry
Idle == ~link.connected /\ ~link.busy /\ ~link.desired /\ Nobody /\ NoTry
Trying ==
    /\ ~link.connected /\ link.busy /\ Nobody
    /\ \E a \in attempts : /\ a.n = link.attempt /\ (link.desired <=> a.at = "configuring")
                           /\ \A b \in attempts : b.n = link.attempt => b = a
Working ==
    /\ ~link.connected /\ link.busy /\ link.desired /\ NoTry
    /\ \/ Alone(compares, link.gen) /\ Absent(timers, link.gen) /\ Absent(restarts, link.gen)
       \/ Alone(timers, link.gen) /\ Absent(compares, link.gen) /\ Absent(restarts, link.gen)
       \/ Alone(restarts, link.gen) /\ Absent(compares, link.gen) /\ Absent(timers, link.gen)
OneGoes ==
    /\ Live \/ Idle \/ Trying \/ Working
    /\ ~link.connected => Absent(loops, link.gen)

(* The state of the link. *)
Numbered ==
    /\ \A x \in compares : x.gen <= link.gen
    /\ \A x \in timers : x.gen <= link.gen
    /\ \A x \in restarts : x.gen <= link.gen
    /\ \A x \in loops : x.gen <= link.gen
    /\ \A a \in attempts : a.n <= link.attempt
LinkIsSet ==
    /\ link.connected => link.desired /\ ~link.busy /\ link.hooks /\ ~link.retrying
    /\ link.desired => link.base # NoLink
    /\ link.pin # NoLink => link.pin = intended
    /\ link.retrying => \E t \in timers : t.gen = link.gen /\ t.at = "waiting"
    /\ \A t \in timers : t.gen = link.gen => t.pin \in {NoLink, link.pin}
    /\ \A l \in loops : l.gen = link.gen => l.pin = link.pin

(* Hooks. *)
HooksAreOne ==
    /\ \A c \in compares : c.at = "installing" =>
          /\ link.hooks /\ (link.desired => c.gen = link.gen)
          /\ \A d \in compares : d.at = "installing" => d = c
          /\ \A a \in attempts : a.n = link.attempt => a.at = "searching"
    /\ link.hooks /\ ~link.connected => \E c \in compares : c.at = "installing"
    /\ pending # {} => link.hooks
    /\ ~link.connected => outward = {} /\ inward = {} /\ ws = NoLink
    /\ \A c \in compares : c.at = "installing" /\ ~c.dirty => pending = {}

(* The daemons of a state of the hosts. *)
At(h, u) == IF h[u] = NoLink THEN NoLink ELSE h[u].boot
Runs(h, b) == b # NoLink /\ \E u \in Urls : At(h, u) = b
Of(h, b) == h[CHOOSE u \in Urls : At(h, u) = b].project

(* Daemons. *)
KnownBoot(b) == b # NoLink => b > left.daemons
BootsAreNew ==
    /\ \A u \in Urls : KnownBoot(At(host, u))
    /\ \A u, v \in Urls : At(host, u) = At(host, v) /\ At(host, u) # NoLink => u = v
    /\ \A c \in compares : KnownBoot(c.cap) /\ KnownBoot(c.boot)
    /\ \A l \in loops : KnownBoot(l.boot)
    /\ KnownBoot(link.cap) /\ KnownBoot(link.compared) /\ KnownBoot(link.with)

CapIsBase == link.desired /\ Runs(host, link.cap) => At(host, link.base) = link.cap
ComparesKnow ==
    \A c \in compares : c.gen = link.gen =>
        /\ Runs(host, c.cap) => At(host, link.base) = c.cap
        /\ c.at \notin {"scanning", "asking"} => c.boot # NoLink
        /\ c.boot # NoLink /\ Runs(host, c.cap) => c.boot = c.cap
        /\ c.at = "installing" => link.compared = c.cap /\ link.with = c.boot
        /\ Runs(host, c.boot) /\ ~c.dirty /\ c.at \in {"compared", "installing"} =>
              /\ studioEdits \subseteq diskEdits[Of(host, c.boot)]
              /\ diskEdits[Of(host, c.boot)] \ studioEdits \subseteq unheard[Of(host, c.boot)]
LoopsKnow ==
    \A l \in loops : l.gen = link.gen =>
        /\ Runs(host, link.compared) => link.with = link.compared
        /\ l.at # "asking" =>
              /\ link.cap = link.compared
              /\ Runs(host, link.cap) => Of(host, link.cap) = intended
        /\ l.at = "heard" => l.boot = link.cap
        /\ ws # NoLink => ws = l.gen /\ l.at = "heard"
LiveAgrees ==
    link.connected =>
        /\ pending \cup outward \subseteq studioEdits
        /\ Runs(host, link.with) =>
              /\ studioEdits \ diskEdits[Of(host, link.with)] \subseteq pending \cup outward
              /\ diskEdits[Of(host, link.with)] \ studioEdits
                   \subseteq inward \cup unheard[Of(host, link.with)]
              /\ inward \subseteq diskEdits[Of(host, link.with)]

Typed == Link!LinkAssumption /\ Link!TypeOK /\ ~left.late
LinkInv ==
    /\ Typed /\ OneGoes /\ Numbered /\ LinkIsSet /\ HooksAreOne /\ BootsAreNew /\ CapIsBase
    /\ ComparesKnow /\ LoopsKnow /\ LiveAgrees

-------------------------------------------------------------------------------
(* What the model says of its hosts, it says of any. *)
LEMMA Bridge ==
    /\ \A u : Link!BootAt(u) = At(host, u)
    /\ \A b : Link!Running(b) <=> Runs(host, b)
    /\ \A b : Link!ProjectOf(b) = Of(host, b)
BY DEF Link!BootAt, Link!Running, Link!ProjectOf, At, Runs, Of

(* A boot is a number, and one that runs has a project. *)
LEMMA HostsAreTyped ==
    ASSUME Typed
    PROVE  /\ \A u \in Urls : At(host, u) \in Link!Boots
           /\ \A u \in Urls : host[u] # NoLink => At(host, u) \in Nat /\ At(host, u) = host[u].boot
                                               /\ host[u].project \in Projects
           /\ \A u \in Urls : At(host, u) = NoLink <=> host[u] = NoLink
           /\ \A b : Runs(host, b) => b \in Nat /\ Of(host, b) \in Projects
<1>1. host \in [Urls -> {NoLink} \cup [project : Projects, boot : Nat]] /\ NoLink \notin Nat
  BY DEF Typed, Link!TypeOK, Link!LinkAssumption
<1>2. \A u \in Urls : host[u] # NoLink => host[u].boot \in Nat /\ host[u].project \in Projects
  BY <1>1
<1>3. /\ \A u \in Urls : At(host, u) \in Link!Boots
      /\ \A u \in Urls : host[u] # NoLink => At(host, u) \in Nat /\ At(host, u) = host[u].boot
                                          /\ host[u].project \in Projects
      /\ \A u \in Urls : At(host, u) = NoLink <=> host[u] = NoLink
  BY <1>1, <1>2 DEF At, Link!Boots
<1>4. ASSUME NEW b, Runs(host, b) PROVE b \in Nat /\ Of(host, b) \in Projects
  <2> DEFINE v == CHOOSE u \in Urls : At(host, u) = b
  <2>1. v \in Urls /\ At(host, v) = b /\ b # NoLink BY <1>4 DEF Runs
  <2>2. Of(host, b) = host[v].project BY DEF Of
  <2> HIDE DEF v
  <2> QED BY <1>3, <2>1, <2>2
<1> QED BY <1>3, <1>4

(* A boot runs at one place. *)
LEMMA PlaceIsOne ==
    ASSUME Typed, BootsAreNew, NEW u \in Urls, host[u] # NoLink
    PROVE  /\ Runs(host, At(host, u))
           /\ Of(host, At(host, u)) = host[u].project
<1> DEFINE b == At(host, u)
           v == CHOOSE x \in Urls : At(host, x) = b
<1>1. b # NoLink /\ v \in Urls /\ At(host, v) = b
  BY HostsAreTyped DEF Typed, Link!LinkAssumption
<1>2. v = u BY <1>1 DEF BootsAreNew
<1>3. Of(host, b) = host[v].project BY DEF Of
<1> QED BY <1>1, <1>2, <1>3 DEF Runs

(* A record with the fields of a link is a link. *)
Fields == {"desired", "busy", "connected", "gen", "attempt", "base", "cap", "compared",
           "pin", "retrying", "resyncing", "hooks", "with"}
Fielded(r) ==
    /\ r.desired \in BOOLEAN /\ r.busy \in BOOLEAN /\ r.connected \in BOOLEAN
    /\ r.gen \in Nat /\ r.attempt \in Nat /\ r.base \in Urls \cup {NoLink}
    /\ r.cap \in Link!Boots /\ r.compared \in Link!Boots /\ r.pin \in Projects \cup {NoLink}
    /\ r.retrying \in BOOLEAN /\ r.resyncing \in BOOLEAN /\ r.hooks \in BOOLEAN
    /\ r.with \in Link!Boots
LEMMA RecordIsLink ==
    ASSUME NEW r, r = [x \in DOMAIN r |-> r[x]], DOMAIN r = Fields, Fielded(r)
    PROVE  r \in Link!Links
BY DEF Link!Links, Fields, Fielded

(* What a click on Connect writes. *)
LEMMA Connecting ==
    ASSUME NEW k \in Link!Links, NEW l,
           l = [k EXCEPT !.pin = NoLink, !.busy = TRUE, !.attempt = @ + 1]
    PROVE  /\ l \in Link!Links /\ l.desired = k.desired /\ l.busy = TRUE
           /\ l.connected = k.connected /\ l.gen = k.gen
           /\ l.attempt = k.attempt + 1 /\ l.base = k.base
           /\ l.cap = k.cap /\ l.compared = k.compared /\ l.pin = NoLink
           /\ l.retrying = k.retrying /\ l.resyncing = k.resyncing
           /\ l.hooks = k.hooks /\ l.with = k.with
<1>1. /\ l.desired = k.desired /\ l.busy = TRUE
      /\ l.connected = k.connected /\ l.gen = k.gen
      /\ l.attempt = k.attempt + 1 /\ l.base = k.base
      /\ l.cap = k.cap /\ l.compared = k.compared /\ l.pin = NoLink
      /\ l.retrying = k.retrying /\ l.resyncing = k.resyncing
      /\ l.hooks = k.hooks /\ l.with = k.with
  BY DEF Link!Links
<1>2. l = [x \in DOMAIN l |-> l[x]] /\ DOMAIN l = Fields BY DEF Link!Links, Fields
<1>3. Fielded(l) BY <1>1 DEF Fielded, Link!Links, Link!Boots
<1> QED BY <1>1, <1>2, <1>3, RecordIsLink

(* What a cancel writes. *)
LEMMA Cancelling ==
    ASSUME NEW k \in Link!Links, NEW l,
           l = [k EXCEPT !.desired = FALSE, !.retrying = FALSE, !.cap = NoLink,
                !.compared = NoLink, !.pin = NoLink, !.busy = FALSE, !.gen = @ + 1,
                !.attempt = @ + 1]
    PROVE  /\ l \in Link!Links /\ l.desired = FALSE /\ l.busy = FALSE
           /\ l.connected = k.connected /\ l.gen = k.gen + 1
           /\ l.attempt = k.attempt + 1 /\ l.base = k.base
           /\ l.cap = NoLink /\ l.compared = NoLink /\ l.pin = NoLink
           /\ l.retrying = FALSE /\ l.resyncing = k.resyncing
           /\ l.hooks = k.hooks /\ l.with = k.with
<1>1. /\ l.desired = FALSE /\ l.busy = FALSE
      /\ l.connected = k.connected /\ l.gen = k.gen + 1
      /\ l.attempt = k.attempt + 1 /\ l.base = k.base
      /\ l.cap = NoLink /\ l.compared = NoLink /\ l.pin = NoLink
      /\ l.retrying = FALSE /\ l.resyncing = k.resyncing
      /\ l.hooks = k.hooks /\ l.with = k.with
  BY DEF Link!Links
<1>2. l = [x \in DOMAIN l |-> l[x]] /\ DOMAIN l = Fields BY DEF Link!Links, Fields
<1>3. Fielded(l) BY <1>1 DEF Fielded, Link!Links, Link!Boots
<1> QED BY <1>1, <1>2, <1>3, RecordIsLink

(* What a disconnect writes besides. *)
LEMMA Unhooking ==
    ASSUME NEW k \in Link!Links, NEW l,
           l = [k EXCEPT !.connected = FALSE, !.hooks = FALSE, !.base = NoLink]
    PROVE  /\ l \in Link!Links /\ l.desired = k.desired /\ l.busy = k.busy
           /\ l.connected = FALSE /\ l.gen = k.gen
           /\ l.attempt = k.attempt /\ l.base = NoLink /\ l.cap = k.cap
           /\ l.compared = k.compared /\ l.pin = k.pin
           /\ l.retrying = k.retrying /\ l.resyncing = k.resyncing
           /\ l.hooks = FALSE /\ l.with = k.with
<1>1. /\ l.desired = k.desired /\ l.busy = k.busy
      /\ l.connected = FALSE /\ l.gen = k.gen
      /\ l.attempt = k.attempt /\ l.base = NoLink /\ l.cap = k.cap
      /\ l.compared = k.compared /\ l.pin = k.pin
      /\ l.retrying = k.retrying /\ l.resyncing = k.resyncing
      /\ l.hooks = FALSE /\ l.with = k.with
  BY DEF Link!Links
<1>2. l = [x \in DOMAIN l |-> l[x]] /\ DOMAIN l = Fields BY DEF Link!Links, Fields
<1>3. Fielded(l) BY <1>1 DEF Fielded, Link!Links, Link!Boots
<1> QED BY <1>1, <1>2, <1>3, RecordIsLink

(* An attempt that finds nothing. *)
LEMMA GivingUp ==
    ASSUME NEW k \in Link!Links, NEW l,
           l = [k EXCEPT !.busy = FALSE]
    PROVE  /\ l \in Link!Links /\ l.desired = k.desired /\ l.busy = FALSE
           /\ l.connected = k.connected /\ l.gen = k.gen
           /\ l.attempt = k.attempt /\ l.base = k.base /\ l.cap = k.cap
           /\ l.compared = k.compared /\ l.pin = k.pin
           /\ l.retrying = k.retrying /\ l.resyncing = k.resyncing
           /\ l.hooks = k.hooks /\ l.with = k.with
<1>1. /\ l.desired = k.desired /\ l.busy = FALSE
      /\ l.connected = k.connected /\ l.gen = k.gen
      /\ l.attempt = k.attempt /\ l.base = k.base /\ l.cap = k.cap
      /\ l.compared = k.compared /\ l.pin = k.pin
      /\ l.retrying = k.retrying /\ l.resyncing = k.resyncing
      /\ l.hooks = k.hooks /\ l.with = k.with
  BY DEF Link!Links
<1>2. l = [x \in DOMAIN l |-> l[x]] /\ DOMAIN l = Fields BY DEF Link!Links, Fields
<1>3. Fielded(l) BY <1>1 DEF Fielded, Link!Links, Link!Boots
<1> QED BY <1>1, <1>2, <1>3, RecordIsLink

(* An attempt that is refused. *)
LEMMA Failing ==
    ASSUME NEW k \in Link!Links, NEW l,
           l = [k EXCEPT !.desired = FALSE, !.busy = FALSE]
    PROVE  /\ l \in Link!Links /\ l.desired = FALSE /\ l.busy = FALSE
           /\ l.connected = k.connected /\ l.gen = k.gen
           /\ l.attempt = k.attempt /\ l.base = k.base /\ l.cap = k.cap
           /\ l.compared = k.compared /\ l.pin = k.pin
           /\ l.retrying = k.retrying /\ l.resyncing = k.resyncing
           /\ l.hooks = k.hooks /\ l.with = k.with
<1>1. /\ l.desired = FALSE /\ l.busy = FALSE
      /\ l.connected = k.connected /\ l.gen = k.gen
      /\ l.attempt = k.attempt /\ l.base = k.base /\ l.cap = k.cap
      /\ l.compared = k.compared /\ l.pin = k.pin
      /\ l.retrying = k.retrying /\ l.resyncing = k.resyncing
      /\ l.hooks = k.hooks /\ l.with = k.with
  BY DEF Link!Links
<1>2. l = [x \in DOMAIN l |-> l[x]] /\ DOMAIN l = Fields BY DEF Link!Links, Fields
<1>3. Fielded(l) BY <1>1 DEF Fielded, Link!Links, Link!Boots
<1> QED BY <1>1, <1>2, <1>3, RecordIsLink

(* A timer that fires. *)
LEMMA Firing ==
    ASSUME NEW k \in Link!Links, NEW l,
           l = [k EXCEPT !.retrying = FALSE]
    PROVE  /\ l \in Link!Links /\ l.desired = k.desired /\ l.busy = k.busy
           /\ l.connected = k.connected /\ l.gen = k.gen
           /\ l.attempt = k.attempt /\ l.base = k.base /\ l.cap = k.cap
           /\ l.compared = k.compared /\ l.pin = k.pin
           /\ l.retrying = FALSE /\ l.resyncing = k.resyncing
           /\ l.hooks = k.hooks /\ l.with = k.with
<1>1. /\ l.desired = k.desired /\ l.busy = k.busy
      /\ l.connected = k.connected /\ l.gen = k.gen
      /\ l.attempt = k.attempt /\ l.base = k.base /\ l.cap = k.cap
      /\ l.compared = k.compared /\ l.pin = k.pin
      /\ l.retrying = FALSE /\ l.resyncing = k.resyncing
      /\ l.hooks = k.hooks /\ l.with = k.with
  BY DEF Link!Links
<1>2. l = [x \in DOMAIN l |-> l[x]] /\ DOMAIN l = Fields BY DEF Link!Links, Fields
<1>3. Fielded(l) BY <1>1 DEF Fielded, Link!Links, Link!Boots
<1> QED BY <1>1, <1>2, <1>3, RecordIsLink

(* A comparison is to be tried again. *)
LEMMA TryingAgain ==
    ASSUME NEW k \in Link!Links, NEW l,
           l = [k EXCEPT !.retrying = TRUE, !.busy = TRUE]
    PROVE  /\ l \in Link!Links /\ l.desired = k.desired /\ l.busy = TRUE
           /\ l.connected = k.connected /\ l.gen = k.gen
           /\ l.attempt = k.attempt /\ l.base = k.base /\ l.cap = k.cap
           /\ l.compared = k.compared /\ l.pin = k.pin
           /\ l.retrying = TRUE /\ l.resyncing = k.resyncing
           /\ l.hooks = k.hooks /\ l.with = k.with
<1>1. /\ l.desired = k.desired /\ l.busy = TRUE
      /\ l.connected = k.connected /\ l.gen = k.gen
      /\ l.attempt = k.attempt /\ l.base = k.base /\ l.cap = k.cap
      /\ l.compared = k.compared /\ l.pin = k.pin
      /\ l.retrying = TRUE /\ l.resyncing = k.resyncing
      /\ l.hooks = k.hooks /\ l.with = k.with
  BY DEF Link!Links
<1>2. l = [x \in DOMAIN l |-> l[x]] /\ DOMAIN l = Fields BY DEF Link!Links, Fields
<1>3. Fielded(l) BY <1>1 DEF Fielded, Link!Links, Link!Boots
<1> QED BY <1>1, <1>2, <1>3, RecordIsLink

(* The link goes live. *)
LEMMA InstallingHooks ==
    ASSUME NEW k \in Link!Links, NEW l,
           l = [k EXCEPT !.retrying = FALSE, !.resyncing = FALSE, !.connected = TRUE,
                !.busy = FALSE, !.gen = @ + 1]
    PROVE  /\ l \in Link!Links /\ l.desired = k.desired /\ l.busy = FALSE
           /\ l.connected = TRUE /\ l.gen = k.gen + 1
           /\ l.attempt = k.attempt /\ l.base = k.base /\ l.cap = k.cap
           /\ l.compared = k.compared /\ l.pin = k.pin
           /\ l.retrying = FALSE /\ l.resyncing = FALSE
           /\ l.hooks = k.hooks /\ l.with = k.with
<1>1. /\ l.desired = k.desired /\ l.busy = FALSE
      /\ l.connected = TRUE /\ l.gen = k.gen + 1
      /\ l.attempt = k.attempt /\ l.base = k.base /\ l.cap = k.cap
      /\ l.compared = k.compared /\ l.pin = k.pin
      /\ l.retrying = FALSE /\ l.resyncing = FALSE
      /\ l.hooks = k.hooks /\ l.with = k.with
  BY DEF Link!Links
<1>2. l = [x \in DOMAIN l |-> l[x]] /\ DOMAIN l = Fields BY DEF Link!Links, Fields
<1>3. Fielded(l) BY <1>1 DEF Fielded, Link!Links, Link!Boots
<1> QED BY <1>1, <1>2, <1>3, RecordIsLink

(* The hooks go. *)
LEMMA Unhooked ==
    ASSUME NEW k \in Link!Links, NEW l,
           l = [k EXCEPT !.hooks = FALSE]
    PROVE  /\ l \in Link!Links /\ l.desired = k.desired /\ l.busy = k.busy
           /\ l.connected = k.connected /\ l.gen = k.gen
           /\ l.attempt = k.attempt /\ l.base = k.base /\ l.cap = k.cap
           /\ l.compared = k.compared /\ l.pin = k.pin
           /\ l.retrying = k.retrying /\ l.resyncing = k.resyncing
           /\ l.hooks = FALSE /\ l.with = k.with
<1>1. /\ l.desired = k.desired /\ l.busy = k.busy
      /\ l.connected = k.connected /\ l.gen = k.gen
      /\ l.attempt = k.attempt /\ l.base = k.base /\ l.cap = k.cap
      /\ l.compared = k.compared /\ l.pin = k.pin
      /\ l.retrying = k.retrying /\ l.resyncing = k.resyncing
      /\ l.hooks = FALSE /\ l.with = k.with
  BY DEF Link!Links
<1>2. l = [x \in DOMAIN l |-> l[x]] /\ DOMAIN l = Fields BY DEF Link!Links, Fields
<1>3. Fielded(l) BY <1>1 DEF Fielded, Link!Links, Link!Boots
<1> QED BY <1>1, <1>2, <1>3, RecordIsLink

(* A controlled resynchronisation. *)
LEMMA Resyncing ==
    ASSUME NEW k \in Link!Links, NEW l,
           l = [k EXCEPT !.resyncing = TRUE]
    PROVE  /\ l \in Link!Links /\ l.desired = k.desired /\ l.busy = k.busy
           /\ l.connected = k.connected /\ l.gen = k.gen
           /\ l.attempt = k.attempt /\ l.base = k.base /\ l.cap = k.cap
           /\ l.compared = k.compared /\ l.pin = k.pin
           /\ l.retrying = k.retrying /\ l.resyncing = TRUE
           /\ l.hooks = k.hooks /\ l.with = k.with
<1>1. /\ l.desired = k.desired /\ l.busy = k.busy
      /\ l.connected = k.connected /\ l.gen = k.gen
      /\ l.attempt = k.attempt /\ l.base = k.base /\ l.cap = k.cap
      /\ l.compared = k.compared /\ l.pin = k.pin
      /\ l.retrying = k.retrying /\ l.resyncing = TRUE
      /\ l.hooks = k.hooks /\ l.with = k.with
  BY DEF Link!Links
<1>2. l = [x \in DOMAIN l |-> l[x]] /\ DOMAIN l = Fields BY DEF Link!Links, Fields
<1>3. Fielded(l) BY <1>1 DEF Fielded, Link!Links, Link!Boots
<1> QED BY <1>1, <1>2, <1>3, RecordIsLink

(* A gap. *)
LEMMA TearingKeeps ==
    ASSUME NEW k \in Link!Links, NEW l,
           l = [k EXCEPT !.connected = FALSE, !.busy = TRUE, !.cap = NoLink,
                !.compared = NoLink, !.gen = @ + 1]
    PROVE  /\ l \in Link!Links /\ l.desired = k.desired /\ l.busy = TRUE
           /\ l.connected = FALSE /\ l.gen = k.gen + 1
           /\ l.attempt = k.attempt /\ l.base = k.base /\ l.cap = NoLink
           /\ l.compared = NoLink /\ l.pin = k.pin
           /\ l.retrying = k.retrying /\ l.resyncing = k.resyncing
           /\ l.hooks = k.hooks /\ l.with = k.with
<1>1. /\ l.desired = k.desired /\ l.busy = TRUE
      /\ l.connected = FALSE /\ l.gen = k.gen + 1
      /\ l.attempt = k.attempt /\ l.base = k.base /\ l.cap = NoLink
      /\ l.compared = NoLink /\ l.pin = k.pin
      /\ l.retrying = k.retrying /\ l.resyncing = k.resyncing
      /\ l.hooks = k.hooks /\ l.with = k.with
  BY DEF Link!Links
<1>2. l = [x \in DOMAIN l |-> l[x]] /\ DOMAIN l = Fields BY DEF Link!Links, Fields
<1>3. Fielded(l) BY <1>1 DEF Fielded, Link!Links, Link!Boots
<1> QED BY <1>1, <1>2, <1>3, RecordIsLink

(* What is spent was left, and the rest of the budget is kept. *)
LEMMA SpendKeeps ==
    ASSUME Typed, NEW what \in {"daemons", "strokes", "saves", "faults", "clicks"},
           Link!Spend(what)
    PROVE  /\ left' \in Link!Allowances /\ ~left.late /\ left'.late = left.late
           /\ left[what] \in Nat \ {0}
           /\ left'.daemons = IF what = "daemons" THEN left.daemons - 1 ELSE left.daemons
<1>1. left \in Link!Allowances /\ ~left.late /\ left[what] > 0
      /\ left' = [left EXCEPT ![what] = @ - 1]
  BY DEF Typed, Link!TypeOK, Link!Spend
<1>2. CASE what = "daemons" BY <1>1, <1>2 DEF Link!Allowances
<1>3. CASE what = "strokes" BY <1>1, <1>3 DEF Link!Allowances
<1>4. CASE what = "saves" BY <1>1, <1>4 DEF Link!Allowances
<1>5. CASE what = "faults" BY <1>1, <1>5 DEF Link!Allowances
<1>6. CASE what = "clicks" BY <1>1, <1>6 DEF Link!Allowances
<1> QED BY <1>2, <1>3, <1>4, <1>5, <1>6

(* The fields of the link. *)
LEMMA LinkIsTyped ==
    ASSUME Typed
    PROVE  /\ link \in Link!Links /\ Fielded(link) /\ link.gen \in Nat /\ link.attempt \in Nat
           /\ NoLink \notin Nat /\ NoLink \notin Urls /\ NoLink \notin Projects
<1>1. link \in Link!Links /\ NoLink \notin Nat /\ NoLink \notin Urls /\ NoLink \notin Projects
  BY DEF Typed, Link!TypeOK, Link!LinkAssumption
<1>2. Fielded(link) BY <1>1 DEF Fielded, Link!Links
<1> QED BY <1>1, <1>2 DEF Fielded

(* Generations and attempts are numbers. *)
LEMMA TasksAreTyped ==
    ASSUME Typed
    PROVE  /\ \A x \in compares : x.gen \in Nat /\ x.dirty \in BOOLEAN
           /\ \A x \in timers : x.gen \in Nat
           /\ \A x \in restarts : x.gen \in Nat
           /\ \A x \in loops : x.gen \in Nat
           /\ \A a \in attempts : a.n \in Nat
BY DEF Typed, Link!TypeOK, Link!Compares, Link!Timers, Link!Restarts, Link!Loops, Link!Tries

(* A comparison, a timer or a restart of the present generation is the one thing that goes
   on. *)
LEMMA ComparerWorks ==
    ASSUME LinkInv, NEW c \in compares, c.gen = link.gen
    PROVE  /\ link.desired /\ link.busy /\ ~link.connected /\ ~link.retrying /\ NoTry
           /\ \A d \in compares : d.gen = link.gen => d = c
           /\ Absent(timers, link.gen) /\ Absent(restarts, link.gen) /\ Absent(loops, link.gen)
BY DEF LinkInv, OneGoes, Live, Idle, Trying, Working, Nobody, Alone, Absent, LinkIsSet

(* While a timer of the link's generation is there, nothing else goes on. *)
LEMMA TimerWorks ==
    ASSUME LinkInv, NEW t \in timers, t.gen = link.gen
    PROVE  /\ link.desired /\ link.busy /\ ~link.connected /\ NoTry
           /\ \A d \in timers : d.gen = link.gen => d = t
           /\ link.retrying => t.at = "waiting"
           /\ Absent(compares, link.gen) /\ Absent(restarts, link.gen)
                /\ Absent(loops, link.gen)
BY DEF LinkInv, OneGoes, Live, Idle, Trying, Working, Nobody, Alone, Absent, LinkIsSet

(* While a restart of the link's generation is there, nothing else goes on. *)
LEMMA RestartWorks ==
    ASSUME LinkInv, NEW r \in restarts, r.gen = link.gen
    PROVE  /\ link.desired /\ link.busy /\ ~link.connected /\ ~link.retrying /\ NoTry
           /\ \A d \in restarts : d.gen = link.gen => d = r
           /\ Absent(compares, link.gen) /\ Absent(timers, link.gen) /\ Absent(loops, link.gen)
BY DEF LinkInv, OneGoes, Live, Idle, Trying, Working, Nobody, Alone, Absent, LinkIsSet

(* So is the latest attempt, until it begins a comparison. *)
LEMMA TryWorks ==
    ASSUME LinkInv, NEW a \in attempts, a.n = link.attempt
    PROVE  /\ link.busy /\ ~link.connected /\ ~link.retrying /\ Nobody
           /\ link.desired <=> a.at = "configuring"
           /\ \A b \in attempts : b.n = link.attempt => b = a
           /\ Absent(loops, link.gen)
BY DEF LinkInv, OneGoes, Live, Idle, Trying, Working, Nobody, NoTry, Absent, LinkIsSet

(* A loop of the present generation is the link's. *)
LEMMA LoopLives ==
    ASSUME LinkInv, NEW l \in loops, l.gen = link.gen
    PROVE  /\ link.connected /\ link.desired /\ ~link.busy /\ link.hooks /\ ~link.retrying
           /\ Nobody /\ NoTry /\ \A m \in loops : m.gen = link.gen => m = l
BY DEF LinkInv, OneGoes, Live, Idle, Trying, Working, Alone, Absent, LinkIsSet

(* What is connected has a loop, and nothing is installed then. *)
LEMMA LinkIsLive ==
    ASSUME LinkInv, link.connected
    PROVE  /\ \E l \in loops : l.gen = link.gen
           /\ link.desired /\ ~link.busy /\ link.hooks /\ ~link.retrying /\ Nobody /\ NoTry
           /\ \A c \in compares : c.at # "installing"
<1>1. Live BY DEF LinkInv, OneGoes, Idle, Trying, Working
<1>2. link.desired /\ ~link.busy /\ link.hooks /\ ~link.retrying BY DEF LinkInv, LinkIsSet
<1>3. \A c \in compares : c.at # "installing"
  BY <1>1, <1>2 DEF LinkInv, HooksAreOne, Live, Nobody, Absent
<1> QED BY <1>1, <1>2, <1>3 DEF Live, Alone

(* What is wanted, alive and latest is of the present generation. *)
LEMMA WantedIsOwn ==
    ASSUME LinkInv
    PROVE  /\ \A c \in compares : Link!Wanted(c) <=> c.gen = link.gen
           /\ \A t \in timers : Link!Wanted(t) <=> t.gen = link.gen
           /\ \A r \in restarts : Link!Wanted(r) <=> r.gen = link.gen
           /\ \A l \in loops : Link!Alive(l) <=> l.gen = link.gen
           /\ \A a \in attempts : Link!Latest(a) <=> a.n = link.attempt
BY ComparerWorks, TimerWorks, RestartWorks, LoopLives, TryWorks DEF Link!Wanted, Link!Alive,
   Link!Latest

-------------------------------------------------------------------------------
(* The clicks. *)
LEMMA ConnectKeeps ==
    ASSUME LinkInv, NEW u \in Urls, Link!Connect(u)
    PROVE  LinkInv'
<1> DEFINE a == [n |-> link'.attempt, url |-> u, at |-> "searching"]
<1>1. /\ ~link.connected /\ ~link.busy /\ Link!Spend("clicks")
      /\ link' = [link EXCEPT !.pin = NoLink, !.busy = TRUE, !.attempt = @ + 1]
      /\ attempts' = attempts \cup {a}
      /\ UNCHANGED <<Link!daemonVars, Link!dataVars, Link!wireVars, timers, compares,
                     restarts, loops, intended>>
  BY DEF Link!Connect
<1>2. Typed /\ link \in Link!Links /\ link.attempt \in Nat /\ Idle
  BY <1>1, LinkIsTyped DEF LinkInv, OneGoes, Live, Trying, Working
<1>3. /\ link' \in Link!Links /\ link'.desired = link.desired /\ link'.busy = TRUE
      /\ link'.connected = link.connected /\ link'.gen = link.gen
      /\ link'.attempt = link.attempt + 1 /\ link'.base = link.base /\ link'.cap = link.cap
      /\ link'.compared = link.compared /\ link'.pin = NoLink
      /\ link'.retrying = link.retrying /\ link'.hooks = link.hooks /\ link'.with = link.with
  <2>1. link \in Link!Links BY <1>2
  <2>2. link' = [link EXCEPT !.pin = NoLink, !.busy = TRUE, !.attempt = @ + 1] BY <1>1
  <2> QED BY ONLY <2>1, <2>2, Connecting, ZenonT(60)
<1> USE <1>2, <1>3, <1>1 DEF LinkInv
<1>4. a.n = link.attempt + 1 /\ a.at = "searching" /\ a \in Link!Tries BY DEF Link!Tries
<1>5. Typed'
  BY <1>4, SpendKeeps DEF Typed, Link!TypeOK, Link!daemonVars, Link!dataVars, Link!wireVars
<1>6. OneGoes' /\ Numbered'
  <2>1. \A b \in attempts : b.n <= link.attempt /\ b.n \in Nat BY TasksAreTyped DEF Numbered
  <2>2. Trying' BY <1>4, <2>1 DEF Trying, Nobody, Absent, Idle
  <2> QED BY <1>4, <2>1, <2>2 DEF OneGoes, Numbered, Absent
<1> HIDE DEF a
<1>7. LinkIsSet' /\ HooksAreOne'
  <2>1. \A b \in attempts : b.n <= link.attempt /\ b.n \in Nat BY TasksAreTyped DEF Numbered
  <2>2. LinkIsSet' BY DEF OneGoes, LinkIsSet, Idle, Nobody, Absent
  <2> QED BY <1>4, <2>1, <2>2, LinkIsTyped DEF HooksAreOne, Link!wireVars
<1>8. BootsAreNew' /\ CapIsBase' /\ ComparesKnow' /\ LoopsKnow' /\ LiveAgrees'
  BY SpendKeeps DEF BootsAreNew, KnownBoot, CapIsBase, ComparesKnow, LoopsKnow, LiveAgrees,
     Idle, Nobody, Absent, Link!daemonVars, Link!dataVars, Link!wireVars
<1> QED BY <1>5, <1>6, <1>7, <1>8

(* A cancel ends what goes on, and leaves only coroutines of older numbers. *)
LEMMA CancelKeeps ==
    ASSUME LinkInv, Link!Cancel
    PROVE  LinkInv'
<1>1. /\ ~link.connected /\ Link!Spend("clicks") /\ link' = Link!Cancelled
      /\ UNCHANGED <<Link!daemonVars, Link!dataVars, Link!wireVars, Link!taskVars, intended>>
  BY DEF Link!Cancel
<1>2. Typed /\ link \in Link!Links /\ link.attempt \in Nat /\ link.gen \in Nat
  BY LinkIsTyped DEF LinkInv
<1>3. /\ link' \in Link!Links /\ ~link'.desired /\ ~link'.busy /\ ~link'.connected
      /\ link'.gen = link.gen + 1 /\ link'.attempt = link.attempt + 1
      /\ link'.cap = NoLink /\ link'.compared = NoLink /\ link'.pin = NoLink
      /\ ~link'.retrying /\ link'.hooks = link.hooks /\ link'.with = link.with
  <2>1. link \in Link!Links BY <1>2
  <2>2. link' = [link EXCEPT !.desired = FALSE, !.retrying = FALSE, !.cap = NoLink,
                !.compared = NoLink, !.pin = NoLink, !.busy = FALSE, !.gen = @ + 1,
                !.attempt = @ + 1]
    BY <1>1 DEF Link!Cancelled
  <2>3. /\ link' \in Link!Links /\ link'.desired = FALSE /\ link'.busy = FALSE
        /\ link'.connected = link.connected /\ link'.gen = link.gen + 1
        /\ link'.attempt = link.attempt + 1
        /\ link'.cap = NoLink /\ link'.compared = NoLink /\ link'.pin = NoLink
        /\ link'.retrying = FALSE /\ link'.hooks = link.hooks /\ link'.with = link.with
    BY ONLY <2>1, <2>2, Cancelling, ZenonT(60)
  <2> QED BY <1>1, <2>3
<1>4. Typed'
  BY <1>1, <1>2, <1>3, SpendKeeps DEF Typed, Link!TypeOK, Link!daemonVars, Link!dataVars,
     Link!wireVars, Link!taskVars
<1>5. /\ \A x \in compares : x.gen < link'.gen
      /\ \A x \in timers : x.gen < link'.gen
      /\ \A x \in restarts : x.gen < link'.gen
      /\ \A x \in loops : x.gen < link'.gen
      /\ \A a \in attempts : a.n < link'.attempt
  BY <1>2, <1>3, TasksAreTyped DEF LinkInv, Numbered
<1> USE <1>2, <1>3, <1>1 DEF Link!taskVars, LinkInv
<1>6. /\ \A x \in compares : x.gen # link'.gen
      /\ \A x \in timers : x.gen # link'.gen
      /\ \A x \in restarts : x.gen # link'.gen
      /\ \A x \in loops : x.gen # link'.gen
      /\ \A a \in attempts : a.n # link'.attempt
  BY <1>5, TasksAreTyped
<1>7. OneGoes' /\ Numbered'
  BY <1>5, <1>6, TasksAreTyped DEF OneGoes, Idle, Nobody, NoTry, Absent, Numbered
<1>8. LinkIsSet' /\ HooksAreOne' BY <1>6 DEF LinkIsSet, HooksAreOne, Link!wireVars
<1>9. BootsAreNew' /\ CapIsBase' /\ ComparesKnow' /\ LoopsKnow' /\ LiveAgrees'
  BY <1>6, SpendKeeps DEF BootsAreNew, KnownBoot, CapIsBase, ComparesKnow, LoopsKnow,
     LiveAgrees, Link!daemonVars, Link!dataVars, Link!wireVars
<1> QED BY <1>4, <1>7, <1>8, <1>9

(* What a step spends of the budget is not a daemon. *)
Spent == left' \in Link!Allowances /\ ~left'.late /\ left'.daemons = left.daemons

(* A disconnect leaves nothing that goes on, and nothing on its way. *)
LEMMA DisconnectedKeeps ==
    ASSUME LinkInv, Link!Disconnected, Spent, compares' \subseteq compares,
           \A c \in compares' : c.at # "installing",
           UNCHANGED <<Link!daemonVars, Link!dataVars, attempts, timers, restarts, loops,
                       intended>>
    PROVE  LinkInv'
<1>1. /\ link' = [Link!Cancelled EXCEPT !.connected = FALSE, !.hooks = FALSE, !.base = NoLink]
      /\ ws' = NoLink /\ pending' = {} /\ outward' = {} /\ inward' = {} /\ slots' = slots
  BY DEF Link!Disconnected
<1>2. Typed /\ link \in Link!Links /\ link.attempt \in Nat /\ link.gen \in Nat
  BY LinkIsTyped DEF LinkInv
<1>3. /\ link' \in Link!Links /\ ~link'.desired /\ ~link'.busy /\ ~link'.connected
      /\ link'.gen = link.gen + 1 /\ link'.attempt = link.attempt + 1
      /\ link'.cap = NoLink /\ link'.compared = NoLink /\ link'.pin = NoLink
      /\ ~link'.retrying /\ ~link'.hooks /\ link'.with = link.with
  <2> DEFINE k == Link!Cancelled
  <2>1. /\ k \in Link!Links /\ k.desired = FALSE /\ k.busy = FALSE
        /\ k.gen = link.gen + 1 /\ k.attempt = link.attempt + 1
        /\ k.cap = NoLink /\ k.compared = NoLink /\ k.pin = NoLink
        /\ k.retrying = FALSE /\ k.with = link.with
    BY <1>2, Cancelling DEF Link!Cancelled
  <2>2. link' = [k EXCEPT !.connected = FALSE, !.hooks = FALSE, !.base = NoLink] BY <1>1
  <2> HIDE DEF k
  <2> QED BY ZenonT(60), <2>1, <2>2, Unhooking
<1>4. Typed'
  BY <1>1, <1>2, <1>3 DEF Spent, Typed, Link!TypeOK, Link!daemonVars, Link!dataVars,
     Link!Boots
<1>5. /\ \A x \in compares : x.gen < link'.gen
      /\ \A x \in timers : x.gen < link'.gen
      /\ \A x \in restarts : x.gen < link'.gen
      /\ \A x \in loops : x.gen < link'.gen
      /\ \A a \in attempts : a.n < link'.attempt
  BY <1>2, <1>3, TasksAreTyped DEF LinkInv, Numbered
<1>6. /\ \A x \in compares' : x.gen # link'.gen /\ x.gen <= link'.gen
      /\ \A x \in timers : x.gen # link'.gen /\ x.gen <= link'.gen
      /\ \A x \in restarts : x.gen # link'.gen /\ x.gen <= link'.gen
      /\ \A x \in loops : x.gen # link'.gen /\ x.gen <= link'.gen
      /\ \A a \in attempts : a.n # link'.attempt /\ a.n <= link'.attempt
  BY <1>2, <1>3, <1>5, TasksAreTyped
<1>7. OneGoes' /\ Numbered' BY <1>3, <1>6 DEF OneGoes, Idle, Nobody, NoTry, Absent, Numbered
<1>8. LinkIsSet' /\ HooksAreOne' BY <1>1, <1>3, <1>6 DEF LinkIsSet, HooksAreOne
<1>9. BootsAreNew' /\ CapIsBase' /\ ComparesKnow' /\ LoopsKnow' /\ LiveAgrees'
  BY <1>2, <1>3, <1>6 DEF Spent, LinkInv, BootsAreNew, KnownBoot, CapIsBase, ComparesKnow,
     LoopsKnow, LiveAgrees, Link!daemonVars
<1> QED BY <1>4, <1>7, <1>8, <1>9 DEF LinkInv

(* A budget but that of the daemons is spent without a new boot. *)
LEMMA SpendIsSpent ==
    ASSUME Typed, NEW what \in {"strokes", "saves", "faults", "clicks"}, Link!Spend(what)
    PROVE  Spent
BY SpendKeeps DEF Spent

(* Nor is there one while nothing is spent. *)
LEMMA LeftIsSpent ==
    ASSUME Typed, left' = left
    PROVE  Spent
BY DEF Spent, Typed, Link!TypeOK

(* A disconnect takes the hooks and the socket with it. *)
LEMMA DisconnectKeeps ==
    ASSUME LinkInv, Link!Disconnect
    PROVE  LinkInv'
<1>1. Spent /\ Link!Disconnected /\ \A c \in compares : c.at # "installing"
  BY SpendIsSpent, LinkIsLive DEF Link!Disconnect, LinkInv
<1> QED BY <1>1, DisconnectedKeeps DEF Link!Disconnect, Link!taskVars

-------------------------------------------------------------------------------
(* A step that leaves the daemons, the data and the comparisons alone. *)
LEMMA CalmData ==
    ASSUME LinkInv, Spent,
           UNCHANGED <<Link!daemonVars, Link!dataVars, Link!wireVars, compares, loops,
                       intended>>,
           link'.gen = link.gen, link'.cap = link.cap, link'.base = link.base,
           link'.compared = link.compared, link'.with = link.with,
           link'.connected = link.connected, link'.desired => link.desired
    PROVE  BootsAreNew' /\ CapIsBase' /\ ComparesKnow' /\ LoopsKnow' /\ LiveAgrees'
BY DEF LinkInv, Spent, BootsAreNew, KnownBoot, CapIsBase, ComparesKnow, LoopsKnow,
   LiveAgrees, Link!daemonVars, Link!dataVars, Link!wireVars

(* The attempts. *)
LEMMA SearchedKeeps ==
    ASSUME LinkInv, NEW a \in attempts, Link!Searched(a)
    PROVE  LinkInv'
<1> DEFINE b == [a EXCEPT !.at = "validating"]
<1>1. /\ a.at = "searching" /\ \A c \in compares : c.at = "installing" => Link!Wanted(c)
      /\ UNCHANGED <<Link!daemonVars, Link!dataVars, Link!wireVars, timers, compares,
                     restarts, loops, intended, left>>
  BY DEF Link!Searched
<1> USE <1>1
<1>2. /\ Typed /\ link \in Link!Links /\ link.attempt \in Nat /\ Spent
      /\ Link!Latest(a) <=> a.n = link.attempt
  BY LinkIsTyped, WantedIsOwn, LeftIsSpent DEF LinkInv
<1>3. a \in Link!Tries /\ b \in Link!Tries /\ b.n = a.n /\ b.at = "validating"
  BY <1>2 DEF Typed, Link!TypeOK, Link!Tries
<1> HIDE DEF b
<1>4. CASE Link!Latest(a) /\ host[a.url] # NoLink /\ attempts' = (attempts \ {a}) \cup {b}
        /\ link' = link
  <2>1. a.n = link.attempt BY <1>2, <1>4
  <2>2. /\ link.busy /\ ~link.connected /\ ~link.retrying /\ Nobody
        /\ link.desired <=> a.at = "configuring"
        /\ \A d \in attempts : d.n = link.attempt => d = a
        /\ Absent(loops, link.gen)
    BY <2>1, TryWorks
  <2>3. \A c \in compares : c.at # "installing" BY <2>2, WantedIsOwn DEF Nobody, Absent
  <2> USE <1>3, <1>4 DEF LinkInv
  <2>4. Typed' BY <1>2 DEF Typed, Link!TypeOK, Link!daemonVars, Link!dataVars, Link!wireVars
  <2>5. OneGoes' /\ Numbered'
    <3>1. Trying' BY <2>1, <2>2 DEF Trying, Nobody, Absent
    <3> QED BY <2>2, <3>1 DEF OneGoes, Numbered, Absent
  <2>6. LinkIsSet' /\ HooksAreOne' BY <2>3 DEF LinkIsSet, HooksAreOne, Link!wireVars
  <2> QED BY <1>2, <2>4, <2>5, <2>6, CalmData
<1>5. CASE /\ Link!Latest(a) /\ attempts' = attempts \ {a}
           /\ link' = [link EXCEPT !.busy = FALSE]
  <2>1. a.n = link.attempt BY <1>2, <1>5
  <2>2. /\ link.busy /\ ~link.connected /\ ~link.retrying /\ Nobody
        /\ link.desired <=> a.at = "configuring"
        /\ \A d \in attempts : d.n = link.attempt => d = a
        /\ Absent(loops, link.gen)
    BY <2>1, TryWorks
  <2>3. /\ link' \in Link!Links /\ link'.desired = link.desired /\ ~link'.busy
        /\ link'.connected = link.connected /\ link'.gen = link.gen
        /\ link'.attempt = link.attempt /\ link'.base = link.base /\ link'.cap = link.cap
        /\ link'.compared = link.compared /\ link'.pin = link.pin
        /\ link'.retrying = link.retrying /\ link'.hooks = link.hooks /\ link'.with = link.with
    BY ZenonT(60), <1>2, <1>5, GivingUp
  <2> USE <1>5, <2>3, <2>2 DEF LinkInv
  <2>4. Typed'
    BY <1>2, <1>3 DEF Typed, Link!TypeOK, Link!daemonVars, Link!dataVars, Link!wireVars
  <2>5. OneGoes' /\ Numbered'
    <3>1. Idle' BY <1>3, <2>1 DEF Idle, Nobody, NoTry, Absent
    <3> QED BY <3>1 DEF OneGoes, Numbered, Absent
  <2>6. LinkIsSet' /\ HooksAreOne' BY DEF LinkIsSet, HooksAreOne, Link!wireVars
  <2> QED BY <1>2, <2>4, <2>5, <2>6, CalmData
<1>6. CASE ~Link!Latest(a) /\ attempts' = attempts \ {a} /\ link' = link
  <2> USE <1>2, <1>6 DEF LinkInv
  <2>1. Typed' BY DEF Typed, Link!TypeOK, Link!daemonVars, Link!dataVars, Link!wireVars
  <2>2. OneGoes' /\ Numbered'
    BY DEF OneGoes, Live, Idle, Trying, Working, Nobody, NoTry, Alone, Absent, Numbered
  <2>3. LinkIsSet' /\ HooksAreOne' BY DEF LinkIsSet, HooksAreOne, Link!wireVars
  <2> QED BY <2>1, <2>2, <2>3, CalmData
<1> QED BY <1>4, <1>5, <1>6 DEF Link!Searched, b

(* A daemon that answers takes the attempt on; without one nobody tries. *)
LEMMA ValidatedKeeps ==
    ASSUME LinkInv, NEW a \in attempts, Link!Validated(a)
    PROVE  LinkInv'
<1> DEFINE b == [a EXCEPT !.at = "configuring"]
<1>1. /\ a.at = "validating"
      /\ UNCHANGED <<Link!daemonVars, Link!dataVars, Link!wireVars, timers, compares,
                     restarts, loops, left>>
  BY DEF Link!Validated
<1>2. /\ Typed /\ link \in Link!Links /\ link.attempt \in Nat /\ Spent
      /\ Link!Latest(a) <=> a.n = link.attempt
  BY <1>1, LinkIsTyped, WantedIsOwn, LeftIsSpent DEF LinkInv
<1>3. a \in Link!Tries /\ a.url \in Urls /\ b \in Link!Tries /\ b.n = a.n
        /\ b.at = "configuring"
  BY <1>2 DEF Typed, Link!TypeOK, Link!Tries
<1> HIDE DEF b
<1>4. CASE ~Link!Latest(a) /\ attempts' = attempts \ {a} /\ link' = link /\ intended' = intended
  <2> USE <1>1, <1>2, <1>4 DEF LinkInv
  <2>1. Typed' BY DEF Typed, Link!TypeOK, Link!daemonVars, Link!dataVars, Link!wireVars
  <2>2. OneGoes' /\ Numbered'
    BY DEF OneGoes, Live, Idle, Trying, Working, Nobody, NoTry, Alone, Absent, Numbered
  <2>3. LinkIsSet' /\ HooksAreOne' BY DEF LinkIsSet, HooksAreOne, Link!wireVars
  <2> QED BY <2>1, <2>2, <2>3, CalmData
<1>5. ASSUME Link!Latest(a)
      PROVE  /\ a.n = link.attempt /\ link.busy /\ ~link.connected /\ ~link.retrying /\ Nobody
             /\ ~link.desired
             /\ \A d \in attempts : d.n = link.attempt => d = a
             /\ Absent(loops, link.gen)
             /\ \A c \in compares : c.at # "installing"
  <2>1. a.n = link.attempt BY <1>2, <1>5
  <2> QED BY <1>1, <2>1, TryWorks DEF LinkInv, HooksAreOne
<1>6. CASE /\ Link!Latest(a) /\ attempts' = attempts \ {a} /\ intended' = intended
           /\ link' = [link EXCEPT !.desired = FALSE, !.busy = FALSE]
  <2>3. /\ link' \in Link!Links /\ ~link'.desired /\ ~link'.busy
        /\ link'.connected = link.connected /\ link'.gen = link.gen
        /\ link'.attempt = link.attempt /\ link'.base = link.base /\ link'.cap = link.cap
        /\ link'.compared = link.compared /\ link'.pin = link.pin
        /\ link'.retrying = link.retrying /\ link'.hooks = link.hooks /\ link'.with = link.with
    BY ZenonT(60), <1>2, <1>6, Failing
  <2> USE <1>1, <1>6, <2>3, <1>5 DEF LinkInv
  <2>4. Typed'
    BY <1>2, <1>3 DEF Typed, Link!TypeOK, Link!daemonVars, Link!dataVars, Link!wireVars
  <2>5. OneGoes' /\ Numbered'
    <3>1. Idle' BY DEF Idle, Nobody, NoTry, Absent
    <3> QED BY <3>1 DEF OneGoes, Numbered, Absent
  <2>6. LinkIsSet' /\ HooksAreOne' BY DEF LinkIsSet, HooksAreOne, Link!wireVars
  <2> QED BY <1>2, <2>4, <2>5, <2>6, CalmData
<1>7. CASE /\ Link!Latest(a) /\ host[a.url] # NoLink /\ attempts' = (attempts \ {a}) \cup {b}
           /\ link' = [link EXCEPT !.desired = TRUE, !.cap = Link!BootAt(a.url),
                       !.compared = NoLink,
                                   !.pin = host[a.url].project, !.base = a.url]
           /\ intended' = IF a.n = link.attempt THEN host[a.url].project ELSE intended
  <2>1. Link!BootAt(a.url) = At(host, a.url) /\ At(host, a.url) \in Link!Boots
          /\ host[a.url].project \in Projects
    BY <1>2, <1>3, <1>7, Bridge, HostsAreTyped
  <2>2. intended' = host[a.url].project BY <1>5, <1>7
  <2>3. /\ link' \in Link!Links /\ link'.desired /\ link'.busy = link.busy
        /\ link'.connected = link.connected /\ link'.gen = link.gen
        /\ link'.attempt = link.attempt /\ link'.base = a.url /\ link'.cap = At(host, a.url)
        /\ link'.compared = NoLink /\ link'.pin = host[a.url].project
        /\ link'.retrying = link.retrying /\ link'.hooks = link.hooks /\ link'.with = link.with
    <3> DEFINE p == host[a.url].project
               n == Link!BootAt(a.url)
               u == a.url
    <3>1. /\ n \in Link!Boots /\ p \in Projects /\ u \in Urls
          /\ link' = [link EXCEPT !.desired = TRUE, !.cap = n, !.compared = NoLink,
                      !.pin = p, !.base = u]
      BY <1>3, <1>7, <2>1
    <3> USE <1>2, <3>1 DEF Link!Links
    <3> HIDE DEF p, n, u
    <3>2. /\ link'.desired = TRUE /\ link'.busy = link.busy
          /\ link'.connected = link.connected /\ link'.gen = link.gen
          /\ link'.attempt = link.attempt /\ link'.base = u /\ link'.cap = n
          /\ link'.compared = NoLink /\ link'.pin = p
          /\ link'.retrying = link.retrying /\ link'.resyncing = link.resyncing
          /\ link'.hooks = link.hooks /\ link'.with = link.with
      OBVIOUS
    <3>3. link' = [x \in DOMAIN link' |-> link'[x]] /\ DOMAIN link' = Fields BY DEF Fields
    <3>4. Fielded(link') BY <3>2 DEF Fielded, Link!Boots
    <3>5. link' \in Link!Links BY <3>3, <3>4, RecordIsLink
    <3> QED BY <2>1, <3>2, <3>5 DEF p, n, u
  <2>4. Typed'
    BY <1>1, <1>2, <1>3, <1>7, <2>1, <2>2, <2>3 DEF Typed, Link!TypeOK, Link!daemonVars,
       Link!dataVars, Link!wireVars
  <2> USE <1>1, <1>3, <1>5, <1>7, <2>3 DEF Absent, LinkInv
  <2>5. OneGoes' /\ Numbered'
    <3>1. Trying' BY DEF Trying, Nobody
    <3> QED BY <3>1 DEF OneGoes, Numbered
  <2>6. LinkIsSet' /\ HooksAreOne'
    <3>1. a.url # NoLink BY <1>2, LinkIsTyped
    <3> QED BY <2>2, <3>1 DEF LinkIsSet, HooksAreOne, Link!wireVars, Nobody
  <2>7. BootsAreNew' /\ CapIsBase' /\ ComparesKnow' /\ LoopsKnow' /\ LiveAgrees'
    BY DEF BootsAreNew, KnownBoot, CapIsBase, ComparesKnow, LoopsKnow, LiveAgrees, Nobody,
       Link!daemonVars
  <2> QED BY <2>4, <2>5, <2>6, <2>7
<1>8. ~left.late BY <1>2 DEF Typed
<1> QED BY <1>4, <1>6, <1>7, <1>8 DEF Link!Validated, b

-------------------------------------------------------------------------------
(* A comparison begins: what it is handed is the link's daemon. *)
LEMMA BeginKeeps ==
    ASSUME LinkInv, Spent, NEW d \in Link!Compares, d \in compares',
           d.gen = link.gen, d.cap = link'.cap, d.at = "scanning", d.boot = NoLink,
           compares' \subseteq compares \cup {d},
           \A c \in compares' : c.gen = link.gen => c = d,
           \A c \in compares : c.at # "installing",
           timers' \subseteq timers, Absent(timers', link.gen),
           restarts' \subseteq restarts, Absent(restarts', link.gen),
           attempts' \subseteq attempts, \A a \in attempts' : a.n # link.attempt,
           Absent(loops, link.gen), ~link.connected,
           UNCHANGED <<Link!daemonVars, Link!dataVars, Link!wireVars, loops, intended>>,
           link' \in Link!Links, link'.desired, link'.busy, ~link'.connected, ~link'.retrying,
           link'.gen = link.gen, link'.attempt = link.attempt, link'.pin = link.pin,
           link'.hooks = link.hooks, link'.with = link.with, link'.compared = link.compared,
           link'.base # NoLink, KnownBoot(link'.cap),
           Runs(host, link'.cap) => At(host, link'.base) = link'.cap
    PROVE  LinkInv'
<1>1. Typed'
  BY DEF Spent, LinkInv, Typed, Link!TypeOK, Link!daemonVars, Link!dataVars, Link!wireVars
<1>2. OneGoes' /\ Numbered'
  <2>1. Working' BY DEF Working, NoTry, Alone, Absent
  <2>2. link.gen <= link.gen BY LinkIsTyped DEF LinkInv
  <2> QED BY <2>1, <2>2 DEF LinkInv, OneGoes, Numbered, Absent
<1>3. LinkIsSet' /\ HooksAreOne'
  BY DEF LinkInv, LinkIsSet, HooksAreOne, Link!wireVars, Absent
<1>4. BootsAreNew' /\ CapIsBase'
  BY DEF LinkInv, Spent, BootsAreNew, KnownBoot, CapIsBase, Link!daemonVars
<1>5. ComparesKnow' /\ LoopsKnow' /\ LiveAgrees'
  BY LinkIsTyped DEF LinkInv, ComparesKnow, LoopsKnow, LiveAgrees, Link!daemonVars, Runs,
     Absent
<1> QED BY <1>1, <1>2, <1>3, <1>4, <1>5 DEF LinkInv

(* A new try of a comparison is awaited. *)
LEMMA AwaitKeeps ==
    ASSUME LinkInv, Spent, NEW t, t = [gen |-> link.gen, at |-> "waiting", pin |-> NoLink],
           t \in timers', timers' \subseteq timers \cup {t},
           \A x \in timers' : x.gen = link.gen => x = t,
           compares' \subseteq compares, Absent(compares', link.gen),
           Absent(restarts, link.gen),
           \A c \in compares : c.at # "installing", NoTry,
           Absent(loops, link.gen), ~link.connected, link.desired,
           link' = [link EXCEPT !.retrying = TRUE, !.busy = TRUE],
           UNCHANGED <<Link!daemonVars, Link!dataVars, Link!wireVars, attempts, restarts,
                       loops, intended>>
    PROVE  LinkInv'
<1>1. /\ t \in Link!Timers /\ t.gen = link.gen /\ t.at = "waiting" /\ t.pin = NoLink
      /\ link.gen <= link.gen /\ link \in Link!Links
  BY LinkIsTyped DEF LinkInv, Link!Timers
<1>2. /\ link' \in Link!Links /\ link'.desired = link.desired /\ link'.busy
      /\ link'.connected = link.connected /\ link'.gen = link.gen
      /\ link'.attempt = link.attempt /\ link'.base = link.base /\ link'.cap = link.cap
      /\ link'.compared = link.compared /\ link'.pin = link.pin
      /\ link'.retrying /\ link'.hooks = link.hooks /\ link'.with = link.with
  <2>1. link \in Link!Links BY <1>1
  <2>2. link' = [link EXCEPT !.retrying = TRUE, !.busy = TRUE] OBVIOUS
  <2> QED BY ONLY <2>1, <2>2, TryingAgain, Zenon
<1>3. Typed'
  BY <1>1, <1>2 DEF Spent, LinkInv, Typed, Link!TypeOK, Link!daemonVars, Link!dataVars,
     Link!wireVars
<1> USE <1>2 DEF Absent, LinkInv
<1>4. OneGoes' /\ Numbered'
  <2>1. Working' BY <1>1 DEF Working, NoTry, Alone
  <2> QED BY <1>1, <2>1 DEF OneGoes, Numbered
<1>5. LinkIsSet' /\ HooksAreOne' BY <1>1 DEF LinkIsSet, HooksAreOne, Link!wireVars
<1>6. BootsAreNew' /\ CapIsBase'
  BY DEF Spent, BootsAreNew, KnownBoot, CapIsBase, Link!daemonVars
<1>7. ComparesKnow' /\ LoopsKnow' /\ LiveAgrees' BY DEF ComparesKnow, LoopsKnow, LiveAgrees
<1> QED BY <1>3, <1>4, <1>5, <1>6, <1>7

(* A comparison that was disturbed is to begin again. *)
LEMMA QueueKeeps ==
    ASSUME LinkInv, Spent, link' = link, NEW c \in compares, c.gen = link.gen,
           c.at # "installing", compares' = compares \ {c},
           restarts' = restarts \cup {[gen |-> link.gen]},
           UNCHANGED <<Link!daemonVars, Link!dataVars, Link!wireVars, attempts, timers,
                       loops, intended>>
    PROVE  LinkInv'
<1> DEFINE r == [gen |-> link.gen]
<1>1. /\ r \in Link!Restarts /\ r.gen = link.gen /\ link.gen <= link.gen
      /\ \A x \in restarts' : x \in restarts \/ x = r
  BY LinkIsTyped DEF LinkInv, Link!Restarts
<1>2. r \in restarts' OBVIOUS
<1> HIDE DEF r
<1>3. /\ link.desired /\ link.busy /\ ~link.connected /\ ~link.retrying /\ NoTry
      /\ \A d \in compares : d.gen = link.gen => d = c
      /\ Absent(timers, link.gen) /\ Absent(restarts, link.gen) /\ Absent(loops, link.gen)
  BY ComparerWorks
<1> USE <1>3 DEF LinkInv
<1>4. \A d \in compares : d.at # "installing" BY DEF HooksAreOne
<1>5. Typed'
  BY <1>1 DEF Spent, Typed, Link!TypeOK, Link!daemonVars, Link!dataVars, Link!wireVars
<1>6. OneGoes' /\ Numbered'
  <2>1. Working' BY <1>1, <1>2 DEF Working, NoTry, Alone, Absent
  <2> QED BY <1>1, <1>2, <2>1 DEF OneGoes, Numbered, Absent
<1>7. LinkIsSet' /\ HooksAreOne'
  BY <1>1, <1>2, <1>4 DEF LinkIsSet, HooksAreOne, Link!wireVars, Absent
<1>8. BootsAreNew' /\ CapIsBase'
  BY DEF Spent, BootsAreNew, KnownBoot, CapIsBase, Link!daemonVars
<1>9. ComparesKnow' /\ LoopsKnow' /\ LiveAgrees'
  BY DEF ComparesKnow, LoopsKnow, LiveAgrees, Absent
<1> QED BY <1>5, <1>6, <1>7, <1>8, <1>9

(* What a comparison's end hands over. *)
LEMMA RestartAfterKeeps ==
    ASSUME LinkInv, Spent, NEW c \in compares, Link!Wanted(c), c.at # "installing",
           Link!RestartAfter(c),
           UNCHANGED <<Link!daemonVars, Link!dataVars, Link!wireVars, attempts, loops,
                       intended>>
    PROVE  LinkInv'
BY QueueKeeps DEF Link!RestartAfter, Link!Ends, Link!Wanted

(* A comparison that fails hands over to a timer, or ends. *)
LEMMA RetryAfterKeeps ==
    ASSUME LinkInv, Spent, NEW c \in compares, Link!Wanted(c), c.at # "installing",
           Link!RetryAfter(c),
           UNCHANGED <<Link!daemonVars, Link!dataVars, Link!wireVars, attempts, loops,
                       intended>>
    PROVE  LinkInv'
<1> DEFINE t == [gen |-> link.gen, at |-> "waiting", pin |-> NoLink]
<1>1. c.gen = link.gen BY DEF Link!Wanted
<1>2. /\ link.desired /\ link.busy /\ ~link.connected /\ ~link.retrying /\ NoTry
      /\ \A d \in compares : d.gen = link.gen => d = c
      /\ Absent(timers, link.gen) /\ Absent(restarts, link.gen) /\ Absent(loops, link.gen)
  BY <1>1, ComparerWorks
<1>3. \A d \in compares : d.at # "installing" BY <1>2 DEF LinkInv, HooksAreOne
<1>4. link' = [link EXCEPT !.retrying = TRUE, !.busy = TRUE] /\ timers' = timers \cup {t}
  BY <1>2 DEF Link!RetryAfter, Link!Retried, Link!TimerOf
<1>5. compares' = compares \ {c} /\ restarts' = restarts BY DEF Link!RetryAfter, Link!Ends
<1>6. /\ \A x \in timers' : x.gen = link.gen => x = t
      /\ Absent(compares', link.gen)
  BY <1>2, <1>4, <1>5 DEF Absent
<1> HIDE DEF t
<1> QED BY <1>2, <1>3, <1>4, <1>5, <1>6, AwaitKeeps DEF t

-------------------------------------------------------------------------------
(* The comparison that the link begins with. *)
LEMMA ComparingIs ==
    ASSUME NEW k \in Link!Links, NEW d, d = Link!Comparing(k)
    PROVE  /\ d \in Link!Compares /\ d.gen = k.gen /\ d.cap = k.cap /\ d.at = "scanning"
           /\ d.boot = NoLink /\ d.dirty = FALSE
BY DEF Link!Comparing, Link!Compares, Link!Links, Link!Boots

(* An attempt hands over to a comparison of the daemon it has found. *)
LEMMA ConfiguredKeeps ==
    ASSUME LinkInv, NEW a \in attempts, Link!Configured(a)
    PROVE  LinkInv'
<1> DEFINE d == Link!Comparing(link)
<1>1. /\ a.at = "configuring" /\ attempts' = attempts \ {a} /\ link' = link
      /\ compares' = IF Link!Latest(a) \/ left.late THEN compares \cup {d} ELSE compares
      /\ UNCHANGED <<Link!daemonVars, Link!dataVars, Link!wireVars, timers, restarts,
                     loops, intended, left>>
  BY DEF Link!Configured
<1>2. /\ Typed /\ link \in Link!Links /\ Spent /\ ~left.late
      /\ Link!Latest(a) <=> a.n = link.attempt
  BY <1>1, LinkIsTyped, WantedIsOwn, LeftIsSpent DEF LinkInv, Typed
<1> USE <1>2, <1>1
<1>3. /\ d \in Link!Compares /\ d.gen = link.gen /\ d.cap = link.cap /\ d.at = "scanning"
           /\ d.boot = NoLink
  BY ComparingIs
<1> HIDE DEF d
<1>4. CASE Link!Latest(a)
  <2>1. /\ link.busy /\ ~link.connected /\ ~link.retrying /\ Nobody /\ link.desired
        /\ \A b \in attempts : b.n = link.attempt => b = a
        /\ Absent(loops, link.gen)
    BY <1>4, TryWorks
  <2>2. \A c \in compares : c.at # "installing" BY <1>4 DEF LinkInv, HooksAreOne
  <2>3. /\ Absent(timers, link.gen) /\ Absent(restarts, link.gen) /\ Absent(compares, link.gen)
        /\ link.base # NoLink /\ KnownBoot(link.cap)
        /\ Runs(host, link.cap) => At(host, link.base) = link.cap
    BY <2>1 DEF Nobody, LinkInv, LinkIsSet, BootsAreNew, CapIsBase
  <2>4. /\ compares' = compares \cup {d} /\ d \in compares'
        /\ \A c \in compares' : c.gen = link.gen => c = d
        /\ \A b \in attempts' : b.n # link.attempt
    BY <1>4, <2>1, <2>3 DEF Absent
  <2>5. UNCHANGED <<Link!daemonVars, Link!dataVars, Link!wireVars, loops, intended>>
          /\ timers' = timers /\ restarts' = restarts
    OBVIOUS
  <2> QED BY <1>3, <2>1, <2>2, <2>3, <2>4, <2>5, BeginKeeps
<1>5. CASE ~Link!Latest(a)
  <2> USE <1>5 DEF LinkInv
  <2>1. Typed' BY DEF Typed, Link!TypeOK, Link!daemonVars, Link!dataVars, Link!wireVars
  <2>2. OneGoes' /\ Numbered'
    BY DEF OneGoes, Live, Idle, Trying, Working, Nobody, NoTry, Alone, Absent, Numbered
  <2>3. LinkIsSet' /\ HooksAreOne' BY DEF LinkIsSet, HooksAreOne, Link!wireVars
  <2> QED BY <2>1, <2>2, <2>3, CalmData
<1> QED BY <1>4, <1>5

(* A restart hands over to a comparison. *)
LEMMA RestartDueKeeps ==
    ASSUME LinkInv, NEW r \in restarts, Link!RestartDue(r)
    PROVE  LinkInv'
<1> DEFINE d == Link!Comparing(link)
<1>1. /\ restarts' = restarts \ {r} /\ link' = link
      /\ compares' = IF Link!Wanted(r) THEN compares \cup {d} ELSE compares
      /\ UNCHANGED <<Link!daemonVars, Link!dataVars, Link!wireVars, attempts, timers,
                     loops, intended, left>>
  BY DEF Link!RestartDue
<1>2. /\ Typed /\ link \in Link!Links /\ Spent
      /\ Link!Wanted(r) <=> r.gen = link.gen
  BY <1>1, LinkIsTyped, WantedIsOwn, LeftIsSpent DEF LinkInv, Typed
<1> USE <1>2, <1>1
<1>3. /\ d \in Link!Compares /\ d.gen = link.gen /\ d.cap = link.cap /\ d.at = "scanning"
           /\ d.boot = NoLink
  BY ComparingIs
<1> HIDE DEF d
<1>4. CASE Link!Wanted(r)
  <2>1. /\ link.desired /\ link.busy /\ ~link.connected /\ ~link.retrying /\ NoTry
        /\ \A x \in restarts : x.gen = link.gen => x = r
        /\ Absent(compares, link.gen) /\ Absent(timers, link.gen) /\ Absent(loops, link.gen)
    BY <1>4, RestartWorks
  <2>2. \A c \in compares : c.at # "installing" BY <2>1 DEF LinkInv, HooksAreOne, Absent
  <2>3. /\ link.base # NoLink /\ KnownBoot(link.cap)
        /\ Runs(host, link.cap) => At(host, link.base) = link.cap
    BY <2>1 DEF LinkInv, LinkIsSet, BootsAreNew, CapIsBase
  <2>4. /\ compares' = compares \cup {d} /\ d \in compares'
        /\ \A c \in compares' : c.gen = link.gen => c = d
        /\ \A b \in attempts : b.n # link.attempt
        /\ Absent(restarts', link.gen)
    BY <1>4, <2>1, <2>3 DEF Absent, NoTry
  <2>5. UNCHANGED <<Link!daemonVars, Link!dataVars, Link!wireVars, loops, intended>>
          /\ timers' = timers /\ attempts' = attempts
    OBVIOUS
  <2> QED BY <1>3, <2>1, <2>2, <2>3, <2>4, <2>5, BeginKeeps
<1>5. CASE ~Link!Wanted(r)
  <2> USE <1>5 DEF LinkInv
  <2>1. Typed' BY DEF Typed, Link!TypeOK, Link!daemonVars, Link!dataVars, Link!wireVars
  <2>2. OneGoes' /\ Numbered'
    BY DEF OneGoes, Live, Idle, Trying, Working, Nobody, NoTry, Alone, Absent, Numbered
  <2>3. LinkIsSet' /\ HooksAreOne' BY DEF LinkIsSet, HooksAreOne, Link!wireVars
  <2> QED BY <2>1, <2>2, <2>3, CalmData
<1> QED BY <1>4, <1>5

(* The daemon that refreshHello finds is known, and it is at the new base. *)
LEMMA RefreshedIs ==
    ASSUME LinkInv, NEW u \in Urls, host[u] # NoLink, NEW l, l = Link!Refreshed(u)
    PROVE  /\ l \in Link!Links /\ l.desired = link.desired /\ l.busy = link.busy
           /\ l.connected = link.connected /\ l.gen = link.gen /\ l.attempt = link.attempt
           /\ l.base = u /\ l.cap = At(host, u) /\ l.compared = link.compared
           /\ l.pin = link.pin /\ l.retrying = link.retrying
           /\ l.hooks = link.hooks /\ l.with = link.with
           /\ KnownBoot(At(host, u)) /\ u # NoLink /\ Link!BootAt(u) = At(host, u)
<1> DEFINE b == Link!BootAt(u)
<1>1. b = At(host, u) /\ b \in Link!Boots /\ link \in Link!Links /\ u # NoLink /\ KnownBoot(b)
  BY Bridge, HostsAreTyped, LinkIsTyped DEF LinkInv, BootsAreNew
<1>2. l = [link EXCEPT !.base = u, !.cap = b] BY DEF Link!Refreshed
<1> HIDE DEF b
<1>3. /\ l.desired = link.desired /\ l.busy = link.busy
      /\ l.connected = link.connected /\ l.gen = link.gen /\ l.attempt = link.attempt
      /\ l.base = u /\ l.cap = b /\ l.compared = link.compared
      /\ l.pin = link.pin /\ l.retrying = link.retrying /\ l.resyncing = link.resyncing
      /\ l.hooks = link.hooks /\ l.with = link.with
  BY <1>1, <1>2 DEF Link!Links
<1>4. l = [x \in DOMAIN l |-> l[x]] /\ DOMAIN l = Fields
  BY <1>1, <1>2 DEF Link!Links, Fields
<1>5. Fielded(l) BY <1>1, <1>3 DEF Fielded, Link!Links
<1>6. l \in Link!Links BY <1>4, <1>5, RecordIsLink
<1> QED BY <1>1, <1>3, <1>6 DEF b

(* A timer that is due asks, and the link no longer counts as retrying. *)
LEMMA TimerFiresKeeps ==
    ASSUME LinkInv, NEW t \in timers, Link!TimerFires(t)
    PROVE  LinkInv'
<1> DEFINE s == [t EXCEPT !.at = "asking", !.pin = link.pin]
<1>1. /\ t.at = "waiting" /\ link' = Link!Fired
      /\ timers' = IF Link!Wanted(t) THEN (timers \ {t}) \cup {s} ELSE timers \ {t}
      /\ UNCHANGED <<Link!daemonVars, Link!dataVars, Link!wireVars, attempts, compares,
                     restarts, loops, intended, left>>
  BY DEF Link!TimerFires
<1>2. /\ Typed /\ link \in Link!Links /\ Spent
      /\ Link!Wanted(t) <=> t.gen = link.gen
  BY <1>1, LinkIsTyped, WantedIsOwn, LeftIsSpent DEF LinkInv
<1>3. t \in Link!Timers /\ s \in Link!Timers /\ s.gen = t.gen /\ s.at = "asking"
        /\ s.pin = link.pin
  <2>1. t \in Link!Timers /\ link.pin \in Projects \cup {NoLink}
    BY <1>2 DEF Typed, Link!TypeOK, Link!Links
  <2> QED BY <2>1 DEF Link!Timers
<1> HIDE DEF s
<1>4. /\ link' \in Link!Links /\ link'.desired = link.desired /\ link'.busy = link.busy
      /\ link'.connected = link.connected /\ link'.gen = link.gen
      /\ link'.attempt = link.attempt /\ link'.base = link.base /\ link'.cap = link.cap
      /\ link'.compared = link.compared /\ link'.pin = link.pin
      /\ ~link'.retrying /\ link'.hooks = link.hooks /\ link'.with = link.with
  BY ZenonT(60), <1>1, <1>2, Firing DEF Link!Fired
<1> USE <1>1, <1>4
<1>5. Typed'
  BY <1>2, <1>3 DEF Typed, Link!TypeOK, Link!daemonVars, Link!dataVars, Link!wireVars
<1>6. CASE Link!Wanted(t)
  <2>1. /\ link.desired /\ link.busy /\ ~link.connected /\ NoTry
        /\ \A x \in timers : x.gen = link.gen => x = t
        /\ Absent(compares, link.gen) /\ Absent(restarts, link.gen) /\ Absent(loops, link.gen)
    BY <1>2, <1>6, TimerWorks
  <2>2. timers' = (timers \ {t}) \cup {s} /\ s.gen = link.gen BY <1>2, <1>3, <1>6
  <2> USE <1>3, <2>1, <2>2 DEF LinkInv
  <2>3. Working' BY DEF Working, NoTry, Alone, Absent
  <2>4. OneGoes' /\ Numbered' BY ZenonT(60), <2>3 DEF OneGoes, Numbered, Absent
  <2>5. LinkIsSet' /\ HooksAreOne' BY DEF LinkIsSet, HooksAreOne, Link!wireVars
  <2> QED BY <1>2, <1>5, <2>4, <2>5, CalmData
<1>7. CASE ~Link!Wanted(t)
  <2>1. timers' = timers \ {t} /\ t.gen # link.gen BY <1>2, <1>7
  <2>2. OneGoes' /\ Numbered'
    BY <2>1 DEF LinkInv, OneGoes, Live, Idle, Trying, Working, Nobody, NoTry, Alone, Absent,
       Numbered
  <2>3. LinkIsSet' /\ HooksAreOne'
    BY <2>1 DEF LinkInv, LinkIsSet, HooksAreOne, Link!wireVars
  <2> QED BY <1>2, <1>5, <2>2, <2>3, CalmData DEF LinkInv
<1> QED BY <1>6, <1>7

(* A timer that is answered hands over to a comparison, or to another timer. *)
LEMMA TimerAnsweredKeeps ==
    ASSUME LinkInv, NEW t \in timers, Link!TimerAnswered(t)
    PROVE  LinkInv'
<1>1. /\ t.at = "asking"
      /\ UNCHANGED <<Link!daemonVars, Link!dataVars, Link!wireVars, attempts, restarts,
                     loops, intended, left>>
  BY DEF Link!TimerAnswered
<1>2. /\ Typed /\ link \in Link!Links /\ Spent /\ ~left.late
      /\ Link!Wanted(t) <=> t.gen = link.gen
  BY <1>1, LinkIsTyped, WantedIsOwn, LeftIsSpent DEF LinkInv, Typed
<1>3. ASSUME Link!Wanted(t)
      PROVE  /\ link.desired /\ link.busy /\ ~link.connected /\ ~link.retrying /\ NoTry
             /\ \A x \in timers : x.gen = link.gen => x = t
             /\ Absent(compares, link.gen) /\ Absent(restarts, link.gen)
                  /\ Absent(loops, link.gen)
             /\ \A c \in compares : c.at # "installing"
  <2>1. /\ link.desired /\ link.busy /\ ~link.connected /\ ~link.retrying /\ NoTry
        /\ \A x \in timers : x.gen = link.gen => x = t
        /\ Absent(compares, link.gen) /\ Absent(restarts, link.gen) /\ Absent(loops, link.gen)
    BY <1>1, <1>2, <1>3, TimerWorks
  <2> QED BY <2>1 DEF LinkInv, HooksAreOne, Absent
<1>4. ASSUME NEW u \in Link!Matching(t.pin), Link!Wanted(t), link' = Link!Refreshed(u),
      timers' = timers \ {t},
             compares' = compares \cup {Link!Comparing(link')}
      PROVE  LinkInv'
  <2> DEFINE d == Link!Comparing(link')
  <2>1. u \in Urls /\ host[u] # NoLink BY <1>4 DEF Link!Matching
  <2>2. /\ link' \in Link!Links /\ link'.desired = link.desired /\ link'.busy = link.busy
        /\ link'.connected = link.connected /\ link'.gen = link.gen
        /\ link'.attempt = link.attempt /\ link'.base = u /\ link'.cap = At(host, u)
        /\ link'.compared = link.compared /\ link'.pin = link.pin
        /\ link'.retrying = link.retrying /\ link'.hooks = link.hooks /\ link'.with = link.with
        /\ KnownBoot(At(host, u)) /\ u # NoLink
    BY <1>4, <2>1, RefreshedIs
  <2>3. /\ d \in Link!Compares /\ d.gen = link'.gen /\ d.cap = link'.cap /\ d.at = "scanning"
        /\ d.boot = NoLink /\ compares' = compares \cup {d}
    BY ZenonT(60), <1>4, <2>2, ComparingIs
  <2> HIDE DEF d
  <2>4. /\ d \in compares' /\ \A c \in compares' : c.gen = link.gen => c = d
        /\ Absent(timers', link.gen) /\ Absent(restarts', link.gen) /\ restarts' = restarts
        /\ attempts' = attempts /\ \A b \in attempts' : b.n # link.attempt
    BY <1>1, <1>3, <1>4, <2>3 DEF Absent, NoTry
  <2>5. UNCHANGED <<Link!daemonVars, Link!dataVars, Link!wireVars, loops, intended>> BY <1>1
  <2> QED BY ZenonT(60), <1>2, <1>3, <1>4, <2>2, <2>3, <2>4, <2>5, BeginKeeps
<1>5. CASE /\ Link!Wanted(t) /\ link' = Link!Retried(link) /\ timers' = (timers \ {t}) \cup Link!TimerOf(link)
           /\ compares' = compares
  <2> DEFINE s == [gen |-> link.gen, at |-> "waiting", pin |-> NoLink]
  <2>1. link' = [link EXCEPT !.retrying = TRUE, !.busy = TRUE]
          /\ timers' = (timers \ {t}) \cup {s}
    BY <1>3, <1>5 DEF Link!Retried, Link!TimerOf
  <2> HIDE DEF s
  <2>2. s \in timers' /\ \A x \in timers' : x.gen = link.gen => x = s BY <1>3, <1>5, <2>1
  <2>3. UNCHANGED <<Link!daemonVars, Link!dataVars, Link!wireVars, attempts, restarts,
                    loops, intended>>
    BY <1>1
  <2> QED BY <1>2, <1>3, <1>5, <2>1, <2>2, <2>3, AwaitKeeps DEF s
<1>6. CASE ~Link!Wanted(t) /\ timers' = timers \ {t} /\ link' = link /\ compares' = compares
  <2>1. Typed'
    BY <1>1, <1>2, <1>6 DEF Typed, Link!TypeOK, Link!daemonVars, Link!dataVars,
       Link!wireVars
  <2>2. OneGoes' /\ Numbered'
    BY <1>1, <1>2, <1>6 DEF LinkInv, OneGoes, Live, Idle, Trying, Working, Nobody, NoTry,
       Alone, Absent, Numbered
  <2>3. LinkIsSet' /\ HooksAreOne'
    BY <1>1, <1>2, <1>6 DEF LinkInv, LinkIsSet, HooksAreOne, Link!wireVars
  <2> QED BY <1>1, <1>2, <1>6, <2>1, <2>2, <2>3, CalmData DEF LinkInv
<1> QED BY <1>2, <1>4, <1>5, <1>6 DEF Link!TimerAnswered

-------------------------------------------------------------------------------
(* The daemons. A boot is at one place, of one project. *)
LEMMA OfIsThere ==
    ASSUME NEW h, NEW b, b # NoLink, NEW v \in Urls, At(h, v) = b,
           \A u \in Urls : At(h, u) = b => u = v
    PROVE  Runs(h, b) /\ Of(h, b) = h[v].project
<1> DEFINE w == CHOOSE u \in Urls : At(h, u) = b
<1>1. w \in Urls /\ At(h, w) = b OBVIOUS
<1>2. Of(h, b) = h[w].project BY DEF Of
<1> HIDE DEF w
<1> QED BY <1>1, <1>2 DEF Runs

(* The hosts have turned: a boot that is known and runs has not moved, and none that is
   known has come back. *)
Turned ==
    \A b : KnownBoot(b) /\ Runs(host', b) =>
        /\ Runs(host, b) /\ Of(host', b) = Of(host, b)
        /\ \A u \in Urls : At(host, u) = b => At(host', u) = b

(* Where daemons only start or stop under new boots, the link is kept. *)
LEMMA TurnKeeps ==
    ASSUME LinkInv, Turned, Typed', BootsAreNew',
           UNCHANGED <<Link!dataVars, link, ws, pending, outward, inward, Link!taskVars,
                       intended>>
    PROVE  LinkInv'
<1> USE DEF LinkInv
<1>1. OneGoes' /\ Numbered' /\ LinkIsSet' /\ HooksAreOne'
  BY DEF OneGoes, Live, Idle, Trying, Working, Nobody, NoTry, Numbered, LinkIsSet,
     HooksAreOne, Link!taskVars
<1>2. link.desired => link.base \in Urls BY LinkIsTyped DEF LinkIsSet, Fielded
<1>3. CapIsBase' BY <1>2 DEF Turned, CapIsBase, BootsAreNew
<1>4. ComparesKnow'
  <2> SUFFICES ASSUME NEW c \in compares, c.gen = link.gen
               PROVE  /\ Runs(host', c.cap) => At(host', link.base) = c.cap
                      /\ c.at \notin {"scanning", "asking"} => c.boot # NoLink
                      /\ c.boot # NoLink /\ Runs(host', c.cap) => c.boot = c.cap
                      /\ c.at = "installing" => link.compared = c.cap /\ link.with = c.boot
                      /\ Runs(host', c.boot) /\ ~c.dirty /\ c.at \in {"compared", "installing"} =>
                            /\ studioEdits \subseteq diskEdits[Of(host', c.boot)]
                            /\ diskEdits[Of(host',
                                            c.boot)] \ studioEdits \subseteq unheard[Of(host', c.boot)]
    BY DEF ComparesKnow, Link!taskVars, Link!dataVars
  <2>1. link.base \in Urls BY <1>2, ComparerWorks
  <2>2. /\ Runs(host, c.cap) => At(host, link.base) = c.cap
        /\ c.at \notin {"scanning", "asking"} => c.boot # NoLink
        /\ c.boot # NoLink /\ Runs(host, c.cap) => c.boot = c.cap
        /\ c.at = "installing" => link.compared = c.cap /\ link.with = c.boot
        /\ Runs(host, c.boot) /\ ~c.dirty /\ c.at \in {"compared", "installing"} =>
              /\ studioEdits \subseteq diskEdits[Of(host, c.boot)]
              /\ diskEdits[Of(host, c.boot)] \ studioEdits \subseteq unheard[Of(host, c.boot)]
    BY DEF ComparesKnow
  <2>3. KnownBoot(c.cap) /\ KnownBoot(c.boot) BY DEF BootsAreNew
  <2> QED BY <2>1, <2>2, <2>3 DEF Turned
<1>5. LoopsKnow'
  <2>1. KnownBoot(link.cap) /\ KnownBoot(link.compared) BY DEF BootsAreNew
  <2> QED BY <2>1 DEF Turned, LoopsKnow, Link!taskVars
<1>6. LiveAgrees'
  <2>1. KnownBoot(link.with) BY DEF BootsAreNew
  <2> QED BY <2>1 DEF Turned, LiveAgrees, Link!dataVars
<1> QED BY <1>1, <1>3, <1>4, <1>5, <1>6

(* A daemon that starts is of a new boot. *)
LEMMA StartDaemonKeeps ==
    ASSUME LinkInv, NEW u \in Urls, NEW p \in Projects, Link!StartDaemon(u, p)
    PROVE  LinkInv'
<1> DEFINE n == left.daemons
<1>1. /\ Link!Spend("daemons") /\ host[u] = NoLink
      /\ host' = [host EXCEPT ![u] = [project |-> p, boot |-> left.daemons]]
      /\ UNCHANGED <<Link!dataVars, link, Link!wireVars, Link!taskVars, intended>>
  BY DEF Link!StartDaemon
<1>2. /\ Typed /\ left' \in Link!Allowances /\ ~left'.late /\ left'.daemons = n - 1 /\ n \in Nat
  BY <1>1, SpendKeeps DEF LinkInv
<1>3. /\ host \in [Urls -> {NoLink} \cup [project : Projects, boot : Nat]]
      /\ NoLink \notin [project : Projects, boot : Nat] /\ NoLink \notin Nat
  BY <1>2 DEF Typed, Link!TypeOK, Link!LinkAssumption
<1>4. [project |-> p, boot |-> n] \in [project : Projects, boot : Nat] BY <1>2
<1>5. host' \in [Urls -> {NoLink} \cup [project : Projects, boot : Nat]] BY <1>1, <1>3, <1>4
<1>6. /\ At(host', u) = n /\ At(host, u) = NoLink
      /\ \A v \in Urls : v # u => At(host', v) = At(host, v) /\ host'[v] = host[v]
  BY <1>1, <1>3, <1>4 DEF At
<1>7. Typed'
  BY <1>1, <1>2, <1>5 DEF Typed, Link!TypeOK, Link!dataVars, Link!wireVars, Link!taskVars
<1>8. \A v \in Urls : At(host, v) # NoLink => At(host, v) > n /\ At(host, v) \in Nat
  BY <1>2, HostsAreTyped DEF LinkInv, BootsAreNew, KnownBoot, Link!Boots
<1>9. ASSUME NEW b, KnownBoot(b) PROVE b = NoLink \/ b > n BY <1>9 DEF KnownBoot
<1> HIDE DEF n
<1>10. BootsAreNew'
  <2> DEFINE m == left'.daemons
  <2>1. \A b \in Link!Boots : KnownBoot(b) => (b # NoLink => b > m)
    BY <1>2, <1>9 DEF Link!Boots
  <2> HIDE DEF m
  <2>2. \A v, w \in Urls : At(host', v) = At(host', w) /\ At(host', v) # NoLink => v = w
    <3>1. \A v \in Urls : v # u => At(host', v) # n BY <1>2, <1>3, <1>6, <1>8
    <3> QED BY <1>6, <3>1 DEF LinkInv, BootsAreNew
  <2>3. \A v \in Urls : At(host', v) # NoLink => At(host', v) > m
    <3>1. At(host', u) > m BY <1>2, <1>6 DEF m
    <3>2. ASSUME NEW v \in Urls, v # u PROVE At(host', v) # NoLink => At(host', v) > m
      BY <1>2, <1>6, <2>1, <3>2, HostsAreTyped DEF LinkInv, BootsAreNew
    <3> QED BY <3>1, <3>2
  <2>4. /\ \A c \in compares : c.cap \in Link!Boots /\ c.boot \in Link!Boots
        /\ \A l \in loops : l.boot \in Link!Boots
        /\ link.cap \in Link!Boots /\ link.compared \in Link!Boots /\ link.with \in Link!Boots
    BY <1>2 DEF Typed, Link!TypeOK, Link!Compares, Link!Loops, Link!Links
  <2> QED BY <1>1, <2>1, <2>2, <2>3, <2>4 DEF LinkInv, BootsAreNew, KnownBoot,
     Link!taskVars, m
<1>11. Turned
  <2> SUFFICES ASSUME NEW b, KnownBoot(b), Runs(host', b)
               PROVE  /\ Runs(host, b) /\ Of(host', b) = Of(host, b)
                      /\ \A v \in Urls : At(host, v) = b => At(host', v) = b
    BY DEF Turned
  <2>1. PICK v \in Urls : At(host', v) = b /\ b # NoLink BY DEF Runs
  <2>2. v # u BY <1>2, <1>6, <1>9, <2>1
  <2>3. At(host, v) = b /\ host'[v] = host[v] BY <1>6, <2>1, <2>2
  <2>4. \A w \in Urls : At(host, w) = b => w = v BY <2>1, <2>3 DEF LinkInv, BootsAreNew
  <2>5. \A w \in Urls : At(host', w) = b => w = v BY <1>2, <1>6, <1>9, <2>1, <2>4
  <2> QED BY <2>1, <2>3, <2>4, <2>5, OfIsThere
<1> QED BY <1>1, <1>7, <1>10, <1>11, TurnKeeps DEF Link!wireVars

(* A daemon that stops runs no more. *)
LEMMA StopDaemonKeeps ==
    ASSUME LinkInv, NEW u \in Urls, Link!StopDaemon(u)
    PROVE  LinkInv'
<1>1. /\ host[u] # NoLink /\ host' = [host EXCEPT ![u] = NoLink] /\ slots' = slots \ {host[u].boot}
      /\ UNCHANGED <<Link!dataVars, link, ws, pending, outward, inward, Link!taskVars,
                     intended, left>>
  BY DEF Link!StopDaemon
<1>2. Typed /\ host \in [Urls -> {NoLink} \cup [project : Projects, boot : Nat]]
  BY DEF LinkInv, Typed, Link!TypeOK
<1>3. host' \in [Urls -> {NoLink} \cup [project : Projects, boot : Nat]] BY <1>1, <1>2
<1>4. /\ At(host', u) = NoLink
      /\ \A v \in Urls : v # u => At(host', v) = At(host, v) /\ host'[v] = host[v]
  BY <1>1, <1>2 DEF At
<1>5. Typed' BY <1>1, <1>2, <1>3 DEF Typed, Link!TypeOK, Link!dataVars, Link!taskVars
<1>6. BootsAreNew' BY <1>1, <1>4 DEF LinkInv, BootsAreNew, KnownBoot, Link!taskVars
<1>7. Turned
  <2> SUFFICES ASSUME NEW b, Runs(host', b)
               PROVE  /\ Runs(host, b) /\ Of(host', b) = Of(host, b)
                      /\ \A v \in Urls : At(host, v) = b => At(host', v) = b
    BY DEF Turned
  <2>1. PICK v \in Urls : At(host', v) = b /\ b # NoLink BY DEF Runs
  <2>2. v # u /\ At(host, v) = b /\ host'[v] = host[v] BY <1>4, <2>1
  <2>3. \A w \in Urls : At(host, w) = b => w = v BY <2>1, <2>2 DEF LinkInv, BootsAreNew
  <2>4. \A w \in Urls : At(host', w) = b => w = v BY <1>4, <2>1, <2>3
  <2> QED BY <2>1, <2>2, <2>3, <2>4, OfIsThere
<1> QED BY <1>1, <1>5, <1>6, <1>7, TurnKeeps

(* A slot that is released is of no live connection. *)
LEMMA ReleaseKeeps ==
    ASSUME LinkInv, NEW b \in slots, Link!Release(b)
    PROVE  LinkInv'
<1>1. /\ slots' = slots \ {b}
      /\ UNCHANGED <<Link!daemonVars, Link!dataVars, link, ws, pending, outward, inward,
                     Link!taskVars, intended, left>>
  BY DEF Link!Release
<1>2. Typed' /\ BootsAreNew' /\ Turned
  BY <1>1 DEF LinkInv, Typed, Link!TypeOK, BootsAreNew, KnownBoot, Turned, Link!daemonVars,
     Link!dataVars, Link!taskVars
<1> QED BY <1>1, <1>2, TurnKeeps

-------------------------------------------------------------------------------
(* A step that leaves the link and the coroutines alone. *)
LEMMA CalmLink ==
    ASSUME LinkInv, UNCHANGED <<link, Link!taskVars, intended>>
    PROVE  OneGoes' /\ Numbered' /\ LinkIsSet'
BY DEF LinkInv, OneGoes, Live, Idle, Trying, Working, Nobody, NoTry, Numbered, LinkIsSet,
   Link!taskVars

(* Boots stay new while link, comparisons and loops stay as they are. *)
LEMMA CalmBoots ==
    ASSUME LinkInv, Spent, UNCHANGED <<Link!daemonVars, link, compares, loops>>
    PROVE  BootsAreNew' /\ CapIsBase'
BY DEF LinkInv, Spent, BootsAreNew, KnownBoot, CapIsBase, Link!daemonVars

(* A loop that has been heard is of the daemon that Studio was compared with; only it can
   have published its socket. *)
LEMMA HeardIsWith ==
    ASSUME LinkInv, NEW l \in loops, l.gen = link.gen, l.at = "heard", Runs(host, l.boot)
    PROVE  l.boot = link.with /\ Of(host, link.with) \in Projects
      /\ Of(host, link.with) = intended
<1>1. l.boot = link.cap /\ link.cap = link.compared /\ link.with = link.compared
      /\ Of(host, link.cap) = intended
  BY DEF LinkInv, LoopsKnow
<1> QED BY <1>1, HostsAreTyped DEF LinkInv

(* The loop whose socket is published has said hello. *)
LEMMA PublishedIsHeard ==
    ASSUME LinkInv, NEW l \in loops, l.gen = link.gen, ws = l.gen
    PROVE  l.at = "heard" /\ ws # NoLink /\ link.connected
BY LoopLives, LinkIsTyped DEF LinkInv, LoopsKnow

(* A save is heard on the link, or is one that no link has heard of. *)
LEMMA SaveKeeps ==
    ASSUME LinkInv, NEW p \in Projects, Link!Save(p)
    PROVE  LinkInv'
<1> DEFINE e == 0 - left.saves
           heard == \E l \in loops : /\ l.at = "heard" /\ Link!Alive(l) /\ Link!Running(l.boot)
                                     /\ Link!ProjectOf(l.boot) = p
<1>1. /\ Link!Spend("saves")
      /\ diskEdits' = [diskEdits EXCEPT ![p] = @ \cup {e}]
      /\ inward' = IF heard THEN inward \cup {e} ELSE inward
      /\ unheard' = IF heard THEN unheard ELSE [unheard EXCEPT ![p] = @ \cup {e}]
      /\ UNCHANGED <<Link!daemonVars, studioEdits, link, ws, pending, outward, slots,
                     Link!taskVars, intended>>
  BY DEF Link!Save
<1>2. Typed /\ Spent /\ left.saves \in Nat \ {0} BY <1>1, SpendKeeps DEF LinkInv, Spent
<1>3. e \in Link!Saves BY <1>2 DEF Link!Saves
<1>4. /\ diskEdits \in [Projects -> SUBSET ({0} \cup Link!Strokes \cup Link!Saves)]
      /\ unheard \in [Projects -> SUBSET Link!Saves]
  BY <1>2 DEF Typed, Link!TypeOK
<1> HIDE DEF e
<1>5. ASSUME heard PROVE /\ link.connected /\ link.with # NoLink /\ Of(host, link.with) = p
                         /\ Absent(compares, link.gen)
  <2>1. PICK l \in loops : l.at = "heard" /\ Link!Alive(l) /\ Link!Running(l.boot)
          /\ Link!ProjectOf(l.boot) = p
    BY <1>5
  <2>2. l.gen = link.gen /\ Runs(host, l.boot) /\ Of(host, l.boot) = p /\ l.boot # NoLink
    BY <2>1, Bridge DEF Link!Alive, Runs
  <2> QED BY <2>1, <2>2, HeardIsWith, LoopLives DEF Nobody
<1> USE <1>1
<1> HIDE DEF heard
<1>6. Typed'
  <2>1. diskEdits' \in [Projects -> SUBSET ({0} \cup Link!Strokes \cup Link!Saves)]
    BY <1>3, <1>4
  <2>2. unheard' \in [Projects -> SUBSET Link!Saves] BY <1>3, <1>4
  <2>3. inward' \subseteq Link!Saves BY <1>2, <1>3 DEF Typed, Link!TypeOK
  <2> QED BY <1>2, <2>1, <2>2, <2>3 DEF Typed, Link!TypeOK, Spent, Link!daemonVars,
     Link!taskVars
<1>7. /\ \A q \in Projects : diskEdits'[q] = IF q = p THEN diskEdits[p] \cup {e} ELSE diskEdits[q]
      /\ ~heard => \A q \in Projects : unheard'[q] = IF q = p THEN unheard[p] \cup {e}
           ELSE unheard[q]
  BY <1>4
<1>8. \A b : Runs(host, b) => Of(host, b) \in Projects BY <1>2, HostsAreTyped
<1>9. HooksAreOne' BY <1>5 DEF LinkInv, HooksAreOne, Link!taskVars
<1>10. ComparesKnow'
  <2>1. CASE heard BY <1>5, <2>1 DEF ComparesKnow, Absent, Link!taskVars
  <2>2. CASE ~heard
    BY <1>7, <1>8, <2>2 DEF LinkInv, ComparesKnow, Link!daemonVars, Link!taskVars
  <2> QED BY <2>1, <2>2
<1>11. LoopsKnow' BY DEF LinkInv, LoopsKnow, Link!daemonVars, Link!taskVars
<1>12. LiveAgrees'
  <2> SUFFICES ASSUME link.connected
               PROVE  /\ pending \cup outward \subseteq studioEdits
                      /\ Runs(host, link.with) =>
                           /\ studioEdits \ diskEdits'[Of(host, link.with)] \subseteq pending \cup outward
                           /\ diskEdits'[Of(host, link.with)] \ studioEdits
                                \subseteq inward' \cup unheard'[Of(host, link.with)]
                           /\ inward' \subseteq diskEdits'[Of(host, link.with)]
    BY DEF LiveAgrees, Link!daemonVars
  <2>1. /\ pending \cup outward \subseteq studioEdits
        /\ Runs(host, link.with) =>
             /\ studioEdits \ diskEdits[Of(host, link.with)] \subseteq pending \cup outward
             /\ diskEdits[Of(host, link.with)] \ studioEdits
                  \subseteq inward \cup unheard[Of(host, link.with)]
             /\ inward \subseteq diskEdits[Of(host, link.with)]
    BY DEF LinkInv, LiveAgrees
  <2>2. CASE heard
    <3>1. inward' = inward \cup {e} /\ unheard' = unheard /\ Of(host, link.with) = p
      BY <1>5, <2>2
    <3> QED BY <1>7, <2>1, <3>1
  <2>3. CASE ~heard
    <3>1. inward' = inward BY <2>3
    <3> QED BY <1>7, <1>8, <2>1, <2>3, <3>1
  <2> QED BY <2>2, <2>3
<1> QED BY <1>2, <1>6, <1>9, <1>10, <1>11, <1>12, CalmLink, CalmBoots DEF LinkInv,
   Link!taskVars

(* An edit in Studio marks the comparisons, or waits at the hooks. *)
LEMMA StrokeKeepsLink ==
    ASSUME LinkInv, Link!Stroke
    PROVE  LinkInv'
<1> DEFINE s == left.strokes
           D(c) == [c EXCEPT !.dirty = TRUE]
<1>1. /\ Link!Spend("strokes") /\ studioEdits' = studioEdits \cup {s}
      /\ compares' = {D(c) : c \in compares}
      /\ \/ link.hooks /\ pending' = pending \cup {s}
         \/ ~link.connected /\ UNCHANGED pending
      /\ UNCHANGED <<Link!daemonVars, diskEdits, unheard, link, ws, outward, inward, slots,
                     attempts, timers, restarts, loops, intended>>
  BY DEF Link!Stroke
<1> USE <1>1 DEF LinkInv
<1>2. Typed /\ Spent /\ s \in Link!Strokes BY SpendKeeps DEF Spent, Link!Strokes
<1> HIDE DEF s
<1>3. \A c \in compares : /\ D(c) \in Link!Compares /\ D(c).gen = c.gen /\ D(c).cap = c.cap /\ D(c).at = c.at
                          /\ D(c).boot = c.boot /\ D(c).dirty = TRUE
  BY <1>2 DEF Typed, Link!TypeOK, Link!Compares
<1> HIDE DEF D
<1>4. Typed' BY <1>2, <1>3 DEF Typed, Link!TypeOK, Spent, Link!daemonVars
<1>5. /\ Absent(compares, link.gen) => Absent(compares', link.gen)
      /\ Alone(compares, link.gen) => Alone(compares', link.gen)
  BY <1>3 DEF Absent, Alone
<1>6. OneGoes' /\ Numbered'
  <2>1. OneGoes' BY <1>5 DEF OneGoes, Live, Idle, Trying, Working, Nobody, NoTry
  <2>2. Numbered' BY <1>3 DEF Numbered
  <2> QED BY <2>1, <2>2
<1>7. LinkIsSet' BY DEF LinkIsSet
<1>8. HooksAreOne' BY <1>3 DEF HooksAreOne
<1>9. BootsAreNew' /\ CapIsBase'
  BY <1>2, <1>3 DEF Spent, BootsAreNew, KnownBoot, CapIsBase, Link!daemonVars
<1>10. ComparesKnow' BY <1>3 DEF ComparesKnow, Link!daemonVars
<1>11. LoopsKnow' /\ LiveAgrees' BY DEF LoopsKnow, LiveAgrees, Link!daemonVars
<1> QED BY <1>4, <1>6, <1>7, <1>8, <1>9, <1>10, <1>11

(* What is flushed is on its way. *)
LEMMA FlushKeeps ==
    ASSUME LinkInv, Link!Flush
    PROVE  LinkInv'
<1>1. /\ ws # NoLink /\ outward' = outward \cup pending /\ pending' = {}
      /\ UNCHANGED <<Link!daemonVars, Link!dataVars, link, ws, inward, slots,
                     Link!taskVars, intended, left>>
  BY DEF Link!Flush
<1>2. Typed /\ Spent /\ Typed'
  BY <1>1, LeftIsSpent DEF LinkInv, Typed, Link!TypeOK, Link!daemonVars, Link!dataVars,
     Link!taskVars
<1>3. HooksAreOne' BY <1>1 DEF LinkInv, HooksAreOne, Link!taskVars
<1>4. ComparesKnow' /\ LoopsKnow' /\ LiveAgrees'
  BY <1>1 DEF LinkInv, ComparesKnow, LoopsKnow, LiveAgrees, Link!daemonVars, Link!dataVars,
     Link!taskVars
<1> QED BY <1>1, <1>2, <1>3, <1>4, CalmLink, CalmBoots DEF LinkInv, Link!taskVars

(* What is written of a stroke is on the disk of the daemon it was for. *)
LEMMA WrittenKeeps ==
    ASSUME LinkInv, NEW l \in loops, NEW e, Link!Written(l, e)
    PROVE  LinkInv'
<1>1. /\ Link!Alive(l) /\ ws = l.gen /\ Link!Running(l.boot) /\ e \in outward
      /\ diskEdits' = [diskEdits EXCEPT ![Link!ProjectOf(l.boot)] = @ \cup {e}]
           /\ outward' = outward \ {e}
      /\ UNCHANGED <<Link!daemonVars, studioEdits, unheard, link, ws, pending, inward,
                     slots, Link!taskVars, intended, left>>
  BY DEF Link!Written
<1>2. Typed /\ Spent /\ l.gen = link.gen BY <1>1, LeftIsSpent DEF LinkInv, Link!Alive
<1> DEFINE p == Of(host, link.with)
<1>3. /\ l.boot = link.with /\ p \in Projects /\ Link!ProjectOf(l.boot) = p
      /\ Runs(host, link.with) /\ link.connected
  BY <1>1, <1>2, PublishedIsHeard, HeardIsWith, Bridge
<1>4. /\ diskEdits \in [Projects -> SUBSET ({0} \cup Link!Strokes \cup Link!Saves)] /\ e \in Link!Strokes
      /\ diskEdits' = [diskEdits EXCEPT ![p] = @ \cup {e}]
  BY <1>1, <1>2, <1>3 DEF Typed, Link!TypeOK
<1> HIDE DEF p
<1>5. diskEdits' \in [Projects -> SUBSET ({0} \cup Link!Strokes \cup Link!Saves)]
        /\ diskEdits'[p] = diskEdits[p] \cup {e}
  BY <1>3, <1>4
<1>6. Typed' BY <1>1, <1>2, <1>5 DEF Typed, Link!TypeOK, Link!daemonVars, Link!taskVars
<1>7. HooksAreOne' BY <1>1, <1>3 DEF LinkInv, HooksAreOne, Link!taskVars
<1>8. ComparesKnow' /\ LoopsKnow'
  <2>1. Nobody BY <1>2, LoopLives
  <2> QED BY <1>1, <2>1 DEF LinkInv, ComparesKnow, LoopsKnow, Nobody, Absent,
     Link!daemonVars, Link!taskVars
<1>9. LiveAgrees'
  <2>1. /\ pending \cup outward \subseteq studioEdits
        /\ studioEdits \ diskEdits[p] \subseteq pending \cup outward
        /\ diskEdits[p] \ studioEdits \subseteq inward \cup unheard[p]
        /\ inward \subseteq diskEdits[p]
    BY <1>3 DEF LinkInv, LiveAgrees, p
  <2>2. /\ pending \cup outward' \subseteq studioEdits
        /\ studioEdits \ diskEdits'[p] \subseteq pending \cup outward'
        /\ diskEdits'[p] \ studioEdits \subseteq inward \cup unheard[p]
        /\ inward \subseteq diskEdits'[p]
    BY <1>1, <1>5, <2>1
  <2> QED BY <1>1, <2>2 DEF LiveAgrees, p, Link!daemonVars
<1> QED BY <1>1, <1>2, <1>6, <1>7, <1>8, <1>9, CalmLink, CalmBoots DEF LinkInv,
   Link!taskVars

(* What is applied of a save is in Studio. *)
LEMMA AppliedKeeps ==
    ASSUME LinkInv, NEW l \in loops, NEW e, Link!Applied(l, e)
    PROVE  LinkInv'
<1>1. /\ Link!Alive(l) /\ ws = l.gen /\ e \in inward
      /\ studioEdits' = studioEdits \cup {e} /\ inward' = inward \ {e}
      /\ UNCHANGED <<Link!daemonVars, diskEdits, unheard, link, ws, pending, outward,
                     slots, Link!taskVars, intended, left>>
  BY DEF Link!Applied
<1>2. Typed /\ Spent /\ l.gen = link.gen BY <1>1, LeftIsSpent DEF LinkInv, Link!Alive
<1>3. link.connected /\ Nobody BY <1>2, LoopLives
<1> USE <1>1, <1>3 DEF Link!daemonVars, Link!taskVars, LinkInv
<1>4. Typed' BY <1>2 DEF Typed, Link!TypeOK
<1>5. HooksAreOne' BY DEF HooksAreOne
<1>6. ComparesKnow' /\ LoopsKnow' BY DEF ComparesKnow, LoopsKnow, Nobody, Absent
<1>7. LiveAgrees' BY DEF LiveAgrees
<1> QED BY <1>2, <1>4, <1>5, <1>6, <1>7, CalmLink, CalmBoots

(* The first answer publishes the socket of a loop that was heard. *)
LEMMA AcceptKeeps ==
    ASSUME LinkInv, NEW l \in loops, Link!Accept(l)
    PROVE  LinkInv'
<1>1. /\ l.at = "heard" /\ Link!Alive(l) /\ ws' = l.gen
      /\ UNCHANGED <<Link!daemonVars, Link!dataVars, link, pending, outward, inward, slots,
                     Link!taskVars, intended, left>>
  BY DEF Link!Accept
<1>2. Typed /\ Spent /\ l.gen = link.gen BY <1>1, LeftIsSpent DEF LinkInv, Link!Alive
<1>3. link.connected /\ Nobody /\ \A m \in loops : m.gen = link.gen => m = l
  BY <1>2, LoopLives
<1> USE <1>1, <1>2 DEF Link!taskVars, LinkInv
<1>4. Typed'
  <2>1. ws' \in Link!Boots BY TasksAreTyped DEF Link!Boots
  <2> QED BY <2>1 DEF Typed, Link!TypeOK, Link!daemonVars, Link!dataVars
<1>5. HooksAreOne' BY <1>3 DEF HooksAreOne
<1>6. ComparesKnow' /\ LoopsKnow' /\ LiveAgrees'
  BY <1>3 DEF ComparesKnow, LoopsKnow, LiveAgrees, Link!daemonVars, Link!dataVars
<1> QED BY <1>4, <1>5, <1>6, CalmLink, CalmBoots

-------------------------------------------------------------------------------
(* The loop of the link goes on. *)
LEMMA MovesKeeps ==
    ASSUME LinkInv, Spent, NEW l \in loops, l.gen = link.gen, NEW m \in Link!Loops,
           Link!Moves(l, m),
           m.gen = link.gen, m.pin = l.pin, KnownBoot(m.boot), m.at # "asking", ws = NoLink,
           link' \in Link!Links, link'.desired = link.desired, link'.busy = link.busy,
           link'.connected = link.connected, link'.gen = link.gen,
           link'.attempt = link.attempt, link'.compared = link.compared, link'.pin = link.pin,
           link'.retrying = link.retrying, link'.hooks = link.hooks, link'.with = link.with,
           KnownBoot(link'.cap), link'.base # NoLink,
           Runs(host, link'.cap) => At(host, link'.base) = link'.cap,
           link'.cap = link.compared, Runs(host, link'.cap) => Of(host, link'.cap) = intended,
           m.at = "heard" => m.boot = link'.cap, slots' \subseteq Nat,
           UNCHANGED <<Link!daemonVars, Link!dataVars, ws, pending, outward, inward,
                       attempts, timers, compares,
                       restarts, intended>>
    PROVE  LinkInv'
<1>1. /\ link.connected /\ link.desired /\ ~link.busy /\ link.hooks /\ ~link.retrying
      /\ Nobody /\ NoTry /\ \A x \in loops : x.gen = link.gen => x = l
  BY LoopLives
<1>2. loops' = (loops \ {l}) \cup {m} /\ link.gen <= link.gen
  BY LinkIsTyped DEF Link!Moves, LinkInv
<1>3. Typed' BY <1>2 DEF Spent, LinkInv, Typed, Link!TypeOK, Link!daemonVars, Link!dataVars
<1> USE <1>1, <1>2 DEF LinkInv
<1>4. OneGoes' /\ Numbered'
  <2>1. Live' BY DEF Live, Nobody, NoTry, Alone
  <2> QED BY <2>1 DEF OneGoes, Numbered
<1>5. LinkIsSet' /\ HooksAreOne' BY DEF LinkIsSet, HooksAreOne
<1>6. BootsAreNew' /\ CapIsBase'
  BY DEF Spent, BootsAreNew, KnownBoot, CapIsBase, Link!daemonVars
<1>7. ComparesKnow' /\ LoopsKnow' /\ LiveAgrees'
  BY DEF ComparesKnow, LoopsKnow, LiveAgrees, Nobody, Absent, Link!daemonVars, Link!dataVars
<1> QED BY <1>3, <1>4, <1>5, <1>6, <1>7

(* A socket opens to the daemon that listens now. *)
LEMMA OpenedKeeps ==
    ASSUME LinkInv, NEW l \in loops, Link!Opened(l)
    PROVE  LinkInv'
<1> DEFINE b == Link!BootAt(link.base)
           m == [l EXCEPT !.at = "greeting", !.boot = b]
<1>1. /\ l.at = "opening" /\ Link!Alive(l) /\ b # NoLink /\ Link!Moves(l, m)
      /\ UNCHANGED <<Link!daemonVars, Link!dataVars, link, Link!wireVars, attempts, timers,
                     compares, restarts,
                     intended, left>>
  BY DEF Link!Opened
<1>2. Typed /\ Spent /\ l.gen = link.gen /\ link \in Link!Links /\ slots \subseteq Nat
  BY <1>1, LeftIsSpent, LinkIsTyped DEF LinkInv, Link!Alive, Typed, Link!TypeOK
<1>3. link.base \in Urls /\ b = At(host, link.base) /\ b \in Link!Boots /\ KnownBoot(b)
  <2>1. link.base \in Urls BY <1>2, LoopLives, LinkIsTyped DEF LinkInv, LinkIsSet, Fielded
  <2> QED BY <1>2, <2>1, Bridge, HostsAreTyped DEF LinkInv, BootsAreNew
<1> HIDE DEF b
<1>4. m \in Link!Loops /\ m.gen = l.gen /\ m.pin = l.pin /\ m.at = "greeting" /\ m.boot = b
  <2>1. l \in Link!Loops BY <1>2 DEF Typed, Link!TypeOK
  <2> QED BY <1>3, <2>1 DEF Link!Loops
<1> HIDE DEF m
<1>5. /\ link.cap = link.compared /\ (Runs(host, link.cap) => Of(host, link.cap) = intended)
      /\ ws = NoLink
  BY <1>1, <1>2 DEF LinkInv, LoopsKnow
<1>6. /\ link.base # NoLink /\ KnownBoot(link.cap)
      /\ Runs(host, link.cap) => At(host, link.base) = link.cap
  BY <1>2, LoopLives DEF LinkInv, LinkIsSet, BootsAreNew, CapIsBase
<1> QED BY <1>1, <1>2, <1>3, <1>4, <1>5, <1>6, MovesKeeps DEF Link!wireVars

(* A daemon greets the plugin that shows its capability. *)
LEMMA HeardKeeps ==
    ASSUME LinkInv, NEW l \in loops, Link!Heard(l)
    PROVE  LinkInv'
<1> DEFINE m == [l EXCEPT !.at = "heard"]
<1>1. /\ l.at = "greeting" /\ Link!Alive(l) /\ link.cap = l.boot /\ Link!Moves(l, m) /\ Link!Running(l.boot)
      /\ slots' = slots \cup {l.boot}
      /\ UNCHANGED <<Link!daemonVars, Link!dataVars, link, ws, pending, outward, inward,
                     attempts, timers, compares,
                     restarts, intended, left>>
  BY DEF Link!Heard
<1>2. /\ Typed /\ Spent /\ l.gen = link.gen /\ link \in Link!Links /\ slots \subseteq Nat
           /\ l \in Link!Loops
  BY <1>1, LeftIsSpent, LinkIsTyped DEF LinkInv, Link!Alive, Typed, Link!TypeOK
<1>3. slots' \subseteq Nat BY <1>1, <1>2, Bridge, HostsAreTyped
<1>4. m \in Link!Loops /\ m.gen = l.gen /\ m.pin = l.pin /\ m.at = "heard" /\ m.boot = l.boot
  BY <1>2 DEF Link!Loops
<1> HIDE DEF m
<1>5. /\ link.cap = link.compared /\ (Runs(host, link.cap) => Of(host, link.cap) = intended)
      /\ ws = NoLink
  BY <1>1, <1>2 DEF LinkInv, LoopsKnow
<1>6. /\ link.base # NoLink /\ KnownBoot(link.cap)
      /\ Runs(host, link.cap) => At(host, link.base) = link.cap
  BY <1>2, LoopLives DEF LinkInv, LinkIsSet, BootsAreNew, CapIsBase
<1> QED BY <1>1, <1>2, <1>3, <1>4, <1>5, <1>6, MovesKeeps

(* What arrives at a gap leaves a disk. *)
LEMMA ArriveIsTyped ==
    ASSUME Typed, NEW b, Link!Arrive(b)
    PROVE  diskEdits' \in [Projects -> SUBSET ({0} \cup Link!Strokes \cup Link!Saves)]
<1>1. PICK got \in SUBSET outward :
        diskEdits' = IF Link!Running(b)
          THEN [diskEdits EXCEPT ![Link!ProjectOf(b)] = @ \cup got] ELSE diskEdits
  BY DEF Link!Arrive
<1>2. /\ diskEdits \in [Projects -> SUBSET ({0} \cup Link!Strokes \cup Link!Saves)] /\ got \subseteq Link!Strokes
      /\ Link!Running(b) => Link!ProjectOf(b) \in Projects
  BY HostsAreTyped, Bridge DEF Typed, Link!TypeOK
<1> DEFINE p == Link!ProjectOf(b)
           S == {0} \cup Link!Strokes \cup Link!Saves
<1>3. got \subseteq S /\ diskEdits \in [Projects -> SUBSET S] BY <1>2
<1>4. CASE Link!Running(b)
  <2>1. diskEdits' = [diskEdits EXCEPT ![p] = diskEdits[p] \cup got] /\ p \in Projects
    BY <1>1, <1>2, <1>4
  <2> HIDE DEF p, S
  <2>2. diskEdits[p] \cup got \in SUBSET S BY <1>3, <2>1
  <2>3. diskEdits' \in [Projects -> SUBSET S] BY <1>3, <2>1, <2>2
  <2> QED BY <2>3 DEF S
<1> QED BY <1>1, <1>2, <1>4

(* A gap: everything that was live is dropped for a comparison to come. *)
LEMMA GappedKeeps ==
    ASSUME LinkInv, Spent, link.connected, NEW b, NEW k \in Link!Links, Link!Gapped(b, k),
           k.desired, ~k.retrying, k.gen = link.gen, k.attempt = link.attempt,
           k.base # NoLink, k.pin = link.pin, k.with = link.with,
           loops' \subseteq loops,
           UNCHANGED <<Link!daemonVars, studioEdits, unheard, attempts, compares, restarts,
                       intended>>
    PROVE  LinkInv'
<1> DEFINE j == Link!TornKeepsHooks(k)
           i == Link!Torn(k)
           t == [gen |-> i.gen, at |-> "waiting", pin |-> NoLink]
<1>1. /\ Link!Arrive(b) /\ ws' = NoLink /\ pending' = {} /\ outward' = {} /\ inward' = {}
      /\ link' = Link!Retried(i) /\ timers' = timers \cup Link!TimerOf(i) /\ slots' = slots
  BY DEF Link!Gapped
<1>2. /\ j \in Link!Links /\ j.desired = k.desired /\ j.busy = TRUE /\ j.connected = FALSE
      /\ j.gen = k.gen + 1 /\ j.attempt = k.attempt /\ j.base = k.base /\ j.cap = NoLink
      /\ j.compared = NoLink /\ j.pin = k.pin /\ j.retrying = k.retrying /\ j.with = k.with
  <2>1. j = [k EXCEPT !.connected = FALSE, !.busy = TRUE, !.cap = NoLink,
             !.compared = NoLink, !.gen = @ + 1]
    BY DEF Link!TornKeepsHooks
  <2> HIDE DEF j
  <2> QED BY ZenonT(60), <2>1, TearingKeeps
<1>3. i = [j EXCEPT !.hooks = FALSE] BY DEF Link!Torn
<1> HIDE DEF j, i
<1>4. /\ i \in Link!Links /\ i.desired /\ i.busy = TRUE /\ i.connected = FALSE
      /\ i.gen = link.gen + 1 /\ i.attempt = link.attempt /\ i.base # NoLink /\ i.cap = NoLink
      /\ i.compared = NoLink /\ i.pin = link.pin /\ ~i.retrying /\ i.hooks = FALSE
      /\ i.with = link.with
  <2>1. /\ i \in Link!Links /\ i.desired = j.desired /\ i.busy = j.busy /\ i.connected = j.connected
        /\ i.gen = j.gen /\ i.attempt = j.attempt /\ i.base = j.base /\ i.cap = j.cap
        /\ i.compared = j.compared /\ i.pin = j.pin /\ i.retrying = j.retrying
        /\ i.hooks = FALSE /\ i.with = j.with
    BY ZenonT(60), <1>2, <1>3, Unhooked
  <2> QED BY <1>2, <2>1
<1>5. link' = [i EXCEPT !.retrying = TRUE, !.busy = TRUE] /\ timers' = timers \cup {t}
  BY <1>1, <1>4 DEF Link!Retried, Link!TimerOf
<1>6. /\ link' \in Link!Links /\ link'.desired /\ link'.busy /\ ~link'.connected
      /\ link'.gen = link.gen + 1 /\ link'.attempt = link.attempt /\ link'.base # NoLink
      /\ link'.cap = NoLink /\ link'.compared = NoLink /\ link'.pin = link.pin /\ link'.retrying
      /\ ~link'.hooks /\ link'.with = link.with
  <2>1. i \in Link!Links BY <1>4
  <2>2. /\ link' \in Link!Links /\ link'.desired = i.desired /\ link'.busy /\ link'.connected = i.connected
        /\ link'.gen = i.gen /\ link'.attempt = i.attempt /\ link'.base = i.base
        /\ link'.cap = i.cap /\ link'.compared = i.compared /\ link'.pin = i.pin
        /\ link'.retrying /\ link'.hooks = i.hooks /\ link'.with = i.with
    BY ZenonT(60), <1>5, <2>1, TryingAgain
  <2> QED BY <1>4, <2>2
<1>7. /\ t \in Link!Timers /\ t.gen = link'.gen /\ t.at = "waiting" /\ t.pin = NoLink
  BY <1>4, <1>6 DEF Link!Timers, Link!Links
<1> HIDE DEF t
<1>8. Typed /\ link.gen \in Nat
        /\ diskEdits' \in [Projects -> SUBSET ({0} \cup Link!Strokes \cup Link!Saves)]
  BY <1>1, ArriveIsTyped, LinkIsTyped DEF LinkInv
<1>9. Typed'
  BY <1>1, <1>5, <1>6, <1>7, <1>8 DEF Spent, Typed, Link!TypeOK, Link!daemonVars, Link!Boots
<1>10. /\ NoTry /\ \A c \in compares : c.at # "installing" BY LinkIsLive
<1>11. /\ \A x \in compares : x.gen <= link'.gen /\ x.gen # link'.gen
       /\ \A x \in timers : x.gen <= link'.gen /\ x.gen # link'.gen
       /\ \A x \in restarts : x.gen <= link'.gen /\ x.gen # link'.gen
       /\ \A x \in loops : x.gen <= link'.gen /\ x.gen # link'.gen
       /\ link'.gen <= link'.gen
  <2>1. \A n \in Nat : n <= link.gen => n <= link.gen + 1 /\ n # link.gen + 1 BY <1>8
  <2> QED BY <1>6, <1>8, <2>1, TasksAreTyped DEF LinkInv, Numbered
<1> USE <1>6, <1>11 DEF LinkInv
<1>12. OneGoes' /\ Numbered'
  <2>1. Working' BY <1>5, <1>7, <1>10 DEF Working, NoTry, Alone, Absent
  <2> QED BY <1>5, <1>7, <2>1 DEF OneGoes, Numbered, Absent
<1>13. LinkIsSet' /\ HooksAreOne' BY <1>1, <1>5, <1>7, <1>10 DEF LinkIsSet, HooksAreOne
<1>14. BootsAreNew' /\ CapIsBase'
  BY DEF Spent, BootsAreNew, KnownBoot, CapIsBase, Runs, Link!daemonVars
<1>15. ComparesKnow' /\ LoopsKnow' /\ LiveAgrees' BY DEF ComparesKnow, LoopsKnow, LiveAgrees
<1> QED BY <1>9, <1>12, <1>13, <1>14, <1>15

(* A loop that is not alive ends without a trace. *)
LEMMA LoopEndsKeeps ==
    ASSUME LinkInv, Spent, NEW l \in loops, ~Link!Alive(l), Link!Gone(l),
           UNCHANGED <<Link!daemonVars, Link!dataVars, link, Link!wireVars, attempts,
                       timers, compares, restarts, intended>>
    PROVE  LinkInv'
<1>1. loops' = loops \ {l} /\ l.gen # link.gen BY WantedIsOwn DEF Link!Gone
<1> USE <1>1 DEF LinkInv
<1>2. Typed' BY DEF Spent, Typed, Link!TypeOK, Link!daemonVars, Link!dataVars, Link!wireVars
<1>3. OneGoes' /\ Numbered'
  BY DEF OneGoes, Live, Idle, Trying, Working, Nobody, NoTry, Alone, Absent, Numbered
<1>4. LinkIsSet' /\ HooksAreOne' BY DEF LinkIsSet, HooksAreOne, Link!wireVars
<1>5. BootsAreNew' /\ CapIsBase'
  BY DEF Spent, BootsAreNew, KnownBoot, CapIsBase, Link!daemonVars
<1>6. ComparesKnow' /\ LoopsKnow' /\ LiveAgrees'
  BY DEF ComparesKnow, LoopsKnow, LiveAgrees, Link!daemonVars, Link!dataVars, Link!wireVars
<1> QED BY <1>2, <1>3, <1>4, <1>5, <1>6

(* A loop opens to the daemon of the comparison, or tears the link. *)
LEMMA LoopAnsweredKeeps ==
    ASSUME LinkInv, NEW l \in loops, Link!LoopAnswered(l)
    PROVE  LinkInv'
<1>1. /\ l.at = "asking"
      /\ UNCHANGED <<Link!daemonVars, studioEdits, unheard, attempts, compares, restarts,
                     intended, left>>
  BY DEF Link!LoopAnswered
<1>2. Typed /\ Spent /\ ~left.late /\ link \in Link!Links /\ slots \subseteq Nat
        /\ l \in Link!Loops
  BY <1>1, LeftIsSpent, LinkIsTyped DEF LinkInv, Typed, Link!TypeOK
<1>3. ASSUME Link!Alive(l)
      PROVE  /\ l.gen = link.gen /\ link.connected /\ link.desired /\ ~link.retrying
             /\ link.base # NoLink /\ l.pin = link.pin
  <2>1. l.gen = link.gen BY <1>3 DEF Link!Alive
  <2> QED BY <2>1, LoopLives DEF LinkInv, LinkIsSet
<1> USE <1>2
<1>4. ASSUME NEW u \in Link!Matching(l.pin), Link!Alive(l), Link!SameDaemon(u),
      link' = Link!Refreshed(u),
             Link!Moves(l, [l EXCEPT !.at = "opening"]),
             UNCHANGED <<diskEdits, ws, pending, outward, inward, slots, timers>>
      PROVE  LinkInv'
  <2> DEFINE m == [l EXCEPT !.at = "opening"]
  <2>1. u \in Urls /\ host[u] # NoLink /\ host[u].project = l.pin BY <1>4 DEF Link!Matching
  <2>2. /\ link' \in Link!Links /\ link'.desired = link.desired /\ link'.busy = link.busy
        /\ link'.connected = link.connected /\ link'.gen = link.gen
             /\ link'.attempt = link.attempt
        /\ link'.base = u /\ link'.cap = At(host, u) /\ link'.compared = link.compared
        /\ link'.pin = link.pin /\ link'.retrying = link.retrying
        /\ link'.hooks = link.hooks /\ link'.with = link.with
        /\ KnownBoot(At(host, u)) /\ u # NoLink /\ link.compared = At(host, u)
    BY <1>4, <2>1, RefreshedIs DEF Link!SameDaemon
  <2>3. m \in Link!Loops /\ m.gen = l.gen /\ m.pin = l.pin /\ m.at = "opening"
          /\ m.boot = l.boot
    BY DEF Link!Loops
  <2> USE <1>3, <1>4 DEF LinkInv
  <2>4. KnownBoot(m.boot) /\ ws = NoLink BY <1>1, <2>3 DEF BootsAreNew, LoopsKnow
  <2>5. Of(host, At(host, u)) = intended
    <3>1. host[u].project \in Projects /\ Of(host, At(host, u)) = host[u].project
      BY <2>1, HostsAreTyped, PlaceIsOne
    <3> QED BY <2>1, <3>1, LinkIsTyped DEF LinkIsSet
  <2> HIDE DEF m
  <2>6. Link!Moves(l, m) /\ slots' \subseteq Nat BY DEF m
  <2> QED BY <1>1, <2>2, <2>3, <2>4, <2>5, <2>6, MovesKeeps DEF Link!dataVars
<1>5. ASSUME NEW u \in Link!Matching(l.pin), Link!Alive(l), Link!Gone(l),
      Link!Gapped(l.boot, Link!Refreshed(u))
      PROVE  LinkInv'
  <2> DEFINE k == Link!Refreshed(u)
  <2>1. u \in Urls /\ host[u] # NoLink BY <1>5 DEF Link!Matching
  <2>2. /\ k \in Link!Links /\ k.desired = link.desired /\ k.gen = link.gen /\ k.attempt = link.attempt
        /\ k.base = u /\ k.pin = link.pin /\ k.retrying = link.retrying /\ k.with = link.with
        /\ u # NoLink
    BY <2>1, RefreshedIs
  <2>3. Link!Gapped(l.boot, k) /\ loops' \subseteq loops BY <1>5 DEF Link!Gone
  <2> HIDE DEF k
  <2> QED BY <1>1, <1>3, <1>5, <2>2, <2>3, GappedKeeps
<1>6. CASE Link!Alive(l) /\ Link!Gone(l) /\ Link!Gapped(l.boot, link)
  BY <1>1, <1>3, <1>6, GappedKeeps DEF Link!Gone
<1>7. CASE ~Link!Alive(l) /\ Link!Gone(l)
        /\ UNCHANGED <<link, diskEdits, Link!wireVars, timers>>
  BY <1>1, <1>7, LoopEndsKeeps DEF Link!dataVars
<1> QED BY <1>4, <1>5, <1>6, <1>7 DEF Link!LoopAnswered

(* A socket that closes tears the link. *)
LEMMA ClosesKeeps ==
    ASSUME LinkInv, NEW l \in loops, Link!Closes(l)
    PROVE  LinkInv'
<1>1. /\ Link!Gone(l) /\ UNCHANGED <<Link!daemonVars, studioEdits, unheard, attempts, compares, restarts, intended>>
      /\ Typed /\ link \in Link!Links
  BY LinkIsTyped DEF Link!Closes, LinkInv
<1>2. CASE Link!Alive(l) /\ Link!Gapped(l.boot, link) /\ (left' = left \/ Link!Fault)
  <2>1. l.gen = link.gen BY <1>2 DEF Link!Alive
  <2>2. link.connected /\ link.desired /\ ~link.retrying /\ link.base # NoLink
    BY <2>1, LoopLives DEF LinkInv, LinkIsSet
  <2>3. Spent BY <1>1, <1>2, LeftIsSpent, SpendIsSpent DEF Link!Fault
  <2> QED BY <1>1, <1>2, <2>2, <2>3, GappedKeeps DEF Link!Gone
<1>3. CASE ~Link!Alive(l) /\ UNCHANGED <<diskEdits, link, Link!wireVars, timers, left>>
  BY <1>1, <1>3, LeftIsSpent, LoopEndsKeeps DEF Link!dataVars
<1> QED BY <1>2, <1>3 DEF Link!Closes

(* A resync tears the link. *)
LEMMA ResyncKeeps ==
    ASSUME LinkInv, NEW l \in loops, Link!Resync(l)
    PROVE  LinkInv'
<1> DEFINE k == [link EXCEPT !.resyncing = TRUE]
<1>1. /\ Link!Alive(l) /\ Link!Gapped(l.boot, k)
      /\ UNCHANGED <<Link!daemonVars, studioEdits, unheard, attempts, compares, restarts,
                     loops, intended>>
      /\ Typed /\ link \in Link!Links /\ Spent
  BY LinkIsTyped, SpendIsSpent DEF Link!Resync, Link!Fault, LinkInv
<1>2. /\ k \in Link!Links /\ k.desired = link.desired /\ k.gen = link.gen /\ k.attempt = link.attempt
      /\ k.base = link.base /\ k.pin = link.pin /\ k.retrying = link.retrying
           /\ k.with = link.with
  BY ZenonT(60), <1>1, Resyncing
<1>3. l.gen = link.gen BY <1>1 DEF Link!Alive
<1>4. link.connected /\ link.desired /\ ~link.retrying /\ link.base # NoLink
  BY <1>3, LoopLives DEF LinkInv, LinkIsSet
<1> HIDE DEF k
<1> QED BY <1>1, <1>2, <1>4, GappedKeeps

-------------------------------------------------------------------------------
(* What a comparison knows when it is the link's, on any data. *)
Knows(c, s, f, w) ==
    /\ Runs(host, c.cap) => At(host, link.base) = c.cap
    /\ c.at \notin {"scanning", "asking"} => c.boot # NoLink
    /\ c.boot # NoLink /\ Runs(host, c.cap) => c.boot = c.cap
    /\ Runs(host, c.boot) /\ ~c.dirty /\ c.at = "compared" =>
          /\ s \subseteq f[Of(host, c.boot)]
          /\ f[Of(host, c.boot)] \ s \subseteq w[Of(host, c.boot)]

(* A comparison of the link's generation knows its daemon. *)
LEMMA OwnKnows ==
    ASSUME LinkInv, NEW c \in compares, c.gen = link.gen
    PROVE  Knows(c, studioEdits, diskEdits, unheard)
BY DEF LinkInv, ComparesKnow, Knows

(* A comparison goes on. *)
LEMMA BecomesKeeps ==
    ASSUME LinkInv, Spent, NEW c \in compares, c.gen = link.gen, c.at # "installing",
           NEW d \in Link!Compares, d.gen = link.gen, d.at # "installing", Link!Becomes(c, d),
           KnownBoot(d.cap), KnownBoot(d.boot), Knows(d, studioEdits', diskEdits', unheard'),
           studioEdits' \subseteq {0} \cup Link!Strokes \cup Link!Saves,
           diskEdits' \in [Projects -> SUBSET ({0} \cup Link!Strokes \cup Link!Saves)],
           unheard' \in [Projects -> SUBSET Link!Saves],
           UNCHANGED <<Link!daemonVars, link, Link!wireVars, attempts, timers, restarts,
                       loops, intended>>
    PROVE  LinkInv'
<1>1. /\ link.desired /\ link.busy /\ ~link.connected /\ ~link.retrying /\ NoTry
      /\ \A x \in compares : x.gen = link.gen => x = c
      /\ Absent(timers, link.gen) /\ Absent(restarts, link.gen) /\ Absent(loops, link.gen)
  BY ComparerWorks
<1>2. \A x \in compares : x.at # "installing" BY <1>1 DEF LinkInv, HooksAreOne
<1>3. compares' = (compares \ {c}) \cup {d} /\ link.gen <= link.gen
  BY LinkIsTyped DEF Link!Becomes, LinkInv
<1> USE <1>3, <1>1 DEF LinkInv
<1>4. Typed' BY DEF Spent, Typed, Link!TypeOK, Link!daemonVars, Link!wireVars
<1>5. OneGoes' /\ Numbered'
  <2>1. Working' BY DEF Working, NoTry, Alone, Absent
  <2> QED BY <2>1 DEF OneGoes, Numbered, Absent
<1>6. LinkIsSet' /\ HooksAreOne' BY <1>2 DEF LinkIsSet, HooksAreOne, Link!wireVars
<1>7. BootsAreNew' /\ CapIsBase'
  BY DEF Spent, BootsAreNew, KnownBoot, CapIsBase, Link!daemonVars
<1>8. ComparesKnow' BY DEF ComparesKnow, Knows, Link!daemonVars
<1>9. LoopsKnow' /\ LiveAgrees' BY DEF LoopsKnow, LiveAgrees, Absent
<1> QED BY <1>4, <1>5, <1>6, <1>7, <1>8, <1>9

(* The data that a comparison leaves alone. *)
LEMMA DataIsTyped ==
    ASSUME LinkInv
    PROVE  /\ studioEdits \subseteq {0} \cup Link!Strokes \cup Link!Saves
           /\ diskEdits \in [Projects -> SUBSET ({0} \cup Link!Strokes \cup Link!Saves)]
           /\ unheard \in [Projects -> SUBSET Link!Saves]
           /\ compares \subseteq Link!Compares /\ link \in Link!Links
BY DEF LinkInv, Typed, Link!TypeOK

(* A comparison's daemon serves it: it runs, and its project is known. *)
LEMMA ServerRuns ==
    ASSUME LinkInv, NEW c \in compares, c.gen = link.gen, c.at \notin {"scanning", "asking"},
           Link!Serves(c)
    PROVE  Runs(host, c.boot) /\ Link!ProjectOf(c.boot) = Of(host, c.boot)
           /\ Of(host, c.boot) \in Projects
<1>1. c.boot # NoLink /\ link.desired BY ComparerWorks DEF LinkInv, ComparesKnow
<1>2. link.base \in Urls BY <1>1, LinkIsTyped DEF LinkInv, LinkIsSet, Fielded
<1>3. Runs(host, c.boot) BY <1>1, <1>2, Bridge DEF Link!Serves, Runs
<1> QED BY <1>3, Bridge, HostsAreTyped DEF LinkInv

(* A comparison asks once Studio is scanned, or starts over. *)
LEMMA ScannedKeeps ==
    ASSUME LinkInv, NEW c \in compares, Link!Scanned(c)
    PROVE  LinkInv'
<1> DEFINE d == [c EXCEPT !.at = "asking"]
<1>1. /\ c.at = "scanning" /\ Link!Wanted(c)
      /\ UNCHANGED <<Link!daemonVars, Link!dataVars, Link!wireVars, attempts, loops,
                     intended, left>>
  BY DEF Link!Scanned
<1>2. Spent /\ c.gen = link.gen /\ Knows(c, studioEdits, diskEdits, unheard)
        /\ c \in Link!Compares
  BY <1>1, LeftIsSpent, OwnKnows, DataIsTyped DEF LinkInv, Link!Wanted
<1>3. CASE Link!RestartAfter(c) BY <1>1, <1>2, <1>3, RestartAfterKeeps
<1>4. CASE Link!Becomes(c, d) /\ UNCHANGED <<link, timers, restarts>>
  <2>1. d \in Link!Compares /\ d.gen = c.gen /\ d.cap = c.cap /\ d.boot = c.boot
          /\ d.at = "asking"
    BY <1>2 DEF Link!Compares
  <2> HIDE DEF d
  <2>2. KnownBoot(d.cap) /\ KnownBoot(d.boot) /\ Knows(d, studioEdits', diskEdits', unheard')
    BY <1>2, <2>1 DEF LinkInv, BootsAreNew, Knows
  <2> QED BY <1>1, <1>2, <1>4, <2>1, <2>2, DataIsTyped, BecomesKeeps DEF Link!dataVars
<1> QED BY <1>3, <1>4 DEF Link!Scanned

(* A comparison that is answered knows the boot that answered. *)
LEMMA AskedKeeps ==
    ASSUME LinkInv, NEW c \in compares, Link!Asked(c)
    PROVE  LinkInv'
<1> DEFINE b == Link!BootAt(link.base)
           d(at) == [c EXCEPT !.boot = b, !.at = at]
<1>1. /\ c.at = "asking" /\ Link!Wanted(c)
      /\ UNCHANGED <<Link!daemonVars, Link!dataVars, Link!wireVars, attempts, loops, intended>>
  BY DEF Link!Asked
<1>2. c.gen = link.gen /\ Knows(c, studioEdits, diskEdits, unheard) /\ c \in Link!Compares
        /\ Typed
  BY <1>1, OwnKnows, DataIsTyped DEF LinkInv, Link!Wanted
<1>3. b = At(host, link.base) /\ b \in Link!Boots /\ KnownBoot(b)
  <2>1. link.base \in Urls
    BY <1>2, ComparerWorks, LinkIsTyped DEF LinkInv, LinkIsSet, Fielded
  <2> QED BY <1>2, <2>1, Bridge, HostsAreTyped DEF LinkInv, BootsAreNew
<1>4. ASSUME NEW at \in {"pushing", "comparing"}, b # NoLink, Link!Becomes(c, d(at)),
             UNCHANGED <<link, timers, restarts, left>>
      PROVE  LinkInv'
  <2> DEFINE e == d(at)
  <2> HIDE DEF b
  <2>1. e \in Link!Compares /\ e.gen = c.gen /\ e.cap = c.cap /\ e.boot = b /\ e.at = at
    BY <1>2, <1>3, <1>4 DEF Link!Compares
  <2>2. Link!Becomes(c, e) /\ Spent BY <1>2, <1>4, LeftIsSpent
  <2> HIDE DEF e
  <2>3. KnownBoot(e.cap) /\ KnownBoot(e.boot) /\ Knows(e, studioEdits', diskEdits', unheard')
    BY <1>2, <1>3, <1>4, <2>1 DEF LinkInv, BootsAreNew, Knows
  <2>4. e.at # "installing" BY <1>4, <2>1
  <2> QED BY <1>1, <1>2, <1>4, <2>1, <2>2, <2>3, <2>4, DataIsTyped, BecomesKeeps DEF
     Link!dataVars
<1>5. CASE (UNCHANGED left \/ Link!Fault) /\ Link!RetryAfter(c)
  <2>1. Spent BY <1>2, <1>5, LeftIsSpent, SpendIsSpent DEF Link!Fault
  <2> QED BY <1>1, <1>5, <2>1, RetryAfterKeeps
<1> HIDE DEF b
<1>6. \/ /\ b # NoLink /\ UNCHANGED <<link, timers, restarts, left>>
         /\ Link!Becomes(c, [c EXCEPT !.boot = b,
                                      !.at = IF diskEdits[Link!ProjectOf(b)] = {}
                                        THEN "pushing" ELSE "comparing"])
      \/ (UNCHANGED left \/ Link!Fault) /\ Link!RetryAfter(c)
  BY DEF Link!Asked, b
<1>7. \/ b # NoLink /\ UNCHANGED <<link, timers, restarts, left>>
         /\ \E at \in {"pushing", "comparing"} : Link!Becomes(c, d(at))
      \/ (UNCHANGED left \/ Link!Fault) /\ Link!RetryAfter(c)
  BY <1>6
<1> QED BY <1>4, <1>5, <1>7

(* What was equal when it was compared is, but for what it was told of. *)
LEMMA ComparedKeeps ==
    ASSUME LinkInv, NEW c \in compares, Link!Compared(c)
    PROVE  LinkInv'
<1> DEFINE p == Link!ProjectOf(c.boot)
           d == [c EXCEPT !.at = "compared"]
           e == [c EXCEPT !.at = "deciding"]
<1>1. /\ c.at = "comparing" /\ Link!Wanted(c)
      /\ UNCHANGED <<Link!daemonVars, diskEdits, studioEdits, Link!wireVars, attempts,
                     loops, intended, left>>
  BY DEF Link!Compared
<1>2. Spent /\ c.gen = link.gen /\ Knows(c, studioEdits, diskEdits, unheard)
        /\ c \in Link!Compares
  BY <1>1, LeftIsSpent, OwnKnows, DataIsTyped DEF LinkInv, Link!Wanted
<1> USE <1>2
<1>3. CASE /\ Link!Serves(c) /\ UNCHANGED <<link, timers, restarts>> /\ studioEdits = diskEdits[p]
           /\ Link!Becomes(c, d) /\ unheard' = [unheard EXCEPT ![p] = {}]
  <2>1. d \in Link!Compares /\ d.gen = c.gen /\ d.cap = c.cap /\ d.boot = c.boot
          /\ d.at = "compared"
    BY DEF Link!Compares
  <2> USE <1>1, <1>3, <2>1
  <2>2. p = Of(host, c.boot) /\ p \in Projects BY ServerRuns
  <2> HIDE DEF d, p
  <2>3. KnownBoot(d.cap) /\ KnownBoot(d.boot) BY DEF LinkInv, BootsAreNew
  <2>4. unheard' \in [Projects -> SUBSET Link!Saves] BY DataIsTyped
  <2>5. Knows(d, studioEdits', diskEdits', unheard') BY <2>2 DEF Knows
  <2> QED BY <2>3, <2>4, <2>5, DataIsTyped, BecomesKeeps
<1>4. CASE UNCHANGED <<link, timers, restarts>> /\ Link!Becomes(c, e) /\ UNCHANGED unheard
  <2>1. e \in Link!Compares /\ e.gen = c.gen /\ e.cap = c.cap /\ e.boot = c.boot
          /\ e.at = "deciding"
    BY DEF Link!Compares
  <2> HIDE DEF e
  <2>2. KnownBoot(e.cap) /\ KnownBoot(e.boot) /\ Knows(e, studioEdits', diskEdits', unheard')
    BY <1>1, <2>1 DEF LinkInv, BootsAreNew, Knows
  <2> QED BY <1>1, <1>4, <2>1, <2>2, DataIsTyped, BecomesKeeps
<1>5. CASE Link!RetryAfter(c) /\ UNCHANGED unheard
  BY <1>1, <1>5, RetryAfterKeeps DEF Link!dataVars
<1> QED BY <1>3, <1>4, <1>5 DEF Link!Compared

(* A decision takes the comparison to a transfer, to another, or to none. *)
LEMMA DecidedKeeps ==
    ASSUME LinkInv, NEW c \in compares, Link!Decided(c)
    PROVE  LinkInv'
<1>1. /\ c.at = "deciding" /\ Link!Wanted(c)
      /\ UNCHANGED <<Link!daemonVars, Link!dataVars, attempts, loops, intended, left>>
  BY DEF Link!Decided
<1>2. Spent /\ c.gen = link.gen /\ Knows(c, studioEdits, diskEdits, unheard)
        /\ c \in Link!Compares
  BY <1>1, LeftIsSpent, OwnKnows, DataIsTyped DEF LinkInv, Link!Wanted
<1>3. /\ link.desired /\ link.busy /\ ~link.connected /\ ~link.retrying /\ NoTry
      /\ \A d \in compares : d.gen = link.gen => d = c
      /\ Absent(timers, link.gen) /\ Absent(restarts, link.gen) /\ Absent(loops, link.gen)
  BY <1>2, ComparerWorks
<1>4. \A d \in compares : d.at # "installing" BY <1>1, <1>3 DEF LinkInv, HooksAreOne
<1>5. ASSUME NEW at \in {"pulling", "pushing"}, Link!Becomes(c, [c EXCEPT !.at = at]),
             UNCHANGED <<link, timers, restarts, ws, pending, outward, inward, slots>>
      PROVE  LinkInv'
  <2> DEFINE e == [c EXCEPT !.at = at]
  <2>1. e \in Link!Compares /\ e.gen = c.gen /\ e.cap = c.cap /\ e.boot = c.boot /\ e.at = at
    BY <1>2 DEF Link!Compares
  <2>2. Link!Becomes(c, e) BY <1>5
  <2> HIDE DEF e
  <2>3. KnownBoot(e.cap) /\ KnownBoot(e.boot)
          /\ Knows(e, studioEdits', diskEdits', unheard') /\ e.at # "installing"
    BY <1>1, <1>2, <2>1 DEF LinkInv, BootsAreNew, Knows, Link!dataVars
  <2> QED BY <1>1, <1>2, <1>5, <2>1, <2>2, <2>3, DataIsTyped, BecomesKeeps DEF
     Link!dataVars, Link!wireVars
<1>6. CASE Link!Ends(c) /\ Link!Disconnected /\ UNCHANGED <<timers, restarts>>
  BY <1>1, <1>2, <1>4, <1>6, DisconnectedKeeps DEF Link!Ends
<1>7. CASE Link!RestartAfter(c) /\ UNCHANGED <<ws, pending, outward, inward, slots>>
  BY <1>1, <1>2, <1>7, RestartAfterKeeps DEF Link!wireVars
<1>8. CASE /\ Link!Becomes(c, Link!Comparing(link))
           /\ UNCHANGED <<link, timers, restarts, ws, pending, outward, inward, slots>>
  <2> DEFINE d == Link!Comparing(link)
  <2>1. d \in Link!Compares /\ d.gen = link.gen /\ d.cap = link.cap /\ d.at = "scanning"
          /\ d.boot = NoLink
    BY DataIsTyped, ComparingIs
  <2> HIDE DEF d
  <2>2. /\ compares' = (compares \ {c}) \cup {d} /\ d \in compares'
        /\ \A x \in compares' : x.gen = link.gen => x = d
    BY <1>3, <1>8 DEF Link!Becomes, d
  <2>3. /\ link.base # NoLink /\ KnownBoot(link.cap)
        /\ Runs(host, link.cap) => At(host, link.base) = link.cap
    BY <1>3 DEF LinkInv, LinkIsSet, BootsAreNew, CapIsBase
  <2>4. UNCHANGED <<Link!daemonVars, Link!dataVars, Link!wireVars, loops, intended>>
    BY <1>1, <1>8 DEF Link!wireVars
  <2>5. \A a \in attempts' : a.n # link.attempt BY <1>1, <1>3 DEF NoTry
  <2> QED BY <1>1, <1>2, <1>3, <1>4, <1>8, <2>1, <2>2, <2>3, <2>4, <2>5, DataIsTyped,
     BeginKeeps
<1> QED BY <1>5, <1>6, <1>7, <1>8 DEF Link!Decided

(* A poll that fails looks for the daemon again. *)
LEMMA PollFailedKeeps ==
    ASSUME LinkInv, NEW c \in compares, Link!PollFailed(c)
    PROVE  LinkInv'
<1>1. PICK u \in Link!Matching(link.pin) : link' = Link!Refreshed(u) BY DEF Link!PollFailed
<1>2. /\ c.at = "deciding" /\ Link!Wanted(c) /\ Link!BootAt(link.base) = NoLink
      /\ UNCHANGED <<Link!daemonVars, Link!dataVars, Link!wireVars, Link!taskVars,
                     intended, left>>
  BY DEF Link!PollFailed
<1>3. /\ Typed /\ Spent /\ c.gen = link.gen
      /\ link.desired /\ link.busy /\ ~link.connected /\ ~link.retrying /\ NoTry
      /\ \A d \in compares : d.gen = link.gen => d = c
      /\ Absent(timers, link.gen) /\ Absent(restarts, link.gen) /\ Absent(loops, link.gen)
  BY <1>2, ComparerWorks, LeftIsSpent DEF LinkInv, Link!Wanted
<1>4. /\ link' \in Link!Links /\ link'.desired = link.desired /\ link'.busy = link.busy
      /\ link'.connected = link.connected /\ link'.gen = link.gen
           /\ link'.attempt = link.attempt
      /\ link'.base = u /\ link'.cap = At(host, u) /\ link'.compared = link.compared
      /\ link'.pin = link.pin /\ link'.retrying = link.retrying
      /\ link'.hooks = link.hooks /\ link'.with = link.with
      /\ KnownBoot(At(host, u)) /\ u # NoLink
  BY <1>1, RefreshedIs DEF Link!Matching
<1> USE <1>2, <1>3, <1>4 DEF Link!taskVars, LinkInv
<1>5. Typed' BY DEF Typed, Link!TypeOK, Link!daemonVars, Link!dataVars, Link!wireVars
<1>6. OneGoes' /\ Numbered' /\ LinkIsSet' /\ HooksAreOne'
  BY DEF OneGoes, Live, Idle, Trying, Working, Nobody, NoTry, Numbered, LinkIsSet,
     HooksAreOne, Link!wireVars
<1>7. BootsAreNew' /\ CapIsBase' BY DEF BootsAreNew, KnownBoot, CapIsBase, Link!daemonVars
<1>8. ~Runs(host, c.cap) BY Bridge DEF ComparesKnow, Runs
<1>9. ComparesKnow' BY <1>8 DEF ComparesKnow, Link!daemonVars, Link!dataVars
<1>10. LoopsKnow' /\ LiveAgrees' BY DEF LoopsKnow, LiveAgrees, Absent
<1> QED BY <1>5, <1>6, <1>7, <1>9, <1>10

(* A pull makes Studio the project's disk. *)
LEMMA PulledKeeps ==
    ASSUME LinkInv, NEW c \in compares, Link!Pulled(c)
    PROVE  LinkInv'
<1> DEFINE p == Link!ProjectOf(c.boot)
           d == [c EXCEPT !.at = "compared"]
<1>1. /\ c.at = "pulling" /\ Link!Wanted(c)
      /\ UNCHANGED <<Link!daemonVars, diskEdits, Link!wireVars, attempts, loops, intended,
                     left>>
  BY DEF Link!Pulled
<1>2. Spent /\ c.gen = link.gen /\ Knows(c, studioEdits, diskEdits, unheard)
        /\ c \in Link!Compares
  BY <1>1, LeftIsSpent, OwnKnows, DataIsTyped DEF LinkInv, Link!Wanted
<1>3. CASE /\ Link!Serves(c) /\ UNCHANGED <<link, timers, restarts>> /\ studioEdits' = diskEdits[p]
           /\ Link!Becomes(c, d) /\ unheard' = [unheard EXCEPT ![p] = {}]
  <2>1. d \in Link!Compares /\ d.gen = c.gen /\ d.cap = c.cap /\ d.boot = c.boot
          /\ d.at = "compared"
    BY <1>2 DEF Link!Compares
  <2>2. p = Of(host, c.boot) /\ p \in Projects BY <1>1, <1>2, <1>3, ServerRuns
  <2> HIDE DEF d, p
  <2>3. KnownBoot(d.cap) /\ KnownBoot(d.boot) BY <2>1 DEF LinkInv, BootsAreNew
  <2>4. unheard' \in [Projects -> SUBSET Link!Saves]
          /\ studioEdits' \subseteq {0} \cup Link!Strokes \cup Link!Saves
    BY <1>3, <2>2, DataIsTyped
  <2>5. Knows(d, studioEdits', diskEdits', unheard')
    BY <1>1, <1>2, <1>3, <2>1, <2>2 DEF Knows
  <2> QED BY <1>1, <1>2, <1>3, <2>1, <2>3, <2>4, <2>5, DataIsTyped, BecomesKeeps
<1>4. CASE Link!RetryAfter(c) /\ UNCHANGED <<studioEdits, unheard>>
  BY <1>1, <1>2, <1>4, RetryAfterKeeps DEF Link!dataVars
<1> QED BY <1>3, <1>4 DEF Link!Pulled

(* A push makes the project's disk Studio. *)
LEMMA PushedKeeps ==
    ASSUME LinkInv, NEW c \in compares, Link!Pushed(c)
    PROVE  LinkInv'
<1> DEFINE p == Link!ProjectOf(c.boot)
           d == [c EXCEPT !.at = "compared"]
<1>1. /\ c.at = "pushing" /\ Link!Wanted(c)
      /\ UNCHANGED <<Link!daemonVars, studioEdits, Link!wireVars, attempts, loops,
                     intended, left>>
  BY DEF Link!Pushed
<1>2. Spent /\ c.gen = link.gen /\ Knows(c, studioEdits, diskEdits, unheard)
        /\ c \in Link!Compares
  BY <1>1, LeftIsSpent, OwnKnows, DataIsTyped DEF LinkInv, Link!Wanted
<1> USE <1>2
<1>3. CASE /\ Link!Serves(c) /\ UNCHANGED <<link, timers, restarts>>
           /\ diskEdits' = [diskEdits EXCEPT ![p] = studioEdits]
           /\ Link!Becomes(c, d) /\ unheard' = [unheard EXCEPT ![p] = {}]
  <2>1. d \in Link!Compares /\ d.gen = c.gen /\ d.cap = c.cap /\ d.boot = c.boot
          /\ d.at = "compared"
    BY DEF Link!Compares
  <2>2. p = Of(host, c.boot) /\ p \in Projects BY <1>1, <1>3, ServerRuns
  <2> USE <2>1, <1>3, <2>2, DataIsTyped
  <2> HIDE DEF d, p
  <2>3. KnownBoot(d.cap) /\ KnownBoot(d.boot) BY DEF LinkInv, BootsAreNew
  <2>4. /\ unheard' \in [Projects -> SUBSET Link!Saves]
        /\ diskEdits' \in [Projects -> SUBSET ({0} \cup Link!Strokes \cup Link!Saves)]
    OBVIOUS
  <2>5. diskEdits'[p] = studioEdits /\ unheard'[p] = {} OBVIOUS
  <2>6. Knows(d, studioEdits', diskEdits', unheard') BY <1>1, <2>5 DEF Knows
  <2> QED BY <1>1, <2>3, <2>4, <2>6, BecomesKeeps
<1>4. CASE Link!RestartAfter(c) /\ UNCHANGED <<diskEdits, unheard>>
  BY <1>1, <1>4, RestartAfterKeeps DEF Link!dataVars
<1>5. CASE Link!RetryAfter(c) /\ UNCHANGED <<diskEdits, unheard>>
  BY <1>1, <1>5, RetryAfterKeeps DEF Link!dataVars
<1> QED BY <1>3, <1>4, <1>5 DEF Link!Pushed

(* A comparison installs the hooks only for what it has compared. *)
LEMMA CompletedKeeps ==
    ASSUME LinkInv, NEW c \in compares, Link!Completed(c)
    PROVE  LinkInv'
<1> DEFINE d == [c EXCEPT !.at = "installing"]
<1>1. /\ c.at = "compared" /\ Link!Wanted(c)
      /\ UNCHANGED <<Link!daemonVars, Link!dataVars, Link!wireVars, attempts, loops,
                     intended, left>>
  BY DEF Link!Completed
<1>2. Typed /\ Spent /\ c.gen = link.gen /\ c \in Link!Compares /\ link \in Link!Links
  BY <1>1, LeftIsSpent, DataIsTyped DEF LinkInv, Link!Wanted
<1> USE <1>2
<1>3. CASE Link!RestartAfter(c) BY <1>1, <1>3, RestartAfterKeeps
<1>4. CASE /\ ~c.dirty /\ Link!Becomes(c, d) /\ UNCHANGED <<timers, restarts>>
           /\ link' = [link EXCEPT !.compared = c.cap, !.with = c.boot, !.hooks = TRUE]
  <2>1. /\ link.desired /\ link.busy /\ ~link.connected /\ ~link.retrying /\ NoTry
        /\ \A x \in compares : x.gen = link.gen => x = c
        /\ Absent(timers, link.gen) /\ Absent(restarts, link.gen) /\ Absent(loops, link.gen)
    BY ComparerWorks
  <2>2. \A x \in compares : x.at # "installing" BY <1>1, <2>1 DEF LinkInv, HooksAreOne
  <2>3. pending = {} /\ outward = {} /\ inward = {} /\ ws = NoLink
    BY <2>1, <2>2 DEF LinkInv, HooksAreOne
  <2>4. /\ d \in Link!Compares /\ d.gen = c.gen /\ d.cap = c.cap /\ d.boot = c.boot
        /\ d.at = "installing" /\ d.dirty = c.dirty
    BY DEF Link!Compares
  <2> HIDE DEF d
  <2>5. c.cap \in Link!Boots /\ c.boot \in Link!Boots BY DEF Link!Compares
  <2>6. /\ link'.desired = link.desired /\ link'.busy = link.busy
        /\ link'.connected = link.connected /\ link'.gen = link.gen
             /\ link'.attempt = link.attempt
        /\ link'.base = link.base /\ link'.cap = link.cap /\ link'.compared = c.cap
        /\ link'.pin = link.pin /\ link'.retrying = link.retrying
        /\ link'.resyncing = link.resyncing /\ link'.hooks = TRUE /\ link'.with = c.boot
    BY <1>4 DEF Link!Links
  <2>7. link' = [x \in DOMAIN link' |-> link'[x]] /\ DOMAIN link' = Fields
    BY <1>4 DEF Link!Links, Fields
  <2>8. Fielded(link') BY <2>5, <2>6, LinkIsTyped DEF Fielded
  <2>9. link' \in Link!Links BY <2>7, <2>8, RecordIsLink
  <2>10. compares' = (compares \ {c}) \cup {d} /\ link.gen <= link.gen
    BY <1>4, LinkIsTyped DEF Link!Becomes
  <2>11. Typed'
    BY <1>1, <1>4, <2>4, <2>9, <2>10 DEF Typed, Link!TypeOK, Link!daemonVars, Link!dataVars,
       Link!wireVars
  <2> USE <1>1, <2>1, <2>4, <2>6, <2>10 DEF LinkInv
  <2>12. OneGoes' /\ Numbered'
    <3>1. Working' BY <1>4 DEF Working, NoTry, Alone, Absent
    <3> QED BY <1>4, <3>1 DEF OneGoes, Numbered, Absent
  <2>13. LinkIsSet' BY <1>4 DEF LinkIsSet
  <2>14. HooksAreOne' BY <2>2, <2>3 DEF HooksAreOne, NoTry, Link!wireVars
  <2>15. BootsAreNew' /\ CapIsBase'
    BY DEF BootsAreNew, KnownBoot, CapIsBase, Link!daemonVars
  <2>16. ComparesKnow' BY DEF ComparesKnow, Link!daemonVars, Link!dataVars
  <2>17. LoopsKnow' /\ LiveAgrees' BY DEF LoopsKnow, LiveAgrees, Absent
  <2> QED BY <2>11, <2>12, <2>13, <2>14, <2>15, <2>16, <2>17
<1> QED BY <1>3, <1>4 DEF Link!Completed

(* Nothing is live while a comparison installs its hooks. *)
LEMMA InstallerIsOne ==
    ASSUME LinkInv, NEW c \in compares, c.at = "installing"
    PROVE  /\ ~link.connected /\ \A d \in compares : d.at = "installing" => d = c
           /\ outward = {} /\ inward = {} /\ ws = NoLink /\ (~c.dirty => pending = {})
BY LinkIsLive DEF LinkInv, HooksAreOne

(* A comparison that is over goes live. *)
LEMMA GoesLive ==
    ASSUME LinkInv, Spent, NEW c \in compares, c.at = "installing", Link!Wanted(c),
           ~c.dirty, Link!Ends(c),
           link' = [link EXCEPT !.retrying = FALSE, !.resyncing = FALSE, !.connected = TRUE,
                                !.busy = FALSE, !.gen = @ + 1],
           loops' = loops \cup {[gen |-> link'.gen, at |-> "asking", pin |-> link.pin,
                                 boot |-> NoLink]},
           UNCHANGED <<Link!daemonVars, Link!dataVars, Link!wireVars, attempts, timers,
                       restarts, intended>>
    PROVE  LinkInv'
<1> DEFINE l == [gen |-> link'.gen, at |-> "asking", pin |-> link.pin, boot |-> NoLink]
<1>1. /\ ~link.connected /\ \A d \in compares : d.at = "installing" => d = c
      /\ outward = {} /\ inward = {} /\ ws = NoLink /\ pending = {}
      /\ Typed /\ c.gen = link.gen /\ link.desired /\ link \in Link!Links /\ link.gen \in Nat
  BY InstallerIsOne, LinkIsTyped DEF Link!Wanted, LinkInv
<1>2. NoTry /\ link.hooks BY <1>1, ComparerWorks DEF LinkInv, HooksAreOne
<1>3. /\ link' \in Link!Links /\ link'.desired = link.desired /\ link'.busy = FALSE
      /\ link'.connected = TRUE /\ link'.gen = link.gen + 1
      /\ link'.attempt = link.attempt /\ link'.base = link.base /\ link'.cap = link.cap
      /\ link'.compared = link.compared /\ link'.pin = link.pin
      /\ link'.retrying = FALSE /\ link'.hooks = link.hooks /\ link'.with = link.with
  <2>1. link \in Link!Links BY <1>1
  <2>2. link' = [link EXCEPT !.retrying = FALSE, !.resyncing = FALSE, !.connected = TRUE,
                !.busy = FALSE, !.gen = @ + 1]
    OBVIOUS
  <2> QED BY ONLY <2>1, <2>2, InstallingHooks, ZenonT(60)
<1>4. l \in Link!Loops /\ l.gen = link'.gen /\ l.at = "asking" /\ l.pin = link.pin
        /\ l.boot = NoLink
  <2>1. link'.gen \in Nat /\ link.pin \in Projects \cup {NoLink}
    BY <1>1, <1>3 DEF Link!Links
  <2> QED BY <2>1 DEF Link!Loops, Link!Boots
<1>5. loops' = loops \cup {l} /\ compares' = compares \ {c} BY DEF Link!Ends
<1> HIDE DEF l
<1>6. Typed'
  BY <1>1, <1>3, <1>4, <1>5 DEF Spent, Typed, Link!TypeOK, Link!daemonVars, Link!dataVars,
     Link!wireVars
<1>7. /\ \A x \in compares : x.gen <= link'.gen /\ x.gen # link'.gen
      /\ \A x \in timers : x.gen <= link'.gen /\ x.gen # link'.gen
      /\ \A x \in restarts : x.gen <= link'.gen /\ x.gen # link'.gen
      /\ \A x \in loops : x.gen <= link'.gen /\ x.gen # link'.gen
      /\ link'.gen <= link'.gen
  <2>1. \A n \in Nat : n <= link.gen => n <= link.gen + 1 /\ n # link.gen + 1 BY <1>1
  <2> QED BY <1>1, <1>3, <2>1, TasksAreTyped DEF LinkInv, Numbered
<1>8. OneGoes' /\ Numbered'
  <2>1. Live' BY <1>2, <1>3, <1>4, <1>5, <1>7 DEF Live, Nobody, NoTry, Alone, Absent
  <2> QED BY <1>3, <1>4, <1>5, <1>7, <2>1 DEF LinkInv, OneGoes, Numbered
<1>9. LinkIsSet' /\ HooksAreOne'
  BY <1>1, <1>2, <1>3, <1>4, <1>5, <1>7 DEF LinkInv, LinkIsSet, HooksAreOne, Link!wireVars
<1>10. BootsAreNew' /\ CapIsBase'
  BY <1>3, <1>4, <1>5 DEF LinkInv, Spent, BootsAreNew, KnownBoot, CapIsBase, Link!daemonVars
<1>11. ComparesKnow' BY <1>5, <1>7 DEF ComparesKnow
<1>12. LoopsKnow' /\ LiveAgrees'
  <2>1. /\ c.boot # NoLink /\ (Runs(host, c.cap) => c.boot = c.cap)
        /\ link.compared = c.cap /\ link.with = c.boot
        /\ Runs(host, c.boot) =>
              /\ studioEdits \subseteq diskEdits[Of(host, c.boot)]
              /\ diskEdits[Of(host, c.boot)] \ studioEdits \subseteq unheard[Of(host, c.boot)]
    BY <1>1 DEF LinkInv, ComparesKnow
  <2>2. LoopsKnow'
    BY <1>1, <1>3, <1>4, <1>5, <1>7, <2>1 DEF LoopsKnow, Link!daemonVars, Link!wireVars
  <2>3. LiveAgrees'
    BY <1>1, <1>3, <2>1 DEF LiveAgrees, Link!daemonVars, Link!dataVars, Link!wireVars
  <2> QED BY <2>2, <2>3
<1> QED BY <1>6, <1>8, <1>9, <1>10, <1>11, <1>12 DEF LinkInv

(* One that was disturbed, or that nobody wants any more, takes its hooks. *)
LEMMA HooksGo ==
    ASSUME LinkInv, Spent, NEW c \in compares, c.at = "installing", Link!Ends(c),
           link' = [link EXCEPT !.hooks = FALSE], pending' = {},
           restarts' = IF Link!Wanted(c) THEN restarts \cup {[gen |-> link.gen]} ELSE restarts,
           UNCHANGED <<Link!daemonVars, Link!dataVars, ws, outward, inward, slots,
                       attempts, timers, loops, intended>>
    PROVE  LinkInv'
<1> DEFINE r == [gen |-> link.gen]
<1>1. /\ ~link.connected /\ \A d \in compares : d.at = "installing" => d = c
      /\ outward = {} /\ inward = {} /\ ws = NoLink
      /\ Typed /\ link \in Link!Links /\ link.gen \in Nat
           /\ (Link!Wanted(c) <=> c.gen = link.gen)
  BY InstallerIsOne, LinkIsTyped, WantedIsOwn DEF LinkInv
<1>2. /\ link' \in Link!Links /\ link'.desired = link.desired /\ link'.busy = link.busy
      /\ link'.connected = link.connected /\ link'.gen = link.gen
      /\ link'.attempt = link.attempt /\ link'.base = link.base /\ link'.cap = link.cap
      /\ link'.compared = link.compared /\ link'.pin = link.pin
      /\ link'.retrying = link.retrying /\ link'.hooks = FALSE /\ link'.with = link.with
  BY ZenonT(60), <1>1, Unhooked
<1>3. compares' = compares \ {c} /\ r \in Link!Restarts /\ r.gen = link.gen
        /\ link.gen <= link.gen
  BY <1>1 DEF Link!Ends, Link!Restarts
<1> USE <1>2, <1>3
<1>4. CASE Link!Wanted(c)
  <2>1. restarts' = restarts \cup {r} /\ c.gen = link.gen BY <1>1, <1>4
  <2> HIDE DEF r
  <2>2. /\ link.desired /\ link.busy /\ ~link.connected /\ ~link.retrying /\ NoTry
        /\ \A d \in compares : d.gen = link.gen => d = c
        /\ Absent(timers, link.gen) /\ Absent(restarts, link.gen) /\ Absent(loops, link.gen)
    BY <2>1, ComparerWorks
  <2>3. Typed' BY <1>1, <2>1 DEF Spent, Typed, Link!TypeOK, Link!daemonVars, Link!dataVars
  <2> USE <2>2 DEF LinkInv
  <2>4. OneGoes' /\ Numbered'
    <3>1. Working' BY <2>1 DEF Working, NoTry, Alone, Absent
    <3> QED BY <2>1, <3>1 DEF OneGoes, Numbered, Absent
  <2>5. LinkIsSet' /\ HooksAreOne' BY <1>1 DEF LinkIsSet, HooksAreOne
  <2>6. BootsAreNew' /\ CapIsBase'
    BY DEF Spent, BootsAreNew, KnownBoot, CapIsBase, Link!daemonVars
  <2>7. ComparesKnow' /\ LoopsKnow' /\ LiveAgrees'
    BY DEF ComparesKnow, LoopsKnow, LiveAgrees, Absent
  <2> QED BY <2>3, <2>4, <2>5, <2>6, <2>7
<1>5. CASE ~Link!Wanted(c)
  <2> USE DEF LinkInv
  <2>1. restarts' = restarts /\ c.gen # link.gen BY <1>1, <1>5
  <2>2. Typed' BY <1>1, <2>1 DEF Spent, Typed, Link!TypeOK, Link!daemonVars, Link!dataVars
  <2>3. OneGoes' /\ Numbered'
    BY <2>1 DEF OneGoes, Live, Idle, Trying, Working, Nobody, NoTry, Alone, Absent, Numbered
  <2>4. LinkIsSet' /\ HooksAreOne' BY <1>1 DEF LinkIsSet, HooksAreOne
  <2>5. BootsAreNew' /\ CapIsBase'
    BY DEF Spent, BootsAreNew, KnownBoot, CapIsBase, Link!daemonVars
  <2>6. ComparesKnow' /\ LoopsKnow' /\ LiveAgrees'
    BY <1>1 DEF ComparesKnow, LoopsKnow, LiveAgrees, Link!daemonVars, Link!dataVars
  <2> QED BY <2>2, <2>3, <2>4, <2>5, <2>6
<1> QED BY <1>4, <1>5

(* Hooks that are installed hand over to a loop, or are taken out. *)
LEMMA InstalledKeeps ==
    ASSUME LinkInv, NEW c \in compares, Link!Installed(c)
    PROVE  LinkInv'
<1>1. /\ c.at = "installing" /\ Link!Ends(c) /\ Spent
      /\ UNCHANGED <<Link!daemonVars, Link!dataVars, ws, outward, inward, slots, attempts,
                     timers, intended, left>>
  BY LeftIsSpent DEF Link!Installed, LinkInv
<1>2. CASE /\ Link!Wanted(c) /\ ~c.dirty
           /\ link' = [link EXCEPT !.retrying = FALSE, !.resyncing = FALSE, !.connected = TRUE,
                                   !.busy = FALSE, !.gen = @ + 1]
           /\ loops' = loops \cup {[gen |-> link'.gen, at |-> "asking", pin |-> link.pin,
                                    boot |-> NoLink]}
           /\ UNCHANGED <<pending, restarts>>
  BY <1>1, <1>2, GoesLive DEF Link!wireVars
<1>3. CASE /\ link' = [link EXCEPT !.hooks = FALSE] /\ pending' = {} /\ UNCHANGED loops
           /\ restarts' = IF Link!Wanted(c) THEN restarts \cup {[gen |-> link.gen]}
                ELSE restarts
  BY <1>1, <1>3, HooksGo
<1> QED BY <1>2, <1>3 DEF Link!Installed

(* A comparison that nobody wants ends, and takes nothing along. *)
LEMMA DroppedKeeps ==
    ASSUME LinkInv, NEW c \in compares, Link!Dropped(c)
    PROVE  LinkInv'
<1>1. /\ c.at # "installing" /\ c.gen # link.gen /\ compares' = compares \ {c}
      /\ UNCHANGED <<Link!daemonVars, Link!dataVars, link, Link!wireVars, attempts, timers,
                     restarts, loops, intended, left>>
  BY WantedIsOwn DEF Link!Dropped, Link!Ends
<1> USE <1>1 DEF LinkInv
<1>2. Typed' BY DEF Typed, Link!TypeOK, Link!daemonVars, Link!dataVars, Link!wireVars
<1>3. OneGoes' /\ Numbered'
  BY DEF OneGoes, Live, Idle, Trying, Working, Nobody, NoTry, Alone, Absent, Numbered
<1>4. LinkIsSet' /\ HooksAreOne' BY DEF LinkIsSet, HooksAreOne, Link!wireVars
<1>5. BootsAreNew' /\ CapIsBase' BY DEF BootsAreNew, KnownBoot, CapIsBase, Link!daemonVars
<1>6. ComparesKnow' /\ LoopsKnow' /\ LiveAgrees'
  BY DEF ComparesKnow, LoopsKnow, LiveAgrees, Link!daemonVars, Link!dataVars, Link!wireVars
<1> QED BY <1>2, <1>3, <1>4, <1>5, <1>6

-------------------------------------------------------------------------------
(* The invariant holds at first, and every step keeps it. *)
LEMMA LinkInvAtFirst ==
    ASSUME Link!LinkAssumption, \A b \in Spans : ~b.late, Link!Init
    PROVE  LinkInv
<1>1. /\ link.desired = FALSE /\ link.busy = FALSE /\ link.connected = FALSE /\ link.gen = 0
      /\ link.attempt = 0 /\ link.base = NoLink /\ link.cap = NoLink /\ link.compared = NoLink
      /\ link.pin = NoLink /\ link.retrying = FALSE /\ link.resyncing = FALSE
      /\ link.hooks = FALSE /\ link.with = NoLink
  BY DEF Link!Init
<1>2. link \in Link!Links
  <2>1. Fielded(link)
    <3>1. /\ link.desired \in BOOLEAN /\ link.busy \in BOOLEAN /\ link.connected \in BOOLEAN
          /\ link.retrying \in BOOLEAN /\ link.resyncing \in BOOLEAN /\ link.hooks \in BOOLEAN
      BY <1>1
    <3>2. link.gen \in Nat /\ link.attempt \in Nat BY <1>1
    <3>3. link.base \in Urls \cup {NoLink} /\ link.pin \in Projects \cup {NoLink} BY <1>1
    <3>4. link.cap \in Link!Boots /\ link.compared \in Link!Boots /\ link.with \in Link!Boots
      BY <1>1 DEF Link!Boots
    <3> QED BY <3>1, <3>2, <3>3, <3>4 DEF Fielded
  <2>2. link = [x \in DOMAIN link |-> link[x]] /\ DOMAIN link = Fields
    BY DEF Link!Init, Fields
  <2> QED BY <2>1, <2>2, RecordIsLink
<1>3. left \in Link!Allowances /\ ~left.late BY DEF Link!Init, Link!LinkAssumption
<1>4. host \in [Urls -> {NoLink} \cup [project : Projects, boot : Nat]]
        /\ \A u \in Urls : host[u] = NoLink
  BY DEF Link!Init
<1>5. Typed
  <2>1. diskEdits \in [Projects -> SUBSET ({0} \cup Link!Strokes \cup Link!Saves)]
    BY DEF Link!Init
  <2>2. unheard \in [Projects -> SUBSET Link!Saves] BY DEF Link!Init
  <2> QED BY <1>2, <1>3, <1>4, <2>1, <2>2 DEF Typed, Link!TypeOK, Link!Init, Link!Boots
<1>6. OneGoes /\ Numbered /\ LinkIsSet /\ HooksAreOne
  BY <1>1 DEF Link!Init, OneGoes, Idle, Nobody, NoTry, Absent, Numbered, LinkIsSet,
     HooksAreOne
<1>7. BootsAreNew /\ CapIsBase /\ ComparesKnow /\ LoopsKnow /\ LiveAgrees
  BY <1>1, <1>4 DEF Link!Init, BootsAreNew, KnownBoot, CapIsBase, ComparesKnow, LoopsKnow,
     LiveAgrees, At
<1> QED BY <1>5, <1>6, <1>7 DEF LinkInv

(* Every step keeps the invariant. *)
LEMMA LinkInvStays ==
    ASSUME LinkInv, [Link!Next]_Link!vars
    PROVE  LinkInv'
<1>1. ASSUME NEW u \in Urls, Link!StopDaemon(u) \/ Link!Connect(u)
        \/ \E p \in Projects : Link!StartDaemon(u, p)
      PROVE  LinkInv'
  BY <1>1, StopDaemonKeeps, ConnectKeeps, StartDaemonKeeps
<1>2. ASSUME NEW b \in slots, Link!Release(b) PROVE LinkInv' BY <1>2, ReleaseKeeps
<1>3. ASSUME NEW p \in Projects, Link!Save(p) PROVE LinkInv' BY <1>3, SaveKeeps
<1>4. CASE Link!Stroke \/ Link!Cancel \/ Link!Disconnect \/ Link!Flush
  BY <1>4, StrokeKeepsLink, CancelKeeps, DisconnectKeeps, FlushKeeps
<1>5. ASSUME NEW a \in attempts, Link!Searched(a) \/ Link!Validated(a)
        \/ Link!Configured(a) PROVE LinkInv'
  BY <1>5, SearchedKeeps, ValidatedKeeps, ConfiguredKeeps
<1>6. ASSUME NEW t \in timers, Link!TimerFires(t) \/ Link!TimerAnswered(t) PROVE LinkInv'
  BY <1>6, TimerFiresKeeps, TimerAnsweredKeeps
<1>7. ASSUME NEW c \in compares,
             \/ Link!Scanned(c) \/ Link!Asked(c) \/ Link!Compared(c) \/ Link!Decided(c)
                  \/ Link!PollFailed(c)
             \/ Link!Pulled(c) \/ Link!Pushed(c) \/ Link!Completed(c) \/ Link!Installed(c)
                  \/ Link!Dropped(c)
      PROVE  LinkInv'
  BY <1>7, ScannedKeeps, AskedKeeps, ComparedKeeps, DecidedKeeps, PollFailedKeeps,
     PulledKeeps, PushedKeeps, CompletedKeeps, InstalledKeeps, DroppedKeeps
<1>8. ASSUME NEW r \in restarts, Link!RestartDue(r) PROVE LinkInv' BY <1>8, RestartDueKeeps
<1>9. ASSUME NEW l \in loops,
             \/ Link!LoopAnswered(l) \/ Link!Opened(l) \/ Link!Heard(l) \/ Link!Accept(l)
                  \/ Link!Closes(l) \/ Link!Resync(l)
             \/ \E e \in outward : Link!Written(l, e)
             \/ \E e \in inward : Link!Applied(l, e)
      PROVE  LinkInv'
  BY <1>9, LoopAnsweredKeeps, OpenedKeeps, HeardKeeps, AcceptKeeps, ClosesKeeps,
     ResyncKeeps, WrittenKeeps, AppliedKeeps
<1>10. CASE UNCHANGED Link!vars
  BY <1>10 DEF Link!vars, Link!daemonVars, Link!dataVars, Link!wireVars, Link!taskVars,
     LinkInv, Typed, Link!TypeOK, OneGoes, Live, Idle, Trying, Working, Nobody, NoTry,
     Numbered, LinkIsSet, HooksAreOne, BootsAreNew, KnownBoot, CapIsBase, ComparesKnow,
     LoopsKnow, LiveAgrees
<1> QED BY <1>1, <1>2, <1>3, <1>4, <1>5, <1>6, <1>7, <1>8, <1>9, <1>10 DEF Link!Next

-------------------------------------------------------------------------------
(* What is published is the link's, compared with and heard. *)
LEMMA PublishedIsWith ==
    ASSUME LinkInv, NEW l \in Link!Published
    PROVE  /\ link.connected /\ l.boot = link.with /\ Runs(host, link.with)
           /\ Link!ProjectOf(l.boot) = Of(host, link.with) /\ Of(host, link.with) = intended
<1>1. l \in loops /\ ws = l.gen /\ Runs(host, l.boot) /\ l.gen \in Nat
  BY Bridge, TasksAreTyped DEF Link!Published, LinkInv
<1>2. ws # NoLink BY <1>1, LinkIsTyped DEF LinkInv
<1>3. link.connected BY <1>2 DEF LinkInv, HooksAreOne
<1>4. PICK m \in loops : m.gen = link.gen BY <1>3, LinkIsLive
<1>5. l.gen = link.gen BY <1>1, <1>2, <1>4 DEF LinkInv, LoopsKnow
<1> QED BY <1>1, <1>3, <1>5, PublishedIsHeard, HeardIsWith, Bridge

(* Someone goes on, and no two of them do the same. *)
LEMMA SomeoneGoes ==
    ASSUME LinkInv
    PROVE  Link!SomeoneGoesOn
<1> DEFINE C == {c \in compares : Link!Wanted(c)}
           T == {t \in timers : Link!Wanted(t)}
           R == {r \in restarts : Link!Wanted(r)}
           A == {a \in attempts : Link!Latest(a)}
           L == {l \in loops : Link!Alive(l)}
<1>1. /\ C = {c \in compares : c.gen = link.gen} /\ T = {t \in timers : t.gen = link.gen}
      /\ R = {r \in restarts : r.gen = link.gen} /\ A = {a \in attempts : a.n = link.attempt}
      /\ L = {l \in loops : l.gen = link.gen}
  BY WantedIsOwn
<1> HIDE DEF C, T, R, A, L
<1>2. ASSUME link.busy
      PROVE  \/ C = {} /\ T = {} /\ R = {} /\ \E a : A = {a}
             \/ T = {} /\ R = {} /\ A = {} /\ \E c : C = {c}
             \/ C = {} /\ R = {} /\ A = {} /\ \E t : T = {t}
             \/ C = {} /\ T = {} /\ A = {} /\ \E r : R = {r}
  <2>1. Trying \/ Working BY <1>2 DEF LinkInv, OneGoes, Live, Idle, LinkIsSet
  <2>2. CASE Trying
    <3>1. C = {} /\ T = {} /\ R = {} BY <1>1, <2>2 DEF Trying, Nobody, Absent
    <3>2. \E a : A = {a} BY <1>1, <2>2 DEF Trying
    <3> QED BY <3>1, <3>2
  <2>3. CASE Working
    <3>1. A = {} BY <1>1, <2>3 DEF Working, NoTry
    <3>2. \/ (\E c : C = {c}) /\ T = {} /\ R = {}
          \/ (\E t : T = {t}) /\ C = {} /\ R = {}
          \/ (\E r : R = {r}) /\ C = {} /\ T = {}
      <4>1. CASE Alone(compares, link.gen) /\ Absent(timers, link.gen)
              /\ Absent(restarts, link.gen)
        <5>1. (\E c : C = {c}) /\ T = {} /\ R = {} BY <1>1, <4>1 DEF Alone, Absent
        <5> QED BY <5>1
      <4>2. CASE Alone(timers, link.gen) /\ Absent(compares, link.gen)
              /\ Absent(restarts, link.gen)
        <5>1. (\E t : T = {t}) /\ C = {} /\ R = {} BY <1>1, <4>2 DEF Alone, Absent
        <5> QED BY <5>1
      <4>3. CASE Alone(restarts, link.gen) /\ Absent(compares, link.gen)
              /\ Absent(timers, link.gen)
        <5>1. (\E r : R = {r}) /\ C = {} /\ T = {} BY <1>1, <4>3 DEF Alone, Absent
        <5> QED BY <5>1
      <4> QED BY <2>3, <4>1, <4>2, <4>3 DEF Working
    <3> QED BY <3>1, <3>2
  <2> QED BY <2>1, <2>2, <2>3
<1>3. link.busy => \E x \in C \cup T \cup R \cup A : C \cup T \cup R \cup A = {x} BY <1>2
<1>4. link.connected => \E l \in loops : L = {l}
  <2> SUFFICES ASSUME link.connected PROVE \E l \in loops : L = {l} OBVIOUS
  <2>1. PICK l \in loops : l.gen = link.gen BY LinkIsLive
  <2> QED BY <1>1, <2>1, LoopLives
<1> QED BY <1>3, <1>4 DEF Link!SomeoneGoesOn, C, T, R, A, L

(* The invariant has all that is claimed of a link. *)
LEMMA LinkInvSuffices ==
    ASSUME LinkInv
    PROVE  Link!TypeOK /\ Link!LinkAgrees /\ Link!LiveIsCompared /\ Link!SomeoneGoesOn
<1>1. Link!TypeOK BY DEF LinkInv, Typed
<1>2. Link!LinkAgrees BY PublishedIsWith DEF Link!LinkAgrees, LinkInv, LiveAgrees
<1>3. Link!LiveIsCompared BY PublishedIsWith DEF Link!LiveIsCompared
<1> QED BY <1>1, <1>2, <1>3, SomeoneGoes

(* While a link is live nothing falls between the comparison, the hooks and the socket; only
   the daemon that Studio was compared with, of the project the user connected to last, is
   live; and the plugin never waits for nothing. Where a cancelled request is answered late
   it may. *)
THEOREM LinkIsAlwaysKept ==
    Link!LinkAssumption /\ (\A b \in Spans : ~b.late) /\ Link!Spec => []LinkHolds
<1>1. Link!LinkAssumption /\ (\A b \in Spans : ~b.late) /\ Link!Init => LinkInv
  BY LinkInvAtFirst
<1>2. LinkInv /\ [Link!Next]_Link!vars => LinkInv' BY LinkInvStays
<1>3. LinkInv => LinkHolds BY LinkInvSuffices DEF LinkHolds
<1> QED BY <1>1, <1>2, <1>3, PTL DEF Link!Spec
===============================================================================
