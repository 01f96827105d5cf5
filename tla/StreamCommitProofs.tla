-------------------------- MODULE StreamCommitProofs --------------------------
(***************************************************************************)
(* StreamCommit for any number of services, streams, edits, faults and     *)
(* crashes: its types, and that the user's work is always somewhere; and,  *)
(* further down, that a generation is on the disk whole or not at all, and *)
(* is agreed on only when it is.                                           *)
(***************************************************************************)
EXTENDS StreamCommit, FiniteSetTheorems, TLAPS

(* A worker is at work only on the service its open session has reached. *)
WorkerBelongs ==
    worker.at # "idle" => /\ undo = None /\ session # None /\ ~session.done
                          /\ session.phase = "commit" /\ worker.s = session.svc

(* The fingerprint thread works for the open session. *)
FenceBelongs == fence.at # "none" => session # None

(* Whoever may have to put a tree back has its backup. *)
WorkerHasBackup ==
    \/ worker.at \in Locked
    \/ worker.at = "ok" /\ worker.fenced # Absent
    => Backup(worker.s, session.stream) # {}

(* Receipts name different services, and those that were there before have a backup. *)
Receipts(entries, g) ==
    /\ \A e \in entries : ~e.created => Backup(e.s, g) # {}
    /\ \A e, f \in entries : e.s = f.s => e = f

(* The receipts of an open session are those of the services before the current one; a
   session that has ended holds no checkpoint. *)
SessionHolds ==
    session # None =>
        /\ session.done => session.checkpoint = None
        /\ ~session.done /\ undo = None =>
              /\ session.checkpoint \in Baselines
              /\ \A e \in session.committed : e.s < session.svc
              /\ Receipts(session.committed, session.stream)

(* A rollback keeps the session it has to answer for; any other session has just been
   opened. *)
UndoHolds ==
    undo # None =>
        /\ Receipts(undo.todo, undo.stream)
        /\ undo.at # "check" => \E e \in undo.todo : Latest(e) /\ ~e.created
        /\ undo.req # None => session # None
        /\ undo.req = None /\ session # None =>
              session.committed = {} /\ ~session.done /\ session.checkpoint \in Baselines

(* Only trees the user has written are owed. *)
Authored == \A w \in owed : w[2].gen = 0 \/ w[2].edit # 0

(* The tree that is moved aside is the one the stream has installed. *)
LooksHold ==
    /\ worker.at = "aside" => live[worker.s] = Tree(session.stream)
    /\ undo # None /\ undo.at = "aside" =>
          \A e \in undo.todo : Latest(e) => live[e.s] = Tree(undo.stream)

Shape == WorkerBelongs /\ FenceBelongs /\ WorkerHasBackup /\ SessionHolds /\ UndoHolds
Typed == TypeOK /\ Shape
Kept  == Authored /\ LooksHold /\ NoUserTreeLost

USE StreamAssumption DEF Services, Streams

-------------------------------------------------------------------------------
(* What a request or an answer is made of. *)

LEMMA TreeType == \A g \in Streams \cup {0} : Tree(g) \in Trees
BY DEF Tree, Trees

LEMMA EndsType ==
    \A b \in Bodies, kind \in Kinds : Ends(kind, b) \in Replies
BY DEF Ends, Bodies, Replies, Kinds

LEMMA AdvanceType ==
    \A s \in Services, p \in Phases, c \in 0..MaxTicks : Advance(s, p, c) \in Replies
BY DEF Advance, Replies, Kinds

LEMMA RepliedType ==
    ASSUME PluginOK, NEW r, NEW a \in Replies \cup {None}, Replied(r, a)
    PROVE  inflight' \subseteq Requests /\ answer' \in Replies \cup {None}
BY DEF PluginOK, Replied

LEMMA PostType ==
    ASSUME PluginOK, NEW b \in Bodies, NEW n \in 1..2, Post(b, n), grant' \in Baselines \cup {None}
    PROVE  PluginOK'
BY DEF PluginOK, Post, Requests

-------------------------------------------------------------------------------
(* The types are invariant. *)

LEMMA InitType == Init => TypeOK
<1> SUFFICES ASSUME Init PROVE TypeOK OBVIOUS
<1>1. Tree(0) \in Trees BY TreeType
<1>2. DiskOK BY <1>1 DEF Init, DiskOK, Baselines
<1>3. DaemonOK BY <1>1 DEF Init, DaemonOK, Baselines, NoFence, Idle
<1>4. PluginOK BY DEF Init, PluginOK, Body, Bodies, Phases
<1>5. CountsOK BY DEF Init, CountsOK
<1> QED BY <1>2, <1>3, <1>4, <1>5 DEF TypeOK

LEMMA UserType ==
    ASSUME TypeOK, NEW s \in Services, UserEdits(s) \/ UserCreates(s) \/ WatchRecords(s)
    PROVE  TypeOK'
<1>1. CASE UserEdits(s)
  <2> DEFINE new == [live[s] EXCEPT !.edit = edits + 1]
  <2>1. live[s] \in Trees /\ edits + 1 \in 0..MaxEdits
    BY SMTT(60), <1>1 DEF UserEdits, TypeOK, DiskOK, CountsOK, Baselines
  <2>2. new \in Trees BY <2>1 DEF Trees
  <2>3. live' = [live EXCEPT ![s] = new] /\ owed' = (owed \ {<<s, live[s]>>}) \cup {<<s, new>>}
    BY <1>1 DEF UserEdits
  <2> HIDE DEF new
  <2>4. DiskOK' BY SMTT(60), <1>1, <2>2, <2>3 DEF UserEdits, TypeOK, DiskOK, Baselines
  <2>5. CountsOK' BY <1>1, <2>1 DEF UserEdits, TypeOK, CountsOK
  <2> QED BY <1>1, <2>4, <2>5 DEF UserEdits, TypeOK, DaemonOK, PluginOK
<1>2. CASE UserCreates(s)
  <2>1. [gen |-> 0, edit |-> edits + 1] \in Trees
    BY SMTT(60), <1>2 DEF UserCreates, TypeOK, CountsOK, Trees
  <2>2. DiskOK' /\ CountsOK'
    BY SMTT(60), <1>2, <2>1 DEF UserCreates, TypeOK, DiskOK, CountsOK, Baselines
  <2> QED BY <1>2, <2>2 DEF UserCreates, TypeOK, DaemonOK, PluginOK
<1>3. CASE WatchRecords(s)
  BY SMTT(60), <1>3
  DEF WatchRecords, bounds, TypeOK, DiskOK, DaemonOK, PluginOK, CountsOK, Baselines
<1> QED BY <1>1, <1>2, <1>3

LEMMA PluginType ==
    ASSUME TypeOK, PluginStarts \/ PluginAnswered \/ PluginTimesOut \/ PluginAborts
                   \/ \E r \in inflight : Lose(r)
    PROVE  TypeOK'
<1> USE DEF TypeOK
<1>1. CASE PluginStarts
  <2>1. Body(started', 1, "structure", 0) \in Bodies
    BY <1>1 DEF PluginStarts, CountsOK, Body, Bodies, Phases
  <2>2. grant' \in Baselines \cup {None} BY <1>1 DEF PluginStarts, DiskOK
  <2>3. PluginOK' BY <1>1, <2>1, <2>2, PostType DEF PluginStarts
  <2> QED BY SMTT(60), <1>1, <2>3 DEF PluginStarts, DiskOK, DaemonOK, CountsOK
<1>2. CASE PluginAnswered
  <2> USE <1>2 DEF PluginAnswered
  <2>1. plugin.body \in Bodies /\ answer \in Replies /\ plugin.body.stream \in Streams
    BY DEF PluginOK, Bodies
  <2>2. Body(plugin.body.stream, answer.svc, answer.phase, answer.chunk) \in Bodies
    BY <2>1 DEF Body, Bodies, Replies
  <2>3. PluginOK'
    <3>1. ASSUME NEW at \in {"idle", "stopped"}, Leaves(at), answer' = None, UNCHANGED inflight
          PROVE  PluginOK'
      BY <3>1 DEF PluginOK, Leaves
    <3>2. CASE Retries BY <2>1, <3>1, <3>2, PostType DEF Retries, PluginOK
    <3>3. CASE Post(Body(plugin.body.stream, answer.svc, answer.phase, answer.chunk), 1)
      BY <2>2, <3>3, PostType DEF PluginOK
    <3> QED BY <3>1, <3>2, <3>3
  <2>4. told' \subseteq Streams BY <2>1 DEF CountsOK
  <2> QED BY SMTT(60), <2>3, <2>4 DEF bounds, DiskOK, DaemonOK, CountsOK
<1>3. CASE PluginTimesOut
  <2>1. PluginOK' BY <1>3, PostType DEF PluginTimesOut, Retries, Leaves, PluginOK
  <2> QED BY SMTT(60), <1>3, <2>1 DEF PluginTimesOut, DiskOK, DaemonOK, CountsOK
<1>4. CASE PluginAborts
  <2>1. PluginOK' BY <1>4 DEF PluginAborts, Leaves, PluginOK
  <2> QED BY SMTT(60), <1>4, <2>1 DEF PluginAborts, DiskOK, DaemonOK, CountsOK
<1>5. CASE \E r \in inflight : Lose(r)
  BY SMTT(60), <1>5 DEF Lose, DiskOK, DaemonOK, CountsOK, PluginOK
<1> QED BY <1>1, <1>2, <1>3, <1>4, <1>5

-------------------------------------------------------------------------------
(* Types, while a request is received. What any of its outcomes leaves has to be typed: the
   session, the threads, the rollback and the answer. *)

LEMMA RequestType ==
    ASSUME PluginOK, NEW r \in inflight
    PROVE  /\ r \in Requests /\ r # None /\ r.body \in Bodies
           /\ r.body.stream \in Streams /\ r.body.svc \in Services
BY NoneAssumption DEF PluginOK, Requests, Bodies

LEMMA NewSessionType ==
    ASSUME TypeOK, NEW g \in Streams, g \in Strict => grant = live
    PROVE  /\ NewSession(g) \in Sessions
           /\ NewSession(g).committed = {} /\ ~NewSession(g).done
           /\ NewSession(g).checkpoint = baseline
<1> DEFINE expected == IF g \in Strict THEN grant ELSE baseline
<1>1. expected \in Baselines /\ baseline \in Baselines BY DEF TypeOK, DiskOK, DaemonOK
<1>2. NewSession(g) = [stream |-> g, svc |-> 1, phase |-> "structure", chunk |-> 0,
                       fenced |-> Absent, expected |-> expected, done |-> FALSE,
                       committed |-> {}, checkpoint |-> baseline, last |-> None, reply |-> None]
  BY DEF NewSession
<1> HIDE DEF expected
<1> QED BY <1>1, <1>2 DEF Sessions, Phases

LEMMA EntryType ==
    ASSUME DaemonOK
    PROVE  /\ [s |-> worker.s, created |-> worker.fenced = Absent] \in Entries
           /\ Stranded \subseteq Services
BY DEF DaemonOK, Entries, Stranded

LEMMA DropsType ==
    ASSUME DaemonOK, session # None, Drops, UNCHANGED baseline, session' \in Sessions \cup {None}
    PROVE  DaemonOK'
<1>1. session \in Sessions BY DEF DaemonOK
<1>2. undo' \in Undos \cup {None}
  <2>1. CASE session.checkpoint = None BY <2>1 DEF Drops
  <2>2. CASE session.checkpoint # None
    <3> DEFINE todo == session.committed \cup
                  IF worker.at = "ok"
                  THEN {[s |-> worker.s, created |-> worker.fenced = Absent]} ELSE {}
    <3>1. undo' = [stream |-> session.stream, todo |-> todo, kept |-> {}, at |-> "check",
                   checkpoint |-> session.checkpoint, partial |-> Stranded, req |-> None]
      BY <2>2 DEF Drops
    <3>2. todo \subseteq Entries /\ Stranded \subseteq Services
      BY <1>1, EntryType DEF Sessions
    <3>3. session.checkpoint \in Baselines /\ session.stream \in Streams
      BY <1>1, <2>2 DEF Sessions
    <3> HIDE DEF todo
    <3> QED BY <3>1, <3>2, <3>3 DEF Undos
  <2> QED BY <2>1, <2>2
<1> QED BY <1>2 DEF Drops, DaemonOK, Idle, NoFence

LEMMA NoSessionType ==
    ASSUME TypeOK, NEW r \in inflight, undo = None, NoSession(r)
    PROVE  DaemonOK' /\ grant' \in Baselines \cup {None}
           /\ inflight' \subseteq Requests /\ answer' \in Replies \cup {None}
           /\ UNCHANGED <<live, backups, outcome, faults>>
<1> DEFINE g == r.body.stream
           stale == g \in Strict /\ (g # started \/ grant # live)
<1>1. g \in Streams /\ r.body \in Bodies BY RequestType DEF TypeOK
<1>2. CASE ~IsStart(r.body) \/ stale
  <2>1. ASSUME NEW kind \in {"error", "stale"}
        PROVE  Ends(kind, r.body) \in Replies
    BY <1>1, EndsType DEF Kinds
  <2> QED BY <1>2, <2>1, RepliedType DEF NoSession, TypeOK, DaemonOK, PluginOK
<1>3. CASE ~(~IsStart(r.body) \/ stale)
  <2>1. session' = NewSession(g) /\ NewSession(g) \in Sessions
    BY <1>1, <1>3, NewSessionType DEF NoSession
  <2>2. DaemonOK'
    <3>1. CASE session = None BY <1>3, <2>1, <3>1 DEF NoSession, TypeOK, DaemonOK
    <3>2. CASE session # None
      <4>1. Drops /\ UNCHANGED baseline BY <1>3, <3>2 DEF NoSession
      <4> QED BY <2>1, <3>2, <4>1, DropsType DEF TypeOK
    <3> QED BY <3>1, <3>2
  <2> QED BY <1>3, <2>2 DEF NoSession, TypeOK, PluginOK
<1> QED BY <1>2, <1>3

LEMMA FailsType ==
    ASSUME Typed, NEW r \in inflight, undo = None, Fresh(r), Fails(r)
    PROVE  DaemonOK' /\ grant' \in Baselines \cup {None}
           /\ (worker.at # "ok" /\ session.committed # {} => undo' \in Undos)
           /\ inflight' \subseteq Requests /\ answer' \in Replies \cup {None}
           /\ outcome' \in [Streams -> {"none", "complete", "failed", "partial", "crashed"}]
           /\ UNCHANGED <<live, backups, faults>>
<1> USE DEF Typed, TypeOK
<1>1. session \in Sessions /\ session # None /\ ~session.done
  BY DEF DaemonOK, Fresh, SessionOf
<1>2. session.checkpoint \in Baselines /\ session.stream \in Streams
  BY <1>1 DEF Shape, SessionHolds, Sessions
<1>3. r \in Requests /\ r.body \in Bodies BY RequestType
<1>4. Ends("error", r.body) \in Replies /\ Ends("partial", r.body) \in Replies
  BY <1>3, EndsType DEF Kinds
<1>5. CASE worker.at = "ok"
  BY <1>4, <1>5, RepliedType DEF Fails, DaemonOK, PluginOK, CountsOK
<1>6. CASE worker.at # "ok" /\ session.committed # {}
  <2>1. undo' = [stream |-> session.stream, todo |-> session.committed, kept |-> {},
                 at |-> "check", checkpoint |-> session.checkpoint,
                 partial |-> Stranded, req |-> r]
    BY <1>6 DEF Fails
  <2>2. session.committed \subseteq Entries /\ Stranded \subseteq Services
    BY <1>1, EntryType DEF Sessions
  <2>3. undo' \in Undos BY <1>2, <1>3, <2>1, <2>2 DEF Undos
  <2> QED BY SMTT(60), <1>6, <2>3 DEF Fails, DaemonOK, PluginOK, CountsOK, Idle, NoFence
<1>7. CASE worker.at # "ok" /\ session.committed = {} /\ worker.at = "partial"
  <2>1. session' = [session EXCEPT !.done = TRUE, !.checkpoint = None,
                                   !.last = r.body, !.reply = Ends("partial", r.body)]
    BY <1>7 DEF Fails
  <2>2. session' \in Sessions BY <1>1, <1>3, <1>4, <2>1 DEF Sessions
  <2> QED
    BY SMTT(60), <1>2, <1>4, <1>7, <2>2, RepliedType
    DEF Fails, DaemonOK, PluginOK, CountsOK,
     Idle, NoFence
<1>8. CASE worker.at # "ok" /\ session.committed = {} /\ worker.at # "partial"
  BY SMTT(60), <1>2, <1>4, <1>8, RepliedType
  DEF Fails, DaemonOK, PluginOK, CountsOK, Idle, NoFence
<1> QED BY <1>5, <1>6, <1>7, <1>8

LEMMA TickType ==
    ASSUME TypeOK, NEW r \in inflight, Fresh(r), Tick(r)
    PROVE  DaemonOK' /\ session' \in Sessions /\ inflight' \subseteq Requests /\ answer' \in Replies \cup {None}
<1>1. session \in Sessions /\ session.chunk + 1 \in 0..MaxTicks /\ r.body \in Bodies
  BY RequestType DEF TypeOK, DaemonOK, Fresh, SessionOf, Tick, Sessions
<1>2. Advance(session.svc, session.phase, session.chunk + 1) \in Replies
  BY <1>1, AdvanceType DEF Sessions
<1>3. session' \in Sessions BY <1>1, <1>2 DEF Tick, Sessions
<1> QED BY <1>2, <1>3, RepliedType DEF Tick, Advances, TypeOK, DaemonOK

LEMMA ContinuesType ==
    ASSUME TypeOK, NEW r \in inflight, Fresh(r), At(r.body),
           Structure(r) \/ Sources(r)
    PROVE  DaemonOK' /\ session' \in Sessions /\ inflight' \subseteq Requests /\ answer' \in Replies \cup {None}
<1>1. session \in Sessions /\ r.body \in Bodies
  BY RequestType DEF TypeOK, DaemonOK, Fresh, SessionOf
<1>2. /\ session.svc \in Services /\ session.fenced \in Trees \cup {Absent}
      /\ 0 \in 0..MaxTicks
      /\ Advance(session.svc, "fence", 0) \in Replies
      /\ Advance(session.svc, "commit", 0) \in Replies
  BY <1>1, AdvanceType DEF Sessions, Phases
<1>3. CASE Structure(r)
  <2>1. session' \in Sessions BY <1>1, <1>2, <1>3 DEF Structure, Sessions, Phases
  <2> QED BY <1>2, <1>3, <2>1, RepliedType DEF Structure, Advances, TypeOK, DaemonOK
<1>4. CASE Sources(r)
  <2>1. session' \in Sessions BY <1>1, <1>2, <1>4 DEF Sources, Sessions, Phases
  <2> QED BY <1>2, <1>4, <2>1, RepliedType DEF Sources, Advances, TypeOK, DaemonOK
<1> QED BY <1>3, <1>4

LEMMA FenceType ==
    ASSUME Typed, NEW r \in inflight, undo = None, DiskFence(r)
    PROVE  /\ DaemonOK' /\ (~Fails(r) => session' \in Sessions)
           /\ grant' \in Baselines \cup {None}
           /\ inflight' \subseteq Requests /\ answer' \in Replies \cup {None}
           /\ outcome' \in [Streams -> {"none", "complete", "failed", "partial", "crashed"}]
           /\ UNCHANGED <<live, backups, faults>>
<1>1. session \in Sessions /\ r.body \in Bodies /\ Fresh(r) /\ At(r.body)
  BY RequestType DEF Typed, TypeOK, DaemonOK, Fresh, SessionOf, DiskFence
<1>2. CASE Tick(r) BY <1>1, <1>2, TickType DEF Typed, TypeOK, Tick, PluginOK, CountsOK
<1>3. CASE Fails(r) BY <1>1, <1>3, FailsType
<1>4. CASE ~Tick(r) /\ ~Fails(r)
  <2>1. 0 \in 0..MaxTicks /\ Advance(session.svc, "sources", 0) \in Replies /\ fence.tree \in Trees \cup {Absent}
    BY <1>1, AdvanceType DEF Sessions, Phases, Typed, TypeOK, DaemonOK
  <2>2. session' \in Sessions
    <3>1. session' = [session EXCEPT !.phase = "sources", !.chunk = 0, !.last = r.body,
                           !.fenced = fence.tree, !.reply = Advance(session.svc, "sources", 0)]
      BY <1>4 DEF DiskFence
    <3> QED BY <1>1, <2>1, <3>1 DEF Sessions, Phases
  <2>3. DaemonOK' BY <1>4, <2>2 DEF DiskFence, Typed, TypeOK, DaemonOK, NoFence
  <2> QED BY <1>4, <2>1, <2>2, <2>3, RepliedType DEF DiskFence, Advances, Typed, TypeOK,
     PluginOK, CountsOK
<1> QED BY <1>2, <1>3, <1>4

(* Finalizing changes the marks of a generation's own transactions, and removes only what is
   marked. *)
LEMMA FinalizedType ==
    ASSUME DiskOK, NEW g \in Streams, NEW p \in SUBSET Services, NEW k \in SUBSET Services,
           NEW c \in Finalized(g, p, k)
    PROVE  \E b \in backups : /\ c.s = b.s /\ c.stream = b.stream /\ c.tree = b.tree
                             /\ c \in [s : Services, stream : Streams, tree : Trees,
                                       mark : {"open", "promoted", "marked"}]
<1> DEFINE Marked(b) == IF b.stream # g \/ b.s \in p THEN b
                        ELSE [b EXCEPT !.mark = IF b.s \in k THEN "promoted" ELSE "marked"]
<1>1. PICK b \in backups : c = Marked(b) BY Zenon DEF Finalized
<1>2. b \in [s : Services, stream : Streams, tree : Trees, mark : {"open", "promoted", "marked"}]
  BY DEF DiskOK
<1> QED BY <1>1, <1>2

LEMMA RetainedType ==
    ASSUME TypeOK, session # None
    PROVE  Retained \subseteq Entries
BY EntryType DEF TypeOK, DaemonOK, Sessions, Retained

LEMMA CompletesType ==
    ASSUME TypeOK, NEW r \in inflight, Fresh(r), Completes(r)
    PROVE  /\ DaemonOK' /\ session' \in Sessions
           /\ inflight' \subseteq Requests /\ answer' \in Replies \cup {None}
           /\ outcome' \in [Streams -> {"none", "complete", "failed", "partial", "crashed"}]
           /\ faults' \in 0..MaxFaults
           /\ backups' \subseteq [s : Services, stream : Streams, tree : Trees,
                                 mark : {"open", "promoted", "marked"}]
<1>1. session \in Sessions /\ session # None /\ session.stream \in Streams /\ r.body \in Bodies
  BY RequestType DEF TypeOK, DaemonOK, Fresh, SessionOf, Sessions
<1>2. PICK p \in SUBSET Services, k \in SUBSET Services :
         /\ faults + Cardinality(p \cup k) <= MaxFaults
         /\ faults' = faults + Cardinality(p \cup k)
         /\ backups' = Finalized(session.stream, p, k)
  BY DEF Completes
<1>3. Cardinality(p \cup k) \in Nat
  <2>1. IsFiniteSet(1..N) BY FS_Interval
  <2>2. IsFiniteSet(p \cup k) BY <2>1, FS_Subset
  <2> QED BY <2>2, FS_CardinalityType
<1>4. faults' \in 0..MaxFaults BY <1>2, <1>3 DEF TypeOK, CountsOK
<1>5. backups' \subseteq [s : Services, stream : Streams, tree : Trees,
                        mark : {"open", "promoted", "marked"}]
  BY <1>1, <1>2, FinalizedType DEF TypeOK
<1>6. Ends("complete", r.body) \in Replies /\ Retained \subseteq Entries
  BY <1>1, EndsType, RetainedType DEF Kinds
<1>7. session' \in Sessions
  <2>1. session' = [session EXCEPT !.done = TRUE, !.committed = Retained, !.last = r.body,
                        !.checkpoint = None, !.reply = Ends("complete", r.body)]
    BY DEF Completes
  <2> QED BY <1>1, <1>6, <2>1 DEF Sessions
<1>8. baseline' \in Baselines BY <1>1, TreeType DEF Completes, Baselines
<1>9. DaemonOK' BY <1>7, <1>8 DEF Completes, TypeOK, DaemonOK, Idle
<1> QED BY <1>1, <1>4, <1>5, <1>6, <1>7, <1>9, RepliedType DEF Completes, TypeOK, CountsOK

LEMMA RevalidateType ==
    ASSUME Typed, NEW r \in inflight, undo = None, DiskRevalidate(r)
    PROVE  /\ DaemonOK' /\ (~Fails(r) => session' \in Sessions) /\ inflight' \subseteq Requests /\ answer' \in Replies \cup {None}
           /\ outcome' \in [Streams -> {"none", "complete", "failed", "partial", "crashed"}]
           /\ faults' \in 0..MaxFaults
           /\ backups' \subseteq [s : Services, stream : Streams, tree : Trees,
                                 mark : {"open", "promoted", "marked"}]
           /\ UNCHANGED <<live, grant>>
<1>1. session \in Sessions /\ session # None /\ r.body \in Bodies /\ Fresh(r) /\ At(r.body)
  BY RequestType DEF Typed, TypeOK, DaemonOK, Fresh, SessionOf, DiskRevalidate
<1>2. CASE Tick(r) BY <1>1, <1>2, TickType DEF Typed, TypeOK, Tick, DiskOK, CountsOK
<1>3. CASE Fails(r) BY <1>1, <1>3, FailsType DEF Fails, Typed, TypeOK, DiskOK, CountsOK
<1>4. CASE Completes(r) BY <1>1, <1>4, CompletesType DEF Typed, Completes
<1>5. CASE ~Tick(r) /\ ~Fails(r) /\ ~Completes(r)
  <2>1. /\ 0 \in 0..MaxTicks /\ session.svc + 1 \in Services
        /\ Advance(session.svc + 1, "structure", 0) \in Replies
        /\ Retained \subseteq Entries
    BY <1>1, <1>5, AdvanceType, RetainedType DEF DiskRevalidate, Typed, Sessions, Phases
  <2>2. session' \in Sessions
    <3>1. session' = [session EXCEPT !.svc = session.svc + 1, !.phase = "structure", !.chunk = 0,
                           !.committed = Retained, !.last = r.body, !.fenced = Absent,
                           !.reply = Advance(session.svc + 1, "structure", 0)]
      BY <1>5 DEF DiskRevalidate
    <3> QED BY <1>1, <2>1, <3>1 DEF Sessions, Phases
  <2>3. DaemonOK' BY <1>5, <2>2 DEF DiskRevalidate, Typed, TypeOK, DaemonOK, Idle
  <2> QED BY <1>5, <2>1, <2>2, <2>3, RepliedType DEF DiskRevalidate, Advances, Typed,
     TypeOK, DiskOK, CountsOK
<1> QED BY <1>2, <1>3, <1>4, <1>5

LEMMA ReceiveType ==
    ASSUME Typed, NEW r \in inflight, Receive(r)
    PROVE  TypeOK'
<1>1. undo = None /\ owed' \subseteq owed /\ UNCHANGED <<plugin, told, started, edits, crashes, aborts>>
  BY DEF Receive
<1>2. /\ DaemonOK' /\ grant' \in Baselines \cup {None} /\ live' \in Baselines
      /\ inflight' \subseteq Requests /\ answer' \in Replies \cup {None}
      /\ outcome' \in [Streams -> {"none", "complete", "failed", "partial", "crashed"}]
      /\ faults' \in 0..MaxFaults
      /\ backups' \subseteq [s : Services, stream : Streams, tree : Trees,
                            mark : {"open", "promoted", "marked"}]
  <2> USE DEF Typed, TypeOK
  <2>1. CASE NoSession(r) BY <1>1, <2>1, NoSessionType DEF DiskOK, CountsOK
  <2>2. CASE Replays(r)
    <3>1. session \in Sessions /\ Ends("error", r.body) \in Replies
      BY <2>2, RequestType, EndsType DEF Replays, SessionOf, DaemonOK, Kinds
    <3> QED
      BY SMTT(60), <2>2, <3>1, RepliedType
      DEF Replays, DiskOK, DaemonOK, PluginOK, CountsOK,
       Sessions
  <2>3. CASE OutOfOrder(r) BY <1>1, <2>3, FailsType DEF OutOfOrder, DiskOK, CountsOK
  <2>4. CASE Structure(r) \/ Sources(r)
    <3>1. Fresh(r) /\ At(r.body) BY <2>4 DEF Structure, Sources
    <3> QED BY <2>4, <3>1, ContinuesType DEF Structure, Sources, DiskOK, PluginOK, CountsOK
  <2>5. CASE DiskFence(r) BY <1>1, <2>5, FenceType DEF DiskOK, CountsOK
  <2>6. CASE DiskRevalidate(r) BY <1>1, <2>6, RevalidateType DEF DiskOK, PluginOK
  <2> QED BY <2>1, <2>2, <2>3, <2>4, <2>5, <2>6 DEF Receive
<1> QED BY <1>1, <1>2 DEF Typed, TypeOK, DiskOK, PluginOK, CountsOK

-------------------------------------------------------------------------------
(* Types, in the daemon's own steps. *)

LEMMA MineExists ==
    ASSUME Backup(worker.s, session.stream) # {}
    PROVE  Mine \in backups /\ Mine.s = worker.s /\ Mine.stream = session.stream
BY DEF Backup, Mine

LEMMA OursExists ==
    ASSUME NEW e, Backup(e.s, undo.stream) # {}
    PROVE  Ours(e) \in backups /\ Ours(e).s = e.s /\ Ours(e).stream = undo.stream
BY DEF Backup, Ours

(* While a service is being swapped, the latest receipt is its own. *)
LEMMA UndoneLast ==
    ASSUME DaemonOK, UndoHolds, undo # None, undo.at # "check",
           NEW e \in undo.todo, Latest(e)
    PROVE  ~e.created
<1>1. undo.todo \subseteq Entries BY DEF DaemonOK, Undos
<1>2. PICK f \in undo.todo : Latest(f) /\ ~f.created BY DEF UndoHolds
<1>3. e.s \in Nat /\ f.s \in Nat /\ e.s <= f.s /\ f.s <= e.s
  BY <1>1, <1>2 DEF Latest, Entries
<1>4. e = f BY <1>3 DEF UndoHolds, Receipts
<1> QED BY <1>2, <1>4

LEMMA WorkerType ==
    ASSUME Typed, WorkerStep
    PROVE  TypeOK'
<1> USE DEF Typed, TypeOK
<1>1. worker.at # "idle"
  BY DEF WorkerStep, Stage, LastLook, MoveAway, InstallNew, VerifyMoved, Install, Commit,
     RestoreBefore, RestoreCheck, RestoreAside, RestoreBack
<1>2. /\ session \in Sessions /\ session.stream \in Streams /\ worker.s \in Services
      /\ Tree(session.stream) \in Trees
  BY <1>1, TreeType DEF Shape, WorkerBelongs, DaemonOK, Sessions
<1>3. worker.at \in Locked => Mine \in backups /\ Mine.tree \in Trees
  BY MineExists DEF Shape, WorkerHasBackup, DiskOK
<1>4. worker' \in [at : {"idle", "staging", "staged", "ready", "ok", "failed", "partial"}
                        \cup Locked, s : Services, fenced : Trees \cup {Absent}]
  BY DEF WorkerStep, Stage, LastLook, MoveAway, InstallNew, VerifyMoved, Install, Commit,
     RestoreBefore, RestoreCheck, RestoreAside, RestoreBack, Goes, DaemonOK, Locked
<1>5. faults' \in 0..MaxFaults
  BY DEF WorkerStep, Stage, LastLook, MoveAway, InstallNew, VerifyMoved, Install, Commit,
     RestoreBefore, RestoreCheck, RestoreAside, RestoreBack, Fault, NoFault, FaultOr,
     CountsOK
<1>6. live' \in Baselines
  BY <1>2, <1>3 DEF WorkerStep, Stage, LastLook, MoveAway, InstallNew, VerifyMoved, Install,
     Commit, RestoreBefore, RestoreCheck, RestoreAside, RestoreBack, DiskOK, Baselines,
     Locked
<1>7. backups' \subseteq [s : Services, stream : Streams, tree : Trees,
                       mark : {"open", "promoted", "marked"}]
  BY <1>2 DEF WorkerStep, Stage, LastLook, MoveAway, InstallNew, VerifyMoved, Install,
     Commit, RestoreBefore, RestoreCheck, RestoreAside, RestoreBack, DiskOK, Baselines
<1> QED
  BY ZenonT(60), <1>4, <1>5, <1>6, <1>7 DEF WorkerStep, DiskOK, DaemonOK, PluginOK, CountsOK

LEMMA UndoType ==
    ASSUME Typed, UndoStep
    PROVE  TypeOK' /\ undo' \in Undos
<1> USE DEF Typed, TypeOK
<1>1. PICK e \in undo.todo :
         Latest(e) /\ (UndoCreated(e) \/ UndoCheck(e) \/ UndoAside(e) \/ UndoBack(e))
  BY DEF UndoStep
<1>2. /\ undo \in Undos /\ e \in Entries /\ e.s \in Services
      /\ undo.stream \in Streams /\ Tree(undo.stream) \in Trees
  BY TreeType DEF UndoStep, DaemonOK, Undos, Entries
<1>3. undo.at = "back" => Ours(e) \in backups /\ Ours(e).tree \in Trees
  BY <1>1, <1>2, UndoneLast, OursExists DEF UndoStep, Shape, UndoHolds, Receipts, DiskOK
<1>4. undo' \in Undos
  <2>1. \/ Undone(e) \/ Refused(e)
        \/ undo' = [undo EXCEPT !.at = "aside"] \/ undo' = [undo EXCEPT !.at = "back"]
    BY <1>1 DEF UndoCreated, UndoCheck, UndoAside, UndoBack
  <2>2. undo.todo \ {e} \subseteq Entries /\ undo.kept \cup {e} \subseteq Entries
    BY <1>2 DEF Undos
  <2>3. CASE Undone(e)
    <3>1. undo' = [undo EXCEPT !.todo = undo.todo \ {e}, !.at = "check"] BY <2>3 DEF Undone
    <3> QED BY <1>2, <2>2, <3>1 DEF Undos
  <2>4. CASE Refused(e)
    <3>1. undo' = [undo EXCEPT !.todo = undo.todo \ {e}, !.kept = undo.kept \cup {e}, !.at = "check"]
      BY <2>4 DEF Refused
    <3> QED BY <1>2, <2>2, <3>1 DEF Undos
  <2>5. ASSUME NEW at \in {"aside", "back"}, undo' = [undo EXCEPT !.at = at]
        PROVE  undo' \in Undos
    BY <1>2, <2>5 DEF Undos
  <2> QED BY <2>1, <2>3, <2>4, <2>5
<1>5. faults' \in 0..MaxFaults
  BY SMTT(60), <1>1
  DEF UndoCreated, UndoCheck, UndoAside, UndoBack, Fault, NoFault, FaultOr, CountsOK
<1>6. live' \in Baselines
  BY <1>1, <1>2, <1>3 DEF UndoCreated, UndoCheck, UndoAside, UndoBack, DiskOK, Baselines
<1>7. backups' \subseteq backups BY <1>1 DEF UndoCreated, UndoCheck, UndoAside, UndoBack
<1> QED
  BY SMTT(60), <1>4, <1>5, <1>6, <1>7 DEF UndoStep, DiskOK, DaemonOK, PluginOK, CountsOK

LEMMA UndoEndsType ==
    ASSUME Typed, UndoEnds
    PROVE  TypeOK' /\ (undo.req # None => session' \in Sessions)
<1> USE DEF Typed, TypeOK
<1>1. undo \in Undos /\ undo.stream \in Streams /\ undo.checkpoint \in Baselines
  BY DEF UndoEnds, DaemonOK, Undos
<1>2. baseline' \in Baselines /\ undo' = None BY <1>1 DEF UndoEnds
<1>3. CASE undo.req = None
  <2>1. outcome' = [outcome EXCEPT ![undo.stream] = IF Broken THEN "partial"
                                                    ELSE outcome[undo.stream]]
    BY <1>3 DEF UndoEnds
  <2>2. outcome' \in [Streams -> {"none", "complete", "failed", "partial", "crashed"}]
    BY <1>1, <2>1 DEF CountsOK
  <2> QED
    BY SMTT(60), <1>2, <1>3, <2>2 DEF UndoEnds, bounds, DiskOK, DaemonOK, PluginOK, CountsOK
<1>4. CASE undo.req # None
  <2> DEFINE b == undo.req.body
             a == Ends(IF Broken THEN "partial" ELSE "rolled-back", b)
  <2>1. session \in Sessions /\ b \in Bodies /\ undo.kept \subseteq Entries
    BY <1>1, <1>4 DEF UndoEnds, Shape, UndoHolds, DaemonOK, Undos, Requests
  <2>2. a \in Replies BY <2>1, EndsType DEF Kinds
  <2>3. session' = [session EXCEPT !.done = TRUE, !.committed = undo.kept,
                                   !.checkpoint = None, !.last = b, !.reply = a]
        /\ Replied(undo.req, a)
    BY <1>4 DEF UndoEnds
  <2> HIDE DEF a, b
  <2>4. session' \in Sessions BY <2>1, <2>2, <2>3 DEF Sessions
  <2>5. inflight' \subseteq Requests /\ answer' \in Replies \cup {None}
    BY <2>2, <2>3, RepliedType
  <2> QED
    BY ZenonT(60), <1>1, <1>2, <1>4, <2>4, <2>5
    DEF UndoEnds, Unwound, bounds, DiskOK, DaemonOK,
     PluginOK, CountsOK
<1> QED BY <1>3, <1>4

LEMMA DaemonType ==
    ASSUME Typed, Expire \/ FenceCaptures \/ Crash
    PROVE  TypeOK'
<1> USE DEF Typed, TypeOK
<1>1. CASE Expire
  <2>1. DaemonOK' BY <1>1, DropsType DEF Expire
  <2> QED BY <1>1, <2>1 DEF Expire, bounds, DiskOK, PluginOK, CountsOK
<1>2. CASE FenceCaptures
  <2>1. session \in Sessions BY <1>2 DEF FenceCaptures, Shape, FenceBelongs, DaemonOK
  <2>2. live[session.svc] \in Trees \cup {Absent} BY <2>1 DEF DiskOK, Baselines, Sessions
  <2>3. fence' \in [at : {"none", "running", "done", "failed"}, tree : Trees \cup {Absent}]
    BY <1>2, <2>2 DEF FenceCaptures, DaemonOK
  <2>4. faults' \in 0..MaxFaults BY <1>2 DEF FenceCaptures, Fault, NoFault, CountsOK
  <2> QED
    BY ZenonT(60), <1>2, <2>3, <2>4 DEF FenceCaptures, DiskOK, DaemonOK, PluginOK, CountsOK
<1>3. CASE Crash
  <2>1. baseline' \in Baselines BY <1>3 DEF Crash, Baselines
  <2>2. outcome' \in [Streams -> {"none", "complete", "failed", "partial", "crashed"}]
    BY <1>3 DEF Crash, CountsOK
  <2> QED
    BY SMTT(60), <1>3, <2>1, <2>2
    DEF Crash, DiskOK, DaemonOK, PluginOK, CountsOK, NoFence, Idle
<1> QED BY <1>1, <1>2, <1>3

LEMMA TypeStep == Typed /\ [Next]_vars => TypeOK'
<1> SUFFICES ASSUME Typed, [Next]_vars PROVE TypeOK' OBVIOUS
<1>1. CASE Next
  <2>1. ASSUME NEW s \in Services, UserEdits(s) \/ UserCreates(s) \/ WatchRecords(s) PROVE TypeOK'
    BY <2>1, UserType DEF Typed
  <2>2. CASE PluginStarts \/ PluginAnswered \/ PluginTimesOut \/ PluginAborts
             \/ \E r \in inflight : Lose(r)
    BY <2>2, PluginType DEF Typed
  <2>3. ASSUME NEW r \in inflight, Receive(r) PROVE TypeOK' BY <2>3, ReceiveType
  <2>4. CASE Expire \/ FenceCaptures \/ Crash BY <2>4, DaemonType
  <2>5. CASE WorkerStep BY <2>5, WorkerType
  <2>6. CASE UndoStep BY <2>6, UndoType
  <2>7. CASE UndoEnds BY <2>7, UndoEndsType
  <2> QED BY <1>1, <2>1, <2>2, <2>3, <2>4, <2>5, <2>6, <2>7 DEF Next
<1>2. CASE UNCHANGED vars
  BY SMTT(60), <1>2 DEF vars, Typed, TypeOK, DiskOK, DaemonOK, PluginOK, CountsOK
<1> QED BY <1>1, <1>2

-------------------------------------------------------------------------------
(* The shape of the daemon's state is invariant. *)

LEMMA InitShape == Init => Shape
BY DEF Init, NoFence, Idle, Shape, WorkerBelongs, FenceBelongs, WorkerHasBackup,
   SessionHolds, UndoHolds, Locked

(* It speaks of the daemon and the backups only. *)
LEMMA FrameShape ==
    ASSUME Shape, UNCHANGED <<backups, session, fence, worker, undo>>
    PROVE  Shape'
<1> USE DEF Shape
<1>1. WorkerBelongs' /\ FenceBelongs' BY DEF WorkerBelongs, FenceBelongs
<1>2. WorkerHasBackup' BY DEF WorkerHasBackup, Backup
<1>3. SessionHolds' BY DEF SessionHolds, Receipts, Backup
<1>4. UndoHolds' BY DEF UndoHolds, Receipts, Backup, Latest
<1> QED BY <1>1, <1>2, <1>3, <1>4

(* A session that goes on keeps its receipts. *)
LEMMA GoesOnShape ==
    ASSUME Typed, session # None, undo = None, ~session.done, session' # None,
           session'.done = session.done, session'.stream = session.stream,
           session'.svc = session.svc, session'.committed = session.committed,
           session'.checkpoint = session.checkpoint, UNCHANGED <<backups, undo>>
    PROVE  SessionHolds' /\ UndoHolds' /\ FenceBelongs'
BY DEF Typed, Shape, SessionHolds, UndoHolds, FenceBelongs, Receipts, Backup

(* Dropping a session leaves its receipts to a rollback. *)
LEMMA DropsShape ==
    ASSUME Typed, session # None, undo = None, Drops, UNCHANGED backups,
           \/ session' = None
           \/ session'.committed = {} /\ ~session'.done /\ session'.checkpoint \in Baselines
    PROVE  Shape'
<1>1. worker' = Idle /\ fence' = NoFence BY DEF Drops
<1>2. WorkerBelongs' /\ FenceBelongs' /\ WorkerHasBackup'
  BY <1>1 DEF WorkerBelongs, FenceBelongs, WorkerHasBackup, Idle, NoFence, Locked
<1>3. SessionHolds' BY DEF SessionHolds, Receipts
<1>4. UndoHolds'
  <2>1. CASE session.checkpoint = None BY <2>1 DEF Drops, UndoHolds
  <2>2. CASE session.checkpoint # None
    <3> DEFINE new == IF worker.at = "ok"
                      THEN {[s |-> worker.s, created |-> worker.fenced = Absent]} ELSE {}
    <3>1. undo' = [stream |-> session.stream, todo |-> session.committed \cup new, kept |-> {},
                   at |-> "check", checkpoint |-> session.checkpoint,
                   partial |-> Stranded, req |-> None]
      BY <2>2 DEF Drops
    <3>2. Receipts(session.committed, session.stream) /\ \A e \in session.committed : e.s < session.svc
      BY <2>2 DEF Typed, Shape, SessionHolds
    <3>3. \A e \in new : /\ e.s = session.svc /\ (~e.created => Backup(e.s, session.stream) # {})
                         /\ \A f \in new : e = f
      <4>1. CASE worker.at = "ok"
        <5>1. /\ worker.s = session.svc
              /\ worker.fenced # Absent => Backup(session.svc, session.stream) # {}
          BY <4>1 DEF Typed, Shape, WorkerBelongs, WorkerHasBackup
        <5>2. new = {[s |-> worker.s, created |-> worker.fenced = Absent]} BY <4>1
        <5>3. [s |-> worker.s, created |-> worker.fenced = Absent].s = session.svc
              /\ ([s |-> worker.s, created |-> worker.fenced = Absent].created <=> worker.fenced = Absent)
          BY <5>1
        <5> HIDE DEF new
        <5> QED BY <5>1, <5>2, <5>3
      <4>2. CASE worker.at # "ok" BY <4>2
      <4> QED BY <4>1, <4>2
    <3>4. session.svc \in Nat /\ session.committed \subseteq Entries
      BY DEF Typed, TypeOK, DaemonOK, Sessions
    <3>5. \A e \in session.committed, f \in new : e.s # f.s BY <3>2, <3>3, <3>4 DEF Entries
    <3> HIDE DEF new
    <3>6. Receipts(session.committed \cup new, session.stream)
      BY <3>2, <3>3, <3>5 DEF Receipts
    <3>7. Receipts(undo.todo, undo.stream)' BY <3>1, <3>6 DEF Receipts, Backup
    <3> QED BY <3>1, <3>7 DEF UndoHolds
  <2> QED BY <2>1, <2>2
<1> QED BY <1>2, <1>3, <1>4 DEF Shape

LEMMA NoSessionShape ==
    ASSUME Typed, NEW r \in inflight, undo = None, NoSession(r)
    PROVE  Shape'
<1> DEFINE g == r.body.stream
           stale == g \in Strict /\ (g # started \/ grant # live)
<1>1. CASE ~IsStart(r.body) \/ stale BY <1>1, FrameShape DEF NoSession, Typed
<1>2. CASE ~(~IsStart(r.body) \/ stale)
  <2>1. /\ session' = NewSession(g)
        /\ NewSession(g).committed = {} /\ ~NewSession(g).done
        /\ NewSession(g).checkpoint \in Baselines
    <3>1. g \in Streams /\ baseline \in Baselines BY RequestType DEF Typed, TypeOK, DaemonOK
    <3> QED BY <1>2, <3>1, NewSessionType DEF NoSession, Typed
  <2>2. CASE session = None
    <3>1. UNCHANGED <<fence, worker, undo, backups>> /\ worker.at = "idle" /\ fence.at = "none"
      BY <1>2, <2>2 DEF NoSession, Typed, Shape, WorkerBelongs, FenceBelongs
    <3> QED BY <2>1, <3>1 DEF Shape, WorkerBelongs, FenceBelongs, WorkerHasBackup,
       SessionHolds, UndoHolds, Receipts, Locked
  <2>3. CASE session # None
    <3>1. Drops /\ UNCHANGED backups BY <1>2, <2>3 DEF NoSession
    <3> QED BY <2>1, <2>3, <3>1, DropsShape
  <2> QED BY <2>2, <2>3
<1> QED BY <1>1, <1>2

LEMMA FailsShape ==
    ASSUME Typed, NEW r \in inflight, undo = None, Fresh(r), Fails(r)
    PROVE  Shape'
<1>1. r # None /\ session # None /\ ~session.done
  BY RequestType DEF Typed, TypeOK, Fresh, SessionOf
<1>2. UNCHANGED backups /\ UNCHANGED <<live>> BY DEF Fails
<1>3. CASE worker.at = "ok" BY <1>3, FrameShape DEF Fails, Typed
<1>4. CASE worker.at # "ok" /\ session.committed # {}
  <2>1. undo' = [stream |-> session.stream, todo |-> session.committed, kept |-> {},
                 at |-> "check", checkpoint |-> session.checkpoint,
                 partial |-> Stranded, req |-> r]
        /\ worker' = Idle /\ fence' = NoFence /\ UNCHANGED session
    BY <1>4 DEF Fails
  <2>2. undo' # None BY <1>4, FailsType, NoneAssumption
  <2>3. Receipts(session.committed, session.stream) BY <1>1 DEF Typed, Shape, SessionHolds
  <2>4. Receipts(undo.todo, undo.stream)' BY <1>2, <2>1, <2>3 DEF Receipts, Backup
  <2>5. SessionHolds' BY <1>1, <2>1, <2>2 DEF SessionHolds
  <2>6. UndoHolds' BY <1>1, <2>1, <2>4 DEF UndoHolds
  <2> QED BY <2>1, <2>5, <2>6 DEF Shape, WorkerBelongs, FenceBelongs, WorkerHasBackup, Idle,
     NoFence, Locked
<1>5. CASE worker.at # "ok" /\ session.committed = {}
  <2>1. worker' = Idle /\ fence' = NoFence /\ undo' = None BY <1>5 DEF Fails
  <2>2. SessionHolds'
    <3>1. CASE worker.at = "partial"
      <4>1. session' = [session EXCEPT !.done = TRUE, !.checkpoint = None,
                                       !.last = r.body, !.reply = Ends("partial", r.body)]
        BY <1>5, <3>1 DEF Fails
      <4>2. session \in Sessions BY <1>1 DEF Typed, TypeOK, DaemonOK
      <4>3. session'.done /\ session'.checkpoint = None BY <4>1, <4>2 DEF Sessions
      <4> QED BY <4>3 DEF SessionHolds
    <3>2. CASE worker.at # "partial" BY <1>5, <3>2 DEF Fails, SessionHolds
    <3> QED BY <3>1, <3>2
  <2> QED BY <2>1, <2>2 DEF Shape, WorkerBelongs, FenceBelongs, WorkerHasBackup, UndoHolds,
     Idle, NoFence, Locked
<1> QED BY <1>3, <1>4, <1>5

LEMMA TickShape ==
    ASSUME Typed, NEW r \in inflight, undo = None, Fresh(r), Tick(r)
    PROVE  Shape'
<1>1. session \in Sessions /\ session # None /\ ~session.done
  BY DEF Typed, TypeOK, DaemonOK, Fresh, SessionOf
<1>2. session' # None BY TickType, NoneAssumption DEF Typed
<1>3. session' = [session EXCEPT !.chunk = session.chunk + 1, !.last = r.body,
                    !.reply = Advance(session.svc, session.phase, session.chunk + 1)]
      /\ UNCHANGED <<backups, fence, worker, undo>>
  BY DEF Tick
<1>4. /\ session'.done = session.done /\ session'.stream = session.stream
      /\ session'.svc = session.svc /\ session'.committed = session.committed
      /\ session'.checkpoint = session.checkpoint /\ session'.phase = session.phase
  BY <1>1, <1>3 DEF Sessions
<1>5. WorkerBelongs' /\ WorkerHasBackup'
  BY <1>2, <1>3, <1>4 DEF Typed, Shape, WorkerBelongs, WorkerHasBackup, Backup
<1> QED BY <1>1, <1>2, <1>3, <1>4, <1>5, GoesOnShape DEF Shape

LEMMA ContinuesShape ==
    ASSUME Typed, NEW r \in inflight, undo = None, Structure(r) \/ Sources(r)
    PROVE  Shape'
<1>1. session \in Sessions /\ session # None /\ ~session.done /\ Fresh(r) /\ At(r.body)
  BY DEF Structure, Sources, Typed, TypeOK, DaemonOK, Fresh, SessionOf
<1>2. session' # None BY <1>1, ContinuesType, NoneAssumption DEF Typed
<1>3. /\ session'.done = session.done /\ session'.stream = session.stream
      /\ session'.svc = session.svc /\ session'.committed = session.committed
      /\ session'.checkpoint = session.checkpoint /\ UNCHANGED <<backups, undo>>
  BY ZenonT(60), <1>1 DEF Structure, Sources, Sessions
<1>4. CASE Structure(r)
  <2>1. worker.at = "idle" /\ UNCHANGED worker
    BY <1>4 DEF Structure, Typed, Shape, WorkerBelongs
  <2>2. WorkerBelongs' /\ WorkerHasBackup'
    BY <2>1 DEF WorkerBelongs, WorkerHasBackup, Locked
  <2>3. SessionHolds' /\ UndoHolds' /\ FenceBelongs' BY <1>1, <1>2, <1>3, GoesOnShape
  <2> QED BY <2>2, <2>3 DEF Shape
<1>5. CASE Sources(r)
  <2>1. worker' = [at |-> "staging", s |-> session.svc, fenced |-> session.fenced]
        /\ session'.phase = "commit"
    BY <1>1, <1>5 DEF Sources, Sessions
  <2>2. WorkerBelongs' /\ WorkerHasBackup'
    BY <1>1, <1>2, <1>3, <2>1 DEF WorkerBelongs, WorkerHasBackup, Locked
  <2>3. SessionHolds' /\ UndoHolds' /\ FenceBelongs' BY <1>1, <1>2, <1>3, GoesOnShape
  <2> QED BY <2>2, <2>3 DEF Shape
<1> QED BY <1>4, <1>5

LEMMA FenceShape ==
    ASSUME Typed, NEW r \in inflight, undo = None, DiskFence(r)
    PROVE  Shape'
<1>1. session \in Sessions /\ session # None /\ ~session.done /\ Fresh(r)
  BY DEF DiskFence, Typed, TypeOK, DaemonOK, Fresh, SessionOf
<1>2. CASE Tick(r) BY <1>1, <1>2, TickShape
<1>3. CASE Fails(r) BY <1>1, <1>3, FailsShape
<1>4. CASE ~Tick(r) /\ ~Fails(r)
  <2>1. session' # None BY <1>4, FenceType, NoneAssumption
  <2>2. session' = [session EXCEPT !.phase = "sources", !.chunk = 0, !.last = r.body,
                       !.fenced = fence.tree, !.reply = Advance(session.svc, "sources", 0)]
        /\ UNCHANGED <<backups, worker, undo>> /\ session.phase = "fence"
    BY <1>4 DEF DiskFence
  <2>3. /\ session'.done = session.done /\ session'.stream = session.stream
        /\ session'.svc = session.svc /\ session'.committed = session.committed
        /\ session'.checkpoint = session.checkpoint
    BY <1>1, <2>2 DEF Sessions
  <2>4. worker.at = "idle" BY <2>2 DEF Typed, Shape, WorkerBelongs
  <2>5. WorkerBelongs' /\ WorkerHasBackup'
    BY <2>2, <2>4 DEF WorkerBelongs, WorkerHasBackup, Locked
  <2>6. SessionHolds' /\ UndoHolds' /\ FenceBelongs' BY <1>1, <2>1, <2>2, <2>3, GoesOnShape
  <2> QED BY <2>5, <2>6 DEF Shape
<1> QED BY <1>2, <1>3, <1>4

LEMMA RevalidateShape ==
    ASSUME Typed, NEW r \in inflight, undo = None, DiskRevalidate(r)
    PROVE  Shape'
<1>1. session \in Sessions /\ session # None /\ ~session.done /\ Fresh(r)
  BY DEF DiskRevalidate, Typed, TypeOK, DaemonOK, Fresh, SessionOf
<1>2. CASE Tick(r) BY <1>1, <1>2, TickShape
<1>3. CASE Fails(r) BY <1>1, <1>3, FailsShape
<1>4. CASE Completes(r)
  <2>1. worker' = Idle /\ UNCHANGED <<fence, undo>> BY <1>4 DEF Completes
  <2>2. session' \in Sessions /\ session' # None
    BY <1>1, <1>4, CompletesType, NoneAssumption DEF Typed
  <2>3. session' = [session EXCEPT !.done = TRUE, !.committed = Retained, !.last = r.body,
                        !.checkpoint = None, !.reply = Ends("complete", r.body)]
    BY <1>4 DEF Completes
  <2>4. session'.done /\ session'.checkpoint = None BY <1>1, <2>3 DEF Sessions
  <2>5. WorkerBelongs' /\ WorkerHasBackup'
    BY <2>1 DEF WorkerBelongs, WorkerHasBackup, Idle, Locked
  <2> QED BY <2>1, <2>2, <2>4, <2>5 DEF Shape, FenceBelongs, SessionHolds, UndoHolds
<1>5. CASE ~Tick(r) /\ ~Fails(r) /\ ~Completes(r)
  <2>1. session' # None BY <1>5, RevalidateType, NoneAssumption
  <2>2. session' = [session EXCEPT !.svc = session.svc + 1, !.phase = "structure", !.chunk = 0,
                           !.committed = Retained, !.last = r.body, !.fenced = Absent,
                           !.reply = Advance(session.svc + 1, "structure", 0)]
        /\ worker' = Idle /\ UNCHANGED <<backups, fence, undo>> /\ worker.at = "ok"
    BY <1>5 DEF DiskRevalidate
  <2>3. /\ session'.done = session.done /\ session'.stream = session.stream
        /\ session'.svc = session.svc + 1 /\ session'.committed = Retained
        /\ session'.checkpoint = session.checkpoint
    BY <1>1, <2>2 DEF Sessions
  <2>4. WorkerBelongs' /\ WorkerHasBackup' /\ FenceBelongs' /\ UndoHolds'
    BY <1>1, <2>1, <2>2 DEF WorkerBelongs, WorkerHasBackup, FenceBelongs, UndoHolds, Idle,
       Locked
  <2>5. Receipts(Retained, session.stream) /\ \A e \in Retained : e.s < session.svc + 1
    <3> DEFINE e0 == [s |-> worker.s, created |-> worker.fenced = Absent]
    <3>1. /\ e0.s = session.svc /\ (~e0.created => Backup(e0.s, session.stream) # {})
      BY <2>2 DEF Typed, Shape, WorkerBelongs, WorkerHasBackup
    <3>2. Receipts(session.committed, session.stream) /\ \A e \in session.committed : e.s < session.svc
      BY <1>1 DEF Typed, Shape, SessionHolds
    <3>3. session.svc \in Nat /\ \A e \in session.committed : e.s \in Nat
      BY <1>1 DEF Sessions, Entries
    <3>4. Retained = session.committed \cup {e0} BY DEF Retained
    <3> HIDE DEF e0
    <3>5. \A e \in session.committed : e.s # e0.s BY <3>1, <3>2, <3>3
    <3>6. Receipts(Retained, session.stream) BY <3>1, <3>2, <3>4, <3>5 DEF Receipts
    <3> QED BY <3>1, <3>2, <3>3, <3>4, <3>6
  <2>6. SessionHolds'
    <3>1. session'.checkpoint \in Baselines BY <1>1, <2>3 DEF Typed, Shape, SessionHolds
    <3>2. Receipts(session.committed, session.stream)'
      BY <2>2, <2>3, <2>5 DEF Receipts, Backup
    <3> QED BY <1>1, <2>3, <2>5, <3>1, <3>2 DEF SessionHolds
  <2> QED BY <2>4, <2>6 DEF Shape
<1> QED BY <1>2, <1>3, <1>4, <1>5

LEMMA ReceiveShape ==
    ASSUME Typed, NEW r \in inflight, Receive(r)
    PROVE  Shape'
<1>1. undo = None BY DEF Receive
<1>2. CASE NoSession(r) BY <1>1, <1>2, NoSessionShape
<1>3. CASE Replays(r) BY <1>3, FrameShape DEF Replays, Typed
<1>4. CASE OutOfOrder(r) BY <1>1, <1>4, FailsShape DEF OutOfOrder
<1>5. CASE Structure(r) \/ Sources(r) BY <1>1, <1>5, ContinuesShape
<1>6. CASE DiskFence(r) BY <1>1, <1>6, FenceShape
<1>7. CASE DiskRevalidate(r) BY <1>1, <1>7, RevalidateShape
<1> QED BY <1>2, <1>3, <1>4, <1>5, <1>6, <1>7 DEF Receive

(* A worker takes back only its own service's backup. *)
LEMMA WorkerShape ==
    ASSUME Typed, WorkerStep
    PROVE  Shape'
<1> USE DEF Typed
<1>1. worker.at # "idle"
  BY DEF WorkerStep, Stage, LastLook, MoveAway, InstallNew, VerifyMoved, Install, Commit,
     RestoreBefore, RestoreCheck, RestoreAside, RestoreBack
<1>2. /\ undo = None /\ session # None /\ ~session.done /\ worker.s = session.svc
      /\ session.phase = "commit" /\ session \in Sessions
      /\ UNCHANGED <<session, fence, undo>>
  BY <1>1 DEF Shape, WorkerBelongs, WorkerStep, TypeOK, DaemonOK
<1>3. worker'.s = worker.s /\ worker'.fenced = worker.fenced
  BY DEF WorkerStep, Stage, LastLook, MoveAway, InstallNew, VerifyMoved, Install, Commit,
     RestoreBefore, RestoreCheck, RestoreAside, RestoreBack, Goes, TypeOK, DaemonOK
<1>4. WorkerBelongs' /\ FenceBelongs' /\ UndoHolds'
  BY <1>2, <1>3 DEF WorkerBelongs, FenceBelongs, UndoHolds, Shape
<1>5. \A b \in backups : b.s # worker.s => b \in backups'
  <2>1. CASE RestoreBefore \/ RestoreBack
    <3>1. Mine.s = worker.s
      BY <2>1, MineExists DEF RestoreBefore, RestoreBack, Shape, WorkerHasBackup, Locked
    <3> QED BY <2>1, <3>1 DEF RestoreBefore, RestoreBack
  <2>2. CASE ~(RestoreBefore \/ RestoreBack)
    BY <2>2 DEF WorkerStep, Stage, LastLook, MoveAway, InstallNew, VerifyMoved, Install,
       Commit, RestoreCheck, RestoreAside
  <2> QED BY <2>1, <2>2
<1>6. WorkerHasBackup'
  <2>1. CASE MoveAway
    <3>1. CASE worker'.at = "moved"
      <4>1. [s |-> worker.s, stream |-> session.stream, tree |-> live[worker.s], mark |-> "open"]
              \in backups'
        BY <2>1, <3>1 DEF MoveAway, Goes, TypeOK, DaemonOK
      <4>2. Backup(worker.s, session.stream)' # {} BY <1>2, <1>3, <4>1 DEF Backup
      <4> QED BY <1>2, <1>3, <4>2 DEF WorkerHasBackup
    <3>2. CASE worker'.at = "failed" BY <3>2 DEF WorkerHasBackup, Locked
    <3> QED BY <2>1, <3>1, <3>2 DEF MoveAway, Goes, TypeOK, DaemonOK
  <2>2. CASE Stage \/ LastLook \/ InstallNew \/ RestoreBefore
    <3>1. worker'.at \notin Locked /\ (worker'.at = "ok" => worker'.fenced = Absent)
      BY <2>2 DEF Stage, LastLook, InstallNew, RestoreBefore, Goes, TypeOK, DaemonOK, Locked
    <3> QED BY <3>1 DEF WorkerHasBackup
  <2>3. CASE VerifyMoved \/ Install \/ Commit \/ RestoreCheck \/ RestoreAside
    <3>1. worker.at \in Locked /\ UNCHANGED backups
      BY <2>3 DEF VerifyMoved, Install, Commit, RestoreCheck, RestoreAside, Locked
    <3>2. Backup(worker.s, session.stream)' # {}
      BY <1>2, <1>3, <3>1 DEF Shape, WorkerHasBackup, Backup
    <3> QED BY <1>2, <1>3, <3>2 DEF WorkerHasBackup
  <2>4. CASE RestoreBack
    <3>1. worker'.at \in {"failed", "partial"}
      BY <2>4 DEF RestoreBack, Goes, TypeOK, DaemonOK
    <3> QED BY <3>1 DEF WorkerHasBackup, Locked
  <2> QED BY <2>1, <2>2, <2>3, <2>4 DEF WorkerStep
<1>7. SessionHolds'
  <2>1. /\ session.checkpoint \in Baselines /\ \A e \in session.committed : e.s < session.svc
        /\ Receipts(session.committed, session.stream)
    BY <1>2 DEF Shape, SessionHolds
  <2>2. session.svc \in Nat /\ \A e \in session.committed : e.s \in Nat
    BY <1>2 DEF Sessions, Entries
  <2>3. ASSUME NEW e \in session.committed, ~e.created
        PROVE  Backup(e.s, session.stream)' # {}
    <3>1. PICK b \in backups : b.s = e.s /\ b.stream = session.stream
      BY <2>1, <2>3 DEF Receipts, Backup
    <3>2. e.s # worker.s BY <1>2, <2>1, <2>2
    <3>3. b \in backups' BY <1>5, <3>1, <3>2
    <3> QED BY <1>2, <3>1, <3>3 DEF Backup
  <2>4. Receipts(session.committed, session.stream)' BY <1>2, <2>1, <2>3 DEF Receipts
  <2> QED BY <1>2, <2>1, <2>4 DEF SessionHolds
<1> QED BY <1>4, <1>6, <1>7 DEF Shape

(* A rollback takes back the services one receipt after another. *)
LEMMA UndoShape ==
    ASSUME Typed, UndoStep
    PROVE  Shape'
<1> USE DEF Typed
<1>1. PICK e \in undo.todo :
         Latest(e) /\ (UndoCreated(e) \/ UndoCheck(e) \/ UndoAside(e) \/ UndoBack(e))
  BY DEF UndoStep
<1>2. undo # None /\ undo \in Undos /\ UNCHANGED <<session, fence, worker>> /\ worker.at = "idle"
  BY DEF UndoStep, Shape, WorkerBelongs, TypeOK, DaemonOK
<1>3. /\ undo'.stream = undo.stream /\ undo'.req = undo.req /\ undo'.checkpoint = undo.checkpoint
      /\ \/ undo'.todo = undo.todo /\ undo'.at \in {"aside", "back"} /\ ~e.created
            /\ UNCHANGED backups
         \/ undo'.todo = undo.todo \ {e} /\ undo'.at = "check"
  <2>1. CASE Undone(e) BY <1>2, <2>1 DEF Undone, Undos
  <2>2. CASE Refused(e) BY <1>2, <2>2 DEF Refused, Undos
  <2>3. CASE UndoCheck(e) /\ ~Refused(e) BY <1>2, <2>3 DEF UndoCheck, Undos
  <2>4. CASE UndoAside(e)
    <3>1. ~e.created BY <1>1, <1>2, <2>4, UndoneLast DEF UndoAside, Shape, TypeOK
    <3> QED BY <1>2, <2>4, <3>1 DEF UndoAside, Undos
  <2> QED BY <1>1, <2>1, <2>2, <2>3, <2>4 DEF UndoCreated, UndoBack
<1>4. undo' # None BY UndoType, NoneAssumption
<1>5. WorkerBelongs' /\ FenceBelongs' /\ WorkerHasBackup' /\ SessionHolds'
  BY <1>2, <1>4 DEF WorkerBelongs, FenceBelongs, WorkerHasBackup, SessionHolds, Shape,
     Locked
<1>6. Receipts(undo.todo, undo.stream) BY <1>2 DEF Shape, UndoHolds
<1>7. \A b \in backups : b.s # e.s => b \in backups'
  <2>1. CASE UndoBack(e)
    <3>1. Ours(e).s = e.s
      BY <1>1, <1>2, <1>6, <2>1, UndoneLast, OursExists DEF UndoBack, Receipts, Shape,
         TypeOK
    <3> QED BY <2>1, <3>1 DEF UndoBack
  <2> QED BY <1>1, <2>1 DEF UndoCreated, UndoCheck, UndoAside
<1>8. Receipts(undo.todo, undo.stream)'
  <2>1. CASE undo'.todo = undo.todo /\ UNCHANGED backups
    BY <1>3, <1>6, <2>1 DEF Receipts, Backup
  <2>2. CASE undo'.todo = undo.todo \ {e}
    <3>1. ASSUME NEW f \in undo'.todo, ~f.created PROVE Backup(f.s, undo.stream)' # {}
      <4>1. f \in undo.todo /\ f.s # e.s BY <1>6, <2>2, <3>1 DEF Receipts
      <4>2. PICK b \in backups : b.s = f.s /\ b.stream = undo.stream
        BY <1>6, <3>1, <4>1 DEF Receipts, Backup
      <4>3. b \in backups' BY <1>7, <4>1, <4>2
      <4> QED BY <1>3, <4>2, <4>3 DEF Backup
    <3> QED BY <1>6, <2>2, <3>1 DEF Receipts
  <2> QED BY <1>3, <2>1, <2>2
<1>9. undo'.at # "check" => \E f \in undo'.todo : Latest(f)' /\ ~f.created
  BY <1>1, <1>3 DEF Latest
<1>10. UndoHolds' BY <1>2, <1>3, <1>8, <1>9 DEF UndoHolds, Shape
<1> QED BY <1>5, <1>10 DEF Shape

LEMMA UndoEndsShape ==
    ASSUME Typed, UndoEnds
    PROVE  Shape'
<1>1. undo # None /\ undo' = None /\ UNCHANGED <<backups, fence, worker>> /\ worker.at = "idle"
  BY DEF UndoEnds, Typed, Shape, WorkerBelongs
<1>2. WorkerBelongs' /\ WorkerHasBackup' /\ UndoHolds'
  BY <1>1 DEF WorkerBelongs, WorkerHasBackup, UndoHolds, Locked
<1>3. CASE undo.req = None
  <2>1. UNCHANGED session BY <1>3 DEF UndoEnds
  <2>2. FenceBelongs' /\ SessionHolds'
    BY <1>1, <1>3, <2>1 DEF Typed, Shape, FenceBelongs, SessionHolds, UndoHolds, Receipts
  <2> QED BY <1>2, <2>2 DEF Shape
<1>4. CASE undo.req # None
  <2>1. session' \in Sessions /\ session' # None BY <1>4, UndoEndsType, NoneAssumption
  <2>2. session'.done /\ session'.checkpoint = None
    <3>1. session \in Sessions BY <1>1, <1>4 DEF Typed, TypeOK, DaemonOK, Shape, UndoHolds
    <3> QED BY <1>4, <3>1 DEF UndoEnds, Sessions
  <2>3. FenceBelongs' /\ SessionHolds' BY <2>1, <2>2 DEF FenceBelongs, SessionHolds
  <2> QED BY <1>2, <2>3 DEF Shape
<1> QED BY <1>3, <1>4

LEMMA ShapeStep == Typed /\ [Next]_vars => Shape'
<1> SUFFICES ASSUME Typed, [Next]_vars PROVE Shape' OBVIOUS
<1>1. CASE Next
  <2>1. ASSUME NEW s \in Services, UserEdits(s) \/ UserCreates(s) \/ WatchRecords(s) PROVE Shape'
    BY <2>1, FrameShape DEF Typed, UserEdits, UserCreates, WatchRecords
  <2>2. CASE PluginStarts \/ PluginAnswered \/ PluginTimesOut \/ PluginAborts
             \/ \E r \in inflight : Lose(r)
    BY <2>2, FrameShape DEF Typed, PluginStarts, PluginAnswered, PluginTimesOut,
       PluginAborts, Lose
  <2>3. ASSUME NEW r \in inflight, Receive(r) PROVE Shape' BY <2>3, ReceiveShape
  <2>4. CASE Expire BY <2>4, DropsShape DEF Expire
  <2>5. CASE FenceCaptures
    <3>1. session # None /\ UNCHANGED <<backups, session, worker, undo>>
      BY <2>5 DEF FenceCaptures, Typed, Shape, FenceBelongs
    <3>2. WorkerBelongs' /\ FenceBelongs' /\ WorkerHasBackup'
      BY <3>1 DEF Typed, Shape, WorkerBelongs, FenceBelongs, WorkerHasBackup, Backup
    <3>3. SessionHolds' BY <3>1 DEF Typed, Shape, SessionHolds, Receipts, Backup
    <3>4. UndoHolds' BY <3>1 DEF Typed, Shape, UndoHolds, Receipts, Backup, Latest
    <3> QED BY <3>2, <3>3, <3>4 DEF Shape
  <2>6. CASE WorkerStep BY <2>6, WorkerShape
  <2>7. CASE UndoStep BY <2>7, UndoShape
  <2>8. CASE UndoEnds BY <2>8, UndoEndsShape
  <2>9. CASE Crash
    BY <2>9 DEF Crash, Shape, WorkerBelongs, FenceBelongs, WorkerHasBackup, SessionHolds,
       UndoHolds, NoFence, Idle, Locked
  <2> QED BY <1>1, <2>1, <2>2, <2>3, <2>4, <2>5, <2>6, <2>7, <2>8, <2>9 DEF Next
<1>2. CASE UNCHANGED vars BY <1>2, FrameShape DEF vars, Typed
<1> QED BY <1>1, <1>2

(* The types of every variable, and the shape of the daemon's state, hold whatever the
   number of services, streams, edits, faults, crashes and lost calls: an open worker
   belongs to the session that waits for it, and whoever may have to put a tree back still
   has its backup. *)
THEOREM TypesHold == Spec => [](TypeOK /\ Shape)
<1>1. Init => Typed BY InitType, InitShape DEF Typed
<1>2. Typed /\ [Next]_vars => Typed' BY TypeStep, ShapeStep DEF Typed
<1> QED BY <1>1, <1>2, PTL DEF Spec, Typed

-------------------------------------------------------------------------------
(* The user's work. A tree is lost only where it is the live one and is overwritten or
   moved, or where its last backup goes. *)

LEMMA NotOwed ==
    ASSUME TypeOK, Authored, NEW s \in Services,
           live[s] = Absent \/ \E g \in Streams : live[s] = Tree(g)
    PROVE  \A w \in owed : w[1] = s => w[2] # live[s]
<1> SUFFICES ASSUME NEW w \in owed, w[1] = s, w[2] = live[s] PROVE FALSE OBVIOUS
<1>1. w[2] \in Trees /\ (w[2].gen = 0 \/ w[2].edit # 0) BY DEF TypeOK, DiskOK, Authored
<1>2. w[2] # Absent BY <1>1, AbsentAssumption DEF Trees
<1>3. PICK g \in Streams : w[2] = Tree(g) BY <1>2
<1> QED BY <1>1, <1>3 DEF Tree

LEMMA FrameKept ==
    ASSUME NoUserTreeLost, UNCHANGED <<live, backups, owed>>
    PROVE  NoUserTreeLost'
BY DEF NoUserTreeLost, Saved

LEMMA LiveKept ==
    ASSUME TypeOK, NoUserTreeLost, NEW s \in Services, NEW v,
           live' = [live EXCEPT ![s] = v], UNCHANGED owed,
           \A w \in owed : w[1] = s /\ w[2] = live[s] => Saved(w)',
           \A b \in backups : b \in backups' \/ (b.s = s /\ b.tree = v)
    PROVE  NoUserTreeLost'
<1> SUFFICES ASSUME NEW w \in owed, live'[w[1]] # w[2] PROVE Saved(w)' BY DEF NoUserTreeLost
<1>1. w[1] \in Services /\ live'[s] = v /\ (w[1] # s => live'[w[1]] = live[w[1]])
  BY DEF TypeOK, DiskOK, Baselines
<1>2. CASE live[w[1]] = w[2] BY <1>1, <1>2
<1>3. CASE live[w[1]] # w[2]
  <2>1. PICK b \in backups : b.s = w[1] /\ b.tree = w[2] BY <1>3 DEF NoUserTreeLost, Saved
  <2>2. b \in backups' BY <1>1, <2>1
  <2> QED BY <2>1, <2>2 DEF Saved
<1> QED BY <1>2, <1>3

LEMMA UserKept ==
    ASSUME ~EditsDuringSwap, Typed, Kept, NEW s \in Services,
           UserEdits(s) \/ UserCreates(s) \/ WatchRecords(s)
    PROVE  Kept'
<1> USE DEF Kept
<1>1. CASE UserEdits(s)
  <2> DEFINE new == [live[s] EXCEPT !.edit = edits + 1]
  <2>1. live' = [live EXCEPT ![s] = new] /\ owed' = (owed \ {<<s, live[s]>>}) \cup {<<s, new>>}
        /\ UNCHANGED <<backups, session, worker, undo>>
    BY <1>1 DEF UserEdits
  <2>2. live[s] \in Trees /\ new.edit = edits + 1 /\ edits + 1 # 0 /\ live'[s] = new
    BY <1>1, <2>1 DEF UserEdits, Typed, TypeOK, DiskOK, CountsOK, Baselines, Trees
  <2> HIDE DEF new
  <2>3. Authored' BY <2>1, <2>2 DEF Authored
  <2>4. NoUserTreeLost'
    <3> SUFFICES ASSUME NEW w \in owed' PROVE live'[w[1]] = w[2] \/ Saved(w)'
      BY DEF NoUserTreeLost
    <3>1. CASE w = <<s, new>> BY <2>2, <3>1
    <3>2. CASE w \in owed /\ w # <<s, live[s]>>
      <4>1. live[w[1]] = w[2] \/ Saved(w) BY <3>2 DEF NoUserTreeLost
      <4>2. w = <<w[1], w[2]>> /\ w[1] \in Services BY <3>2 DEF Typed, TypeOK, DiskOK
      <4>3. w[1] # s => live'[w[1]] = live[w[1]]
        BY <2>1, <4>2 DEF Typed, TypeOK, DiskOK, Baselines
      <4> QED BY <2>1, <3>2, <4>1, <4>2, <4>3 DEF Saved
    <3> QED BY <2>1, <3>1, <3>2
  <2>5. LooksHold'
    <3>1. ~InSwap(s) BY <1>1 DEF UserEdits
    <3>2. \A x \in Services : x # s => live'[x] = live[x]
      BY <2>1 DEF Typed, TypeOK, DiskOK, Baselines
    <3>3. worker.at = "aside" => worker.s \in Services \ {s}
      BY <3>1 DEF InSwap, Typed, TypeOK, DaemonOK
    <3>4. undo # None /\ undo.at = "aside" =>
            \A e \in undo.todo : Latest(e) => e.s \in Services \ {s}
      BY <3>1 DEF InSwap, Typed, TypeOK, DaemonOK, Undos, Entries
    <3> QED BY <2>1, <3>2, <3>3, <3>4 DEF LooksHold, Latest
  <2> QED BY <2>3, <2>4, <2>5
<1>2. CASE UserCreates(s)
  <2> DEFINE new == [gen |-> 0, edit |-> edits + 1]
  <2>1. live[s] = Absent /\ live' = [live EXCEPT ![s] = new] /\ owed' = owed \cup {<<s, live'[s]>>}
        /\ UNCHANGED <<backups, session, worker, undo>>
    BY <1>2 DEF UserCreates
  <2>2. new.gen = 0 /\ live'[s] = new BY <2>1 DEF Typed, TypeOK, DiskOK, Baselines
  <2> HIDE DEF new
  <2>3. Authored' BY <2>1, <2>2 DEF Authored
  <2>4. \A x \in Services : x # s => live'[x] = live[x]
    BY <2>1 DEF Typed, TypeOK, DiskOK, Baselines
  <2>5. NoUserTreeLost'
    <3> SUFFICES ASSUME NEW w \in owed PROVE live'[w[1]] = w[2] \/ Saved(w)'
      BY <2>1 DEF NoUserTreeLost
    <3>1. w[1] \in Services /\ (w[1] = s => w[2] # live[s])
      BY <2>1, NotOwed DEF Typed, TypeOK, DiskOK
    <3> QED BY <2>1, <2>4, <3>1 DEF NoUserTreeLost, Saved
  <2>6. LooksHold'
    <3>1. \A g \in Streams : Tree(g) # Absent BY TreeType, AbsentAssumption DEF Trees
    <3>2. worker.at = "aside" => live[worker.s] = Tree(session.stream) /\ worker.s \in Services
                                 /\ session.stream \in Streams
      BY DEF LooksHold, Typed, TypeOK, DaemonOK, Shape, WorkerBelongs, Sessions
    <3>3. undo # None /\ undo.at = "aside" =>
            \A e \in undo.todo : Latest(e) => /\ live[e.s] = Tree(undo.stream) /\ e.s \in Services
                                             /\ undo.stream \in Streams
      BY DEF LooksHold, Typed, TypeOK, DaemonOK, Undos, Entries
    <3> QED BY <2>1, <2>4, <3>1, <3>2, <3>3 DEF LooksHold, Latest
  <2> QED BY <2>3, <2>5, <2>6
<1>3. CASE WatchRecords(s)
  BY <1>3, FrameKept DEF WatchRecords, bounds, Authored, LooksHold, Latest
<1> QED BY <1>1, <1>2, <1>3

LEMMA WorkerKept ==
    ASSUME Typed, Kept, WorkerStep
    PROVE  Kept'
<1> USE DEF Kept, Typed
<1>1. worker.at # "idle"
  BY DEF WorkerStep, Stage, LastLook, MoveAway, InstallNew, VerifyMoved, Install, Commit,
     RestoreBefore, RestoreCheck, RestoreAside, RestoreBack
<1>2. /\ undo = None /\ session \in Sessions /\ session.stream \in Streams
      /\ worker.s \in Services /\ UNCHANGED <<owed, session, undo>>
  BY <1>1 DEF Shape, WorkerBelongs, WorkerStep, TypeOK, DaemonOK, Sessions
<1>3. Authored' BY <1>2 DEF Authored
<1>4. LooksHold'
  <2>1. CASE RestoreCheck BY <1>2, <2>1 DEF RestoreCheck, Goes, LooksHold, TypeOK, DaemonOK
  <2>2. CASE ~RestoreCheck
    <3>1. worker'.at # "aside"
      BY <2>2 DEF WorkerStep, Stage, LastLook, MoveAway, InstallNew, VerifyMoved, Install,
         Commit, RestoreBefore, RestoreAside, RestoreBack, Goes, TypeOK, DaemonOK
    <3> QED BY <1>2, <3>1 DEF LooksHold
  <2> QED BY <2>1, <2>2
<1>5. NoUserTreeLost'
  <2>1. CASE UNCHANGED <<live, backups>> BY <1>2, <2>1, FrameKept
  <2>2. ASSUME NEW v, live[worker.s] = Absent, live' = [live EXCEPT ![worker.s] = v],
               \A b \in backups : b \in backups' \/ (b.s = worker.s /\ b.tree = v)
        PROVE  NoUserTreeLost'
    BY <1>2, <2>2, NotOwed, LiveKept
  <2>3. CASE MoveAway /\ ~UNCHANGED <<live, backups>>
    <3> DEFINE b == [s |-> worker.s, stream |-> session.stream, tree |-> live[worker.s],
                     mark |-> "open"]
    <3>1. backups' = backups \cup {b} /\ live' = [live EXCEPT ![worker.s] = Absent]
      BY <2>3 DEF MoveAway
    <3>2. b \in backups' /\ b.s = worker.s /\ b.tree = live[worker.s] BY <3>1
    <3> HIDE DEF b
    <3>3. \A w \in owed : w[1] = worker.s /\ w[2] = live[worker.s] => Saved(w)'
      BY <3>2 DEF Saved
    <3>4. \A c \in backups : c \in backups' \/ (c.s = worker.s /\ c.tree = Absent) BY <3>1
    <3> QED BY <1>2, <3>1, <3>3, <3>4, LiveKept
  <2>4. CASE (InstallNew \/ Install) /\ ~UNCHANGED <<live, backups>>
    <3>1. live[worker.s] = Absent /\ UNCHANGED backups
          /\ live' = [live EXCEPT ![worker.s] = Tree(session.stream)]
      BY <2>4 DEF InstallNew, Install
    <3>2. \A c \in backups : c \in backups' \/ (c.s = worker.s /\ c.tree = Tree(session.stream))
      BY <3>1
    <3> QED BY <2>2, <3>1, <3>2
  <2>5. CASE (RestoreBefore \/ RestoreBack) /\ ~UNCHANGED <<live, backups>>
    <3>1. Mine.s = worker.s
      BY <2>5, MineExists DEF RestoreBefore, RestoreBack, Shape, WorkerHasBackup, Locked
    <3>2. CASE live[worker.s] = Absent /\ live' = [live EXCEPT ![worker.s] = Mine.tree]
               /\ backups' = backups \ {Mine}
      <4>1. \A c \in backups : c \in backups' \/ (c.s = worker.s /\ c.tree = Mine.tree)
        BY <3>1, <3>2
      <4> QED BY <2>2, <3>2, <4>1
    <3>3. CASE live' = [live EXCEPT ![worker.s] =
                          IF live[worker.s] = Absent THEN Tree(session.stream) ELSE live[worker.s]]
               /\ UNCHANGED backups
      <4>1. CASE live[worker.s] = Absent
        <5>1. live' = [live EXCEPT ![worker.s] = Tree(session.stream)] BY <3>3, <4>1
        <5>2. \A c \in backups : c \in backups' \/ (c.s = worker.s /\ c.tree = Tree(session.stream))
          BY <3>3
        <5> QED BY <2>2, <4>1, <5>1, <5>2
      <4>2. CASE live[worker.s] # Absent
        BY <1>2, <2>1, <3>3, <4>2 DEF TypeOK, DiskOK, Baselines
      <4> QED BY <4>1, <4>2
    <3> QED BY <2>5, <3>2, <3>3 DEF RestoreBefore, RestoreBack
  <2>6. CASE RestoreAside
    <3>1. live[worker.s] = Tree(session.stream) /\ live' = [live EXCEPT ![worker.s] = Absent]
          /\ UNCHANGED backups
      BY <2>6 DEF RestoreAside, LooksHold
    <3>2. \A w \in owed : w[1] = worker.s => w[2] # live[worker.s] BY <1>2, <3>1, NotOwed
    <3>3. \A c \in backups : c \in backups' \/ (c.s = worker.s /\ c.tree = Absent) BY <3>1
    <3>4. \A w \in owed : w[1] = worker.s /\ w[2] = live[worker.s] => Saved(w)' BY <3>2
    <3> QED BY <1>2, <3>1, <3>3, <3>4, LiveKept
  <2> QED BY <2>1, <2>3, <2>4, <2>5, <2>6 DEF WorkerStep, Stage, LastLook, VerifyMoved,
     Commit, RestoreCheck
<1> QED BY <1>3, <1>4, <1>5

LEMMA UndoKept ==
    ASSUME Typed, Kept, UndoStep
    PROVE  Kept'
<1> USE DEF Kept, Typed
<1>1. PICK e \in undo.todo :
         Latest(e) /\ (UndoCreated(e) \/ UndoCheck(e) \/ UndoAside(e) \/ UndoBack(e))
  BY DEF UndoStep
<1>2. /\ undo # None /\ undo \in Undos /\ undo.stream \in Streams /\ worker.at = "idle"
      /\ e \in Entries /\ e.s \in Services /\ UNCHANGED <<owed, session, worker>>
  BY DEF UndoStep, Shape, WorkerBelongs, TypeOK, DaemonOK, Undos, Entries
<1>3. Authored' BY <1>2 DEF Authored
<1>4. LooksHold'
  <2>1. CASE undo' = [undo EXCEPT !.at = "aside"] /\ live[e.s] = Tree(undo.stream) /\ UNCHANGED live
    <3>1. undo'.todo = undo.todo /\ undo'.stream = undo.stream BY <1>2, <2>1 DEF Undos
    <3>2. \A f \in undo.todo : f.s \in Nat /\ (Latest(f)' => f.s = e.s)
      BY <1>1, <1>2, <3>1 DEF Latest, Undos, Entries
    <3> QED BY <1>2, <2>1, <3>1, <3>2 DEF LooksHold
  <2>2. CASE Undone(e) \/ Refused(e) \/ undo' = [undo EXCEPT !.at = "back"]
    <3>1. undo'.at # "aside" BY <1>2, <2>2 DEF Undone, Refused, Undos
    <3> QED BY <1>2, <3>1 DEF LooksHold
  <2> QED BY <1>1, <2>1, <2>2 DEF UndoCreated, UndoCheck, UndoAside, UndoBack
<1>5. NoUserTreeLost'
  <2>1. CASE UNCHANGED <<live, backups>> BY <1>2, <2>1, FrameKept
  <2>2. ASSUME NEW v, live[e.s] = Absent \/ live[e.s] = Tree(undo.stream),
               live' = [live EXCEPT ![e.s] = v],
               \A b \in backups : b \in backups' \/ (b.s = e.s /\ b.tree = v)
        PROVE  NoUserTreeLost'
    <3>1. \A w \in owed : w[1] = e.s => w[2] # live[e.s] BY <1>2, <2>2, NotOwed
    <3>2. \A w \in owed : w[1] = e.s /\ w[2] = live[e.s] => Saved(w)' BY <3>1
    <3> QED BY <1>2, <2>2, <3>2, LiveKept
  <2>3. CASE live[e.s] = Tree(undo.stream) /\ live' = [live EXCEPT ![e.s] = Absent]
             /\ UNCHANGED backups
    <3>1. \A b \in backups : b \in backups' \/ (b.s = e.s /\ b.tree = Absent) BY <2>3
    <3> QED BY <2>2, <2>3, <3>1
  <2>4. CASE live[e.s] = Absent /\ live' = [live EXCEPT ![e.s] = Ours(e).tree]
             /\ backups' = backups \ {Ours(e)} /\ undo.at = "back"
    <3>1. Ours(e).s = e.s
      BY <1>1, <1>2, <2>4, UndoneLast, OursExists DEF Shape, UndoHolds, Receipts, TypeOK
    <3>2. \A b \in backups : b \in backups' \/ (b.s = e.s /\ b.tree = Ours(e).tree)
      BY <2>4, <3>1
    <3> QED BY <2>2, <2>4, <3>2
  <2>5. CASE live' = [live EXCEPT ![e.s] = IF live[e.s] = Absent THEN Tree(undo.stream) ELSE live[e.s]]
             /\ UNCHANGED backups
    <3>1. CASE live[e.s] = Absent
      <4>1. live' = [live EXCEPT ![e.s] = Tree(undo.stream)] BY <2>5, <3>1
      <4>2. \A b \in backups : b \in backups' \/ (b.s = e.s /\ b.tree = Tree(undo.stream))
        BY <2>5
      <4> QED BY <2>2, <3>1, <4>1, <4>2
    <3>2. CASE live[e.s] # Absent BY <1>2, <2>1, <2>5, <3>2 DEF TypeOK, DiskOK, Baselines
    <3> QED BY <3>1, <3>2
  <2>6. UndoAside(e) => live[e.s] = Tree(undo.stream) BY <1>1, <1>2 DEF UndoAside, LooksHold
  <2> QED BY <1>1, <2>1, <2>3, <2>4, <2>5, <2>6 DEF UndoCreated, UndoCheck, UndoAside,
     UndoBack
<1> QED BY <1>3, <1>4, <1>5

(* A request never begins a swap, nor does it go on under one. *)
LEMMA ReceiveLooks ==
    ASSUME Typed, LooksHold, NEW r \in inflight, Receive(r)
    PROVE  UNCHANGED live /\ LooksHold'
<1> USE DEF Typed
<1>1. undo = None /\ UNCHANGED live
  BY DEF Receive, NoSession, Replays, OutOfOrder, Fails, Structure, DiskFence, Tick,
     Sources, DiskRevalidate, Completes
<1>2. undo' # None => undo'.at = "check"
  <2>1. ASSUME Drops \/ Fails(r) PROVE undo' # None => undo'.at = "check"
    BY <1>1, <2>1 DEF Drops, Fails
  <2>2. CASE ~Drops /\ ~Fails(r)
    <3>1. UNCHANGED undo
      BY <2>2 DEF Receive, NoSession, Replays, OutOfOrder, Structure, DiskFence, Tick,
         Sources, DiskRevalidate, Completes
    <3> QED BY <1>1, <3>1
  <2> QED BY <2>1, <2>2
<1>3. worker'.at = "aside" =>
         /\ worker' = worker
         /\ session' = session \/ (Fresh(r) /\ Tick(r))
  <2>1. Idle.at # "aside" /\ (worker.at = "aside" => worker.at \in Locked)
    BY DEF Idle, Locked
  <2>2. CASE NoSession(r)
    <3>1. session = None => worker.at # "aside" BY DEF Shape, WorkerBelongs
    <3> QED BY <2>1, <2>2, <3>1 DEF NoSession, Drops
  <2>3. CASE Replays(r) BY <2>3 DEF Replays
  <2>4. ASSUME Fails(r) PROVE worker'.at # "aside" \/ (worker' = worker /\ session' = session)
    BY <2>1, <2>4 DEF Fails
  <2>5. CASE Structure(r) \/ Sources(r)
    <3>1. worker.at # "aside" BY <2>5 DEF Structure, Sources, Shape, WorkerBelongs
    <3>2. [at |-> "staging", s |-> session.svc, fenced |-> session.fenced].at # "aside"
      OBVIOUS
    <3> QED BY <2>5, <3>1, <3>2 DEF Structure, Sources
  <2>6. CASE DiskFence(r) /\ ~Fails(r)
    <3>1. worker.at # "aside" /\ UNCHANGED worker
      BY <2>6 DEF DiskFence, Tick, Shape, WorkerBelongs
    <3> QED BY <3>1
  <2>7. CASE DiskRevalidate(r) /\ ~Fails(r)
    BY <2>1, <2>7 DEF DiskRevalidate, Tick, Completes
  <2> QED BY <2>2, <2>3, <2>4, <2>5, <2>6, <2>7 DEF Receive, OutOfOrder
<1>4. ASSUME Fresh(r), Tick(r) PROVE session'.stream = session.stream
  <2>1. session \in Sessions BY <1>4 DEF Fresh, SessionOf, TypeOK, DaemonOK
  <2> QED BY <1>4, <2>1 DEF Tick, Sessions
<1> QED BY <1>1, <1>2, <1>3, <1>4 DEF LooksHold

(* Only the end of a generation removes backups, and what it owes is what it has not made
   prunable itself. *)
LEMMA ReceiveKept ==
    ASSUME Typed, Kept, NEW r \in inflight, Receive(r)
    PROVE  Kept'
<1> USE DEF Typed
<1>1. UNCHANGED live /\ LooksHold' /\ owed' = {w \in owed : Prunable(w) => Saved(w)'}
  BY ReceiveLooks DEF Kept, Receive
<1>2. Authored' BY <1>1 DEF Kept, Authored
<1>3. \A w \in owed' : w \in owed /\ (Prunable(w) => Saved(w)') BY <1>1
<1>4. NoUserTreeLost'
  <2>1. CASE UNCHANGED backups BY <1>1, <1>3, <2>1 DEF Kept, NoUserTreeLost, Saved
  <2>2. CASE Fresh(r) /\ Completes(r)
    <3>1. session # None /\ session \in Sessions /\ session.stream \in Streams
      BY <2>2 DEF Fresh, SessionOf, TypeOK, DaemonOK, Sessions
    <3>2. outcome'[session.stream] = "complete"
      BY <2>2, <3>1 DEF Completes, TypeOK, CountsOK
    <3>3. PICK p \in SUBSET Services, k \in SUBSET Services :
             backups' = Finalized(session.stream, p, k)
      BY <2>2 DEF Completes
    <3>4. ASSUME NEW b \in backups, b.mark # "marked", b.stream # session.stream
          PROVE  b \in backups'
      <4> DEFINE Marked(c) == IF c.stream # session.stream \/ c.s \in p THEN c
                              ELSE [c EXCEPT !.mark = IF c.s \in k THEN "promoted" ELSE "marked"]
      <4>1. Marked(b) = b BY <3>4
      <4> QED BY <3>3, <3>4, <4>1 DEF Finalized
    <3> SUFFICES ASSUME NEW w \in owed', live'[w[1]] # w[2], ~Prunable(w) PROVE Saved(w)'
      BY <1>3 DEF NoUserTreeLost
    <3>5. PICK b \in backups : b.s = w[1] /\ b.tree = w[2]
      BY <1>1, <1>3 DEF Kept, NoUserTreeLost, Saved
    <3>6. b.mark # "marked" /\ b.stream # session.stream
      BY <3>1, <3>2, <3>5 DEF Prunable, SessionOf
    <3>7. b \in backups' BY <3>4, <3>6
    <3> QED BY <3>5, <3>7 DEF Saved
  <2> QED BY <2>1, <2>2 DEF Receive, NoSession, Replays, OutOfOrder, Fails, Structure,
     DiskFence, Tick, Sources, DiskRevalidate
<1> QED BY <1>1, <1>2, <1>4 DEF Kept

LEMMA InitKept == Init => Kept
<1> SUFFICES ASSUME Init PROVE Kept OBVIOUS
<1>1. Authored /\ NoUserTreeLost BY DEF Init, Tree, Authored, NoUserTreeLost
<1> QED BY <1>1 DEF Init, Idle, Kept, LooksHold

LEMMA KeptStep == ~EditsDuringSwap /\ Typed /\ Kept /\ [Next]_vars => Kept'
<1> SUFFICES ASSUME ~EditsDuringSwap, Typed, Kept, [Next]_vars PROVE Kept' OBVIOUS
<1>1. ASSUME UNCHANGED <<live, backups, owed>>,
             worker'.at = "aside" => worker' = worker /\ session' = session,
             undo' # None /\ undo'.at = "aside" => undo' = undo
      PROVE  Kept'
  BY <1>1, FrameKept DEF Kept, Authored, LooksHold, Latest
<1>2. CASE Next
  <2>1. ASSUME NEW s \in Services, UserEdits(s) \/ UserCreates(s) \/ WatchRecords(s) PROVE Kept'
    BY <2>1, UserKept
  <2>2. CASE PluginStarts \/ PluginAnswered \/ PluginTimesOut \/ PluginAborts
             \/ \E r \in inflight : Lose(r)
    BY <1>1, <2>2 DEF PluginStarts, PluginAnswered, PluginTimesOut, PluginAborts, Lose
  <2>3. ASSUME NEW r \in inflight, Receive(r) PROVE Kept' BY <2>3, ReceiveKept
  <2>4. CASE Expire
    <3>1. undo' = None \/ undo'.at = "check" BY <2>4 DEF Expire, Drops
    <3> QED BY <1>1, <2>4, <3>1 DEF Expire, Drops, Idle
  <2>5. CASE FenceCaptures BY <1>1, <2>5 DEF FenceCaptures
  <2>6. CASE WorkerStep BY <2>6, WorkerKept
  <2>7. CASE UndoStep BY <2>7, UndoKept
  <2>8. CASE UndoEnds
    <3>1. worker.at = "idle" /\ UNCHANGED worker
      BY <2>8 DEF UndoEnds, Typed, Shape, WorkerBelongs
    <3> QED BY <1>1, <2>8, <3>1 DEF UndoEnds
  <2>9. CASE Crash BY <1>1, <2>9 DEF Crash, Idle
  <2> QED BY <1>2, <2>1, <2>2, <2>3, <2>4, <2>5, <2>6, <2>7, <2>8, <2>9 DEF Next
<1>3. CASE UNCHANGED vars BY <1>1, <1>3 DEF vars
<1> QED BY <1>2, <1>3

(* Through any number of pushes, commits, rollbacks, faults and crashes of the daemon, what
   the user has written last is on its place or in a backup, as long as no edit falls
   between the look a rollback takes at an installed tree and the rename that moves it
   aside. *)
THEOREM NothingIsLost == ~EditsDuringSwap => (Spec => []NoUserTreeLost)
<1> SUFFICES ASSUME ~EditsDuringSwap PROVE Spec => []NoUserTreeLost OBVIOUS
<1>1. Init => Typed /\ Kept BY InitType, InitShape, InitKept DEF Typed
<1>2. Typed /\ Kept /\ [Next]_vars => (Typed /\ Kept)'
  BY TypeStep, ShapeStep, KeptStep DEF Typed
<1>3. Kept => NoUserTreeLost BY DEF Kept
<1> QED BY <1>1, <1>2, <1>3, PTL DEF Spec

-------------------------------------------------------------------------------
(***************************************************************************)
(* StreamCommit implements Generation, for any number of services, streams,*)
(* edits, faults, crashes and abandoned calls: a generation is on the disk *)
(* whole or not at all, or somebody is told; and the conflict engine takes *)
(* a tree for agreed only when its generation is whole.                    *)
(*                                                                         *)
(* Both hold while no stream is opened a second time.  A strict stream is  *)
(* not, which is proved below; a plain one can be, by a first chunk that   *)
(* is delivered after the stream has ended.                                *)
(***************************************************************************)

(* The services the worker has in hand: moved, installed or given up. *)
InHand == Locked \cup {"ok", "partial"}

Clean(s, g)  == live[s] = Absent \/ live[s].gen # g
Whole(s, g)  == live[s] # Absent /\ live[s].gen = g
Partly(s, g) == live[s] = Absent \/ live[s].gen \in {0, g}

(* Nothing of a stream is anywhere. *)
Untouched(g) ==
    /\ outcome[g] = "none"
    /\ \A s \in Services : Clean(s, g)
    /\ \A b \in backups : b.stream # g /\ b.tree.gen # g

(* No stream is opened that has been there before. *)
Opens == \A g \in Streams : ~SessionOf(g) /\ SessionOf(g)' => Untouched(g)

(* A stream that can still be taken back: its backups are one for a service and hold what
   was there before it. *)
Opened(g) ==
    /\ outcome[g] = "none"
    /\ \A b \in backups : b.tree.gen # g
    /\ \A b, c \in backups : b.s = c.s /\ b.stream = g /\ c.stream = g => b = c

(* The services before the one a session has reached are of its stream, and have their
   receipts; those after it are not, and have no backup. *)
Behind(g) == \A s \in Services : s < session.svc =>
                 Whole(s, g) /\ \E e \in session.committed : e.s = s
Ahead(g) == \A s \in Services :
    s > session.svc \/ (s = session.svc /\ worker.at \notin InHand) =>
        Clean(s, g) /\ Backup(s, g) = {}

(* What the stream has created has no backup. *)
New(entries, g) == \A e \in entries : e.created => Backup(e.s, g) = {}

(* The service in hand. *)
Held(g) ==
    /\ worker.at \in InHand => Partly(worker.s, g)
    /\ worker.at \in {"installed", "check", "aside", "ok"} => Whole(worker.s, g)
    /\ worker.at \in Locked => worker.fenced # Absent
    /\ worker.at = "ok" /\ worker.fenced = Absent => Backup(worker.s, g) = {}

OpenSession == session # None /\ ~session.done /\ undo = None
SessionOpen == OpenSession =>
    /\ Opened(session.stream) /\ Behind(session.stream) /\ Ahead(session.stream)
    /\ New(session.committed, session.stream) /\ Held(session.stream)

(* A rollback has the services of its stream to take back, or has refused them; the session
   that waits for its end has not begun. *)
Taken(s) == s \in undo.partial \/ \E e \in undo.todo \cup undo.kept : e.s = s
Remains(g) == \A s \in Services : IF Taken(s) THEN Partly(s, g) ELSE Clean(s, g)
Apart == \A e \in undo.todo : e.s \notin undo.partial /\ \A f \in undo.kept : f.s # e.s
Waiting ==
    /\ undo.req = None /\ session # None =>
          session.stream # undo.stream /\ session.svc = 1 /\ Untouched(session.stream)
    /\ undo.req # None => session.stream = undo.stream /\ ~session.done
UndoOpen == undo # None =>
    /\ Opened(undo.stream) /\ New(undo.todo, undo.stream)
    /\ Remains(undo.stream) /\ Apart /\ Waiting

Open == SessionOpen /\ UndoOpen

USE StreamAssumption DEF Services, Streams

-------------------------------------------------------------------------------
(* What is open stays as it is described. *)

LEMMA NoTree == Absent \notin Trees
BY AbsentAssumption DEF Trees

LEMMA InitOpen == Init => Open
BY DEF Init, Open, SessionOpen, OpenSession, UndoOpen

LEMMA FrameOpen ==
    ASSUME Open, UNCHANGED <<live, backups, outcome, session, worker, undo>>
    PROVE  Open'
<1>1. SessionOpen'
  BY DEF Open, SessionOpen, OpenSession, Opened, Behind, Ahead, New, Held, Clean, Whole,
     Partly, Backup
<1>2. UndoOpen'
  BY DEF Open, UndoOpen, Opened, New, Remains, Taken, Apart, Waiting, Untouched, Clean,
     Whole, Partly, Backup
<1> QED BY <1>1, <1>2 DEF Open

(* The user changes no tree of one stream into one of another. *)
LEMMA UserGens ==
    ASSUME Typed, NEW s \in Services, UserEdits(s) \/ UserCreates(s)
    PROVE  \A t \in Services :
             \/ live'[t] = live[t]
             \/ live[t] # Absent /\ live'[t] # Absent /\ live'[t].gen = live[t].gen
             \/ live[t] = Absent /\ live'[t] # Absent /\ live'[t].gen = 0
<1>1. live \in Baselines /\ live' \in Baselines BY UserType DEF Typed, TypeOK, DiskOK
<1>2. CASE UserEdits(s)
  <2> DEFINE new == [live[s] EXCEPT !.edit = edits + 1]
  <2>1. live[s] # Absent /\ live' = [live EXCEPT ![s] = new] BY <1>2 DEF UserEdits
  <2>2. live[s] \in Trees BY <1>1, <2>1 DEF Baselines
  <2>3. new.gen = live[s].gen /\ new # Absent
    <3>1. edits + 1 \in 0..MaxEdits BY SMTT(60), <1>2 DEF UserEdits, Typed, TypeOK, CountsOK
    <3> QED BY <2>2, <3>1, NoTree DEF Trees
  <2> HIDE DEF new
  <2> QED BY <1>1, <2>1, <2>3 DEF Baselines
<1>3. CASE UserCreates(s)
  <2> DEFINE new == [gen |-> 0, edit |-> edits + 1]
  <2>1. live[s] = Absent /\ live' = [live EXCEPT ![s] = new] BY <1>3 DEF UserCreates
  <2>2. new # Absent /\ new.gen = 0
    <3>1. edits + 1 \in 0..MaxEdits BY <1>3 DEF UserCreates, Typed, TypeOK, CountsOK
    <3> QED BY <3>1, NoTree DEF Trees
  <2> HIDE DEF new
  <2> QED BY <1>1, <2>1, <2>2 DEF Baselines
<1> QED BY <1>2, <1>3

LEMMA UserOpen ==
    ASSUME Typed, Open, NEW s \in Services, UserEdits(s) \/ UserCreates(s)
    PROVE  Open'
<1>1. \A t \in Services :
         \/ live'[t] = live[t]
         \/ live[t] # Absent /\ live'[t] # Absent /\ live'[t].gen = live[t].gen
         \/ live[t] = Absent /\ live'[t] # Absent /\ live'[t].gen = 0
  BY UserGens
<1>2. \A t \in Services, g \in Streams :
         /\ Clean(t, g) => Clean(t, g)'
         /\ Whole(t, g) => Whole(t, g)'
         /\ Partly(t, g) => Partly(t, g)'
  BY <1>1 DEF Clean, Whole, Partly
<1>3. UNCHANGED <<backups, outcome, session, worker, undo>> BY DEF UserEdits, UserCreates
<1>4. session # None => session.stream \in Streams BY DEF Typed, TypeOK, DaemonOK, Sessions
<1>5. undo # None => undo.stream \in Streams BY DEF Typed, TypeOK, DaemonOK, Undos
<1>6. worker.s \in Services BY DEF Typed, TypeOK, DaemonOK
<1>7. SessionOpen'
  <2> SUFFICES ASSUME OpenSession PROVE SessionOpen' BY <1>3 DEF SessionOpen, OpenSession
  <2> DEFINE g == session.stream
  <2>1. g \in Streams /\ Opened(g) /\ Behind(g) /\ Ahead(g) /\ New(session.committed, g) /\ Held(g)
    BY <1>4 DEF OpenSession, Open, SessionOpen
  <2>2. Opened(session.stream)' /\ New(session.committed, session.stream)'
    BY <1>3, <2>1 DEF Opened, New, Backup
  <2>3. Behind(session.stream)' BY <1>2, <1>3, <2>1 DEF Behind
  <2>4. Ahead(session.stream)' BY <1>2, <1>3, <2>1 DEF Ahead, Backup
  <2>5. Held(session.stream)' BY <1>2, <1>3, <1>6, <2>1 DEF Held, Backup
  <2> QED BY <2>2, <2>3, <2>4, <2>5 DEF SessionOpen
<1>8. UndoOpen'
  <2> SUFFICES ASSUME undo # None PROVE UndoOpen' BY <1>3 DEF UndoOpen
  <2> DEFINE g == undo.stream
  <2>1. g \in Streams /\ Opened(g) /\ New(undo.todo, g) /\ Remains(g) /\ Apart /\ Waiting
    BY <1>5 DEF Open, UndoOpen
  <2>2. Opened(undo.stream)' /\ New(undo.todo, undo.stream)' /\ Apart'
    BY <1>3, <2>1 DEF Opened, New, Backup, Apart
  <2>3. Remains(undo.stream)' BY <1>2, <1>3, <2>1 DEF Remains, Taken
  <2>4. Waiting' BY <1>2, <1>3, <1>4, <2>1 DEF Waiting, Untouched
  <2> QED BY <2>2, <2>3, <2>4 DEF UndoOpen
<1> QED BY <1>7, <1>8 DEF Open

(* A session that goes on with the same service. *)
LEMMA GoesOnOpen ==
    ASSUME Open, OpenSession, session' # None, ~session'.done,
           session'.stream = session.stream, session'.svc = session.svc,
           session'.committed = session.committed,
           UNCHANGED <<live, backups, outcome, undo>>,
           worker' = worker \/ (worker.at \notin InHand /\ worker'.at \notin InHand)
    PROVE  Open'
<1>1. Opened(session.stream) /\ Behind(session.stream) /\ Ahead(session.stream)
      /\ New(session.committed, session.stream) /\ Held(session.stream)
  BY DEF Open, SessionOpen
<1>2. Opened(session.stream)' /\ Behind(session.stream)' /\ New(session.committed, session.stream)'
  BY <1>1 DEF Opened, Behind, New, Whole, Backup
<1>3. Ahead(session.stream)' BY <1>1 DEF Ahead, Clean, Backup
<1>4. Held(session.stream)' BY <1>1 DEF Held, InHand, Locked, Partly, Whole, Backup
<1> QED BY <1>2, <1>3, <1>4 DEF Open, SessionOpen, UndoOpen, OpenSession

-------------------------------------------------------------------------------
(* A request. *)

(* A session in the way leaves the services it has replaced to a rollback. *)
LEMMA DropsOpen ==
    ASSUME Typed, Open, session # None, undo = None, Drops, UNCHANGED <<live, backups, outcome>>,
           \/ session' = None
           \/ /\ session'.stream # session.stream /\ session'.svc = 1 /\ session'.committed = {}
              /\ Untouched(session'.stream)
    PROVE  Open'
<1>1. session \in Sessions /\ session.stream \in Streams
  BY DEF Typed, TypeOK, DaemonOK, Sessions
<1>2. worker' = Idle /\ Idle.at = "idle" /\ "idle" \notin InHand
  BY DEF Drops, Idle, InHand, Locked
<1>3. CASE session.checkpoint = None
  <2>1. undo' = None BY <1>3 DEF Drops
  <2>2. ASSUME session' # None PROVE SessionOpen'
    <3>1. /\ Untouched(session'.stream) /\ session'.svc = 1 /\ session'.committed = {}
      BY <2>2
    <3>2. Opened(session.stream)' /\ New(session.committed, session.stream)'
      BY <3>1 DEF Opened, Untouched, New
    <3>3. Behind(session.stream)' BY <3>1 DEF Behind
    <3>4. Ahead(session.stream)' BY <3>1 DEF Ahead, Untouched, Clean, Backup
    <3>5. Held(session.stream)' BY <1>2 DEF Held, InHand, Locked
    <3> QED BY <3>2, <3>3, <3>4, <3>5 DEF SessionOpen
  <2> QED BY <2>1, <2>2 DEF Open, SessionOpen, UndoOpen, OpenSession
<1>4. CASE session.checkpoint # None
  <2> DEFINE new == IF worker.at = "ok"
                    THEN {[s |-> worker.s, created |-> worker.fenced = Absent]} ELSE {}
  <2>1. PICK g \in Streams : g = session.stream BY <1>1
  <2>2. undo' = [stream |-> g, todo |-> session.committed \cup new, kept |-> {},
                 at |-> "check", checkpoint |-> session.checkpoint,
                 partial |-> Stranded, req |-> None]
    BY <1>4, <2>1 DEF Drops
  <2>3. ~session.done BY <1>4 DEF Typed, Shape, SessionHolds
  <2>4. Opened(g) /\ Behind(g) /\ Ahead(g) /\ New(session.committed, g) /\ Held(g)
    BY <2>1, <2>3 DEF Open, SessionOpen, OpenSession
  <2>5. worker.at # "idle" => worker.s = session.svc BY DEF Typed, Shape, WorkerBelongs
  <2>6. /\ \A e \in new : /\ worker.at = "ok" /\ e.s = session.svc /\ e \in Entries
                          /\ e.created => Backup(e.s, g) = {}
        /\ worker.at = "ok" => \E e \in new : e.s = session.svc
    <3>1. CASE worker.at = "ok"
      <4>1. PICK e : e = [s |-> worker.s, created |-> worker.fenced = Absent] OBVIOUS
      <4>2. e.s = session.svc /\ e \in Entries /\ (e.created => Backup(e.s, g) = {})
        BY <2>4, <2>5, <3>1, <4>1, EntryType DEF Held, Typed, TypeOK
      <4>3. new = {e} BY <3>1, <4>1
      <4> HIDE DEF new
      <4> QED BY <3>1, <4>2, <4>3
    <3>2. CASE worker.at # "ok" BY <3>2
    <3> QED BY <3>1, <3>2
  <2> HIDE DEF new
  <2>7. /\ undo'.stream = g /\ undo'.todo = session.committed \cup new /\ undo'.kept = {}
        /\ undo'.partial = Stranded /\ undo'.req = None
    BY <2>2
  <2>8. Opened(undo.stream)' /\ New(undo.todo, undo.stream)'
    BY <2>7, <2>4, <2>6 DEF Opened, New, Backup
  <2>9. \A t \in Stranded : t = session.svc /\ worker.at = "partial" BY <2>5 DEF Stranded
  <2>10. session.svc \in Nat /\ \A e \in session.committed : e.s \in Nat /\ e.s < session.svc
                                 /\ e.s \in Services
    BY <1>1, <2>3 DEF Sessions, Entries, Typed, Shape, SessionHolds
  <2>11. Apart' BY <2>7, <2>6, <2>9, <2>10 DEF Apart
  <2>12. Remains(undo.stream)'
    <3> SUFFICES ASSUME NEW t \in Services
                 PROVE  IF Taken(t)' THEN Partly(t, g)' ELSE Clean(t, g)'
      BY <2>7 DEF Remains
    <3>1. Taken(t)' <=> t \in Stranded \/ \E e \in session.committed \cup new : e.s = t
      BY <2>7 DEF Taken
    <3>2. CASE t < session.svc BY <2>4, <3>1, <3>2 DEF Behind, Whole, Partly
    <3>3. CASE t > session.svc
      <4>1. ~Taken(t)' BY <2>6, <2>9, <2>10, <3>1, <3>3
      <4> QED BY <2>4, <3>3, <4>1 DEF Ahead, Clean
    <3>4. CASE t = session.svc
      <4>1. CASE worker.at \notin InHand
        <5>1. ~Taken(t)' BY <2>6, <2>9, <2>10, <3>1, <3>4, <4>1 DEF InHand
        <5> QED BY <2>4, <3>4, <4>1, <5>1 DEF Ahead, Clean
      <4>2. CASE worker.at \in InHand
        <5>1. worker.s = t /\ worker.at \notin Locked BY <1>2, <2>5, <3>4, <4>2 DEF Drops
        <5>2. Taken(t)' BY <2>6, <3>1, <3>4, <4>2, <5>1 DEF InHand, Stranded
        <5> QED BY <2>4, <4>2, <5>1, <5>2 DEF Held, Partly
      <4> QED BY <4>1, <4>2
    <3> QED BY <2>10, <3>2, <3>3, <3>4
  <2>13. Waiting' BY <2>1, <2>7 DEF Waiting, Untouched, Clean
  <2>14. UndoOpen' BY <2>8, <2>11, <2>12, <2>13 DEF UndoOpen
  <2>15. undo' # None
    <3>1. session.committed \cup new \subseteq Entries /\ Stranded \subseteq Services
      BY <1>1, <2>6, EntryType DEF Sessions, Typed, TypeOK
    <3>2. session.checkpoint \in Baselines BY <1>1, <1>4 DEF Sessions
    <3>3. undo' \in Undos BY <2>2, <3>1, <3>2 DEF Undos
    <3> QED BY <3>3, NoneAssumption
  <2> QED BY <2>14, <2>15 DEF Open, SessionOpen, OpenSession
<1> QED BY <1>3, <1>4


LEMMA NoSessionOpen ==
    ASSUME Typed, Open, NEW r \in inflight, undo = None, NoSession(r), Opens
    PROVE  Open'
<1> DEFINE g == r.body.stream
           stale == g \in Strict /\ (g # started \/ grant # live)
<1>1. UNCHANGED <<live, backups, outcome>> /\ ~SessionOf(g) /\ g \in Streams
  BY RequestType DEF NoSession, Typed, TypeOK
<1>2. CASE ~IsStart(r.body) \/ stale BY <1>1, <1>2, FrameOpen DEF NoSession
<1>3. CASE ~(~IsStart(r.body) \/ stale)
  <2>1. /\ session' = NewSession(g) /\ session' # None
        /\ session'.stream = g /\ session'.svc = 1 /\ session'.committed = {}
    <3>1. session' = NewSession(g) /\ NewSession(g) \in Sessions
      BY <1>1, <1>3, NewSessionType DEF NoSession, Typed
    <3> QED BY <3>1, NoneAssumption DEF NewSession
  <2>2. Untouched(g)
    <3>1. SessionOf(g)' BY <2>1 DEF SessionOf
    <3> QED BY <1>1, <3>1 DEF Opens
  <2>3. CASE session = None
    <3>1. UNCHANGED <<worker, undo>> /\ worker.at = "idle"
      BY <1>3, <2>3 DEF NoSession, Typed, Shape, WorkerBelongs
    <3>2. Opened(session.stream)' /\ New(session.committed, session.stream)'
      BY <1>1, <2>1, <2>2 DEF Opened, Untouched, New
    <3>3. Behind(session.stream)' BY <2>1 DEF Behind
    <3>4. Ahead(session.stream)' BY <1>1, <2>1, <2>2 DEF Ahead, Untouched, Clean, Backup
    <3>5. Held(session.stream)' BY <3>1 DEF Held, InHand, Locked
    <3> QED BY <3>1, <3>2, <3>3, <3>4, <3>5 DEF Open, SessionOpen, UndoOpen
  <2>4. CASE session # None
    <3>1. Drops /\ session.stream # g BY <1>1, <1>3, <2>4 DEF NoSession, SessionOf
    <3>2. Untouched(session'.stream) BY <2>1, <2>2
    <3> QED BY <1>1, <2>1, <2>4, <3>1, <3>2, DropsOpen
  <2> QED BY <2>3, <2>4
<1> QED BY <1>2, <1>3

(* A failure has the services of its session taken back. *)
LEMMA FailsOpen ==
    ASSUME Typed, Open, NEW r \in inflight, undo = None, Fresh(r), Fails(r)
    PROVE  Open'
<1>1. /\ r \in Requests /\ r # None /\ OpenSession
      /\ session \in Sessions /\ session.stream \in Streams
  BY RequestType DEF Typed, TypeOK, DaemonOK, Sessions, Fresh, SessionOf, OpenSession
<1>2. UNCHANGED <<live, backups>> /\ worker.at \notin Locked BY DEF Fails
<1>3. PICK g \in Streams : g = session.stream BY <1>1
<1>4. Opened(g) /\ Behind(g) /\ Ahead(g) /\ New(session.committed, g) /\ Held(g)
  BY <1>1, <1>3 DEF Open, SessionOpen
<1>5. worker.at # "idle" => worker.s = session.svc BY DEF Typed, Shape, WorkerBelongs
<1>6. CASE worker.at = "ok" BY <1>2, <1>6, FrameOpen DEF Fails
<1>7. CASE worker.at # "ok" /\ session.committed # {}
  <2>1. undo' = [stream |-> g, todo |-> session.committed, kept |-> {},
                 at |-> "check", checkpoint |-> session.checkpoint,
                 partial |-> Stranded, req |-> r]
        /\ UNCHANGED <<session, outcome>>
    BY <1>3, <1>7 DEF Fails
  <2>2. /\ undo'.stream = g /\ undo'.todo = session.committed /\ undo'.kept = {}
        /\ undo'.partial = Stranded /\ undo'.req = r
    BY <2>1
  <2>3. undo' # None BY <1>7, FailsType, NoneAssumption
  <2>4. \A t \in Stranded : t = session.svc /\ worker.at = "partial" BY <1>5 DEF Stranded
  <2>5. session.svc \in Nat /\ \A e \in session.committed : e.s \in Nat /\ e.s < session.svc
    BY <1>1 DEF Sessions, Entries, Typed, Shape, SessionHolds, OpenSession
  <2>6. Opened(undo.stream)' /\ New(undo.todo, undo.stream)'
    BY <1>2, <1>4, <2>1, <2>2 DEF Opened, New, Backup
  <2>7. Apart' BY <2>2, <2>4, <2>5 DEF Apart
  <2>8. Remains(undo.stream)'
    <3> SUFFICES ASSUME NEW t \in Services
                 PROVE  IF Taken(t)' THEN Partly(t, g)' ELSE Clean(t, g)'
      BY <2>2 DEF Remains
    <3>1. Taken(t)' <=> t \in Stranded \/ \E e \in session.committed : e.s = t
      BY <2>2 DEF Taken
    <3>2. CASE t < session.svc BY <1>2, <1>4, <3>1, <3>2 DEF Behind, Whole, Partly
    <3>3. CASE t > session.svc
      <4>1. ~Taken(t)' BY <2>4, <2>5, <3>1, <3>3
      <4> QED BY <1>2, <1>4, <3>3, <4>1 DEF Ahead, Clean
    <3>4. CASE t = session.svc /\ worker.at # "partial"
      <4>1. ~Taken(t)' /\ worker.at \notin InHand
        BY <1>2, <1>7, <2>4, <2>5, <3>1, <3>4 DEF InHand
      <4> QED BY <1>2, <1>4, <3>4, <4>1 DEF Ahead, Clean
    <3>5. CASE t = session.svc /\ worker.at = "partial"
      <4>1. Taken(t)' /\ worker.at \in InHand /\ worker.s = t
        BY <1>5, <3>1, <3>5 DEF InHand, Stranded
      <4> QED BY <1>2, <1>4, <4>1 DEF Held, Partly
    <3> QED BY <2>5, <3>2, <3>3, <3>4, <3>5
  <2>9. Waiting' BY <1>1, <1>3, <2>1, <2>2 DEF Waiting, OpenSession
  <2> QED BY <2>3, <2>6, <2>7, <2>8, <2>9 DEF Open, UndoOpen, SessionOpen, OpenSession
<1>8. CASE worker.at # "ok" /\ session.committed = {}
  <2>1. undo' = None BY <1>8 DEF Fails
  <2>2. session' # None => session'.done BY <1>1, <1>8 DEF Fails, Sessions
  <2> QED BY <2>1, <2>2 DEF Open, SessionOpen, UndoOpen, OpenSession
<1> QED BY <1>6, <1>7, <1>8

(* A commit that is taken: the next service is reached, or the generation is whole. *)
LEMMA RevalidateOpen ==
    ASSUME Typed, Open, NEW r \in inflight, undo = None, DiskRevalidate(r)
    PROVE  Open'
<1>1. OpenSession /\ Fresh(r) /\ session \in Sessions /\ session.stream \in Streams
  BY DEF DiskRevalidate, Typed, TypeOK, DaemonOK, Sessions, Fresh, SessionOf, OpenSession
<1>2. CASE Tick(r)
  <2>1. session' \in Sessions /\ session' # None
    BY <1>1, <1>2, TickType, NoneAssumption DEF Typed
  <2>2. session' = [session EXCEPT !.chunk = session.chunk + 1, !.last = r.body,
                     !.reply = Advance(session.svc, session.phase, session.chunk + 1)]
        /\ UNCHANGED <<live, backups, outcome, undo, worker>>
    BY <1>2 DEF Tick
  <2>3. session'.done = session.done /\ session'.stream = session.stream
        /\ session'.svc = session.svc /\ session'.committed = session.committed
    BY <1>1, <2>2 DEF Sessions
  <2> QED BY <1>1, <2>1, <2>2, <2>3, GoesOnOpen DEF OpenSession
<1>3. CASE Fails(r) BY <1>1, <1>3, FailsOpen
<1>4. CASE Completes(r)
  <2>1. session' = [session EXCEPT !.done = TRUE, !.committed = Retained, !.last = r.body,
                      !.checkpoint = None, !.reply = Ends("complete", r.body)] /\ undo' = None
    BY <1>4 DEF Completes
  <2>2. session'.done BY <1>1, <2>1 DEF Sessions
  <2> QED BY <2>1, <2>2 DEF Open, SessionOpen, UndoOpen, OpenSession
<1>5. CASE ~Tick(r) /\ ~Fails(r) /\ ~Completes(r)
  <2>1. session' = [session EXCEPT !.svc = session.svc + 1, !.phase = "structure", !.chunk = 0,
                         !.committed = Retained, !.last = r.body, !.fenced = Absent,
                         !.reply = Advance(session.svc + 1, "structure", 0)]
        /\ worker' = Idle /\ UNCHANGED <<live, backups, outcome, undo>> /\ worker.at = "ok"
    BY <1>5 DEF DiskRevalidate
  <2>2. session'.stream = session.stream /\ session'.svc = session.svc + 1
        /\ session'.committed = Retained
    BY <1>1, <2>1 DEF Sessions
  <2>3. PICK g \in Streams : g = session.stream BY <1>1
  <2>4. Opened(g) /\ Behind(g) /\ Ahead(g) /\ New(session.committed, g) /\ Held(g)
    BY <1>1, <2>3 DEF Open, SessionOpen
  <2>5. worker.s = session.svc /\ session.svc \in Nat
    BY <1>1, <2>1 DEF Typed, Shape, WorkerBelongs, Sessions
  <2>6. PICK e0 : e0 = [s |-> worker.s, created |-> worker.fenced = Absent] OBVIOUS
  <2>7. Retained = session.committed \cup {e0} /\ e0.s = session.svc
        /\ (e0.created <=> worker.fenced = Absent)
    BY <2>5, <2>6 DEF Retained
  <2>8. Opened(g)' /\ New(session.committed, g)'
    BY <2>1, <2>2, <2>4, <2>5, <2>7 DEF Opened, New, Held, Backup
  <2>9. Behind(g)'
    <3> SUFFICES ASSUME NEW t \in Services, t < session.svc + 1
                 PROVE  Whole(t, g)' /\ \E e \in Retained : e.s = t
      BY <2>2 DEF Behind
    <3>1. CASE t < session.svc BY <2>1, <2>4, <2>7, <3>1 DEF Behind, Whole
    <3>2. CASE t = session.svc BY <2>1, <2>4, <2>5, <2>7, <3>2 DEF Held, Whole
    <3> QED BY <2>5, <3>1, <3>2
  <2>10. Ahead(g)'
    <3> SUFFICES ASSUME NEW t \in Services, t > session.svc
                 PROVE  Clean(t, g)' /\ Backup(t, g)' = {}
      BY <2>2, <2>5 DEF Ahead
    <3> QED BY <2>1, <2>4 DEF Ahead, Clean, Backup
  <2>11. Held(g)' BY <2>1 DEF Held, InHand, Locked, Idle
  <2> QED BY <2>1, <2>2, <2>3, <2>8, <2>9, <2>10, <2>11 DEF Open, SessionOpen, UndoOpen,
     OpenSession
<1> QED BY <1>2, <1>3, <1>4, <1>5

LEMMA ReceiveOpen ==
    ASSUME Typed, Open, NEW r \in inflight, Receive(r), Opens
    PROVE  Open'
<1>1. undo = None BY DEF Receive
<1>2. CASE NoSession(r) BY <1>1, <1>2, NoSessionOpen
<1>3. CASE Replays(r) BY <1>3, FrameOpen DEF Replays
<1>4. CASE OutOfOrder(r) BY <1>1, <1>4, FailsOpen DEF OutOfOrder
<1>5. CASE Structure(r) \/ Sources(r)
  <2>1. OpenSession /\ session \in Sessions /\ Fresh(r) /\ At(r.body)
    BY <1>1, <1>5 DEF Structure, Sources, Fresh, SessionOf, OpenSession, Typed, TypeOK,
       DaemonOK
  <2>2. session' # None BY <1>5, <2>1, ContinuesType, NoneAssumption DEF Typed
  <2>3. /\ session'.done = session.done /\ session'.stream = session.stream
        /\ session'.svc = session.svc /\ session'.committed = session.committed
        /\ UNCHANGED <<live, backups, outcome, undo>>
    BY ZenonT(60), <1>5, <2>1 DEF Structure, Sources, Sessions
  <2>4. worker' = worker \/ (worker.at \notin InHand /\ worker'.at \notin InHand)
    <3>1. CASE Structure(r) BY <3>1 DEF Structure
    <3>2. CASE Sources(r)
      <4>1. worker.at = "idle" /\ worker'.at = "staging"
        BY <3>2 DEF Sources, Typed, Shape, WorkerBelongs
      <4> QED BY <4>1 DEF InHand, Locked
    <3> QED BY <1>5, <3>1, <3>2
  <2> QED BY <2>1, <2>2, <2>3, <2>4, GoesOnOpen DEF OpenSession
<1>6. CASE DiskFence(r)
  <2>1. OpenSession /\ session \in Sessions /\ Fresh(r)
    BY <1>1, <1>6 DEF DiskFence, Fresh, SessionOf, OpenSession, Typed, TypeOK, DaemonOK
  <2>2. CASE Fails(r) BY <1>1, <2>1, <2>2, FailsOpen
  <2>3. CASE ~Fails(r)
    <3>1. session' # None BY <1>1, <1>6, <2>3, FenceType, NoneAssumption
    <3>2. /\ session'.done = session.done /\ session'.stream = session.stream
          /\ session'.svc = session.svc /\ session'.committed = session.committed
          /\ UNCHANGED <<live, backups, outcome, undo, worker>>
      BY ZenonT(60), <1>6, <2>1, <2>3 DEF DiskFence, Tick, Sessions
    <3> QED BY <2>1, <3>1, <3>2, GoesOnOpen DEF OpenSession
  <2> QED BY <2>2, <2>3
<1>7. CASE DiskRevalidate(r) BY <1>1, <1>7, RevalidateOpen
<1> QED BY <1>2, <1>3, <1>4, <1>5, <1>6, <1>7 DEF Receive


-------------------------------------------------------------------------------
(* The worker. *)

(* It touches only the service it has in hand. *)
LEMMA HandOpen ==
    ASSUME Typed, Open, OpenSession, NEW g \in Streams, g = session.stream,
           worker.s = session.svc, worker'.s = worker.s,
           UNCHANGED <<outcome, session, undo>>,
           \A t \in Services : t # worker.s => live'[t] = live[t],
           \A b : b.s # worker.s => (b \in backups <=> b \in backups'),
           Opened(g)', Held(g)',
           worker'.at \notin InHand => Clean(worker.s, g)' /\ Backup(worker.s, g)' = {}
    PROVE  Open'
<1>1. Behind(g) /\ Ahead(g) /\ New(session.committed, g) BY DEF Open, SessionOpen
<1>2. session.svc \in Nat /\ \A e \in session.committed : e.s \in Nat /\ e.s < session.svc
  BY DEF OpenSession, Typed, TypeOK, DaemonOK, Sessions, Entries, Shape, SessionHolds
<1>3. ASSUME NEW t \in Services, t # worker.s PROVE Backup(t, g)' = Backup(t, g)
  BY <1>3 DEF Backup
<1>4. Behind(g)'
  <2> SUFFICES ASSUME NEW t \in Services, t < session.svc
               PROVE  Whole(t, g)' /\ \E e \in session.committed : e.s = t
    BY DEF Behind
  <2> QED BY <1>1, <1>2 DEF Behind, Whole
<1>5. New(session.committed, g)'
  <2> SUFFICES ASSUME NEW e \in session.committed, e.created PROVE Backup(e.s, g)' = {}
    BY DEF New
  <2>1. Backup(e.s, g) = {} /\ e.s # worker.s BY <1>1, <1>2 DEF New
  <2> QED BY <2>1 DEF Backup
<1>6. Ahead(g)'
  <2> SUFFICES ASSUME NEW t \in Services,
                      t > session.svc \/ (t = session.svc /\ worker'.at \notin InHand)
               PROVE  Clean(t, g)' /\ Backup(t, g)' = {}
    BY DEF Ahead
  <2>1. CASE t > session.svc BY <1>1, <1>2, <1>3, <2>1 DEF Ahead, Clean
  <2>2. CASE ~(t > session.svc) BY <2>2 DEF Clean, Backup
  <2> QED BY <2>1, <2>2
<1> QED BY <1>4, <1>5, <1>6 DEF Open, SessionOpen, UndoOpen, OpenSession

(* What the worker finds. *)
LEMMA WorkerFinds ==
    ASSUME Typed, WorkerStep
    PROVE  /\ OpenSession /\ worker.s = session.svc /\ worker.s \in Services
           /\ session.stream \in Streams /\ live \in Baselines
           /\ worker'.s = worker.s /\ worker'.fenced = worker.fenced
           /\ UNCHANGED <<outcome, session, undo>>
<1>1. worker.at # "idle"
  BY DEF WorkerStep, Stage, LastLook, MoveAway, InstallNew, VerifyMoved, Install, Commit,
     RestoreBefore, RestoreCheck, RestoreAside, RestoreBack
<1>2. OpenSession /\ worker.s = session.svc
  BY <1>1 DEF Typed, Shape, WorkerBelongs, OpenSession
<1>3. worker.s \in Services /\ session.stream \in Streams /\ live \in Baselines
  BY <1>2 DEF Typed, TypeOK, DiskOK, DaemonOK, OpenSession, Sessions
<1>4. worker'.s = worker.s /\ worker'.fenced = worker.fenced
  BY DEF WorkerStep, Stage, LastLook, MoveAway, InstallNew, VerifyMoved, Install, Commit,
     RestoreBefore, RestoreCheck, RestoreAside, RestoreBack, Goes, Typed, TypeOK, DaemonOK
<1> QED BY <1>2, <1>3, <1>4 DEF WorkerStep

(* Its one backup of the service is the one it puts back. *)
LEMMA OneBackup ==
    ASSUME Typed, NEW g \in Streams, Opened(g), NEW b \in backups, b.stream = g
    PROVE  /\ Backup(b.s, g) = {b}
           /\ b.tree \in Trees /\ b.tree.gen # g
           /\ \A t \in Services : {c \in backups \ {b} : c.s = t /\ c.stream = g}
                                  = IF t = b.s THEN {} ELSE Backup(t, g)
<1>1. b.tree \in Trees BY DEF Typed, TypeOK, DiskOK
<1> QED BY <1>1 DEF Opened, Backup

LEMMA WorkerOpen ==
    ASSUME Typed, Open, WorkerStep
    PROVE  Open'
<1>1. /\ OpenSession /\ worker.s = session.svc /\ worker.s \in Services
      /\ session.stream \in Streams /\ live \in Baselines
      /\ worker'.s = worker.s /\ worker'.fenced = worker.fenced
      /\ UNCHANGED <<outcome, session, undo>>
  BY WorkerFinds
<1>2. PICK g \in Streams : g = session.stream BY <1>1
<1>3. Opened(g) /\ Ahead(g) /\ Held(g) BY <1>1, <1>2 DEF Open, SessionOpen
<1>4. worker.at \notin InHand => Clean(worker.s, g) /\ Backup(worker.s, g) = {}
  BY <1>1, <1>3 DEF Ahead
<1>5. Tree(g) # Absent /\ Tree(g).gen = g BY NoTree, TreeType DEF Tree
<1>6. ASSUME NEW at, Goes(at) PROVE worker'.at = at
  BY <1>6 DEF Goes, Typed, TypeOK, DaemonOK
<1>7. ASSUME UNCHANGED <<live, backups>>, Held(g)', worker'.at \notin InHand => worker.at \notin InHand
      PROVE  Open'
  <2>1. Opened(g)' BY <1>1, <1>3, <1>7 DEF Opened
  <2>2. worker'.at \notin InHand => Clean(worker.s, g)' /\ Backup(worker.s, g)' = {}
    BY <1>1, <1>4, <1>7 DEF Clean, Backup
  <2> QED BY <1>1, <1>2, <1>7, <2>1, <2>2, HandOpen
<1>8. ASSUME UNCHANGED backups, NEW v, live' = [live EXCEPT ![worker.s] = v],
             Held(g)', worker'.at \in InHand
      PROVE  Open'
  <2>1. Opened(g)' BY <1>1, <1>3, <1>8 DEF Opened
  <2>2. \A t \in Services : t # worker.s => live'[t] = live[t] BY <1>1, <1>8 DEF Baselines
  <2> QED BY <1>1, <1>2, <1>8, <2>1, <2>2, HandOpen
<1>9. ASSUME worker.at \in Locked, live' = [live EXCEPT ![worker.s] = Mine.tree],
             backups' = backups \ {Mine}, Goes("failed")
      PROVE  Open'
  <2>1. Mine \in backups /\ Mine.s = worker.s /\ Mine.stream = g
    BY <1>2, <1>9, MineExists DEF Typed, Shape, WorkerHasBackup
  <2>2. PICK b \in backups : b = Mine BY <2>1
  <2>3. /\ b.tree \in Trees /\ b.tree.gen # g
        /\ {c \in backups \ {b} : c.s = worker.s /\ c.stream = g} = {}
    BY <1>1, <1>3, <2>1, <2>2, OneBackup
  <2>4. Opened(g)' BY <1>1, <1>3, <1>9 DEF Opened
  <2>5. Held(g)' /\ worker'.at = "failed" BY <1>6, <1>9 DEF Held, InHand, Locked
  <2>6. Clean(worker.s, g)' /\ Backup(worker.s, g)' = {}
    BY <1>1, <1>9, <2>2, <2>3 DEF Clean, Backup, Baselines
  <2>7. \A t \in Services : t # worker.s => live'[t] = live[t] BY <1>1, <1>9 DEF Baselines
  <2>8. \A c : c.s # worker.s => (c \in backups <=> c \in backups') BY <1>9, <2>1
  <2> QED BY <1>1, <1>2, <2>4, <2>5, <2>6, <2>7, <2>8, HandOpen
<1>10. CASE (Stage \/ LastLook \/ MoveAway \/ InstallNew) /\ UNCHANGED <<live, backups>>
            /\ worker'.at \notin InHand
  <2>1. worker.at \notin InHand
    BY <1>10 DEF Stage, LastLook, MoveAway, InstallNew, InHand, Locked
  <2>2. Held(g)' BY <1>10 DEF Held, InHand, Locked
  <2> QED BY <1>7, <1>10, <2>1, <2>2
<1>11. CASE MoveAway /\ worker'.at \in InHand
  <2>1. /\ worker.at = "ready" /\ live[worker.s] # Absent /\ worker.fenced # Absent
        /\ backups' = backups \cup {[s |-> worker.s, stream |-> g, tree |-> live[worker.s],
                                     mark |-> "open"]}
        /\ live' = [live EXCEPT ![worker.s] = Absent] /\ worker'.at = "moved"
    BY <1>2, <1>6, <1>11 DEF MoveAway, InHand, Locked
  <2>2. PICK b : b = [s |-> worker.s, stream |-> g, tree |-> live[worker.s], mark |-> "open"]
    OBVIOUS
  <2>3. b.s = worker.s /\ b.stream = g /\ b.tree = live[worker.s] /\ backups' = backups \cup {b}
    BY <2>1, <2>2
  <2>4. Clean(worker.s, g) /\ Backup(worker.s, g) = {} BY <1>4, <2>1 DEF InHand, Locked
  <2>5. Opened(g)' BY <1>1, <1>3, <2>1, <2>3, <2>4 DEF Opened, Clean, Backup
  <2>6. Held(g)' BY <1>1, <2>1 DEF Held, Partly, Baselines
  <2>7. \A t \in Services : t # worker.s => live'[t] = live[t] BY <1>1, <2>1 DEF Baselines
  <2>8. \A c : c.s # worker.s => (c \in backups <=> c \in backups') BY <2>3
  <2> QED BY <1>1, <1>2, <1>11, <2>5, <2>6, <2>7, <2>8, HandOpen
<1>12. CASE InstallNew /\ worker'.at \in InHand
  <2>1. /\ worker.at = "ready" /\ worker.fenced = Absent /\ UNCHANGED backups
        /\ live' = [live EXCEPT ![worker.s] = Tree(g)] /\ worker'.at = "ok"
    BY <1>2, <1>6, <1>12 DEF InstallNew, InHand, Locked
  <2>2. live'[worker.s] = Tree(g) BY <1>1, <2>1 DEF Baselines
  <2>3. Backup(worker.s, g)' = {} BY <1>1, <1>4, <2>1 DEF Backup, InHand, Locked
  <2>4. Held(g)' BY <1>1, <1>5, <2>1, <2>2, <2>3 DEF Held, Whole, Partly, Locked
  <2> QED BY <1>8, <1>12, <2>1, <2>4
<1>13. CASE VerifyMoved \/ Commit \/ RestoreCheck
  <2>1. /\ worker.at \in Locked /\ worker'.at \in InHand /\ UNCHANGED <<live, backups>>
        /\ worker'.at \in {"installed", "check", "aside", "ok"} =>
             worker.at \in {"installed", "check", "aside", "ok"}
    BY <1>6, <1>13 DEF VerifyMoved, Commit, RestoreCheck, InHand, Locked
  <2>2. Held(g)' BY <1>1, <1>3, <2>1 DEF Held, InHand, Whole, Partly, Backup
  <2> QED BY <1>7, <2>1, <2>2
<1>14. CASE (Install \/ RestoreBefore) /\ UNCHANGED <<live, backups>> /\ worker'.at \in InHand
  <2>1. worker.at \in Locked /\ worker'.at \in {"restore", "partial", "installed"}
    BY <1>6, <1>14 DEF Install, RestoreBefore, Locked, InHand
  <2>2. worker'.at # "installed" \/ live'[worker.s] = Tree(g)
    <3>1. CASE Install /\ worker'.at = "installed"
      <4>1. live' = [live EXCEPT ![worker.s] = Tree(g)] BY <1>2, <1>6, <3>1 DEF Install
      <4> QED BY <1>1, <4>1 DEF Baselines
    <3>2. CASE RestoreBefore BY <1>6, <3>2 DEF RestoreBefore
    <3> QED BY <1>14, <3>1, <3>2
  <2>3. Held(g)'
    BY <1>1, <1>3, <1>5, <1>14, <2>1, <2>2 DEF Held, InHand, Locked, Whole, Partly, Backup
  <2> QED BY <1>7, <1>14, <2>3
<1>15. CASE Install /\ ~UNCHANGED live
  <2>1. /\ worker.at = "verified" /\ worker'.at = "installed" /\ UNCHANGED backups
        /\ live' = [live EXCEPT ![worker.s] = Tree(g)]
    BY <1>2, <1>6, <1>15 DEF Install
  <2>2. live'[worker.s] = Tree(g) BY <1>1, <2>1 DEF Baselines
  <2>3. Held(g)' BY <1>1, <1>3, <1>5, <2>1, <2>2 DEF Held, Whole, Partly, Locked
  <2> QED BY <1>8, <2>1, <2>3 DEF InHand, Locked
<1>16. CASE RestoreAside
  <2>1. /\ worker.at = "aside" /\ worker'.at = "back" /\ UNCHANGED backups
        /\ live' = [live EXCEPT ![worker.s] = Absent]
    BY <1>6, <1>16 DEF RestoreAside
  <2>2. live'[worker.s] = Absent BY <1>1, <2>1 DEF Baselines
  <2>3. Held(g)' BY <1>1, <1>3, <2>1, <2>2 DEF Held, Partly, Locked
  <2> QED BY <1>8, <2>1, <2>3 DEF InHand, Locked
<1>17. CASE (RestoreBefore \/ RestoreBack) /\ Goes("failed")
  <2>1. worker'.at = "failed" BY <1>6, <1>17
  <2>2. /\ live' = [live EXCEPT ![worker.s] = Mine.tree] /\ backups' = backups \ {Mine}
        /\ worker.at \in Locked
    BY <1>6, <1>17, <2>1 DEF RestoreBefore, RestoreBack, Locked
  <2> QED BY <1>9, <1>17, <2>2
<1>18. CASE RestoreBack /\ Goes("partial")
  <2>1. worker'.at = "partial" /\ worker.at \in Locked /\ UNCHANGED backups
    BY <1>6, <1>18 DEF RestoreBack, Locked
  <2>2. live' = live \/ live' = [live EXCEPT ![worker.s] = Tree(g)]
    <3>1. CASE live' = [live EXCEPT ![worker.s] = IF live[worker.s] = Absent THEN Tree(session.stream)
                                                  ELSE live[worker.s]]
      BY <1>1, <1>2, <3>1 DEF Baselines
    <3> QED BY <1>6, <1>18, <2>1, <3>1 DEF RestoreBack
  <2>3. Partly(worker.s, g)'
    BY <1>1, <1>3, <1>5, <2>1, <2>2 DEF Held, InHand, Partly, Baselines
  <2>4. Held(g)' BY <1>1, <2>1, <2>3 DEF Held, Locked
  <2>5. worker'.at \in InHand BY <2>1 DEF InHand
  <2> QED BY <1>7, <1>8, <2>1, <2>2, <2>4, <2>5
<1>19. \/ Stage \/ LastLook \/ MoveAway \/ InstallNew \/ VerifyMoved \/ Install \/ Commit
       \/ RestoreBefore \/ RestoreCheck \/ RestoreAside \/ RestoreBack
  BY DEF WorkerStep
<1>20. CASE Stage \/ LastLook \/ MoveAway \/ InstallNew
  <2>1. worker'.at \notin InHand => UNCHANGED <<live, backups>>
    BY <1>6, <1>20 DEF Stage, LastLook, MoveAway, InstallNew, InHand, Locked
  <2>2. Stage \/ LastLook => worker'.at \notin InHand
    BY <1>6 DEF Stage, LastLook, InHand, Locked
  <2> QED BY <1>10, <1>11, <1>12, <1>20, <2>1, <2>2
<1>21. CASE Install \/ RestoreBefore
  <2>1. (Goes("failed") /\ RestoreBefore) \/ (UNCHANGED <<live, backups>> /\ worker'.at \in InHand)
        \/ (Install /\ ~UNCHANGED live)
    BY <1>6, <1>21 DEF Install, RestoreBefore, InHand, Locked
  <2> QED BY <1>14, <1>15, <1>17, <1>21, <2>1
<1> QED BY <1>13, <1>16, <1>17, <1>18, <1>19, <1>20, <1>21 DEF RestoreBack


-------------------------------------------------------------------------------
(* A rollback. *)

(* A step of it touches the service of one receipt, and is done with it or refuses it. *)
LEMMA TakesOpen ==
    ASSUME Typed, Open, undo # None, NEW g \in Streams, g = undo.stream, NEW e \in undo.todo,
           UNCHANGED <<outcome, session>>, undo' # None, undo'.stream = undo.stream,
           undo'.req = undo.req, undo'.partial = undo.partial,
           backups' \subseteq backups, \A b \in backups : b.s # e.s => b \in backups',
           live \in Baselines, NEW v, live' = [live EXCEPT ![e.s] = v],
           v = Absent \/ v = live[e.s] \/ v = Tree(g) \/ (\E b \in backups : v = b.tree),
           \/ /\ undo'.todo = undo.todo /\ undo'.kept = undo.kept /\ Partly(e.s, g)'
              /\ UNCHANGED backups
           \/ /\ undo'.todo = undo.todo \ {e} /\ undo'.kept = undo.kept \cup {e} /\ Partly(e.s, g)'
              /\ UNCHANGED backups
           \/ undo'.todo = undo.todo \ {e} /\ undo'.kept = undo.kept /\ Clean(e.s, g)'
    PROVE  Open'
<1>1. Opened(g) /\ New(undo.todo, g) /\ Remains(g) /\ Apart /\ Waiting BY DEF Open, UndoOpen
<1>2. /\ \A f \in undo.todo : f.s \in Services /\ (f.s = e.s => f = e)
      /\ undo.todo \subseteq Entries /\ undo.kept \subseteq Entries
  BY DEF Typed, TypeOK, DaemonOK, Undos, Entries, Shape, UndoHolds, Receipts
<1>3. live'[e.s] = v /\ \A t \in Services : t # e.s => live'[t] = live[t]
  BY <1>2 DEF Baselines
<1>4. Opened(g)' BY <1>1 DEF Opened
<1>5. New(undo.todo, undo.stream)' BY <1>1 DEF New, Backup
<1>6. Apart' BY <1>1, <1>2 DEF Apart
<1>7. Remains(g)'
  <2> SUFFICES ASSUME NEW t \in Services
               PROVE  IF Taken(t)' THEN Partly(t, g)' ELSE Clean(t, g)'
    BY DEF Remains
  <2>1. CASE t # e.s
    <3>1. Taken(t)' <=> Taken(t) BY <2>1 DEF Taken
    <3>2. live'[t] = live[t] BY <1>3, <2>1
    <3> QED BY <1>1, <3>1, <3>2 DEF Remains, Partly, Clean
  <2>2. CASE t = e.s
    <3>1. CASE Partly(e.s, g)' /\ (undo'.todo = undo.todo \/ undo'.kept = undo.kept \cup {e})
      <4>1. Taken(t)' BY <2>2, <3>1 DEF Taken
      <4> QED BY <2>2, <3>1, <4>1
    <3>2. CASE undo'.todo = undo.todo \ {e} /\ undo'.kept = undo.kept /\ Clean(e.s, g)'
      <4>1. ~Taken(t)' BY <1>1, <1>2, <2>2, <3>2 DEF Taken, Apart
      <4> QED BY <2>2, <3>2, <4>1
    <3> QED BY <3>1, <3>2
  <2> QED BY <2>1, <2>2
<1>8. Waiting'
  <2> SUFFICES ASSUME undo.req = None, session # None
               PROVE  session.stream # g /\ session.svc = 1 /\ Untouched(session.stream)'
    BY <1>1 DEF Waiting
  <2>1. /\ session.stream # g /\ session.svc = 1 /\ Untouched(session.stream)
        /\ session.stream \in Streams
    BY <1>1 DEF Waiting, Typed, TypeOK, DaemonOK, Sessions
  <2>2. \A b \in backups' : b.stream # session.stream /\ b.tree.gen # session.stream
    BY <2>1 DEF Untouched
  <2>3. Tree(g).gen = g BY DEF Tree
  <2>4. v = Absent \/ v.gen # session.stream BY <1>2, <2>1, <2>3 DEF Untouched, Clean
  <2>5. \A t \in Services : Clean(t, session.stream)'
    BY <1>3, <2>1, <2>4 DEF Untouched, Clean
  <2> QED BY <2>1, <2>2, <2>5 DEF Untouched
<1> QED BY <1>4, <1>5, <1>6, <1>7, <1>8 DEF Open, UndoOpen, SessionOpen, OpenSession

(* What a step of a rollback finds and does. *)
LEMMA UndoFinds ==
    ASSUME Typed, UndoStep
    PROVE  \E e \in undo.todo :
             /\ undo # None /\ undo \in Undos /\ undo.stream \in Streams
             /\ e \in Entries /\ e.s \in Services /\ live \in Baselines
             /\ UNCHANGED <<outcome, session, worker>> /\ worker.at = "idle"
             /\ \/ /\ UNCHANGED <<live, backups>>
                   /\ \/ undo' = [undo EXCEPT !.at = "aside"]
                      \/ Refused(e)
                      \/ Undone(e) /\ live[e.s] = Absent /\ e.created
                \/ /\ UNCHANGED backups
                   /\ live' = [live EXCEPT ![e.s] = Absent]
                   /\ \/ undo' = [undo EXCEPT !.at = "back"]
                      \/ Undone(e) /\ e.created
                \/ /\ live' = [live EXCEPT ![e.s] = Ours(e).tree]
                   /\ backups' = backups \ {Ours(e)}
                   /\ live[e.s] = Absent /\ ~e.created /\ Undone(e)
                   /\ Ours(e) \in backups /\ Ours(e).s = e.s /\ Ours(e).stream = undo.stream
                \/ /\ UNCHANGED backups
                   /\ live' = [live EXCEPT ![e.s] = Tree(undo.stream)]
                   /\ Refused(e)
<1>1. PICK e \in undo.todo :
         Latest(e) /\ (UndoCreated(e) \/ UndoCheck(e) \/ UndoAside(e) \/ UndoBack(e))
  BY DEF UndoStep
<1>2. /\ undo # None /\ undo \in Undos /\ undo.stream \in Streams /\ worker.at = "idle"
      /\ e \in Entries /\ e.s \in Services /\ live \in Baselines
      /\ UNCHANGED <<outcome, session, worker>>
  BY DEF UndoStep, Typed, Shape, WorkerBelongs, TypeOK, DiskOK, DaemonOK, Undos, Entries
<1>3. CASE UndoCreated(e) \/ UndoCheck(e) \/ UndoAside(e)
  BY <1>2, <1>3 DEF UndoCreated, UndoCheck, UndoAside
<1>4. CASE UndoBack(e)
  <2>1. ~e.created /\ Ours(e) \in backups /\ Ours(e).s = e.s /\ Ours(e).stream = undo.stream
    BY <1>1, <1>2, <1>4, UndoneLast, OursExists DEF UndoBack, Typed, TypeOK, Shape,
       UndoHolds, Receipts
  <2>2. CASE /\ live[e.s] = Absent /\ live' = [live EXCEPT ![e.s] = Ours(e).tree]
             /\ backups' = backups \ {Ours(e)} /\ Undone(e)
    BY <1>2, <2>1, <2>2
  <2>3. CASE Refused(e) /\ UNCHANGED <<live, backups>> BY <1>2, <2>3
  <2>4. CASE /\ Refused(e) /\ UNCHANGED backups
             /\ live' = [live EXCEPT ![e.s] = IF live[e.s] = Absent THEN Tree(undo.stream)
                                              ELSE live[e.s]]
    <3>1. live' = live \/ live' = [live EXCEPT ![e.s] = Tree(undo.stream)]
      BY <1>2, <2>4 DEF Baselines
    <3> QED BY <1>2, <2>4, <3>1
  <2> QED BY <1>4, <2>2, <2>3, <2>4 DEF UndoBack
<1> QED BY <1>1, <1>3, <1>4

LEMMA UndoStepOpen ==
    ASSUME Typed, Open, UndoStep
    PROVE  Open'
<1>1. PICK e \in undo.todo :
         /\ undo # None /\ undo \in Undos /\ undo.stream \in Streams
         /\ e \in Entries /\ e.s \in Services /\ live \in Baselines
         /\ UNCHANGED <<outcome, session, worker>> /\ worker.at = "idle"
         /\ \/ /\ UNCHANGED <<live, backups>>
               /\ \/ undo' = [undo EXCEPT !.at = "aside"]
                  \/ Refused(e)
                  \/ Undone(e) /\ live[e.s] = Absent /\ e.created
            \/ /\ UNCHANGED backups
               /\ live' = [live EXCEPT ![e.s] = Absent]
               /\ \/ undo' = [undo EXCEPT !.at = "back"]
                  \/ Undone(e) /\ e.created
            \/ /\ live' = [live EXCEPT ![e.s] = Ours(e).tree]
               /\ backups' = backups \ {Ours(e)}
               /\ live[e.s] = Absent /\ ~e.created /\ Undone(e)
               /\ Ours(e) \in backups /\ Ours(e).s = e.s /\ Ours(e).stream = undo.stream
            \/ /\ UNCHANGED backups
               /\ live' = [live EXCEPT ![e.s] = Tree(undo.stream)]
               /\ Refused(e)
  BY UndoFinds
<1>2. PICK g \in Streams : g = undo.stream BY <1>1
<1>3. Opened(g) /\ Remains(g) /\ Taken(e.s) BY <1>1, <1>2 DEF Open, UndoOpen, Taken
<1>4. Partly(e.s, g) BY <1>1, <1>3 DEF Remains
<1>5. undo' \in Undos /\ undo' # None BY UndoType, NoneAssumption
<1>6. ASSUME NEW at, undo' = [undo EXCEPT !.at = at]
      PROVE  /\ undo'.stream = undo.stream /\ undo'.req = undo.req /\ undo'.partial = undo.partial
             /\ undo'.todo = undo.todo /\ undo'.kept = undo.kept
  BY <1>1, <1>6 DEF Undos
<1>7. ASSUME Undone(e)
      PROVE  /\ undo'.stream = undo.stream /\ undo'.req = undo.req /\ undo'.partial = undo.partial
             /\ undo'.todo = undo.todo \ {e} /\ undo'.kept = undo.kept
  BY <1>1, <1>7 DEF Undone, Undos
<1>8. ASSUME Refused(e)
      PROVE  /\ undo'.stream = undo.stream /\ undo'.req = undo.req /\ undo'.partial = undo.partial
             /\ undo'.todo = undo.todo \ {e} /\ undo'.kept = undo.kept \cup {e}
  BY <1>1, <1>8 DEF Refused, Undos
<1>9. Tree(g) # Absent /\ Tree(g).gen = g BY NoTree, TreeType DEF Tree
<1>10. CASE /\ UNCHANGED <<live, backups>>
            /\ \/ undo' = [undo EXCEPT !.at = "aside"]
               \/ Refused(e)
               \/ Undone(e) /\ live[e.s] = Absent
  <2>1. live' = [live EXCEPT ![e.s] = live[e.s]] BY <1>1, <1>10 DEF Baselines
  <2>2. Partly(e.s, g)' /\ (live[e.s] = Absent => Clean(e.s, g)')
    BY <1>4, <1>10 DEF Partly, Clean
  <2>3. CASE undo' = [undo EXCEPT !.at = "aside"]
    BY ZenonT(60), <1>1, <1>2, <1>5, <1>6, <1>10, <2>1, <2>2, <2>3, TakesOpen
  <2>4. CASE Refused(e)
    BY ZenonT(60), <1>1, <1>2, <1>5, <1>8, <1>10, <2>1, <2>2, <2>4, TakesOpen
  <2>5. CASE Undone(e) /\ live[e.s] = Absent
    <3>1. /\ undo'.stream = undo.stream /\ undo'.req = undo.req /\ undo'.partial = undo.partial
          /\ undo'.todo = undo.todo \ {e} /\ undo'.kept = undo.kept
      BY <1>7, <2>5
    <3>2. Clean(e.s, g)' /\ backups' = backups BY <1>10, <2>2, <2>5
    <3>3. UNCHANGED <<outcome, session>> /\ live \in Baselines /\ undo # None BY <1>1
    <3> QED BY <1>2, <1>5, <2>1, <3>1, <3>2, <3>3, TakesOpen
  <2> QED BY <1>10, <2>3, <2>4, <2>5
<1>11. CASE /\ UNCHANGED backups /\ live' = [live EXCEPT ![e.s] = Absent]
            /\ undo' = [undo EXCEPT !.at = "back"] \/ Undone(e)
  <2>1. Partly(e.s, g)' /\ Clean(e.s, g)' BY <1>1, <1>11 DEF Partly, Clean, Baselines
  <2>2. CASE undo' = [undo EXCEPT !.at = "back"]
    BY <1>1, <1>2, <1>5, <1>6, <1>11, <2>1, <2>2, TakesOpen
  <2>3. CASE Undone(e) BY <1>1, <1>2, <1>5, <1>7, <1>11, <2>1, <2>3, TakesOpen
  <2> QED BY <1>11, <2>2, <2>3
<1>12. CASE /\ live' = [live EXCEPT ![e.s] = Ours(e).tree] /\ backups' = backups \ {Ours(e)}
            /\ Undone(e) /\ Ours(e) \in backups /\ Ours(e).s = e.s
  <2>1. PICK b \in backups : b = Ours(e) BY <1>12
  <2>2. live' = [live EXCEPT ![e.s] = b.tree] BY <1>12, <2>1
  <2>3. Clean(e.s, g)' BY <1>1, <1>3, <2>1, <2>2 DEF Opened, Clean, Baselines
  <2>4. backups' \subseteq backups /\ \A c \in backups : c.s # e.s => c \in backups'
    BY <1>12
  <2>5. /\ undo'.stream = undo.stream /\ undo'.req = undo.req /\ undo'.partial = undo.partial
        /\ undo'.todo = undo.todo \ {e} /\ undo'.kept = undo.kept
    BY <1>7, <1>12
  <2>6. UNCHANGED <<outcome, session>> /\ live \in Baselines /\ undo # None BY <1>1
  <2> QED BY <1>2, <1>5, <2>2, <2>3, <2>4, <2>5, <2>6, TakesOpen
<1>13. CASE UNCHANGED backups /\ live' = [live EXCEPT ![e.s] = Tree(undo.stream)] /\ Refused(e)
  <2>1. Partly(e.s, g)' /\ live' = [live EXCEPT ![e.s] = Tree(g)]
    BY <1>1, <1>2, <1>9, <1>13 DEF Partly, Baselines
  <2> QED BY ZenonT(60), <1>1, <1>2, <1>5, <1>8, <1>13, <2>1, TakesOpen
<1> QED BY <1>1, <1>10, <1>11, <1>12, <1>13

(* Its end leaves the session it answered for ended, or begins another's. *)
LEMMA UndoEndsOpen ==
    ASSUME Typed, Open, UndoEnds
    PROVE  Open'
<1>1. undo' = None /\ UNCHANGED <<live, backups, worker>> /\ undo # None BY DEF UndoEnds
<1>2. undo \in Undos /\ undo.stream \in Streams /\ worker.at = "idle"
  BY <1>1 DEF Typed, TypeOK, DaemonOK, Undos, Shape, WorkerBelongs
<1>3. CASE undo.req # None
  <2>1. session \in Sessions BY <1>1, <1>3 DEF Typed, TypeOK, DaemonOK, Shape, UndoHolds
  <2>2. session'.done
    <3>1. PICK b, a : session' = [session EXCEPT !.done = TRUE, !.committed = undo.kept,
                                    !.checkpoint = None, !.last = b, !.reply = a]
      BY <1>3 DEF UndoEnds
    <3> QED BY <2>1, <3>1 DEF Sessions
  <2> QED BY <1>1, <2>2 DEF Open, SessionOpen, UndoOpen, OpenSession
<1>4. CASE undo.req = None
  <2>1. UNCHANGED session /\ \A g \in Streams : g # undo.stream => outcome'[g] = outcome[g]
    BY <1>2, <1>4 DEF UndoEnds, Typed, TypeOK, CountsOK
  <2> SUFFICES ASSUME session # None PROVE SessionOpen'
    BY <1>1, <2>1 DEF Open, UndoOpen, SessionOpen, OpenSession
  <2>2. PICK g \in Streams : g = session.stream BY DEF Typed, TypeOK, DaemonOK, Sessions
  <2>3. /\ g # undo.stream /\ session.svc = 1 /\ Untouched(g) /\ session.committed = {}
    BY <1>1, <1>4, <2>2 DEF Open, UndoOpen, Waiting, Typed, Shape, UndoHolds
  <2>4. Untouched(g)' BY <1>1, <2>1, <2>3 DEF Untouched, Clean
  <2>5. Opened(g)' /\ New(session.committed, g)'
    BY <2>1, <2>3, <2>4 DEF Opened, Untouched, New
  <2>6. Behind(g)' /\ Ahead(g)' /\ Held(g)'
    BY <1>1, <1>2, <2>1, <2>3, <2>4 DEF Behind, Ahead, Held, Untouched, Backup, InHand,
       Locked
  <2> QED BY <2>1, <2>2, <2>5, <2>6 DEF SessionOpen
<1> QED BY <1>3, <1>4

LEMMA OpenStep == Typed /\ Open /\ [Next]_vars /\ Opens => Open'
<1> SUFFICES ASSUME Typed, Open, [Next]_vars, Opens PROVE Open' OBVIOUS
<1>1. CASE Next
  <2>1. ASSUME NEW s \in Services, UserEdits(s) \/ UserCreates(s) \/ WatchRecords(s) PROVE Open'
    BY <2>1, UserOpen, FrameOpen DEF WatchRecords
  <2>2. CASE PluginStarts \/ PluginAnswered \/ PluginTimesOut \/ PluginAborts
             \/ \E r \in inflight : Lose(r)
    BY <2>2, FrameOpen DEF PluginStarts, PluginAnswered, PluginTimesOut, PluginAborts, Lose
  <2>3. ASSUME NEW r \in inflight, Receive(r) PROVE Open' BY <2>3, ReceiveOpen
  <2>4. CASE Expire BY <2>4, DropsOpen DEF Expire
  <2>5. CASE FenceCaptures BY <2>5, FrameOpen DEF FenceCaptures
  <2>6. CASE WorkerStep BY <2>6, WorkerOpen
  <2>7. CASE UndoStep BY <2>7, UndoStepOpen
  <2>8. CASE UndoEnds BY <2>8, UndoEndsOpen
  <2>9. CASE Crash BY <2>9 DEF Crash, Open, SessionOpen, UndoOpen, OpenSession
  <2> QED BY <1>1, <2>1, <2>2, <2>3, <2>4, <2>5, <2>6, <2>7, <2>8, <2>9 DEF Next
<1>2. CASE UNCHANGED vars BY <1>2, FrameOpen DEF vars
<1> QED BY <1>1, <1>2


-------------------------------------------------------------------------------
(* What both sides agree on. *)

Agreed(f) == \A s \in Services : f[s] # Absent =>
    f[s].gen = 0 \/ f[s].edit # 0 \/ outcome[f[s].gen] = "complete"

(* A rollback brings back only what was agreed. *)
Agrees ==
    /\ Agreed(baseline)
    /\ session # None /\ session.checkpoint # None => Agreed(session.checkpoint)
    /\ undo # None => Agreed(undo.checkpoint)

LEMMA AuthoredStep == Typed /\ Authored /\ [Next]_vars => Authored'
<1> SUFFICES ASSUME Typed, Authored, [Next]_vars PROVE Authored' OBVIOUS
<1>1. ASSUME owed' \subseteq owed PROVE Authored' BY <1>1 DEF Authored
<1>2. ASSUME NEW s \in Services, UserEdits(s) PROVE Authored'
  <2> DEFINE new == [live[s] EXCEPT !.edit = edits + 1]
  <2>1. live[s] \in Trees /\ edits \in Nat
    BY <1>2 DEF UserEdits, Typed, TypeOK, DiskOK, CountsOK, Baselines
  <2>2. new.edit # 0 BY <2>1 DEF Trees
  <2>3. owed' = (owed \ {<<s, live[s]>>}) \cup {<<s, new>>} BY <1>2 DEF UserEdits
  <2> HIDE DEF new
  <2> QED BY <2>2, <2>3 DEF Authored
<1>3. ASSUME NEW s \in Services, UserCreates(s) PROVE Authored'
  <2>1. PICK new : new = [gen |-> 0, edit |-> edits + 1] OBVIOUS
  <2>2. live'[s] = new /\ owed' = owed \cup {<<s, live'[s]>>}
    BY <1>3, <2>1 DEF UserCreates, Typed, TypeOK, DiskOK, Baselines
  <2>3. new.gen = 0 BY <2>1
  <2> QED BY <2>2, <2>3 DEF Authored
<1>4. ASSUME NEW r \in inflight, Receive(r) PROVE owed' \subseteq owed BY <1>4 DEF Receive
<1> QED BY <1>1, <1>2, <1>3, <1>4 DEF Next, vars, WatchRecords, PluginStarts,
   PluginAnswered, PluginTimesOut, PluginAborts, Lose, Expire, FenceCaptures, WorkerStep,
   UndoStep, UndoEnds, Crash

(* Who is in doubt belongs to a stream that is open. *)
LEMMA DoubtOpen ==
    ASSUME Typed, Open, InDoubt # {}
    PROVE  OpenStream \in Streams /\ outcome[OpenStream] = "none"
<1>1. CASE undo # None
  BY <1>1 DEF OpenStream, Open, UndoOpen, Opened, Typed, TypeOK, DaemonOK, Undos
<1>2. CASE OpenSession
  BY <1>2 DEF OpenSession, OpenStream, Open, SessionOpen, Opened, Typed, TypeOK, DaemonOK,
     Sessions
<1>3. CASE undo = None /\ ~OpenSession
  <2>1. OpenStream = 0 /\ worker.at = "idle"
    BY <1>3 DEF OpenStream, OpenSession, Typed, Shape, WorkerBelongs
  <2>2. InDoubt = {} BY <1>3, <2>1 DEF InDoubt, Locked
  <2> QED BY <2>2
<1> QED BY <1>1, <1>2, <1>3

(* What is complete stays so: only the outcome of an open stream is set. *)
LEMMA CompleteStays ==
    ASSUME Typed, Open, [Next]_vars, NEW g \in Streams, outcome[g] = "complete"
    PROVE  outcome'[g] = "complete"
<1>1. ASSUME NEW r \in inflight, Receive(r) PROVE outcome'[g] = "complete"
  <2>1. ASSUME Fresh(r), Fails(r) PROVE outcome'[g] = "complete"
    <3>1. OpenSession /\ session.stream \in Streams
      BY <1>1, <2>1 DEF Receive, Fresh, SessionOf, OpenSession, Typed, TypeOK, DaemonOK,
         Sessions
    <3>2. session.stream # g BY <3>1 DEF Open, SessionOpen, Opened
    <3> QED BY <2>1, <3>1, <3>2 DEF Fails, Typed, TypeOK, CountsOK
  <2>2. CASE Completes(r) BY <2>2 DEF Completes, Typed, TypeOK, CountsOK
  <2> QED BY <1>1, <2>1, <2>2 DEF Receive, NoSession, Replays, OutOfOrder, Structure,
     DiskFence, Tick, Sources, DiskRevalidate
<1>2. ASSUME UndoEnds PROVE outcome'[g] = "complete"
  <2>1. undo # None /\ undo.stream # g BY <1>2 DEF UndoEnds, Open, UndoOpen, Opened
  <2> QED BY <1>2, <2>1 DEF UndoEnds, Typed, TypeOK, CountsOK
<1>3. ASSUME Crash PROVE outcome'[g] = "complete"
  BY <1>3, DoubtOpen DEF Crash, Typed, TypeOK, CountsOK
<1> QED BY <1>1, <1>2, <1>3 DEF Next, vars, bounds, UserEdits, UserCreates, WatchRecords,
   PluginStarts, PluginAnswered, PluginTimesOut, PluginAborts, Lose, Expire, FenceCaptures,
   WorkerStep, UndoStep

LEMMA AgreedStays ==
    ASSUME Typed, Open, [Next]_vars, NEW f \in Baselines, Agreed(f)
    PROVE  Agreed(f)'
<1> SUFFICES ASSUME NEW s \in Services, f[s] # Absent, f[s].gen # 0, f[s].edit = 0
             PROVE  outcome'[f[s].gen] = "complete"
  BY DEF Agreed
<1>1. f[s] \in Trees BY DEF Baselines
<1>2. f[s].gen \in Streams /\ outcome[f[s].gen] = "complete" BY <1>1 DEF Agreed, Trees
<1> QED BY <1>2, CompleteStays

LEMMA InitAgrees == Init => Agrees /\ Authored
<1> SUFFICES ASSUME Init PROVE Agrees /\ Authored OBVIOUS
<1>1. Agreed(baseline) BY DEF Init, Agreed, Tree
<1> QED BY <1>1, InitKept DEF Init, Agrees, Kept

LEMMA AgreesStep == Typed /\ Open /\ Authored /\ Agrees /\ [Next]_vars => Agrees'
<1> SUFFICES ASSUME Typed, Open, Authored, Agrees, [Next]_vars PROVE Agrees' OBVIOUS
<1>1. ASSUME NEW f \in Baselines, Agreed(f) PROVE Agreed(f)' BY <1>1, AgreedStays
<1>2. baseline \in Baselines /\ \A f : f = baseline => Agreed(f)'
  BY <1>1 DEF Agrees, Typed, TypeOK, DaemonOK
<1>3. session # None /\ session.checkpoint # None =>
         \A f : f = session.checkpoint => f \in Baselines /\ Agreed(f)'
  <2> SUFFICES ASSUME session # None, NEW f, f = session.checkpoint, f # None
               PROVE  f \in Baselines /\ Agreed(f)'
    OBVIOUS
  <2>1. f \in Baselines BY DEF Typed, TypeOK, DaemonOK, Sessions
  <2>2. Agreed(f) BY DEF Agrees
  <2> QED BY <1>1, <2>1, <2>2
<1>4. undo # None => \A f : f = undo.checkpoint => f \in Baselines /\ Agreed(f)'
  <2> SUFFICES ASSUME undo # None, NEW f, f = undo.checkpoint
               PROVE  f \in Baselines /\ Agreed(f)'
    OBVIOUS
  <2>1. f \in Baselines BY DEF Typed, TypeOK, DaemonOK, Undos
  <2>2. Agreed(f) BY DEF Agrees
  <2> QED BY <1>1, <2>1, <2>2
<1> DEFINE B == Agreed(baseline)'
           S == session' # None /\ session'.checkpoint # None => Agreed(session.checkpoint)'
           U == undo' # None => Agreed(undo.checkpoint)'
<1>5. ASSUME NEW f, Agreed(f)', baseline' = f PROVE B BY <1>5 DEF Agreed
<1>6. ASSUME NEW f, Agreed(f)', session'.checkpoint = f PROVE S BY <1>6 DEF Agreed
<1>7. ASSUME NEW f, Agreed(f)', undo'.checkpoint = f PROVE U BY <1>7 DEF Agreed
<1>8. ASSUME UNCHANGED baseline PROVE B
  <2>1. PICK f : f = baseline OBVIOUS
  <2> QED BY <1>2, <1>5, <1>8, <2>1
<1>9. ASSUME \/ session' = None \/ session'.checkpoint = None
             \/ session # None /\ session'.checkpoint = session.checkpoint
      PROVE  S
  <2> SUFFICES ASSUME session # None, session'.checkpoint = session.checkpoint,
                      session'.checkpoint # None
               PROVE  Agreed(session.checkpoint)'
    BY <1>9
  <2>1. PICK f : f = session.checkpoint OBVIOUS
  <2> QED BY <1>3, <1>6, <2>1
<1>10. ASSUME undo' = None \/ (undo # None /\ undo'.checkpoint = undo.checkpoint) PROVE U
  <2> SUFFICES ASSUME undo # None, undo'.checkpoint = undo.checkpoint
               PROVE  Agreed(undo.checkpoint)'
    BY <1>10
  <2>1. PICK f : f = undo.checkpoint OBVIOUS
  <2> QED BY <1>4, <1>7, <2>1
<1>11. ASSUME session # None, Drops PROVE U
  <2> SUFFICES ASSUME session.checkpoint # None PROVE U BY <1>11 DEF Drops
  <2>1. PICK f : f = session.checkpoint OBVIOUS
  <2>2. undo'.checkpoint = f BY <1>11, <2>1 DEF Drops
  <2> QED BY <1>3, <1>7, <1>11, <2>1, <2>2
<1>12. B /\ S /\ U => Agrees' BY DEF Agrees
<1> HIDE DEF B, S, U
<1>13. ASSUME UNCHANGED <<baseline, session, undo>> PROVE Agrees'
  BY <1>8, <1>9, <1>10, <1>12, <1>13
<1>14. ASSUME NEW r \in inflight, undo = None, Fresh(r), Fails(r) PROVE Agrees'
  <2>1. session # None /\ ~session.done /\ session \in Sessions
    BY <1>14 DEF Fresh, SessionOf, Typed, TypeOK, DaemonOK
  <2>2. PICK f : f = session.checkpoint /\ f # None
    BY <1>14, <2>1, NoneAssumption DEF Typed, Shape, SessionHolds
  <2>3. Agreed(f)' BY <1>3, <2>1, <2>2
  <2>4. CASE worker.at = "ok" BY <1>13, <1>14, <2>4 DEF Fails
  <2>5. CASE worker.at # "ok" /\ session.committed # {}
    <3>1. UNCHANGED <<baseline, session>> /\ undo'.checkpoint = f
      BY <1>14, <2>2, <2>5 DEF Fails
    <3> QED BY <1>7, <1>8, <1>9, <1>12, <2>1, <2>3, <3>1
  <2>6. CASE worker.at # "ok" /\ session.committed = {}
    <3>1. baseline' = f /\ undo' = None BY <1>14, <2>2, <2>6 DEF Fails
    <3>2. session' = None \/ session'.checkpoint = None
      BY <1>14, <2>1, <2>6 DEF Fails, Sessions
    <3> QED BY <1>5, <1>9, <1>10, <1>12, <2>3, <3>1, <3>2
  <2> QED BY <2>4, <2>5, <2>6
<1>15. ASSUME NEW r \in inflight, Fresh(r), Completes(r), undo = None PROVE Agrees'
  <2>1. session # None /\ session \in Sessions /\ session.stream \in Streams
    BY <1>15 DEF Fresh, SessionOf, Typed, TypeOK, DaemonOK, Sessions
  <2>2. \A s \in Services : baseline'[s] = Tree(session.stream) /\ outcome'[session.stream] = "complete"
    BY <1>15, <2>1 DEF Completes, Typed, TypeOK, CountsOK
  <2>3. B BY <2>2 DEF B, Agreed, Tree
  <2>4. session' = [session EXCEPT !.done = TRUE, !.committed = Retained, !.last = r.body,
                      !.checkpoint = None, !.reply = Ends("complete", r.body)] /\ undo' = None
    BY <1>15 DEF Completes
  <2>5. session'.checkpoint = None BY <2>1, <2>4 DEF Sessions
  <2> QED BY <1>9, <1>10, <1>12, <2>3, <2>4, <2>5
<1>16. ASSUME NEW r \in inflight, Receive(r) PROVE Agrees'
  <2>1. undo = None BY <1>16 DEF Receive
  <2>2. CASE NoSession(r)
    <3>1. UNCHANGED baseline /\ (UNCHANGED session \/ session' = NewSession(r.body.stream))
          /\ (UNCHANGED undo \/ (session # None /\ Drops))
      BY <2>2 DEF NoSession
    <3>2. CASE session' = NewSession(r.body.stream)
      <4>1. session'.checkpoint = baseline BY <3>2 DEF NewSession
      <4>2. PICK f : f = baseline OBVIOUS
      <4>3. Agreed(f)' BY <1>1, <1>2, <4>2 DEF Agrees
      <4> QED BY <1>6, <1>8, <1>10, <1>11, <1>12, <2>1, <3>1, <4>1, <4>2, <4>3
    <3>3. CASE UNCHANGED session
      <4>1. session = None \/ (session # None /\ session'.checkpoint = session.checkpoint)
        BY <3>3
      <4> QED BY <1>8, <1>9, <1>10, <1>11, <1>12, <2>1, <3>1, <3>3, <4>1
    <3> QED BY <3>1, <3>2, <3>3
  <2>3. CASE Replays(r) BY <1>13, <2>3 DEF Replays
  <2>4. CASE OutOfOrder(r) BY <1>14, <2>1, <2>4 DEF OutOfOrder
  <2>5. ASSUME Fresh(r), Structure(r) \/ Tick(r) \/ Sources(r) PROVE Agrees'
    <3>1. session # None /\ session \in Sessions
      BY <2>5 DEF Fresh, SessionOf, Typed, TypeOK, DaemonOK
    <3>2. session'.checkpoint = session.checkpoint /\ UNCHANGED <<baseline, undo>>
      BY <2>5, <3>1 DEF Structure, Tick, Sources, Sessions
    <3> QED BY <1>8, <1>9, <1>10, <1>12, <2>1, <3>1, <3>2
  <2>6. CASE DiskFence(r) \/ DiskRevalidate(r)
    <3>1. Fresh(r) /\ session # None /\ session \in Sessions
      BY <2>6 DEF DiskFence, DiskRevalidate, Fresh, SessionOf, Typed, TypeOK, DaemonOK
    <3>2. CASE ~Tick(r) /\ ~Fails(r) /\ ~Completes(r)
      <4>1. session'.checkpoint = session.checkpoint /\ UNCHANGED <<baseline, undo>>
        BY <2>6, <3>1, <3>2 DEF DiskFence, DiskRevalidate, Sessions
      <4> QED BY <1>8, <1>9, <1>10, <1>12, <2>1, <3>1, <4>1
    <3> QED BY <1>14, <1>15, <2>1, <2>5, <3>1, <3>2
  <2>7. Structure(r) \/ Sources(r) => Fresh(r) BY DEF Structure, Sources
  <2> QED BY <1>16, <2>2, <2>3, <2>4, <2>5, <2>6, <2>7 DEF Receive
<1>17. ASSUME NEW s \in Services, WatchRecords(s) PROVE Agrees'
  <2>1. <<s, live[s]>> \in owed /\ baseline' = [baseline EXCEPT ![s] = live[s]]
        /\ UNCHANGED <<session, undo, outcome>>
    BY <1>17 DEF WatchRecords, bounds
  <2>2. live[s].gen = 0 \/ live[s].edit # 0 BY <2>1 DEF Authored
  <2>3. Agreed(baseline) BY DEF Agrees
  <2>4. B BY <1>2, <2>1, <2>2, <2>3 DEF B, Agreed, Baselines
  <2> QED BY <1>9, <1>10, <1>12, <2>1, <2>4
<1>18. ASSUME UndoEnds PROVE Agrees'
  <2>1. PICK f : f = undo.checkpoint OBVIOUS
  <2>2. undo # None /\ undo' = None /\ baseline' = f /\ Agreed(f)'
    BY <1>4, <1>18, <2>1 DEF UndoEnds
  <2>3. UNCHANGED session \/ session'.checkpoint = None
    <3>1. CASE undo.req = None BY <1>18, <3>1 DEF UndoEnds
    <3>2. CASE undo.req # None
      <4>1. session \in Sessions BY <2>2, <3>2 DEF Typed, TypeOK, DaemonOK, Shape, UndoHolds
      <4>2. PICK b, a : session' = [session EXCEPT !.done = TRUE, !.committed = undo.kept,
                                      !.checkpoint = None, !.last = b, !.reply = a]
        BY <1>18, <3>2 DEF UndoEnds
      <4> QED BY <4>1, <4>2 DEF Sessions
    <3> QED BY <3>1, <3>2
  <2>4. session' = None \/ session'.checkpoint = None
        \/ (session # None /\ session'.checkpoint = session.checkpoint)
    BY <2>3
  <2> QED BY <1>5, <1>9, <1>10, <1>12, <2>2, <2>4
<1>19. ASSUME Crash PROVE Agrees'
  <2>1. B BY <1>19 DEF Crash, B, Agreed
  <2> QED BY <1>9, <1>10, <1>12, <1>19, <2>1 DEF Crash
<1>20. ASSUME Expire PROVE Agrees' BY <1>8, <1>9, <1>11, <1>12, <1>20 DEF Expire
<1>21. ASSUME UndoStep PROVE Agrees'
  <2>1. UNCHANGED <<baseline, session>> /\ undo # None /\ undo \in Undos
    BY <1>21 DEF UndoStep, Typed, TypeOK, DaemonOK
  <2>2. undo'.checkpoint = undo.checkpoint
    BY <1>21, <2>1 DEF UndoStep, UndoCreated, UndoCheck, UndoAside, UndoBack, Undone,
       Refused, Undos
  <2> QED BY <1>8, <1>9, <1>10, <1>12, <2>1, <2>2
<1> QED BY <1>13, <1>16, <1>17, <1>18, <1>19, <1>20, <1>21 DEF Next, vars, UserEdits,
   UserCreates, PluginStarts, PluginAnswered, PluginTimesOut, PluginAborts, Lose,
   FenceCaptures, WorkerStep

-------------------------------------------------------------------------------
(* The generations, as Generation sees them. *)

(* The service would be of the stream if the stream under way were taken back. *)
InStream(s, g) == Base(s) # Absent /\ Base(s).gen = g

(* Whose services are in doubt, and which. *)
InUndo == undo # None =>
    /\ OpenStream = undo.stream
    /\ \A s : s \in InDoubt <=> Taken(s)
InSession == OpenSession =>
    /\ OpenStream = session.stream
    /\ \A s : s \in InDoubt <=> \/ \E e \in session.committed : e.s = s
                                \/ (worker.s = s /\ worker.at \in InHand)
InNothing == undo = None /\ ~OpenSession => InDoubt = {}

LEMMA Doubts == Typed => InUndo /\ InSession /\ InNothing
<1> SUFFICES ASSUME Typed PROVE InUndo /\ InSession /\ InNothing OBVIOUS
<1>1. InUndo
  <2> SUFFICES ASSUME undo # None PROVE InUndo BY DEF InUndo
  <2>1. worker.at = "idle" BY DEF Typed, Shape, WorkerBelongs
  <2> QED BY <2>1 DEF InUndo, OpenStream, InDoubt, Taken, Locked
<1>2. InSession
  <2> SUFFICES ASSUME OpenSession PROVE InSession BY DEF InSession
  <2>1. undo = None /\ session # None /\ ~session.done BY DEF OpenSession
  <2>2. OpenStream = session.stream /\ OpenStream # 0
    BY <2>1 DEF OpenStream, Typed, TypeOK, DaemonOK, Sessions
  <2>3. ASSUME NEW s
        PROVE  s \in InDoubt <=> \/ \E e \in session.committed : e.s = s
                                \/ (worker.s = s /\ worker.at \in InHand)
    BY <2>1, <2>2 DEF InDoubt, InHand
  <2> QED BY <2>1, <2>2, <2>3 DEF InSession
<1>3. InNothing
  <2> SUFFICES ASSUME undo = None, ~OpenSession PROVE InDoubt = {} BY DEF InNothing
  <2>1. OpenStream = 0 /\ worker.at = "idle"
    BY DEF OpenStream, OpenSession, Typed, Shape, WorkerBelongs
  <2> QED BY <2>1 DEF InDoubt, Locked
<1> QED BY <1>1, <1>2, <1>3

LEMMA DoubtsNext == Typed' => InUndo' /\ InSession' /\ InNothing'
BY Doubts, PTL

(* The backup a service in doubt would come back from is of the stream g. *)
Found(s, g) == \E b \in backups : b.s = s /\ b.stream = OpenStream /\ b.tree.gen = g
In(s, g) == IF s \in InDoubt THEN Found(s, g) ELSE Whole(s, g)
Reads == \A s \in Services, g \in Streams : InStream(s, g) <=> In(s, g)

(* What is in doubt is of the open stream or of the user; the rest of the disk is of other
   streams, and is what it would be. *)
LEMMA DoubtHolds ==
    ASSUME Typed, Open
    PROVE  /\ InDoubt # {} => OpenStream \in Streams /\ outcome[OpenStream] = "none"
           /\ \A s \in Services : s \in InDoubt => Opened(OpenStream) /\ Partly(s, OpenStream)
<1>1. InUndo /\ InSession /\ InNothing BY Doubts
<1>2. CASE undo # None
  <2>1. OpenStream = undo.stream /\ \A s : s \in InDoubt <=> Taken(s)
    BY <1>1, <1>2 DEF InUndo
  <2>2. Opened(undo.stream) /\ Remains(undo.stream) BY <1>2 DEF Open, UndoOpen
  <2> QED BY <2>1, <2>2, DoubtOpen DEF Remains
<1>3. CASE OpenSession
  <2>1. /\ OpenStream = session.stream
        /\ \A s : s \in InDoubt <=> \/ \E e \in session.committed : e.s = s
                                    \/ (worker.s = s /\ worker.at \in InHand)
    BY <1>1, <1>3 DEF InSession
  <2>2. Opened(session.stream) /\ Behind(session.stream) /\ Held(session.stream)
    BY <1>3 DEF Open, SessionOpen
  <2>3. \A e \in session.committed : e.s < session.svc
    BY <1>3 DEF OpenSession, Typed, Shape, SessionHolds
  <2> QED BY <2>1, <2>2, <2>3, DoubtOpen DEF Behind, Held, Whole, Partly
<1>4. CASE undo = None /\ ~OpenSession BY <1>1, <1>4 DEF InNothing
<1> QED BY <1>2, <1>3, <1>4

LEMMA InIs ==
    ASSUME Typed, Open
    PROVE  \A s \in Services, g \in Streams : InStream(s, g) <=> In(s, g)
<1> SUFFICES ASSUME NEW s \in Services, NEW g \in Streams PROVE InStream(s, g) <=> In(s, g)
  OBVIOUS
<1>1. CASE s \notin InDoubt BY <1>1 DEF InStream, In, Base, Whole
<1>2. CASE s \in InDoubt
  <2>1. PICK h \in Streams : h = OpenStream BY <1>2, DoubtHolds
  <2>2. Opened(h) BY <1>2, <2>1, DoubtHolds
  <2>3. CASE Backup(s, h) = {} BY <1>2, <2>1, <2>3 DEF InStream, In, Base, Found, Backup
  <2>4. CASE Backup(s, h) # {}
    <3>1. PICK b \in backups : b.s = s /\ b.stream = h BY <2>4 DEF Backup
    <3>2. Backup(s, h) = {b} /\ b.tree # Absent BY <2>2, <3>1, OneBackup, NoTree
    <3>3. Base(s) = b.tree BY <1>2, <2>1, <3>2 DEF Base
    <3>4. \A c \in backups : c.s = s /\ c.stream = h => c = b BY <2>2, <3>1 DEF Opened
    <3> QED BY <1>2, <2>1, <3>1, <3>2, <3>3, <3>4 DEF InStream, In, Found
  <2> QED BY <2>3, <2>4
<1> QED BY <1>1, <1>2

LEMMA InIsNext == Typed' /\ Open' => Reads'
<1>1. Typed /\ Open => Reads BY InIs DEF Reads
<1> QED BY <1>1, PTL

(* A step settles nothing, or it settles the open stream: no other gains a service by it. *)
Stays == outcome' = outcome /\ \A s \in Services, g \in Streams : In(s, g)' <=> In(s, g)
Settled(h, how) ==
    /\ outcome[h] = "none" /\ outcome' = [outcome EXCEPT ![h] = how]
    /\ \A s \in Services, g \in Streams \ {h} : In(s, g)' => In(s, g)

LEMMA FrameStays ==
    ASSUME UNCHANGED <<live, backups, outcome, session, worker, undo>>
    PROVE  Stays
<1>1. UNCHANGED <<OpenStream, InDoubt>> BY DEF OpenStream, InDoubt
<1> QED BY <1>1 DEF Stays, In, Found, Whole

(* The same services are in doubt, for the same stream. *)
LEMMA SameStays ==
    ASSUME UNCHANGED <<live, backups, outcome>>,
           \A s : s \in InDoubt' <=> s \in InDoubt,
           InDoubt # {} => OpenStream' = OpenStream
    PROVE  Stays
BY DEF Stays, In, Found, Whole

(* Nothing is in doubt any more. *)
LEMMA SettlesOpen ==
    ASSUME Typed, Open, NEW h \in Streams, outcome[h] = "none", InDoubt # {} => h = OpenStream,
           InDoubt' = {}, UNCHANGED live, NEW how, outcome' = [outcome EXCEPT ![h] = how]
    PROVE  Settled(h, how)
<1> SUFFICES ASSUME NEW s \in Services, NEW g \in Streams \ {h}, In(s, g)' PROVE In(s, g)
  BY DEF Settled
<1>1. Whole(s, g) BY DEF In, Whole
<1>2. s \notin InDoubt BY <1>1, DoubtHolds DEF Whole, Partly
<1> QED BY <1>1, <1>2 DEF In

Turns ==
    \/ Stays
    \/ \E h \in Streams :
          \/ Settled(h, "complete") /\ \A s \in Services : In(s, h)'
          \/ Settled(h, "failed") /\ \A s \in Services : ~In(s, h)'
          \/ Settled(h, "partial")
          \/ Settled(h, "crashed")

LEMMA UserTurns ==
    ASSUME Typed, Open, NEW s \in Services, UserEdits(s) \/ UserCreates(s)
    PROVE  Stays
<1>1. \A t \in Services :
         \/ live'[t] = live[t]
         \/ live[t] # Absent /\ live'[t] # Absent /\ live'[t].gen = live[t].gen
         \/ live[t] = Absent /\ live'[t] # Absent /\ live'[t].gen = 0
  BY UserGens
<1>2. UNCHANGED <<backups, outcome, session, worker, undo>> BY DEF UserEdits, UserCreates
<1>3. UNCHANGED <<OpenStream, InDoubt>> BY <1>2 DEF OpenStream, InDoubt
<1>4. \A t \in Services, g \in Streams : Whole(t, g)' <=> Whole(t, g) BY <1>1 DEF Whole
<1> QED BY <1>2, <1>3, <1>4 DEF Stays, In, Found

(* A session goes on: the receipts and what the worker has in hand are the same. *)
LEMMA GoesOnStays ==
    ASSUME Typed, OpenSession, InSession', OpenSession', session'.stream = session.stream,
           session'.committed = session.committed, UNCHANGED <<live, backups, outcome>>,
           worker' = worker \/ (worker.at \notin InHand /\ worker'.at \notin InHand)
    PROVE  Stays
<1>1. InSession BY Doubts
<1>2. \A s : s \in InDoubt' <=> s \in InDoubt BY <1>1 DEF InSession
<1> QED BY <1>1, <1>2, SameStays DEF InSession

(* What a dropped session has replaced is the rollback's. *)
LEMMA DropsStays ==
    ASSUME Typed, Open, session # None, undo = None, Drops, UNCHANGED <<live, backups, outcome>>,
           InUndo', InSession', InNothing',
           session' = None \/ session'.committed = {}
    PROVE  Stays
<1>1. InSession /\ InNothing BY Doubts
<1>2. worker' = Idle /\ Idle.at = "idle" /\ "idle" \notin InHand
  BY DEF Drops, Idle, InHand, Locked
<1>3. CASE session.checkpoint = None
  <2>1. undo' = None BY <1>3 DEF Drops
  <2>2. ~OpenSession BY <1>3, NoneAssumption DEF OpenSession, Typed, Shape, SessionHolds
  <2>3. InDoubt = {} BY <1>1, <2>2 DEF InNothing
  <2>4. InDoubt' = {}
    <3>1. CASE OpenSession' BY <1>2, <3>1 DEF InSession, OpenSession
    <3>2. CASE ~OpenSession' BY <2>1, <3>2 DEF InNothing
    <3> QED BY <3>1, <3>2
  <2> QED BY <2>3, <2>4, SameStays
<1>4. CASE session.checkpoint # None
  <2> DEFINE new == IF worker.at = "ok"
                    THEN {[s |-> worker.s, created |-> worker.fenced = Absent]} ELSE {}
  <2>1. /\ undo' = [stream |-> session.stream, todo |-> session.committed \cup new, kept |-> {},
                    at |-> "check", checkpoint |-> session.checkpoint,
                    partial |-> Stranded, req |-> None]
        /\ worker.at \notin Locked
    BY <1>4 DEF Drops
  <2>2. OpenSession BY <1>4 DEF OpenSession, Typed, Shape, SessionHolds
  <2>3. undo' # None
    <3>1. session.committed \cup new \subseteq Entries /\ Stranded \subseteq Services
      BY <1>4, EntryType DEF Typed, TypeOK, DaemonOK, Sessions
    <3>2. session.checkpoint \in Baselines /\ session.stream \in Streams
      BY <1>4 DEF Typed, TypeOK, DaemonOK, Sessions
    <3> HIDE DEF new
    <3>3. undo' \in Undos BY <2>1, <3>1, <3>2 DEF Undos
    <3> QED BY <3>3, NoneAssumption
  <2>4. /\ undo'.stream = session.stream /\ undo'.todo = session.committed \cup new
        /\ undo'.kept = {} /\ undo'.partial = Stranded
    BY <2>1
  <2>5. \A t : (\E e \in new : e.s = t) <=> worker.at = "ok" /\ worker.s = t
    <3>1. PICK e : e = [s |-> worker.s, created |-> worker.fenced = Absent] OBVIOUS
    <3>2. e.s = worker.s BY <3>1
    <3>3. new = IF worker.at = "ok" THEN {e} ELSE {} BY <3>1
    <3> HIDE DEF new
    <3> QED BY <3>2, <3>3
  <2> HIDE DEF new
  <2>6. \A t : Taken(t)' <=> t \in InDoubt
    BY <1>1, <2>1, <2>2, <2>4, <2>5 DEF Taken, InSession, InHand, Stranded
  <2> QED BY <1>1, <2>2, <2>3, <2>4, <2>6, SameStays DEF InUndo, InSession
<1> QED BY <1>3, <1>4

LEMMA NoSessionStays ==
    ASSUME Typed, Open, NEW r \in inflight, undo = None, NoSession(r),
           InUndo', InSession', InNothing'
    PROVE  Stays
<1> DEFINE g == r.body.stream
           stale == g \in Strict /\ (g # started \/ grant # live)
<1>1. UNCHANGED <<live, backups, outcome>> BY DEF NoSession
<1>2. CASE ~IsStart(r.body) \/ stale BY <1>1, <1>2, FrameStays DEF NoSession
<1>3. CASE ~(~IsStart(r.body) \/ stale)
  <2>1. session' = NewSession(g) /\ session'.committed = {}
    BY <1>3 DEF NoSession, NewSession
  <2>2. CASE session = None
    <3>1. UNCHANGED <<worker, undo>> /\ worker.at = "idle"
      BY <1>3, <2>2 DEF NoSession, Typed, Shape, WorkerBelongs
    <3>2. InDoubt = {} BY <2>2, Doubts DEF InNothing, OpenSession
    <3>3. InDoubt' = {}
      <4>1. CASE OpenSession' BY <2>1, <3>1, <4>1 DEF InSession, InHand, Locked
      <4>2. CASE ~OpenSession' BY <3>1, <4>2 DEF InNothing
      <4> QED BY <4>1, <4>2
    <3> QED BY <1>1, <3>2, <3>3, SameStays
  <2>3. CASE session # None
    <3>1. Drops BY <1>3, <2>3 DEF NoSession
    <3> QED BY <1>1, <2>1, <2>3, <3>1, DropsStays
  <2> QED BY <2>2, <2>3
<1> QED BY <1>2, <1>3

LEMMA FailsTurns ==
    ASSUME Typed, Open, NEW r \in inflight, undo = None, Fresh(r), Fails(r),
           InUndo', InSession', InNothing'
    PROVE  Turns
<1>1. /\ OpenSession /\ session \in Sessions /\ session.stream \in Streams
      /\ UNCHANGED <<live, backups>> /\ worker.at \notin Locked
  BY DEF Typed, TypeOK, DaemonOK, Sessions, Fresh, SessionOf, OpenSession, Fails
<1>2. /\ OpenStream = session.stream /\ outcome[session.stream] = "none"
      /\ \A s : s \in InDoubt <=> \/ \E e \in session.committed : e.s = s
                                  \/ (worker.s = s /\ worker.at \in InHand)
  BY <1>1, Doubts DEF InSession, Open, SessionOpen, Opened
<1>3. CASE worker.at = "ok" BY <1>1, <1>3, FrameStays DEF Fails, Turns
<1>4. CASE worker.at # "ok" /\ session.committed # {}
  <2>1. /\ undo' = [stream |-> session.stream, todo |-> session.committed, kept |-> {},
                    at |-> "check", checkpoint |-> session.checkpoint,
                    partial |-> Stranded, req |-> r]
        /\ UNCHANGED outcome
    BY <1>4 DEF Fails
  <2>2. /\ undo'.stream = session.stream /\ undo'.todo = session.committed /\ undo'.kept = {}
        /\ undo'.partial = Stranded
    BY <2>1
  <2>3. undo' # None BY <1>4, FailsType, NoneAssumption
  <2>4. \A t : Taken(t)' <=> t \in InDoubt
    BY <1>1, <1>2, <1>4, <2>2 DEF Taken, InHand, Stranded
  <2> QED BY <1>1, <1>2, <2>1, <2>2, <2>3, <2>4, SameStays DEF InUndo, Turns
<1>5. CASE worker.at # "ok" /\ session.committed = {}
  <2>1. undo' = None /\ ~OpenSession' BY <1>1, <1>5 DEF Fails, OpenSession, Sessions
  <2>2. InDoubt' = {} BY <2>1 DEF InNothing
  <2>3. CASE worker.at = "partial"
    <3>1. outcome' = [outcome EXCEPT ![session.stream] = "partial"] BY <1>5, <2>3 DEF Fails
    <3> QED BY <1>1, <1>2, <2>2, <3>1, SettlesOpen DEF Turns
  <2>4. CASE worker.at # "partial"
    <3>1. InDoubt = {} /\ UNCHANGED outcome BY <1>1, <1>2, <1>5, <2>4 DEF Fails, InHand
    <3> QED BY <1>1, <2>2, <3>1, SameStays DEF Turns
  <2> QED BY <2>3, <2>4
<1> QED BY <1>3, <1>4, <1>5

LEMMA TickStays ==
    ASSUME Typed, Open, NEW r \in inflight, Fresh(r), undo = None, At(r.body), InSession',
           Tick(r) \/ Structure(r) \/ Sources(r)
    PROVE  Stays
<1>1. OpenSession /\ session \in Sessions
  BY DEF Fresh, SessionOf, OpenSession, Typed, TypeOK, DaemonOK
<1>2. session' # None BY <1>1, TickType, ContinuesType, NoneAssumption DEF Typed
<1>3. /\ session'.done = session.done /\ session'.stream = session.stream
      /\ session'.committed = session.committed /\ UNCHANGED <<live, backups, outcome, undo>>
  BY ZenonT(60), <1>1 DEF Tick, Structure, Sources, Sessions
<1>4. worker' = worker \/ (worker.at \notin InHand /\ worker'.at \notin InHand)
  <2>1. CASE Tick(r) \/ Structure(r) BY <2>1 DEF Tick, Structure
  <2>2. CASE Sources(r)
    <3>1. worker.at = "idle" /\ worker'.at = "staging"
      BY <2>2 DEF Sources, Typed, Shape, WorkerBelongs
    <3> QED BY <3>1 DEF InHand, Locked
  <2> QED BY <2>1, <2>2
<1> QED BY <1>1, <1>2, <1>3, <1>4, GoesOnStays DEF OpenSession

LEMMA RevalidateTurns ==
    ASSUME Typed, Open, NEW r \in inflight, undo = None, DiskRevalidate(r),
           InUndo', InSession', InNothing'
    PROVE  Turns
<1>1. /\ OpenSession /\ Fresh(r) /\ At(r.body) /\ session \in Sessions /\ session.stream \in Streams
  BY DEF DiskRevalidate, Typed, TypeOK, DaemonOK, Sessions, Fresh, SessionOf, OpenSession
<1>2. /\ OpenStream = session.stream /\ outcome[session.stream] = "none"
      /\ \A s : s \in InDoubt <=> \/ \E e \in session.committed : e.s = s
                                  \/ (worker.s = s /\ worker.at \in InHand)
  BY <1>1, Doubts DEF InSession, Open, SessionOpen, Opened
<1>3. CASE Tick(r) BY <1>1, <1>3, TickStays DEF Turns
<1>4. CASE Fails(r) BY <1>1, <1>4, FailsTurns
<1>5. CASE Completes(r) /\ worker.at = "ok" /\ session.svc = N
  <2>1. PICK g \in Streams : g = session.stream BY <1>1
  <2>2. session' = [session EXCEPT !.done = TRUE, !.committed = Retained, !.last = r.body,
                      !.checkpoint = None, !.reply = Ends("complete", r.body)] /\ undo' = None
        /\ outcome' = [outcome EXCEPT ![g] = "complete"] /\ UNCHANGED live
    BY <1>5, <2>1 DEF Completes
  <2>3. ~OpenSession' BY <1>1, <2>2 DEF Sessions, OpenSession
  <2>4. InDoubt' = {} BY <2>2, <2>3 DEF InNothing
  <2>5. Settled(g, "complete") BY <1>2, <2>1, <2>2, <2>4, SettlesOpen
  <2>6. Behind(g) /\ Held(g) /\ worker.s = session.svc
    BY <1>1, <1>5, <2>1 DEF Open, SessionOpen, Typed, Shape, WorkerBelongs
  <2>7. \A s \in Services : Whole(s, g) BY <1>5, <2>6 DEF Behind, Held
  <2>8. \A s \in Services : In(s, g)' BY <2>2, <2>4, <2>7 DEF In, Whole
  <2> QED BY <2>5, <2>8 DEF Turns
<1>6. CASE ~Tick(r) /\ ~Fails(r) /\ ~(Completes(r) /\ worker.at = "ok" /\ session.svc = N)
  <2>1. session' = [session EXCEPT !.svc = session.svc + 1, !.phase = "structure", !.chunk = 0,
                         !.committed = Retained, !.last = r.body, !.fenced = Absent,
                         !.reply = Advance(session.svc + 1, "structure", 0)]
        /\ worker' = Idle /\ UNCHANGED <<live, backups, outcome, undo>> /\ worker.at = "ok"
    BY <1>6 DEF DiskRevalidate
  <2>2. session'.stream = session.stream /\ session'.committed = Retained
    BY <1>1, <2>1 DEF Sessions
  <2>3. PICK e0 : e0 = [s |-> worker.s, created |-> worker.fenced = Absent] OBVIOUS
  <2>4. Retained = session.committed \cup {e0} /\ e0.s = worker.s BY <2>3 DEF Retained
  <2>5. OpenSession'
    <3>1. session' \in Sessions BY <1>6, <2>1, RevalidateType DEF Typed, TypeOK, DaemonOK
    <3>2. session'.done = session.done BY <1>1, <2>1 DEF Sessions
    <3> QED BY <1>1, <2>1, <3>1, <3>2, NoneAssumption DEF OpenSession
  <2>6. \A s : s \in InDoubt' <=> s \in InDoubt
    BY <1>2, <2>1, <2>2, <2>4, <2>5 DEF InSession, InHand, Locked, Idle
  <2> QED BY <1>2, <2>1, <2>2, <2>5, <2>6, SameStays DEF InSession, Turns
<1> QED BY <1>3, <1>4, <1>5, <1>6

LEMMA ReceiveTurns ==
    ASSUME Typed, Open, NEW r \in inflight, Receive(r), InUndo', InSession', InNothing'
    PROVE  Turns
<1>1. undo = None BY DEF Receive
<1>2. CASE NoSession(r) BY <1>1, <1>2, NoSessionStays DEF Turns
<1>3. CASE Replays(r) BY <1>3, FrameStays DEF Replays, Turns
<1>4. CASE OutOfOrder(r) BY <1>1, <1>4, FailsTurns DEF OutOfOrder
<1>5. CASE Structure(r) \/ Sources(r) BY <1>1, <1>5, TickStays DEF Structure, Sources, Turns
<1>6. CASE DiskFence(r)
  <2>1. Fresh(r) /\ At(r.body) /\ OpenSession /\ session \in Sessions
    BY <1>1, <1>6 DEF DiskFence, Fresh, SessionOf, OpenSession, Typed, TypeOK, DaemonOK
  <2>2. CASE Fails(r) BY <1>1, <2>1, <2>2, FailsTurns
  <2>3. CASE Tick(r) BY <1>1, <2>1, <2>3, TickStays DEF Turns
  <2>4. CASE ~Fails(r) /\ ~Tick(r)
    <3>1. session' # None BY <1>1, <1>6, <2>4, FenceType, NoneAssumption
    <3>2. /\ session'.done = session.done /\ session'.stream = session.stream
          /\ session'.committed = session.committed
          /\ UNCHANGED <<live, backups, outcome, undo, worker>>
      BY ZenonT(60), <1>6, <2>1, <2>4 DEF DiskFence, Sessions
    <3> QED BY <2>1, <3>1, <3>2, GoesOnStays DEF OpenSession, Turns
  <2> QED BY <2>2, <2>3, <2>4
<1>7. CASE DiskRevalidate(r) BY <1>1, <1>7, RevalidateTurns
<1> QED BY <1>2, <1>3, <1>4, <1>5, <1>6, <1>7 DEF Receive

(* The worker turns one service over: what it installs, its backup would undo, and what it
   puts back is what its backup was. *)
LEMMA WorkerStays ==
    ASSUME Typed, Open, WorkerStep, InSession'
    PROVE  Stays
<1>1. /\ OpenSession /\ worker.s = session.svc /\ worker.s \in Services
      /\ session.stream \in Streams /\ live \in Baselines
      /\ worker'.s = worker.s /\ worker'.fenced = worker.fenced
      /\ UNCHANGED <<outcome, session, undo>>
  BY WorkerFinds
<1>2. PICK g \in Streams : g = session.stream BY <1>1
<1>3. Opened(g) /\ Ahead(g) /\ Held(g) BY <1>1, <1>2 DEF Open, SessionOpen
<1>4. worker.at \notin InHand => Clean(worker.s, g) /\ Backup(worker.s, g) = {}
  BY <1>1, <1>3 DEF Ahead
<1>5. OpenSession' /\ OpenStream = g /\ OpenStream' = g
  BY <1>1, <1>2, Doubts DEF OpenSession, InSession
<1>6. \A s : /\ s \in InDoubt <=> \/ \E e \in session.committed : e.s = s
                                  \/ (worker.s = s /\ worker.at \in InHand)
             /\ s \in InDoubt' <=> \/ \E e \in session.committed : e.s = s
                                   \/ (worker.s = s /\ worker'.at \in InHand)
  BY <1>1, <1>5, Doubts DEF InSession
<1>7. \A e \in session.committed : e.s # worker.s
  BY <1>1 DEF OpenSession, Typed, Shape, SessionHolds, TypeOK, DaemonOK, Sessions, Entries
<1>8. ASSUME NEW at, Goes(at) PROVE worker'.at = at
  BY <1>8 DEF Goes, Typed, TypeOK, DaemonOK
<1>9. ASSUME \A t \in Services : t # worker.s => live'[t] = live[t],
             \A b : b.s # worker.s => (b \in backups <=> b \in backups'),
             \A h \in Streams : In(worker.s, h)' <=> In(worker.s, h)
      PROVE  Stays
  <2> SUFFICES ASSUME NEW s \in Services, NEW h \in Streams, s # worker.s
               PROVE  In(s, h)' <=> In(s, h)
    BY <1>1, <1>9 DEF Stays
  <2>1. s \in InDoubt' <=> s \in InDoubt BY <1>6
  <2>2. (Whole(s, h)' <=> Whole(s, h)) /\ (Found(s, h)' <=> Found(s, h))
    BY <1>5, <1>9 DEF Whole, Found
  <2> QED BY <2>1, <2>2 DEF In
<1>10. ASSUME UNCHANGED <<live, backups>>, worker.at \in InHand <=> worker'.at \in InHand
       PROVE  Stays
  BY <1>1, <1>5, <1>6, <1>10, SameStays
<1>11. ASSUME UNCHANGED backups, NEW v, live' = [live EXCEPT ![worker.s] = v],
              worker.at \in InHand, worker'.at \in InHand
       PROVE  Stays
  <2>1. \A t \in Services : t # worker.s => live'[t] = live[t] BY <1>1, <1>11 DEF Baselines
  <2>2. \A h \in Streams : In(worker.s, h)' <=> In(worker.s, h)
    BY <1>1, <1>5, <1>6, <1>11 DEF In, Found
  <2> QED BY <1>9, <1>11, <2>1, <2>2
<1>12. ASSUME worker.at \in Locked, live' = [live EXCEPT ![worker.s] = Mine.tree],
              backups' = backups \ {Mine}, Goes("failed")
       PROVE  Stays
  <2>1. Mine \in backups /\ Mine.s = worker.s /\ Mine.stream = g
    BY <1>2, <1>12, MineExists DEF Typed, Shape, WorkerHasBackup
  <2>2. PICK b \in backups : b = Mine BY <2>1
  <2>3. b.tree \in Trees /\ \A c \in backups : c.s = worker.s /\ c.stream = g => c = b
    BY <1>3, <2>1, <2>2 DEF Opened, Typed, TypeOK, DiskOK
  <2>4. worker'.at = "failed" /\ worker.at \in InHand /\ worker'.at \notin InHand
    BY <1>8, <1>12 DEF InHand, Locked
  <2>5. live'[worker.s] = b.tree /\ b.tree # Absent
    BY <1>1, <1>12, <2>2, <2>3, NoTree DEF Baselines
  <2>6. \A t \in Services : t # worker.s => live'[t] = live[t] BY <1>1, <1>12 DEF Baselines
  <2>7. \A c : c.s # worker.s => (c \in backups <=> c \in backups') BY <1>12, <2>1
  <2>8. ASSUME NEW h \in Streams PROVE In(worker.s, h)' <=> In(worker.s, h)
    <3>1. In(worker.s, h)' <=> b.tree.gen = h BY <1>1, <1>6, <1>7, <2>4, <2>5 DEF In, Whole
    <3>2. In(worker.s, h) <=> b.tree.gen = h
      BY <1>5, <1>6, <2>1, <2>2, <2>3, <2>4 DEF In, Found
    <3> QED BY <3>1, <3>2
  <2> QED BY <1>9, <2>6, <2>7, <2>8
<1>13. CASE (Stage \/ LastLook \/ MoveAway \/ InstallNew) /\ UNCHANGED <<live, backups>>
            /\ worker'.at \notin InHand
  <2>1. worker.at \notin InHand
    BY <1>13 DEF Stage, LastLook, MoveAway, InstallNew, InHand, Locked
  <2> QED BY <1>10, <1>13, <2>1
<1>14. CASE MoveAway /\ worker'.at \in InHand
  <2>1. /\ worker.at = "ready" /\ live[worker.s] # Absent
        /\ backups' = backups \cup {[s |-> worker.s, stream |-> g, tree |-> live[worker.s],
                                     mark |-> "open"]}
        /\ live' = [live EXCEPT ![worker.s] = Absent]
    BY <1>2, <1>8, <1>14 DEF MoveAway, InHand, Locked
  <2>2. PICK b : b = [s |-> worker.s, stream |-> g, tree |-> live[worker.s], mark |-> "open"]
    OBVIOUS
  <2>3. b.s = worker.s /\ b.stream = g /\ b.tree = live[worker.s] /\ backups' = backups \cup {b}
    BY <2>1, <2>2
  <2>4. Backup(worker.s, g) = {} /\ worker.at \notin InHand BY <1>4, <2>1 DEF InHand, Locked
  <2>5. \A t \in Services : t # worker.s => live'[t] = live[t] BY <1>1, <2>1 DEF Baselines
  <2>6. \A c : c.s # worker.s => (c \in backups <=> c \in backups') BY <2>3
  <2>7. ASSUME NEW h \in Streams PROVE In(worker.s, h)' <=> In(worker.s, h)
    <3>1. In(worker.s, h) <=> live[worker.s].gen = h BY <1>6, <1>7, <2>1, <2>4 DEF In, Whole
    <3>2. In(worker.s, h)' <=> live[worker.s].gen = h
      BY <1>1, <1>5, <1>6, <1>14, <2>3, <2>4 DEF In, Found, Backup
    <3> QED BY <3>1, <3>2
  <2> QED BY <1>9, <2>5, <2>6, <2>7
<1>15. CASE InstallNew /\ worker'.at \in InHand
  <2>1. /\ worker.at = "ready" /\ live[worker.s] = Absent /\ UNCHANGED backups
        /\ live' = [live EXCEPT ![worker.s] = Tree(g)]
    BY <1>2, <1>8, <1>15 DEF InstallNew, InHand, Locked
  <2>2. Backup(worker.s, g) = {} /\ worker.at \notin InHand BY <1>4, <2>1 DEF InHand, Locked
  <2>3. \A t \in Services : t # worker.s => live'[t] = live[t] BY <1>1, <2>1 DEF Baselines
  <2>4. ASSUME NEW h \in Streams PROVE In(worker.s, h)' <=> In(worker.s, h)
    <3>1. ~In(worker.s, h) BY <1>6, <1>7, <2>1, <2>2 DEF In, Whole
    <3>2. ~In(worker.s, h)' BY <1>1, <1>5, <1>6, <1>15, <2>1, <2>2 DEF In, Found, Backup
    <3> QED BY <3>1, <3>2
  <2> QED BY <1>9, <2>1, <2>3, <2>4
<1>16. CASE VerifyMoved \/ Commit \/ RestoreCheck
  <2>1. worker.at \in InHand /\ worker'.at \in InHand /\ UNCHANGED <<live, backups>>
    BY <1>8, <1>16 DEF VerifyMoved, Commit, RestoreCheck, InHand, Locked
  <2> QED BY <1>10, <2>1
<1>17. CASE (Install \/ RestoreBefore) /\ UNCHANGED <<live, backups>> /\ worker'.at \in InHand
  <2>1. worker.at \in InHand BY <1>17 DEF Install, RestoreBefore, Locked, InHand
  <2> QED BY <1>10, <1>17, <2>1
<1>18. CASE Install /\ ~UNCHANGED live
  <2>1. /\ worker.at = "verified" /\ worker'.at = "installed" /\ UNCHANGED backups
        /\ live' = [live EXCEPT ![worker.s] = Tree(g)]
    BY <1>2, <1>8, <1>18 DEF Install
  <2> QED BY <1>11, <2>1 DEF InHand, Locked
<1>19. CASE RestoreAside
  <2>1. /\ worker.at = "aside" /\ worker'.at = "back" /\ UNCHANGED backups
        /\ live' = [live EXCEPT ![worker.s] = Absent]
    BY <1>8, <1>19 DEF RestoreAside
  <2> QED BY <1>11, <2>1 DEF InHand, Locked
<1>20. CASE (RestoreBefore \/ RestoreBack) /\ Goes("failed")
  <2>1. worker'.at = "failed" BY <1>8, <1>20
  <2>2. /\ live' = [live EXCEPT ![worker.s] = Mine.tree] /\ backups' = backups \ {Mine}
        /\ worker.at \in Locked
    BY <1>8, <1>20, <2>1 DEF RestoreBefore, RestoreBack, Locked
  <2> QED BY <1>12, <1>20, <2>2
<1>21. CASE RestoreBack /\ Goes("partial")
  <2>1. worker'.at = "partial" /\ worker.at \in Locked /\ UNCHANGED backups
    BY <1>8, <1>21 DEF RestoreBack, Locked
  <2>2. live' = live \/ live' = [live EXCEPT ![worker.s] = Tree(g)]
    <3>1. CASE live' = [live EXCEPT ![worker.s] = IF live[worker.s] = Absent THEN Tree(session.stream)
                                                  ELSE live[worker.s]]
      BY <1>1, <1>2, <3>1 DEF Baselines
    <3> QED BY <1>8, <1>21, <2>1, <3>1 DEF RestoreBack
  <2> QED BY <1>10, <1>11, <2>1, <2>2 DEF InHand
<1>22. \/ Stage \/ LastLook \/ MoveAway \/ InstallNew \/ VerifyMoved \/ Install \/ Commit
       \/ RestoreBefore \/ RestoreCheck \/ RestoreAside \/ RestoreBack
  BY DEF WorkerStep
<1>23. CASE Stage \/ LastLook \/ MoveAway \/ InstallNew
  <2>1. worker'.at \notin InHand => UNCHANGED <<live, backups>>
    BY <1>8, <1>23 DEF Stage, LastLook, MoveAway, InstallNew, InHand, Locked
  <2>2. Stage \/ LastLook => worker'.at \notin InHand
    BY <1>8 DEF Stage, LastLook, InHand, Locked
  <2> QED BY <1>13, <1>14, <1>15, <1>23, <2>1, <2>2
<1>24. CASE Install \/ RestoreBefore
  <2>1. (Goes("failed") /\ RestoreBefore) \/ (UNCHANGED <<live, backups>> /\ worker'.at \in InHand)
        \/ (Install /\ ~UNCHANGED live)
    BY <1>8, <1>24 DEF Install, RestoreBefore, InHand, Locked
  <2> QED BY <1>17, <1>18, <1>20, <1>24, <2>1
<1> QED BY <1>16, <1>19, <1>20, <1>21, <1>22, <1>23, <1>24 DEF RestoreBack

(* A rollback turns one service over, the same way. *)
LEMMA UndoStays ==
    ASSUME Typed, Open, UndoStep, InUndo'
    PROVE  Stays
<1>1. PICK e \in undo.todo :
         /\ undo # None /\ undo \in Undos /\ undo.stream \in Streams
         /\ e \in Entries /\ e.s \in Services /\ live \in Baselines
         /\ UNCHANGED <<outcome, session, worker>> /\ worker.at = "idle"
         /\ \/ /\ UNCHANGED <<live, backups>>
               /\ \/ undo' = [undo EXCEPT !.at = "aside"]
                  \/ Refused(e)
                  \/ Undone(e) /\ live[e.s] = Absent /\ e.created
            \/ /\ UNCHANGED backups
               /\ live' = [live EXCEPT ![e.s] = Absent]
               /\ \/ undo' = [undo EXCEPT !.at = "back"]
                  \/ Undone(e) /\ e.created
            \/ /\ live' = [live EXCEPT ![e.s] = Ours(e).tree]
               /\ backups' = backups \ {Ours(e)}
               /\ live[e.s] = Absent /\ ~e.created /\ Undone(e)
               /\ Ours(e) \in backups /\ Ours(e).s = e.s /\ Ours(e).stream = undo.stream
            \/ /\ UNCHANGED backups
               /\ live' = [live EXCEPT ![e.s] = Tree(undo.stream)]
               /\ Refused(e)
  BY UndoFinds
<1>2. PICK g \in Streams : g = undo.stream BY <1>1
<1>3. /\ Opened(g) /\ New(undo.todo, g) /\ Apart /\ Taken(e.s) /\ undo' # None
      /\ \A f \in undo.todo : f.s = e.s => f = e
  BY <1>1, <1>2, UndoType, NoneAssumption DEF Open, UndoOpen, Taken, Typed, Shape,
     UndoHolds, Receipts
<1>4. OpenStream = g /\ \A s : s \in InDoubt <=> Taken(s) BY <1>1, <1>2, Doubts DEF InUndo
<1>5. undo'.stream = undo.stream => OpenStream' = g /\ \A s : s \in InDoubt' <=> Taken(s)'
  BY <1>2, <1>3 DEF InUndo
<1>6. ASSUME NEW at, undo' = [undo EXCEPT !.at = at]
      PROVE  undo'.stream = undo.stream /\ \A s : Taken(s)' <=> Taken(s)
  <2>1. /\ undo'.stream = undo.stream /\ undo'.partial = undo.partial
        /\ undo'.todo = undo.todo /\ undo'.kept = undo.kept
    BY <1>1, <1>6 DEF Undos
  <2> QED BY <2>1 DEF Taken
<1>7. ASSUME Refused(e) PROVE undo'.stream = undo.stream /\ \A s : Taken(s)' <=> Taken(s)
  <2>1. /\ undo'.stream = undo.stream /\ undo'.partial = undo.partial
        /\ undo'.todo = undo.todo \ {e} /\ undo'.kept = undo.kept \cup {e}
    BY <1>1, <1>7 DEF Refused, Undos
  <2> QED BY <2>1 DEF Taken
<1>8. ASSUME Undone(e)
      PROVE  /\ undo'.stream = undo.stream /\ ~Taken(e.s)'
             /\ \A s : s # e.s => (Taken(s)' <=> Taken(s))
  <2>1. /\ undo'.stream = undo.stream /\ undo'.partial = undo.partial
        /\ undo'.todo = undo.todo \ {e} /\ undo'.kept = undo.kept
    BY <1>1, <1>8 DEF Undone, Undos
  <2> QED BY <1>3, <2>1 DEF Taken, Apart
<1>9. ASSUME NEW v, live' = [live EXCEPT ![e.s] = v], undo'.stream = undo.stream,
             \A s : Taken(s)' <=> Taken(s), UNCHANGED backups
      PROVE  Stays
  <2> SUFFICES ASSUME NEW s \in Services, NEW h \in Streams PROVE In(s, h)' <=> In(s, h)
    BY <1>1 DEF Stays
  <2>1. s \in InDoubt' <=> s \in InDoubt BY <1>4, <1>5, <1>9
  <2>2. Found(s, h)' <=> Found(s, h) BY <1>4, <1>5, <1>9 DEF Found
  <2>3. s \notin InDoubt => live'[s] = live[s] BY <1>1, <1>3, <1>4, <1>9 DEF Baselines
  <2> QED BY <2>1, <2>2, <2>3 DEF In, Whole
<1>10. ASSUME NEW v, live' = [live EXCEPT ![e.s] = v], Undone(e),
              \A b : b.s # e.s => (b \in backups <=> b \in backups'),
              \A h \in Streams : Found(e.s, h) <=> v # Absent /\ v.gen = h
       PROVE  Stays
  <2> SUFFICES ASSUME NEW s \in Services, NEW h \in Streams PROVE In(s, h)' <=> In(s, h)
    BY <1>1 DEF Stays
  <2>1. OpenStream' = g /\ \A t : t \in InDoubt' <=> Taken(t)' BY <1>5, <1>8, <1>10
  <2>2. CASE s = e.s
    <3>1. s \notin InDoubt' /\ s \in InDoubt /\ live'[s] = v
      BY <1>1, <1>3, <1>4, <1>8, <1>10, <2>1, <2>2 DEF Baselines
    <3> QED BY <1>10, <2>2, <3>1 DEF In, Whole
  <2>3. CASE s # e.s
    <3>1. (s \in InDoubt' <=> s \in InDoubt) /\ live'[s] = live[s]
      BY <1>1, <1>4, <1>8, <1>10, <2>1, <2>3 DEF Baselines
    <3>2. Found(s, h)' <=> Found(s, h) BY <1>4, <1>10, <2>1, <2>3 DEF Found
    <3> QED BY <3>1, <3>2 DEF In, Whole
  <2> QED BY <2>2, <2>3
<1>11. ASSUME e.created, NEW h \in Streams PROVE ~Found(e.s, h)
  BY <1>3, <1>4, <1>11 DEF New, Found, Backup
<1>12. live = [live EXCEPT ![e.s] = live[e.s]] BY <1>1 DEF Baselines
<1>13. CASE UNCHANGED <<live, backups>> /\ (undo' = [undo EXCEPT !.at = "aside"] \/ Refused(e))
  BY <1>6, <1>7, <1>9, <1>12, <1>13
<1>14. CASE /\ UNCHANGED backups /\ live' = [live EXCEPT ![e.s] = Absent]
            /\ Undone(e) /\ e.created
  BY <1>10, <1>11, <1>14
<1>15. CASE UNCHANGED <<live, backups>> /\ Undone(e) /\ live[e.s] = Absent /\ e.created
  <2>1. live' = [live EXCEPT ![e.s] = Absent] BY <1>12, <1>15
  <2> QED BY <1>14, <1>15, <2>1
<1>16. CASE /\ UNCHANGED backups /\ live' = [live EXCEPT ![e.s] = Absent]
            /\ undo' = [undo EXCEPT !.at = "back"]
  BY <1>6, <1>9, <1>16
<1>17. CASE /\ live' = [live EXCEPT ![e.s] = Ours(e).tree] /\ backups' = backups \ {Ours(e)}
            /\ Undone(e) /\ Ours(e) \in backups /\ Ours(e).s = e.s /\ Ours(e).stream = undo.stream
  <2>1. PICK b \in backups : b = Ours(e) /\ b.s = e.s /\ b.stream = g BY <1>2, <1>17
  <2>2. b.tree # Absent /\ \A c \in backups : c.s = e.s /\ c.stream = g => c = b
    BY <1>3, <2>1, NoTree DEF Opened, Typed, TypeOK, DiskOK
  <2>3. live' = [live EXCEPT ![e.s] = b.tree] /\ \A c : c.s # e.s => (c \in backups <=> c \in backups')
    BY <1>17, <2>1
  <2>4. \A h \in Streams : Found(e.s, h) <=> b.tree # Absent /\ b.tree.gen = h
    BY <1>4, <2>1, <2>2 DEF Found
  <2> QED BY <1>10, <1>17, <2>3, <2>4
<1>18. CASE UNCHANGED backups /\ live' = [live EXCEPT ![e.s] = Tree(undo.stream)] /\ Refused(e)
  BY <1>7, <1>9, <1>18
<1> QED BY <1>1, <1>13, <1>14, <1>15, <1>16, <1>17, <1>18

LEMMA UndoEndsTurns ==
    ASSUME Typed, Open, UndoEnds, InSession', InNothing'
    PROVE  Turns
<1>1. undo' = None /\ UNCHANGED <<live, backups, worker>> /\ undo # None /\ undo.todo = {}
  BY DEF UndoEnds
<1>2. undo \in Undos /\ worker.at = "idle" /\ "idle" \notin InHand
  BY <1>1 DEF Typed, TypeOK, DaemonOK, Shape, WorkerBelongs, InHand, Locked
<1>3. PICK g \in Streams : g = undo.stream BY <1>2 DEF Undos
<1>4. /\ OpenStream = g /\ outcome[g] = "none" /\ Remains(g)
      /\ \A s : s \in InDoubt <=> Taken(s)
  BY <1>1, <1>3, Doubts DEF InUndo, Open, UndoOpen, Opened
<1>5. ~Broken => InDoubt = {} BY <1>1, <1>4 DEF Broken, Taken
<1>6. ASSUME InDoubt' = {}, NEW how, outcome' = [outcome EXCEPT ![g] = how] PROVE Settled(g, how)
  BY <1>1, <1>4, <1>6, SettlesOpen
<1>7. CASE undo.req = None
  <2>1. UNCHANGED session /\ outcome' = [outcome EXCEPT ![g] = IF Broken THEN "partial" ELSE outcome[g]]
    BY <1>3, <1>7 DEF UndoEnds
  <2>2. InDoubt' = {}
    <3>1. CASE OpenSession'
      <4>1. session.committed = {}
        BY <1>1, <1>7, <2>1, <3>1 DEF OpenSession, Typed, Shape, UndoHolds
      <4> QED BY <1>1, <1>2, <2>1, <3>1, <4>1 DEF InSession
    <3>2. CASE ~OpenSession' BY <1>1, <3>2 DEF InNothing
    <3> QED BY <3>1, <3>2
  <2>3. CASE Broken BY <1>6, <2>1, <2>2, <2>3 DEF Turns
  <2>4. CASE ~Broken
    <3>1. UNCHANGED outcome BY <2>1, <2>4 DEF Typed, TypeOK, CountsOK
    <3> QED BY <1>1, <1>5, <2>2, <2>4, <3>1, SameStays DEF Turns
  <2> QED BY <2>3, <2>4
<1>8. CASE undo.req # None
  <2>1. outcome' = [outcome EXCEPT ![g] = Unwound] BY <1>3, <1>8 DEF UndoEnds
  <2>2. session \in Sessions BY <1>1, <1>8 DEF Typed, TypeOK, DaemonOK, Shape, UndoHolds
  <2>3. session'.done
    <3>1. PICK b, a : session' = [session EXCEPT !.done = TRUE, !.committed = undo.kept,
                                    !.checkpoint = None, !.last = b, !.reply = a]
      BY <1>8 DEF UndoEnds
    <3> QED BY <2>2, <3>1 DEF Sessions
  <2>4. InDoubt' = {} BY <1>1, <2>3 DEF InNothing, OpenSession
  <2>5. Settled(g, Unwound) BY <1>6, <2>1, <2>4
  <2>6. CASE Broken BY <2>5, <2>6 DEF Unwound, Turns
  <2>7. CASE ~Broken
    <3>1. \A s \in Services : Clean(s, g) BY <1>4, <1>5, <2>7 DEF Remains
    <3>2. \A s \in Services : ~In(s, g)' BY <1>1, <2>4, <3>1 DEF In, Whole, Clean
    <3> QED BY <2>5, <2>7, <3>2 DEF Unwound, Turns
  <2> QED BY <2>6, <2>7
<1> QED BY <1>7, <1>8

LEMMA CrashTurns ==
    ASSUME Typed, Open, Crash, InNothing'
    PROVE  Turns
<1>1. InDoubt' = {} /\ UNCHANGED <<live, backups>> BY DEF Crash, InNothing, OpenSession
<1>2. CASE InDoubt = {} BY <1>1, <1>2, SameStays DEF Crash, Turns
<1>3. CASE InDoubt # {}
  <2>1. PICK h \in Streams : h = OpenStream /\ outcome[h] = "none" BY <1>3, DoubtHolds
  <2>2. outcome' = [outcome EXCEPT ![h] = "crashed"] BY <1>3, <2>1 DEF Crash
  <2> QED BY <1>1, <2>1, <2>2, SettlesOpen DEF Turns
<1> QED BY <1>2, <1>3

LEMMA TurnsStep ==
    ASSUME Typed, Open, [Next]_vars, InUndo', InSession', InNothing'
    PROVE  Turns
<1>1. ASSUME NEW s \in Services, UserEdits(s) \/ UserCreates(s) \/ WatchRecords(s) PROVE Stays
  BY <1>1, UserTurns, FrameStays DEF WatchRecords
<1>2. CASE PluginStarts \/ PluginAnswered \/ PluginTimesOut \/ PluginAborts
           \/ FenceCaptures \/ UNCHANGED vars \/ \E r \in inflight : Lose(r)
  BY <1>2, FrameStays DEF PluginStarts, PluginAnswered, PluginTimesOut, PluginAborts,
     FenceCaptures, Lose, vars, Turns
<1>3. CASE Expire BY <1>3, DropsStays DEF Expire, Turns
<1> QED BY <1>1, <1>2, <1>3, ReceiveTurns, WorkerStays, UndoStays, UndoEndsTurns, CrashTurns
   DEF Next, Turns

-------------------------------------------------------------------------------
(* The abstract steps. *)

LEMMA PublishedIs ==
    /\ Published = [g \in Streams |-> {s \in Services : InStream(s, g)}]
    /\ Published' = [g \in Streams |-> {s \in Services : InStream(s, g)'}]
BY DEF Published, InStream

LEMMA GenerationStep ==
    ASSUME Reads, Reads', Turns, outcome = [g \in Streams |-> outcome[g]]
    PROVE  [Abstract!Next]_<<outcome, Published>>
<1>1. /\ \A g \in Streams : Published[g] = {s \in Services : In(s, g)}
      /\ \A g \in Streams : Published'[g] = {s \in Services : In(s, g)'}
      /\ Published' \in [Streams -> SUBSET Services]
  BY PublishedIs DEF Reads
<1>2. CASE Stays
  <2>1. Published' = Published BY <1>1, <1>2, PublishedIs DEF Stays, Reads
  <2> QED BY <1>2, <2>1 DEF Stays
<1>3. ASSUME NEW h \in Streams, NEW how, Settled(h, how) PROVE Abstract!Settle({h}, how)
  <2>1. outcome' = [g \in Streams |-> IF g \in {h} THEN how ELSE outcome[g]]
    BY <1>3 DEF Settled
  <2>2. \A g \in Streams \ {h} : Published'[g] \subseteq Published[g]
    BY <1>1, <1>3 DEF Settled
  <2> QED BY <1>1, <1>3, <2>1, <2>2 DEF Settled, Abstract!Settle
<1>4. ASSUME NEW h \in Streams, Settled(h, "complete"), \A s \in Services : In(s, h)'
      PROVE  Abstract!Next
  BY <1>1, <1>3, <1>4 DEF Abstract!Next, Abstract!Publish
<1>5. ASSUME NEW h \in Streams, Settled(h, "failed"), \A s \in Services : ~In(s, h)'
      PROVE  Abstract!Next
  BY <1>1, <1>3, <1>5 DEF Abstract!Next, Abstract!Discard
<1>6. ASSUME NEW h \in Streams, Settled(h, "partial") PROVE Abstract!Next
  BY <1>3, <1>6 DEF Abstract!Next, Abstract!Break
<1>7. ASSUME NEW h \in Streams, Settled(h, "crashed") PROVE Abstract!Next
  BY <1>3, <1>7 DEF Abstract!Next, Abstract!Crash
<1> QED BY <1>2, <1>4, <1>5, <1>6, <1>7 DEF Turns

LEMMA InitGeneration == Init => Abstract!Init
<1> SUFFICES ASSUME Init PROVE Abstract!Init OBVIOUS
<1>1. InDoubt = {} BY InitType, InitShape, Doubts DEF Typed, InNothing, Init, OpenSession
<1>2. \A s \in Services, g \in Streams : ~InStream(s, g)
  BY <1>1 DEF InStream, Base, Init, Tree
<1> QED BY <1>2, PublishedIs DEF Init, Abstract!Init

(* A streamed push (streamed_push, commit_streamed_service and rollback_stream_generation)
   implements Generation, whatever the user, the faults, the network and a restart do to it,
   as long as no stream is opened again. *)
THEOREM GenerationsAreWhole == Spec /\ [][Opens]_vars => GenerationSpec
<1>1. Init => Open BY InitOpen
<1>2. Typed /\ Open /\ [Next]_vars /\ [Opens]_vars => Open'
  <2>1. UNCHANGED vars => Opens BY DEF vars, Opens, SessionOf
  <2> QED BY <2>1, OpenStep
<1>3. Typed /\ Open /\ Typed' /\ Open' /\ [Next]_vars => [Abstract!Next]_<<outcome, Published>>
  <2> SUFFICES ASSUME Typed, Open, Typed', Open', [Next]_vars
               PROVE  [Abstract!Next]_<<outcome, Published>>
    OBVIOUS
  <2>1. Reads /\ Reads' BY InIs, InIsNext DEF Reads
  <2>2. Turns BY DoubtsNext, TurnsStep
  <2>3. outcome = [g \in Streams |-> outcome[g]] BY DEF Typed, TypeOK, CountsOK
  <2> QED BY <2>1, <2>2, <2>3, GenerationStep
<1>4. Init => Abstract!Init BY InitGeneration
<1>5. Spec => []Typed BY TypesHold, PTL DEF Typed
<1> QED BY <1>1, <1>2, <1>3, <1>4, <1>5, PTL DEF Spec, GenerationSpec, Abstract!Spec

(* The conflict engine records a generation as agreed only when it is whole
   (commit_stream_baselines), and a rollback puts back only what was agreed before it
   (restore_checkpoint). *)
THEOREM BaselinesArePublished == Spec /\ [][Opens]_vars => []BaselineIsPublished
<1>1. Init => Open /\ Agrees /\ Authored BY InitOpen, InitAgrees
<1>2. Typed /\ Open /\ Agrees /\ Authored /\ [Next]_vars /\ [Opens]_vars
        => (Open /\ Agrees /\ Authored)'
  <2>1. UNCHANGED vars => Opens BY DEF vars, Opens, SessionOf
  <2> QED BY <2>1, OpenStep, AgreesStep, AuthoredStep
<1>3. Spec => []Typed BY TypesHold, PTL DEF Typed
<1>4. Agrees => BaselineIsPublished BY DEF Agrees, Agreed, BaselineIsPublished
<1> QED BY <1>1, <1>2, <1>3, <1>4, PTL DEF Spec

-------------------------------------------------------------------------------
(* A strict stream is opened once. *)

(* Nothing has been of this stream yet. *)
Unborn(g) ==
    /\ Untouched(g) /\ ~SessionOf(g)
    /\ undo # None => undo.stream # g

(* As long as its grant is there, it has not been opened. *)
Once == \A g \in Strict :
    g > started \/ (g = started /\ grant # None) => Unborn(g)

(* Other streams leave nothing of it. *)
LEMMA UnbornFrame ==
    ASSUME NEW g \in Streams, Unborn(g), ~SessionOf(g)',
           \A t \in Services : live'[t] = live[t] \/ Clean(t, g)',
           \A b \in backups' : \/ \E c \in backups : b.stream = c.stream /\ b.tree = c.tree
                               \/ b.stream # g /\ b.tree.gen # g,
           outcome'[g] = outcome[g], undo' # None => undo'.stream # g
    PROVE  Unborn(g)'
BY DEF Unborn, Untouched, Clean

(* Finalizing a generation writes no tree. *)
LEMMA FinalizedTrees ==
    ASSUME DiskOK, NEW g \in Streams, NEW p \in SUBSET Services, NEW k \in SUBSET Services
    PROVE  \A b \in Finalized(g, p, k) :
               \E c \in backups : b.stream = c.stream /\ b.tree = c.tree
<1> SUFFICES ASSUME NEW b \in Finalized(g, p, k)
             PROVE  \E c \in backups : b.stream = c.stream /\ b.tree = c.tree
  OBVIOUS
<1>1. PICK c \in backups : b.s = c.s /\ b.stream = c.stream /\ b.tree = c.tree
  BY FinalizedType
<1> QED BY <1>1

LEMMA UnbornStays ==
    ASSUME Typed, NEW g \in Streams, Unborn(g), [Next]_vars, ~SessionOf(g)'
    PROVE  Unborn(g)'
<1>1. /\ outcome \in [Streams -> {"none", "complete", "failed", "partial", "crashed"}]
      /\ live \in Baselines /\ DiskOK
  BY DEF Typed, TypeOK, CountsOK, DiskOK
<1>2. /\ session # None => session \in Sessions /\ session.stream # g
      /\ undo # None => undo \in Undos /\ undo.stream # g
  BY DEF Typed, TypeOK, DaemonOK, Unborn, SessionOf
<1>3. ASSUME UNCHANGED <<live, backups, outcome>>, undo' # None => undo'.stream # g
      PROVE  Unborn(g)'
  BY <1>3, UnbornFrame
<1>4. ASSUME session # None, Drops PROVE undo' # None => undo'.stream # g
  BY <1>2, <1>4 DEF Drops
<1>5. ASSUME NEW s \in Services, UserEdits(s) \/ UserCreates(s) PROVE Unborn(g)'
  <2>1. \A t \in Services :
           \/ live'[t] = live[t]
           \/ live[t] # Absent /\ live'[t] # Absent /\ live'[t].gen = live[t].gen
           \/ live[t] = Absent /\ live'[t] # Absent /\ live'[t].gen = 0
    BY <1>5, UserGens
  <2>2. UNCHANGED <<backups, outcome, undo>> BY <1>5 DEF UserEdits, UserCreates
  <2>3. \A t \in Services : live'[t] = live[t] \/ Clean(t, g)'
    BY <2>1 DEF Unborn, Untouched, Clean
  <2> QED BY <1>2, <2>2, <2>3, UnbornFrame
<1>6. ASSUME NEW r \in inflight, Fresh(r), Fails(r), undo = None PROVE Unborn(g)'
  <2>1. session # None BY <1>6 DEF Fresh, SessionOf
  <2>2. UNCHANGED <<live, backups>> /\ outcome'[g] = outcome[g]
    BY <1>1, <1>2, <1>6, <2>1 DEF Fails
  <2>3. undo' # None => undo'.stream # g BY <1>2, <1>6, <2>1 DEF Fails
  <2> QED BY <2>2, <2>3, UnbornFrame
<1>7. ASSUME NEW r \in inflight, Fresh(r), Completes(r) PROVE Unborn(g)'
  <2>1. session # None /\ session.stream \in Streams
    BY <1>2, <1>7 DEF Fresh, SessionOf, Sessions
  <2>2. PICK p, k \in SUBSET Services : backups' = Finalized(session.stream, p, k)
    BY <1>7 DEF Completes
  <2>3. UNCHANGED <<live, undo>> /\ outcome' = [outcome EXCEPT ![session.stream] = "complete"]
    BY <1>7 DEF Completes
  <2>4. \A b \in backups' : \E c \in backups : b.stream = c.stream /\ b.tree = c.tree
    <3>1. PICK h \in Streams : h = session.stream BY <2>1
    <3> QED BY <1>1, <2>2, <3>1, FinalizedTrees
  <2>5. outcome'[g] = outcome[g] BY <1>1, <1>2, <2>1, <2>3
  <2> QED BY <1>2, <2>3, <2>4, <2>5, UnbornFrame
<1>8. ASSUME NEW r \in inflight, Receive(r) PROVE Unborn(g)'
  <2>1. undo = None BY <1>8 DEF Receive
  <2>2. CASE NoSession(r)
    <3>1. UNCHANGED <<live, backups, outcome>> /\ (UNCHANGED undo \/ (session # None /\ Drops))
      BY <2>2 DEF NoSession
    <3> QED BY <1>3, <1>4, <2>1, <3>1
  <2>3. CASE Replays(r) BY <1>3, <2>1, <2>3 DEF Replays
  <2>4. CASE OutOfOrder(r) BY <1>6, <2>1, <2>4 DEF OutOfOrder
  <2>5. CASE Structure(r) \/ Sources(r) BY <1>3, <2>1, <2>5 DEF Structure, Sources
  <2>6. CASE DiskFence(r) \/ DiskRevalidate(r)
    <3>1. Fresh(r) BY <2>6 DEF DiskFence, DiskRevalidate
    <3>2. CASE Fails(r) \/ Completes(r) BY <1>6, <1>7, <2>1, <3>1, <3>2
    <3>3. CASE ~(Fails(r) \/ Completes(r))
      BY <1>3, <2>1, <2>6, <3>3 DEF DiskFence, DiskRevalidate, Tick
    <3> QED BY <3>2, <3>3
  <2> QED BY <1>8, <2>2, <2>3, <2>4, <2>5, <2>6 DEF Receive
<1>9. ASSUME WorkerStep PROVE Unborn(g)'
  <2>1. /\ OpenSession /\ worker.s \in Services /\ session.stream \in Streams
        /\ UNCHANGED <<outcome, undo>>
    BY <1>9, WorkerFinds
  <2>2. session.stream # g /\ undo = None BY <1>2, <2>1 DEF OpenSession
  <2>3. PICK h \in Streams : h = session.stream BY <2>1
  <2>4. Tree(h).gen = h BY DEF Tree
  <2>5. ASSUME NEW v, live' = [live EXCEPT ![worker.s] = v], v = Absent \/ v.gen # g,
               backups' \subseteq backups
        PROVE  Unborn(g)'
    <3>1. \A t \in Services : live'[t] = live[t] \/ Clean(t, g)'
      BY <1>1, <2>1, <2>5 DEF Clean, Baselines
    <3> QED BY <2>1, <2>2, <2>5, <3>1, UnbornFrame
  <2>6. CASE UNCHANGED <<live, backups>> BY <1>3, <2>1, <2>2, <2>6
  <2>7. CASE MoveAway /\ ~UNCHANGED <<live, backups>>
    <3>1. /\ backups' = backups \cup {[s |-> worker.s, stream |-> h, tree |-> live[worker.s],
                                       mark |-> "open"]}
          /\ live' = [live EXCEPT ![worker.s] = Absent] /\ live[worker.s] # Absent
      BY <2>3, <2>7 DEF MoveAway
    <3>2. PICK b : b = [s |-> worker.s, stream |-> h, tree |-> live[worker.s], mark |-> "open"]
      OBVIOUS
    <3>3. b.stream # g /\ b.tree.gen # g
      BY <2>1, <2>2, <2>3, <3>1, <3>2 DEF Unborn, Untouched, Clean
    <3>4. \A t \in Services : live'[t] = live[t] \/ Clean(t, g)'
      BY <1>1, <2>1, <3>1 DEF Clean, Baselines
    <3> QED BY <2>1, <2>2, <3>1, <3>2, <3>3, <3>4, UnbornFrame
  <2>8. CASE \/ live' = [live EXCEPT ![worker.s] = Tree(h)] /\ UNCHANGED backups
             \/ live' = [live EXCEPT ![worker.s] = Absent] /\ UNCHANGED backups
    BY <2>2, <2>3, <2>4, <2>5, <2>8
  <2>9. CASE /\ live' = [live EXCEPT ![worker.s] = Mine.tree] /\ backups' = backups \ {Mine}
             /\ worker.at \in Locked
    <3>1. PICK b \in backups : b = Mine
      BY <2>9, MineExists DEF Typed, Shape, WorkerHasBackup
    <3>2. b.tree.gen # g BY DEF Unborn, Untouched
    <3> QED BY <2>5, <2>9, <3>1, <3>2
  <2>10. CASE RestoreBack /\ live' = [live EXCEPT ![worker.s] = IF live[worker.s] = Absent
                                        THEN Tree(session.stream) ELSE live[worker.s]]
              /\ UNCHANGED backups
    <3>1. live' = live \/ live' = [live EXCEPT ![worker.s] = Tree(h)]
      BY <1>1, <2>1, <2>3, <2>10 DEF Baselines
    <3> QED BY <2>6, <2>8, <2>10, <3>1
  <2>11. CASE Stage \/ LastLook \/ InstallNew \/ VerifyMoved \/ Install \/ Commit \/ RestoreCheck
              \/ RestoreAside
    BY <2>3, <2>6, <2>8, <2>11 DEF Stage, LastLook, InstallNew, VerifyMoved, Install,
       Commit, RestoreCheck, RestoreAside
  <2>12. CASE RestoreBefore \/ RestoreBack
    BY <2>6, <2>9, <2>10, <2>12 DEF RestoreBefore, RestoreBack, Locked
  <2> QED BY <1>9, <2>6, <2>7, <2>11, <2>12 DEF WorkerStep
<1>10. ASSUME UndoStep PROVE Unborn(g)'
  <2>1. PICK e \in undo.todo :
           /\ undo # None /\ undo \in Undos /\ undo.stream \in Streams
           /\ e \in Entries /\ e.s \in Services /\ live \in Baselines
           /\ UNCHANGED <<outcome, session, worker>> /\ worker.at = "idle"
           /\ \/ /\ UNCHANGED <<live, backups>>
                 /\ \/ undo' = [undo EXCEPT !.at = "aside"]
                    \/ Refused(e)
                    \/ Undone(e) /\ live[e.s] = Absent /\ e.created
              \/ /\ UNCHANGED backups
                 /\ live' = [live EXCEPT ![e.s] = Absent]
                 /\ \/ undo' = [undo EXCEPT !.at = "back"]
                    \/ Undone(e) /\ e.created
              \/ /\ live' = [live EXCEPT ![e.s] = Ours(e).tree]
                 /\ backups' = backups \ {Ours(e)}
                 /\ live[e.s] = Absent /\ ~e.created /\ Undone(e)
                 /\ Ours(e) \in backups /\ Ours(e).s = e.s /\ Ours(e).stream = undo.stream
              \/ /\ UNCHANGED backups
                 /\ live' = [live EXCEPT ![e.s] = Tree(undo.stream)]
                 /\ Refused(e)
    BY <1>10, UndoFinds
  <2>2. undo'.stream # g BY <1>2, <2>1 DEF Undone, Refused, Undos
  <2>3. ASSUME NEW v, live' = [live EXCEPT ![e.s] = v], v = Absent \/ v.gen # g,
               backups' \subseteq backups
        PROVE  Unborn(g)'
    <3>1. \A t \in Services : live'[t] = live[t] \/ Clean(t, g)'
      BY <2>1, <2>3 DEF Clean, Baselines
    <3> QED BY <2>1, <2>2, <2>3, <3>1, UnbornFrame
  <2>4. CASE UNCHANGED <<live, backups>> BY <1>3, <2>1, <2>2, <2>4
  <2>5. CASE UNCHANGED backups /\ live' = [live EXCEPT ![e.s] = Absent] BY <2>3, <2>5
  <2>6. CASE UNCHANGED backups /\ live' = [live EXCEPT ![e.s] = Tree(undo.stream)]
    <3>1. Tree(undo.stream).gen # g BY <1>2, <2>1 DEF Tree
    <3> QED BY <2>3, <2>6, <3>1
  <2>7. CASE /\ live' = [live EXCEPT ![e.s] = Ours(e).tree] /\ backups' = backups \ {Ours(e)}
             /\ Ours(e) \in backups
    <3>1. PICK b \in backups : b = Ours(e) /\ b.tree.gen # g BY <2>7 DEF Unborn, Untouched
    <3> QED BY <2>3, <2>7, <3>1
  <2> QED BY <2>1, <2>4, <2>5, <2>6, <2>7
<1>11. ASSUME UndoEnds PROVE Unborn(g)'
  <2>1. undo # None /\ undo' = None /\ UNCHANGED <<live, backups>> /\ undo.stream # g
    BY <1>2, <1>11 DEF UndoEnds
  <2>2. outcome'[g] = outcome[g] BY <1>1, <1>11, <2>1 DEF UndoEnds
  <2> QED BY <2>1, <2>2, UnbornFrame
<1>12. ASSUME Crash PROVE Unborn(g)'
  <2>1. InDoubt # {} => OpenStream # g
    <3>1. CASE undo # None BY <1>2, <3>1, Doubts DEF InUndo
    <3>2. CASE OpenSession BY <1>2, <3>2, Doubts DEF InSession, OpenSession
    <3>3. CASE undo = None /\ ~OpenSession BY <3>3, Doubts DEF InNothing
    <3> QED BY <3>1, <3>2, <3>3
  <2>2. outcome'[g] = outcome[g] /\ undo' = None /\ UNCHANGED <<live, backups>>
    BY <1>1, <1>12, <2>1 DEF Crash
  <2> QED BY <2>2, UnbornFrame
<1>13. CASE Expire BY <1>3, <1>4, <1>13 DEF Expire
<1>14. CASE \/ PluginStarts \/ PluginAnswered \/ PluginTimesOut \/ PluginAborts \/ FenceCaptures
            \/ UNCHANGED vars \/ (\E r \in inflight : Lose(r)) \/ (\E s \in Services : WatchRecords(s))
  BY <1>2, <1>3, <1>14 DEF PluginStarts, PluginAnswered, PluginTimesOut, PluginAborts,
     FenceCaptures, Lose, vars, WatchRecords
<1> QED BY <1>5, <1>8, <1>9, <1>10, <1>11, <1>12, <1>13, <1>14 DEF Next


(* A session that appears is opened by a first chunk; a strict one takes the grant for
   it. *)
LEMMA OpensByGrant ==
    ASSUME Typed, [Next]_vars, NEW g \in Streams, ~SessionOf(g), SessionOf(g)'
    PROVE  UNCHANGED started /\ (g \in Strict => g = started /\ grant # None /\ grant' = None)
<1>1. ~UNCHANGED session /\ session' # None /\ (session # None => session'.stream # session.stream)
  BY DEF SessionOf
<1>2. session # None => session \in Sessions BY DEF Typed, TypeOK, DaemonOK
<1>3. ASSUME NEW r \in inflight, Fresh(r), Fails(r) \/ Completes(r) \/ Tick(r) PROVE FALSE
  BY ZenonT(60), <1>1, <1>2, <1>3 DEF Fails, Completes, Tick, Fresh, SessionOf, Sessions
<1>4. PICK r \in inflight : Receive(r)
  <2>1. CASE UndoEnds
    <3>1. undo # None /\ undo.req # None BY <1>1, <2>1 DEF UndoEnds
    <3>2. session # None BY <3>1 DEF Typed, Shape, UndoHolds
    <3>3. PICK b, a : session' = [session EXCEPT !.done = TRUE, !.committed = undo.kept,
                                    !.checkpoint = None, !.last = b, !.reply = a]
      BY <2>1, <3>1 DEF UndoEnds
    <3> QED BY <1>1, <1>2, <3>2, <3>3 DEF Sessions
  <2>2. CASE Crash \/ Expire BY <1>1, <2>2 DEF Crash, Expire
  <2> QED BY <1>1, <2>1, <2>2 DEF Next, vars, UserEdits, UserCreates, WatchRecords,
     PluginStarts, PluginAnswered, PluginTimesOut, PluginAborts, Lose, FenceCaptures,
     WorkerStep, UndoStep
<1>5. NoSession(r)
  <2>1. CASE Structure(r) \/ Sources(r)
    BY ZenonT(60), <1>1, <1>2, <2>1 DEF Structure, Sources, Fresh, SessionOf, Sessions
  <2>2. CASE DiskFence(r) \/ DiskRevalidate(r)
    <3>1. Fresh(r) /\ ~(Fails(r) \/ Completes(r) \/ Tick(r))
      BY <1>3, <2>2 DEF DiskFence, DiskRevalidate
    <3> QED
      BY ZenonT(60), <1>1, <1>2, <2>2, <3>1 DEF DiskFence, DiskRevalidate, Fresh, SessionOf,
       Sessions
  <2>3. CASE Replays(r) \/ OutOfOrder(r) BY <1>1, <1>3, <2>3 DEF Replays, OutOfOrder
  <2> QED BY <1>4, <2>1, <2>2, <2>3 DEF Receive
<1>6. session' = NewSession(r.body.stream) /\ r.body.stream = g
  <2>1. session' = NewSession(r.body.stream) BY <1>1, <1>5 DEF NoSession
  <2> QED BY <2>1 DEF NewSession, SessionOf
<1>7. g \in Strict => g = started /\ grant = live /\ grant' = None
  BY <1>1, <1>5, <1>6 DEF NoSession
<1>8. live # None BY NoneAssumption DEF Typed, TypeOK, DiskOK
<1> QED BY <1>4, <1>7, <1>8 DEF Receive

LEMMA GrantsGo ==
    ASSUME Typed, [Next]_vars
    PROVE  \/ started' = started + 1
           \/ started' = started /\ (grant' = grant \/ grant' = None)
<1>1. ASSUME NEW r \in inflight, Receive(r) PROVE UNCHANGED started /\ (grant' = grant \/ grant' = None)
  BY <1>1 DEF Receive, NoSession, Replays, OutOfOrder, Structure, DiskFence, Tick, Sources,
     DiskRevalidate, Completes, Fails
<1> QED BY <1>1 DEF Next, vars, bounds, UserEdits, UserCreates, WatchRecords, PluginStarts,
   PluginAnswered, PluginTimesOut, PluginAborts, Lose, Expire, FenceCaptures, WorkerStep,
   UndoStep, UndoEnds, Crash

LEMMA OnceStep == Typed /\ Once /\ [Next]_vars => Once'
<1> SUFFICES ASSUME Typed, Once, [Next]_vars, NEW g \in Strict,
                    g > started' \/ (g = started' /\ grant' # None)
             PROVE  Unborn(g)'
  BY DEF Once
<1>1. g \in Streams /\ g \in Nat /\ started \in Nat BY DEF Typed, TypeOK, CountsOK
<1>2. g > started \/ (g = started /\ grant # None) BY <1>1, GrantsGo
<1>3. Unborn(g) BY <1>2 DEF Once
<1>4. ~SessionOf(g)'
  <2>1. ~SessionOf(g) BY <1>3 DEF Unborn
  <2>2. ASSUME SessionOf(g)' PROVE FALSE
    <3>1. started' = started /\ g = started /\ grant' = None
      BY <1>1, <2>1, <2>2, OpensByGrant
    <3> QED BY <1>1, <3>1
  <2> QED BY <2>2
<1> QED BY <1>1, <1>3, <1>4, UnbornStays

(* The grant of a strict stream is taken by the session it opens
   (consume_studio_transfer_grant): where every stream carries an initial choice, none is
   opened again. *)
THEOREM StrictOpensOnce == Strict = Streams => (Spec => [][Opens]_vars)
<1> SUFFICES ASSUME Strict = Streams PROVE Spec => [][Opens]_vars OBVIOUS
<1>1. Init => Once
  <2> SUFFICES ASSUME Init, NEW g \in Strict PROVE Unborn(g) BY DEF Once
  <2>1. g \in Streams /\ g # 0 OBVIOUS
  <2>2. \A t \in Services : Clean(t, g) BY <2>1 DEF Init, Clean, Tree
  <2> QED BY <2>1, <2>2 DEF Init, Unborn, Untouched, SessionOf
<1>2. Typed /\ Once /\ [Next]_vars => Once' BY OnceStep
<1>3. Typed /\ Once /\ [Next]_vars => Opens
  <2> SUFFICES ASSUME Typed, Once, [Next]_vars, NEW g \in Streams, ~SessionOf(g), SessionOf(g)'
               PROVE  Untouched(g)
    BY DEF Opens
  <2>1. g \in Strict /\ g = started /\ grant # None BY OpensByGrant
  <2> QED BY <2>1 DEF Once, Unborn
<1>4. Spec => []Typed BY TypesHold, PTL DEF Typed
<1> QED BY <1>1, <1>2, <1>3, <1>4, PTL DEF Spec

===============================================================================
