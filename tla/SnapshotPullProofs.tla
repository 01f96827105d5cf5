-------------------------- MODULE SnapshotPullProofs --------------------------
(***************************************************************************)
(* Each service a pull writes is one version of the disk, and a pull is    *)
(* written for all its services or for none: for any number of services,   *)
(* pulls, edits, lost calls and expired streams.                           *)
(***************************************************************************)
EXTENDS Parts, Naturals, Sequences, TLAPS

-------------------------------------------------------------------------------
(* Types. *)
Phases   == {"prepare", "sources", "checked", "deletes"}
Requests == [pull : Nat, kind : Pull!Kinds, id : Nat, service : Nat,
             phase : Phases \cup {"start"}, try : {1, 2}]
Says     == [id : Nat, ok : BOOLEAN, phase : Phases \cup {"error"}, data : Nat,
             over : BOOLEAN]
Threads  == [at : {"emitting", "emitted", "ready", "failed"}, gen : Nat,
             files : Nat, fp : Nat, again : Nat]
Sources  == [pull : Nat, kind : Pull!Kinds, service : Pull!Services, phase : Phases,
             thread : Threads, heard : Requests, says : Says, over : BOOLEAN]
Staged   == [structure : Nat, sources : Nat]
Written  == [Pull!Services -> [pull : Nat, structure : Nat, sources : Nat]]
Pullers  == [at : {"idle", "pulling", "applying", "halted"}, pull : Nat, kind : Pull!Kinds,
             id : Nat, call : Requests \cup Written \cup {None},
             answer : Says \cup {None}, staged : Seq(Staged), applied : 0..ServiceCount,
             dirty : BOOLEAN]

CallOK ==
    /\ puller.at = "pulling" => puller.call \in Requests
    /\ puller.at = "applying" /\ puller.applied # 0 => puller.call \in Written

DaemonOK ==
    /\ streams \in Seq(Sources) /\ current \in 0..Len(streams)
    /\ handlers \subseteq [r : Requests, id : 1..Len(streams)]
    /\ removing \subseteq [r : Requests, id : Nat, phase : Phases]
    /\ cursors \subseteq Requests
PluginOK == puller \in Pullers /\ CallOK /\ place \in Written

TypeOK ==
    /\ version \in [Pull!Services -> Nat]
    /\ DaemonOK /\ PluginOK
    /\ pulls \in Nat /\ edits \in Nat /\ losses \in Nat

-------------------------------------------------------------------------------
(* The inductive invariant. *)

(* What a thread has read came later than what it read before. *)
ThreadHolds(x) ==
    /\ x.thread.gen <= version[x.service]
    /\ x.thread.at = "ready" =>
          x.thread.gen <= x.thread.files /\ x.thread.files <= version[x.service]
    /\ x.thread.fp # 0 => x.thread.at = "ready" /\ x.thread.files <= x.thread.fp
    /\ x.phase # "prepare" => x.thread.at = "ready"

(* A stream is where its last answer has brought it: it has just begun, is over, or at the
   next phase. *)
Fits(phase, kind) == phase = "deletes" => kind = "selective"
Begun(x) == x.service = 1 /\ x.phase = "prepare" /\ ~x.over
Ends(r)  == r.service = ServiceCount /\ r.phase = Pull!LastPhase(r.kind)
Passed(x, r) ==
    IF Ends(r) THEN x.over
    ELSE /\ ~x.over
         /\ x.service = IF r.phase = Pull!LastPhase(r.kind) THEN r.service + 1 ELSE r.service
         /\ x.phase = Pull!PhaseAfter(r.phase, r.kind)
StreamHolds(i) ==
    LET x == streams[i] IN
    /\ x.heard.pull = x.pull /\ x.heard.kind = x.kind /\ x.says.id = i
    /\ Fits(x.phase, x.kind) /\ Fits(x.heard.phase, x.kind)
    /\ IF x.heard.phase = "start" THEN Begun(x) /\ x.says.phase = "prepare" /\ ~x.says.over
       ELSE /\ Passed(x, x.heard)
            /\ x.says.phase = x.heard.phase /\ (x.says.over <=> Ends(x.heard))
            /\ x.heard.phase \in {"prepare", "sources"} => x.says.data = x.thread.gen
    /\ ThreadHolds(x)

(* Of one pull no request is ahead of the plugin's call, and all are for the stream whose
   start it has accepted. *)
No(phase) == CASE phase = "prepare" -> 0 [] phase = "sources" -> 1
               [] phase = "checked" -> 2 [] phase = "deletes" -> 3 [] OTHER -> 0
Place(r)  == 4 * r.service + No(r.phase)
Started   == puller.call.phase # "start"
Mine(r)   == r.pull = puller.pull
Asked     == cursors \cup {h.r : h \in handlers}
CallHolds ==
    /\ Mine(puller.call) /\ puller.call.kind = puller.kind /\ puller.call.id = puller.id
    /\ ~Started => puller.id = 0 /\ puller.call.service = 1
    /\ \A r \in Asked : Mine(r) =>
          /\ r.kind = puller.kind
          /\ r.phase # "start" => Started /\ r.id = puller.id /\ Place(r) <= Place(puller.call)

(* The stream of the plugin has answered the call, or is waiting for it; no other stream of
   this pull has gone on. *)
Same(r, q)     == r = [q EXCEPT !.try = r.try]
Answered       == Same(streams[puller.id].heard, puller.call)
Awaits(x)      == Pull!Wants(x, puller.call) /\ ~x.over
OwnStreamHolds ==
    /\ \A i \in 1..Len(streams) : Mine(streams[i]) =>
          /\ streams[i].kind = puller.kind
          /\ ~Started \/ i # puller.id => streams[i].heard.phase = "start"
    /\ Started =>
          /\ puller.id \in 1..Len(streams) /\ Mine(streams[puller.id])
          /\ Answered \/ Awaits(streams[puller.id])

(* A good answer is the one the stream has kept. *)
AnswerHolds ==
    puller.answer # None /\ puller.answer.ok =>
        IF Started THEN Answered /\ puller.answer = streams[puller.id].says
        ELSE /\ puller.answer.id \in 1..Len(streams) /\ Mine(streams[puller.answer.id])
             /\ puller.answer.phase = "prepare" /\ ~puller.answer.over

(* What is staged is whole, but for the service whose sources are to come: its structure is
   of the generation its thread has emitted. *)
Whole(e) == e.structure = e.sources
StagedHolds ==
    /\ Len(puller.staged) = IF puller.call.phase \in {"start", "prepare"}
                            THEN puller.call.service - 1 ELSE puller.call.service
    /\ \A i \in 1..Len(puller.staged) :
          i < puller.call.service \/ puller.call.phase \in {"checked", "deletes"} =>
             Whole(puller.staged[i])
    /\ puller.call.phase = "sources" =>
          puller.staged[puller.call.service].structure = streams[puller.id].thread.gen

PullingHolds ==
    puller.at = "pulling" => CallHolds /\ OwnStreamHolds /\ AnswerHolds /\ StagedHolds

(* Pulls are numbered. *)
PullsHold ==
    /\ puller.pull = pulls
    /\ \A r \in Asked : r.pull <= pulls
    /\ \A i \in 1..Len(streams) : streams[i].pull <= pulls

(* A pull is full or selective from its start to its end. *)
KindsHold ==
    /\ \A r, q \in Asked : r.pull = q.pull => r.kind = q.kind
    /\ \A r \in Asked : \A i \in 1..Len(streams) :
          r.pull = streams[i].pull => r.kind = streams[i].kind

(* Studio, and what a cancelled recording puts back. *)
Even(w) == \A s, t \in Pull!Services : w[s].pull = w[t].pull
Sound(w) == \A s \in Pull!Services : Whole(w[s])
StudioHolds ==
    /\ Sound(place)
    /\ puller.at \in {"idle", "pulling"} => Even(place)
    /\ puller.at = "applying" =>
          /\ Len(puller.staged) = ServiceCount
               /\ \A s \in Pull!Services : Whole(puller.staged[s])
          /\ puller.applied = 0 => Even(place)
          /\ puller.applied # 0 => Sound(puller.call) /\ Even(puller.call)
          /\ \A s \in Pull!Services : s <= puller.applied => place[s].pull = puller.pull

Holds ==
    /\ \A i \in 1..Len(streams) : StreamHolds(i)
    /\ PullingHolds /\ PullsHold /\ KindsHold /\ StudioHolds
Typed == Pull!PullAssumption /\ TypeOK

USE DEF Pull!Services, Pull!Kinds

-------------------------------------------------------------------------------
(* What is changed in a record, and what is not. *)

LEMMA AnswersIs ==
    ASSUME puller \in Pullers, NEW r, NEW says \in Says, Pull!Answers(r, says)
    PROVE  /\ puller' \in Pullers
           /\ puller'.at = puller.at /\ puller'.pull = puller.pull /\ puller'.kind = puller.kind
           /\ puller'.id = puller.id /\ puller'.call = puller.call
           /\ puller'.staged = puller.staged /\ puller'.applied = puller.applied
           /\ puller'.answer = puller.answer \/ (puller.call = r /\ puller'.answer = says)
<1>1. CASE puller.call = r
  <2>1. puller' = [puller EXCEPT !.answer = says] BY <1>1 DEF Pull!Answers
  <2> QED BY <1>1, <2>1 DEF Pullers
<1>2. CASE puller.call # r BY <1>2 DEF Pull!Answers
<1> QED BY <1>1, <1>2

LEMMA GoneIs ==
    ASSUME puller \in Pullers, Pull!Gone
    PROVE  /\ puller' \in Pullers /\ puller'.at = "idle" /\ puller'.pull = puller.pull
<1>1. puller' = [puller EXCEPT !.at = "idle", !.id = 0, !.call = None, !.answer = None,
                               !.staged = <<>>]
  BY DEF Pull!Gone
<1>2. <<>> \in Seq(Staged) OBVIOUS
<1> QED BY <1>1, <1>2 DEF Pullers

LEMMA SendsIs ==
    ASSUME NEW p \in Pullers, NEW service \in Nat, NEW phase \in Phases \cup {"start"},
           Pull!Sends(p, service, phase)
    PROVE  /\ puller' \in Pullers /\ puller'.call \in Requests
           /\ puller'.at = p.at /\ puller'.pull = p.pull /\ puller'.kind = p.kind
           /\ puller'.id = p.id /\ puller'.staged = p.staged /\ puller'.applied = p.applied
           /\ puller'.answer = None
           /\ puller'.call = [pull |-> p.pull, kind |-> p.kind, id |-> p.id,
                              service |-> service, phase |-> phase, try |-> 1]
           /\ cursors' = cursors \cup {puller'.call}
<1> DEFINE r == [pull |-> p.pull, kind |-> p.kind, id |-> p.id, service |-> service,
                 phase |-> phase, try |-> 1]
<1>1. r \in Requests BY DEF Requests, Pullers
<1>2. puller' = [p EXCEPT !.call = r, !.answer = None] /\ cursors' = cursors \cup {r}
  BY DEF Pull!Sends
<1> HIDE DEF r
<1>3. /\ puller' \in Pullers /\ puller'.call = r /\ puller'.answer = None
      /\ puller'.at = p.at /\ puller'.pull = p.pull /\ puller'.kind = p.kind
      /\ puller'.id = p.id /\ puller'.staged = p.staged /\ puller'.applied = p.applied
  BY <1>1, <1>2 DEF Pullers
<1> QED BY <1>1, <1>2, <1>3 DEF r

LEMMA RetriesIs ==
    ASSUME puller \in Pullers, puller.call \in Requests, Pull!Retries
    PROVE  \/ Pull!Gone /\ cursors' = cursors
           \/ /\ puller' \in Pullers /\ puller'.call \in Requests
              /\ puller'.at = puller.at /\ puller'.pull = puller.pull
              /\ puller'.kind = puller.kind /\ puller'.id = puller.id
              /\ puller'.staged = puller.staged /\ puller'.applied = puller.applied
              /\ puller'.answer = None
              /\ puller'.call = [puller.call EXCEPT !.try = 2]
              /\ cursors' = cursors \cup {puller'.call}
<1> DEFINE r == [puller.call EXCEPT !.try = 2]
<1>1. r \in Requests BY DEF Requests
<1>2. \/ Pull!Gone /\ cursors' = cursors
      \/ puller' = [puller EXCEPT !.call = r, !.answer = None] /\ cursors' = cursors \cup {r}
  BY DEF Pull!Retries
<1> HIDE DEF r
<1>3. ASSUME puller' = [puller EXCEPT !.call = r, !.answer = None]
      PROVE  /\ puller' \in Pullers /\ puller'.call = r /\ puller'.answer = None
             /\ puller'.at = puller.at /\ puller'.pull = puller.pull
             /\ puller'.kind = puller.kind /\ puller'.id = puller.id
             /\ puller'.staged = puller.staged /\ puller'.applied = puller.applied
  BY <1>1, <1>3 DEF Pullers
<1> QED BY <1>1, <1>2, <1>3 DEF r

(* The record of a request, but for its number of tries. *)
LEMMA SameIs ==
    ASSUME NEW r \in Requests, NEW q \in Requests
    PROVE  Same(r, q) <=> /\ r.pull = q.pull /\ r.kind = q.kind /\ r.id = q.id
                          /\ r.service = q.service /\ r.phase = q.phase
<1>1. ASSUME r.pull = q.pull, r.kind = q.kind, r.id = q.id, r.service = q.service,
             r.phase = q.phase
      PROVE  r = [q EXCEPT !.try = r.try]
  <2>1. r = [pull |-> r.pull, kind |-> r.kind, id |-> r.id, service |-> r.service,
             phase |-> r.phase, try |-> r.try]
    BY DEF Requests
  <2>2. [q EXCEPT !.try = r.try] = [pull |-> q.pull, kind |-> q.kind, id |-> q.id,
             service |-> q.service, phase |-> q.phase, try |-> r.try]
    BY DEF Requests
  <2> QED BY <1>1, <2>1, <2>2
<1>2. ASSUME r = [q EXCEPT !.try = r.try]
      PROVE  /\ r.pull = q.pull /\ r.kind = q.kind /\ r.id = q.id
             /\ r.service = q.service /\ r.phase = q.phase
  BY <1>2 DEF Requests
<1> QED BY <1>1, <1>2 DEF Same


LEMMA StreamIs ==
    ASSUME Typed, NEW i \in 1..Len(streams)
    PROVE  /\ streams[i] \in Sources /\ streams[i].thread \in Threads
           /\ streams[i].heard \in Requests /\ streams[i].says \in Says
           /\ version[streams[i].service] \in Nat
<1>1. streams[i] \in Sources BY DEF Typed, TypeOK, DaemonOK
<1>2. /\ streams[i].thread \in Threads /\ streams[i].service \in Pull!Services
      /\ streams[i].heard \in Requests /\ streams[i].says \in Says
  BY <1>1 DEF Sources
<1> QED BY <1>1, <1>2 DEF Typed, TypeOK

(* The thread, when a look at the disk has been added to it. *)
LEMMA ThreadIs ==
    ASSUME Typed, NEW id \in 1..Len(streams), Pull!Thread(id)
    PROVE  \E t \in Threads :
             /\ streams' = [streams EXCEPT ![id].thread = t]
             /\ t.gen = streams[id].thread.gen
             /\ ThreadHolds(streams[id]) =>
                  /\ t.at = "ready" =>
                        t.gen <= t.files /\ t.files <= version[streams[id].service]
                  /\ t.fp # 0 => t.at = "ready" /\ t.files <= t.fp
                  /\ streams[id].thread.at = "ready" => t.at = "ready"
<1> DEFINE x == streams[id]
<1>1. x \in Sources /\ x.thread \in Threads /\ version[x.service] \in Nat BY StreamIs
<1>2. CASE x.thread.at = "emitting"
  <2> DEFINE t == [x.thread EXCEPT !.at = IF x.thread.gen = version[x.service]
                                          THEN "emitted" ELSE "failed"]
  <2>1. streams' = [streams EXCEPT ![id].thread = t] BY <1>2 DEF Pull!Thread
  <2>2. t \in Threads /\ t.gen = x.thread.gen /\ t.at # "ready" /\ t.fp = x.thread.fp
    BY <1>1 DEF Threads
  <2> HIDE DEF t
  <2> QED BY <1>2, <2>1, <2>2 DEF ThreadHolds
<1>3. CASE x.thread.at = "emitted"
  <2> DEFINE t == [x.thread EXCEPT !.at = "ready", !.files = version[x.service]]
  <2>1. streams' = [streams EXCEPT ![id].thread = t] BY <1>3 DEF Pull!Thread
  <2>2. /\ t \in Threads /\ t.gen = x.thread.gen /\ t.at = "ready" /\ t.fp = x.thread.fp
        /\ t.files = version[x.service]
    BY <1>1 DEF Threads
  <2> HIDE DEF t
  <2>3. ThreadHolds(x) => x.thread.gen <= version[x.service] /\ x.thread.fp = 0
    BY <1>1, <1>3 DEF ThreadHolds, Threads
  <2>4. /\ ThreadHolds(x) => t.gen <= t.files /\ t.files <= version[x.service] /\ t.fp = 0
        /\ x.thread.at # "ready"
    BY <1>1, <1>3, <2>2, <2>3
  <2> QED BY <2>1, <2>2, <2>4
<1>4. CASE x.thread.at = "ready" /\ x.thread.fp = 0
  <2> DEFINE t == [x.thread EXCEPT !.fp = version[x.service]]
  <2>1. streams' = [streams EXCEPT ![id].thread = t] BY <1>4 DEF Pull!Thread
  <2>2. /\ t \in Threads /\ t.gen = x.thread.gen /\ t.at = "ready"
        /\ t.fp = version[x.service] /\ t.files = x.thread.files
    BY <1>1, <1>4 DEF Threads
  <2> HIDE DEF t
  <2> QED BY <1>1, <1>4, <2>1, <2>2 DEF ThreadHolds, Threads
<1> QED BY <1>2, <1>3, <1>4 DEF Pull!Thread

(* A stream with another thread. *)
LEMMA WithThread ==
    ASSUME NEW x \in Sources, NEW t \in Threads
    PROVE  LET y == [x EXCEPT !.thread = t] IN
           /\ y \in Sources /\ y.thread = t
           /\ y.pull = x.pull /\ y.kind = x.kind /\ y.service = x.service
           /\ y.phase = x.phase /\ y.heard = x.heard /\ y.says = x.says /\ y.over = x.over
BY DEF Sources

LEMMA AgainIs ==
    ASSUME Typed, NEW id \in 1..Len(streams), Pull!Again(id)
    PROVE  \E t \in Threads :
             /\ streams' = [streams EXCEPT ![id].thread = t]
             /\ t.gen = streams[id].thread.gen /\ t.at = streams[id].thread.at
             /\ t.files = streams[id].thread.files /\ t.fp = streams[id].thread.fp
<1> DEFINE x == streams[id]
           t == [x.thread EXCEPT !.again = version[x.service]]
<1>1. x \in Sources /\ x.thread \in Threads /\ version[x.service] \in Nat BY StreamIs
<1>2. streams' = [streams EXCEPT ![id].thread = t]
  <2>1. streams' = [streams EXCEPT ![id].thread.again = version[x.service]]
    BY DEF Pull!Again
  <2>2. [streams EXCEPT ![id].thread.again = version[x.service]]
        = [streams EXCEPT ![id].thread = t]
    BY <1>1 DEF Sources
  <2> QED BY <2>1, <2>2
<1>3. /\ t \in Threads /\ t.gen = x.thread.gen /\ t.at = x.thread.at
      /\ t.files = x.thread.files /\ t.fp = x.thread.fp
  BY <1>1 DEF Threads
<1> HIDE DEF t
<1> QED BY <1>2, <1>3

LEMMA PreparingIs ==
    ASSUME Typed, NEW s \in Pull!Services
    PROVE  /\ Pull!Preparing(s) \in Threads /\ Pull!Preparing(s).at = "emitting"
           /\ Pull!Preparing(s).gen = version[s] /\ Pull!Preparing(s).fp = 0
BY DEF Pull!Preparing, Pull!NoThread, Threads, Typed, TypeOK

(* A stream that goes on to the next phase, or is over. *)
LEMMA BeyondIs ==
    ASSUME Typed, NEW x \in Sources, NEW r \in Requests, NEW says \in Says,
           Pull!Wants(x, r), r.kind = x.kind, ~x.over, Fits(x.phase, x.kind),
           says.over <=> x.service = ServiceCount /\ x.phase = Pull!LastPhase(x.kind)
    PROVE  LET y == Pull!Beyond(x, r, says) IN
           /\ y \in Sources /\ y.pull = x.pull /\ y.kind = x.kind
           /\ y.heard = r /\ y.says = says
           /\ Passed(y, r) /\ Fits(y.phase, y.kind)
           /\ \/ /\ y.service = x.service
                 /\ y.thread.gen = x.thread.gen /\ y.thread.at = x.thread.at
                 /\ y.thread.files = x.thread.files /\ y.thread.fp = x.thread.fp
              \/ /\ y.phase = "prepare" /\ x.phase \notin {"prepare", "sources"}
                 /\ y.thread = Pull!Preparing(y.service)
<1> DEFINE z ==
      [x EXCEPT !.phase = Pull!PhaseAfter(x.phase, x.kind), !.heard = r, !.says = says]
           y == Pull!Beyond(x, r, says)
<1>1. /\ z \in Sources /\ z.pull = x.pull /\ z.kind = x.kind /\ z.service = x.service
      /\ z.phase = Pull!PhaseAfter(x.phase, x.kind) /\ z.thread = x.thread /\ z.heard = r
      /\ z.says = says /\ z.over = x.over
  <2>1. Pull!PhaseAfter(x.phase, x.kind) \in Phases BY DEF Pull!PhaseAfter, Phases
  <2> QED BY <2>1 DEF Sources
<1>0. /\ says.over \in BOOLEAN
      /\ x.phase = Pull!LastPhase(x.kind) => ~(x.phase = "checked" /\ x.kind = "selective")
  BY DEF Says, Pull!LastPhase
<1>2. r.service = x.service /\ r.phase = x.phase /\ x.service \in Pull!Services
  BY DEF Pull!Wants, Sources
<1>3. CASE says.over
  <2> DEFINE w == [x EXCEPT !.heard = r, !.says = says, !.over = TRUE]
  <2>1. y = w BY <1>0, <1>3 DEF Pull!Beyond
  <2>2. /\ w \in Sources /\ w.pull = x.pull /\ w.kind = x.kind /\ w.service = x.service
        /\ w.phase = x.phase /\ w.thread = x.thread /\ w.heard = r /\ w.says = says /\ w.over
    BY DEF Sources
  <2> HIDE DEF w, y
  <2> QED BY <1>2, <1>3, <2>1, <2>2 DEF Passed, Ends, y
<1>4. CASE ~says.over /\ x.phase = Pull!LastPhase(x.kind)
  <2> DEFINE w == [z EXCEPT !.service = @ + 1, !.thread = Pull!Preparing(x.service + 1)]
  <2>1. y = w BY <1>0, <1>1, <1>4 DEF Pull!Beyond
  <2>2. x.service + 1 \in Pull!Services /\ Pull!Preparing(x.service + 1) \in Threads
    <3>1. x.service + 1 \in Pull!Services BY <1>2, <1>4 DEF Typed, Pull!PullAssumption
    <3> QED BY <3>1, PreparingIs
  <2> HIDE DEF z
  <2>3. /\ w \in Sources /\ w.pull = x.pull /\ w.kind = x.kind /\ w.service = x.service + 1
        /\ w.phase = Pull!PhaseAfter(x.phase, x.kind)
             /\ w.thread = Pull!Preparing(x.service + 1)
        /\ w.heard = r /\ w.says = says /\ ~w.over
    BY <1>1, <2>2 DEF Sources
  <2>4. Pull!PhaseAfter(x.phase, x.kind) = "prepare" /\ x.phase \notin {"prepare", "sources"}
    BY <1>4, x.kind \in Pull!Kinds DEF Pull!PhaseAfter, Pull!LastPhase, Sources
  <2> HIDE DEF w, y
  <2> QED BY <1>2, <1>4, <2>1, <2>3, <2>4 DEF Passed, Ends, Fits, y
<1>5. CASE ~says.over /\ x.phase # Pull!LastPhase(x.kind)
  <2>1. Fits(z.phase, z.kind) /\ ~Ends(r) /\ r.phase # Pull!LastPhase(r.kind)
    BY <1>1, <1>2, <1>5 DEF Fits, Pull!PhaseAfter, Pull!LastPhase, Ends
  <2>2. CASE x.phase = "checked" /\ x.kind = "selective"
    <3> DEFINE t == [x.thread EXCEPT !.again = 0]
    <3>1. /\ t \in Threads /\ t.gen = x.thread.gen /\ t.at = x.thread.at
          /\ t.files = x.thread.files /\ t.fp = x.thread.fp
      BY DEF Sources, Threads
    <3>2. y = [z EXCEPT !.thread = t]
      <4>1. y = [z EXCEPT !.thread.again = 0] BY <1>5, <2>2 DEF Pull!Beyond
      <4>2. [z EXCEPT !.thread.again = 0] = [z EXCEPT !.thread = [z.thread EXCEPT !.again = 0]]
        BY <1>1 DEF Sources
      <4> QED BY <1>1, <4>1, <4>2
    <3> HIDE DEF z, t, y
    <3>3. /\ y \in Sources /\ y.pull = x.pull /\ y.kind = x.kind /\ y.service = x.service
          /\ y.phase = Pull!PhaseAfter(x.phase, x.kind) /\ y.thread = t /\ y.heard = r
          /\ y.says = says /\ ~y.over
      BY <1>1, <3>1, <3>2, WithThread
    <3> QED BY <1>1, <1>2, <2>1, <3>1, <3>3 DEF Passed, y
  <2>3. CASE ~(x.phase = "checked" /\ x.kind = "selective")
    <3>1. y = z BY <1>5, <2>3 DEF Pull!Beyond
    <3> HIDE DEF z, y
    <3> QED BY <1>1, <1>2, <2>1, <3>1 DEF Passed, y
  <2> QED BY <2>2, <2>3
<1> QED BY <1>3, <1>4, <1>5 DEF Sources, Says


-------------------------------------------------------------------------------
(* Types are kept. *)

LEMMA FailIs == Pull!Fail \in Says /\ ~Pull!Fail.ok /\ ~Pull!Fail.over
BY DEF Pull!Fail, Says, Phases

LEMMA OpeningIs ==
    ASSUME NEW n \in Nat
    PROVE  LET says == [Pull!Fail EXCEPT !.id = n, !.ok = TRUE, !.phase = "prepare"] IN
           says \in Says /\ says.id = n /\ says.ok /\ says.phase = "prepare" /\ ~says.over
<1> DEFINE says == [Pull!Fail EXCEPT !.id = n, !.ok = TRUE, !.phase = "prepare"]
<1> HIDE DEF says
<1>1. says = [Pull!Fail EXCEPT !.id = n, !.ok = TRUE, !.phase = "prepare"] BY DEF says
<1>2. says \in Says BY <1>1, FailIs DEF Says, Phases
<1>3. says.id = n /\ says.ok /\ says.phase = "prepare" /\ ~says.over
  BY <1>1, FailIs DEF Says
<1> QED BY <1>2, <1>3 DEF says

(* Everything of the plugin is as it was, but for an answer. *)
Keeps ==
    /\ puller'.at = puller.at /\ puller'.pull = puller.pull /\ puller'.kind = puller.kind
    /\ puller'.id = puller.id /\ puller'.call = puller.call
    /\ puller'.staged = puller.staged /\ puller'.applied = puller.applied

(* A request is answered, if it is the call. *)
Told(r, says) ==
    puller'.answer = puller.answer \/ (puller.call = r /\ puller'.answer = says)

LEMMA KeepsType ==
    ASSUME PluginOK, puller' \in Pullers, Keeps, place' = place
    PROVE  PluginOK'
BY DEF PluginOK, CallOK, Keeps

LEMMA InitType == Pull!PullAssumption /\ Pull!Init => Typed
<1> SUFFICES ASSUME Pull!PullAssumption, Pull!Init PROVE TypeOK BY DEF Typed
<1>1. puller = [at |-> "idle", pull |-> 0, kind |-> "full", id |-> 0,
                call |-> None, answer |-> None, staged |-> <<>>, applied |-> 0,
                dirty |-> FALSE]
  BY DEF Pull!Init
<1>2. <<>> \in Seq(Staged) /\ <<>> \in Seq(Sources) /\ Len(streams) = 0 BY DEF Pull!Init
<1>3. puller \in Pullers /\ CallOK BY <1>1, <1>2 DEF Pullers, CallOK, Pull!PullAssumption
<1>4. place \in Written BY DEF Pull!Init, Written
<1>5. DaemonOK BY <1>2 DEF DaemonOK, Pull!Init
<1> QED BY <1>3, <1>4, <1>5 DEF TypeOK, PluginOK, Pull!Init

LEMMA ThreadType ==
    ASSUME Typed, NEW id \in 1..Len(streams), Pull!Thread(id) \/ Pull!Again(id)
    PROVE  /\ TypeOK' /\ Len(streams') = Len(streams)
           /\ \A i \in 1..Len(streams) : i # id => streams'[i] = streams[i]
<1>1. PICK t \in Threads : streams' = [streams EXCEPT ![id].thread = t] BY ThreadIs, AgainIs
<1>2. streams[id] \in Sources /\ streams \in Seq(Sources) BY DEF Typed, TypeOK, DaemonOK
<1> DEFINE y == [streams[id] EXCEPT !.thread = t]
<1>3. y \in Sources BY <1>2, WithThread
<1>4. streams' = [streams EXCEPT ![id] = y] BY <1>1
<1> HIDE DEF y
<1>5. /\ streams' \in Seq(Sources) /\ Len(streams') = Len(streams)
      /\ \A i \in 1..Len(streams) : i # id => streams'[i] = streams[i]
  BY <1>2, <1>3, <1>4
<1>6. UNCHANGED <<version, current, handlers, removing, cursors, puller, place, pulls, edits,
                  losses>>
  BY DEF Pull!Thread, Pull!Again, Pull!diskPart, Pull!pluginPart
<1> QED BY <1>5, <1>6 DEF Typed, TypeOK, DaemonOK, PluginOK, CallOK

LEMMA StartType ==
    ASSUME Typed, NEW r \in cursors, Pull!Start(r)
    PROVE  /\ TypeOK' /\ Keeps
           /\ \/ /\ UNCHANGED streams /\ current \in 1..Len(streams)
                 /\ streams[current].pull = r.pull
                 /\ streams[current].heard.phase = "start"
                 /\ Told(r, streams[current].says)
              \/ \E x \in Sources, says \in Says :
                    /\ streams' = Append(streams, x) /\ Told(r, says)
                    /\ x = [pull |-> r.pull, kind |-> r.kind, service |-> 1,
                            phase |-> "prepare", thread |-> Pull!Preparing(1), heard |-> r,
                            says |-> says, over |-> FALSE]
                    /\ says.id = Len(streams) + 1 /\ says.ok /\ says.phase = "prepare"
                    /\ ~says.over
<1>1. r \in Requests /\ 1 \in Pull!Services /\ streams \in Seq(Sources)
  BY DEF Typed, TypeOK, DaemonOK, Pull!PullAssumption
<1>2. UNCHANGED <<version, handlers, removing, place, pulls, edits, losses>>
      /\ cursors' = cursors \ {r}
  BY DEF Pull!Start, Pull!diskPart
<1>3. puller \in Pullers /\ PluginOK BY DEF Typed, TypeOK, PluginOK
<1>4. CASE current # 0 /\ streams[current].pull = r.pull
        /\ streams[current].heard.phase = "start"
  <2>1. Pull!Answers(r, streams[current].says) /\ UNCHANGED <<streams, current>>
    BY <1>4 DEF Pull!Start
  <2>2. current \in 1..Len(streams) /\ streams[current].says \in Says
    <3>1. current \in 1..Len(streams) BY <1>4 DEF Typed, TypeOK, DaemonOK
    <3> QED BY <3>1, StreamIs
  <2>3. puller' \in Pullers /\ Keeps /\ Told(r, streams[current].says)
    BY <1>3, <2>1, <2>2, AnswersIs DEF Keeps, Told
  <2> QED BY <1>2, <1>3, <1>4, <2>1, <2>2, <2>3, KeepsType DEF Typed, TypeOK, DaemonOK
<1>5. CASE ~(current # 0 /\ streams[current].pull = r.pull
             /\ streams[current].heard.phase = "start")
  <2> DEFINE says ==
        [Pull!Fail EXCEPT !.id = Len(streams) + 1, !.ok = TRUE, !.phase = "prepare"]
             x == [pull |-> r.pull, kind |-> r.kind, service |-> 1, phase |-> "prepare",
                   thread |-> Pull!Preparing(1), heard |-> r, says |-> says, over |-> FALSE]
  <2>1. /\ streams' = Append(streams, x) /\ current' = Len(streams) + 1
        /\ Pull!Answers(r, says)
    BY <1>5 DEF Pull!Start
  <2>2. /\ says \in Says /\ says.id = Len(streams) + 1 /\ says.ok /\ says.phase = "prepare"
        /\ ~says.over
    <3>1. Len(streams) + 1 \in Nat BY <1>1
    <3> QED BY <3>1, OpeningIs
  <2> HIDE DEF says
  <2>3. x \in Sources BY <1>1, <2>2, PreparingIs DEF Sources, Requests, Phases
  <2>4. puller' \in Pullers /\ Keeps /\ Told(r, says)
    BY <1>3, <2>1, <2>2, AnswersIs DEF Keeps, Told
  <2>5. /\ x = [pull |-> r.pull, kind |-> r.kind, service |-> 1, phase |-> "prepare",
                thread |-> Pull!Preparing(1), heard |-> r, says |-> says, over |-> FALSE]
        /\ \E q \in Sources : x = q
    BY <2>3
  <2> HIDE DEF x
  <2>6. streams' \in Seq(Sources) /\ Len(streams') = Len(streams) + 1 BY <1>1, <2>1, <2>3
  <2>7. handlers \subseteq [r : Requests, id : 1..Len(streams')]
    BY <1>1, <2>6 DEF Typed, TypeOK, DaemonOK
  <2>8. TypeOK'
    BY <1>1, <1>2, <1>3, <2>1, <2>4, <2>6, <2>7, KeepsType DEF Typed, TypeOK, DaemonOK
  <2> QED BY <2>1, <2>2, <2>3, <2>4, <2>5, <2>8
<1> QED BY <1>4, <1>5

LEMMA FetchType ==
    ASSUME Typed, NEW r \in cursors, Pull!Fetch(r)
    PROVE  /\ TypeOK' /\ Keeps /\ Asked' \subseteq Asked
           /\ puller'.answer = puller.answer \/ ~puller'.answer.ok
<1>1. UNCHANGED <<version, streams, current, removing, place, pulls, edits, losses>>
      /\ cursors' = cursors \ {r}
  BY DEF Pull!Fetch, Pull!diskPart
<1>2. puller \in Pullers /\ PluginOK /\ r \in Requests
  BY DEF Typed, TypeOK, PluginOK, DaemonOK
<1>3. CASE current = 0
  <2>1. Pull!Answers(r, Pull!Fail) /\ UNCHANGED handlers BY <1>3 DEF Pull!Fetch
  <2>2. /\ puller' \in Pullers /\ Keeps
        /\ puller'.answer = puller.answer \/ ~puller'.answer.ok
    BY <1>2, <2>1, AnswersIs, FailIs DEF Keeps
  <2> QED BY <1>1, <1>2, <2>1, <2>2, KeepsType DEF Typed, TypeOK, DaemonOK, Asked
<1>4. CASE current # 0
  <2> DEFINE h == [r |-> r, id |-> current]
  <2>1. handlers' = handlers \cup {h} /\ UNCHANGED puller BY <1>4 DEF Pull!Fetch
  <2>2. h.r = r /\ h \in [r : Requests, id : 1..Len(streams)]
    BY <1>2, <1>4 DEF Typed, TypeOK, DaemonOK
  <2> HIDE DEF h
  <2>3. DaemonOK' BY <1>1, <2>1, <2>2 DEF Typed, TypeOK, DaemonOK
  <2>4. Asked' \subseteq Asked BY <1>1, <2>1, <2>2 DEF Asked
  <2> QED BY <1>1, <1>2, <2>1, <2>3, <2>4 DEF Typed, TypeOK, PluginOK, CallOK, Keeps
<1> QED BY <1>3, <1>4

LEMMA RemoveType ==
    ASSUME Typed, NEW f \in removing, Pull!Remove(f)
    PROVE  /\ TypeOK' /\ Keeps /\ Asked' = Asked
           /\ puller'.answer = puller.answer \/ ~puller'.answer.ok
<1>1. /\ UNCHANGED <<version, streams, handlers, cursors, place, pulls, edits, losses>>
      /\ removing' = removing \ {f} /\ current' \in {0, current} /\ Pull!Answers(f.r, Pull!Fail)
  BY DEF Pull!Remove, Pull!diskPart
<1>2. puller \in Pullers /\ PluginOK BY DEF Typed, TypeOK, PluginOK
<1>3. /\ puller' \in Pullers /\ Keeps
      /\ puller'.answer = puller.answer \/ ~puller'.answer.ok
  BY <1>1, <1>2, AnswersIs, FailIs DEF Keeps
<1>4. DaemonOK' BY <1>1 DEF Typed, TypeOK, DaemonOK
<1> QED BY <1>1, <1>2, <1>3, <1>4, KeepsType DEF Typed, TypeOK, Asked


(* What a request at work comes to: nothing good; the answer that was kept; or the next
   phase. *)
Quietly == streams' = streams /\ (puller'.answer = puller.answer \/ ~puller'.answer.ok)
Kept(h) ==
    /\ streams' = streams /\ h.r.id = h.id /\ h.r.pull = streams[h.id].pull
    /\ Same(streams[h.id].heard, h.r) /\ Told(h.r, streams[h.id].says)
Served(h, says) ==
    LET x == streams[h.id] IN
    /\ h.r.id = h.id /\ h.r.pull = x.pull /\ ~x.over /\ Pull!Wants(x, h.r) /\ Pull!Ready(x)
         /\ Pull!Good(x)
    /\ says.id = h.id /\ says.ok /\ says.phase = x.phase /\ says.data = Pull!Data(x)
    /\ says.over <=> x.service = ServiceCount /\ x.phase = Pull!LastPhase(x.kind)
    /\ streams' = [streams EXCEPT ![h.id] = Pull!Beyond(x, h.r, says)]
    /\ Told(h.r, says)

LEMMA HandlerIs ==
    ASSUME Typed, NEW h \in handlers
    PROVE  h.r \in Requests /\ h.id \in 1..Len(streams) /\ h.id \in Nat /\ h.r \in Asked
<1>1. h \in [r : Requests, id : 1..Len(streams)] /\ Len(streams) \in Nat
  BY DEF Typed, TypeOK, DaemonOK
<1> QED BY <1>1 DEF Asked

LEMMA AnswerIs ==
    ASSUME Typed, NEW id \in Nat, NEW x \in Sources
    PROVE  LET says == [id |-> id, ok |-> TRUE, phase |-> x.phase, data |-> Pull!Data(x),
                        over |-> x.service = ServiceCount
                          /\ x.phase = Pull!LastPhase(x.kind)] IN
           /\ says \in Says /\ says.id = id /\ says.ok /\ says.phase = x.phase
           /\ says.data = Pull!Data(x)
           /\ says.over <=> x.service = ServiceCount /\ x.phase = Pull!LastPhase(x.kind)
<1>1. x.service \in Pull!Services /\ x.phase \in Phases /\ x.thread.gen \in Nat
  BY DEF Sources, Threads
<1>2. version[x.service] \in Nat BY <1>1 DEF Typed, TypeOK
<1>3. Pull!Data(x) \in Nat BY <1>1, <1>2 DEF Pull!Data
<1> DEFINE over == x.service = ServiceCount /\ x.phase = Pull!LastPhase(x.kind)
<1>4. over \in BOOLEAN OBVIOUS
<1> HIDE DEF over
<1>5. [id |-> id, ok |-> TRUE, phase |-> x.phase, data |-> Pull!Data(x), over |-> over] \in Says
  BY <1>1, <1>3, <1>4 DEF Says
<1> QED BY <1>5 DEF over

LEMMA ServeType ==
    ASSUME Typed, \A i \in 1..Len(streams) : StreamHolds(i), KindsHold,
           NEW h \in handlers, Pull!Serve(h)
    PROVE  /\ TypeOK' /\ Keeps /\ Asked' \subseteq Asked /\ Len(streams') = Len(streams)
           /\ Quietly \/ Kept(h) \/ \E says \in Says : Served(h, says)
<1> DEFINE x == streams[h.id]
           r == h.r
           says == [id |-> h.id, ok |-> TRUE, phase |-> x.phase, data |-> Pull!Data(x),
                    over |-> x.service = ServiceCount /\ x.phase = Pull!LastPhase(x.kind)]
<1>1. r \in Requests /\ h.id \in 1..Len(streams) /\ h.id \in Nat /\ r \in Asked BY HandlerIs
<1>2. x \in Sources /\ x.says \in Says BY <1>1, StreamIs
<1>3. /\ says \in Says /\ says.id = h.id /\ says.ok /\ says.phase = x.phase
      /\ says.data = Pull!Data(x)
      /\ says.over <=> x.service = ServiceCount /\ x.phase = Pull!LastPhase(x.kind)
  BY <1>1, <1>2, AnswerIs
<1>4. /\ UNCHANGED <<version, current, cursors, place, pulls, edits, losses>>
      /\ handlers' = handlers \ {h}
  BY DEF Pull!Serve, Pull!diskPart
<1>5. Asked' \subseteq Asked BY <1>4 DEF Asked
<1>6. puller \in Pullers /\ PluginOK BY DEF Typed, TypeOK, PluginOK
<1>7. \/ Pull!Answers(r, Pull!Fail) /\ UNCHANGED <<streams, removing>>
      \/ /\ r.id = h.id /\ r.pull = x.pull /\ Same(x.heard, r)
         /\ Pull!Answers(r, x.says) /\ UNCHANGED <<streams, removing>>
      \/ /\ r.id = h.id /\ r.pull = x.pull /\ ~x.over /\ Pull!Wants(x, r) /\ Pull!Ready(x) /\ Pull!Good(x)
         /\ streams' = [streams EXCEPT ![h.id] = Pull!Beyond(x, r, says)]
         /\ Pull!Answers(r, says) /\ UNCHANGED removing
      \/ /\ removing' = removing \cup {[r |-> r, id |-> h.id, phase |-> x.phase]}
         /\ UNCHANGED <<streams, puller>>
  <2> HIDE DEF says
  <2> QED BY DEF Pull!Serve, Same, says
<1> HIDE DEF says
<1>8. ASSUME NEW a \in Says, Pull!Answers(r, a)
      PROVE  PluginOK' /\ Keeps /\ Told(r, a)
  <2>1. puller' \in Pullers /\ Keeps /\ Told(r, a) BY <1>6, <1>8, AnswersIs DEF Keeps, Told
  <2> QED BY <1>4, <1>6, <2>1, KeepsType
<1>9. CASE Pull!Answers(r, Pull!Fail) /\ UNCHANGED <<streams, removing>>
  <2>1. DaemonOK' /\ Quietly
    BY <1>4, <1>8, <1>9, FailIs DEF Typed, TypeOK, DaemonOK, Quietly, Told
  <2> QED BY <1>4, <1>5, <1>8, <1>9, <2>1, FailIs DEF Typed, TypeOK
<1>10. CASE /\ r.id = h.id /\ r.pull = x.pull /\ Same(x.heard, r)
            /\ Pull!Answers(r, x.says) /\ UNCHANGED <<streams, removing>>
  <2>1. DaemonOK' /\ Kept(h) BY <1>2, <1>4, <1>8, <1>10 DEF Typed, TypeOK, DaemonOK, Kept
  <2> QED BY <1>2, <1>4, <1>5, <1>8, <1>10, <2>1 DEF Typed, TypeOK
<1>11. CASE /\ r.id = h.id /\ r.pull = x.pull /\ ~x.over /\ Pull!Wants(x, r) /\ Pull!Ready(x) /\ Pull!Good(x)
            /\ streams' = [streams EXCEPT ![h.id] = Pull!Beyond(x, r, says)]
            /\ Pull!Answers(r, says) /\ UNCHANGED removing
  <2>1. Fits(x.phase, x.kind) /\ r.kind = x.kind BY <1>1, <1>11 DEF StreamHolds, KindsHold
  <2>2. Pull!Beyond(x, r, says) \in Sources BY <1>1, <1>2, <1>3, <1>11, <2>1, BeyondIs
  <2>3. streams' \in Seq(Sources) /\ Len(streams') = Len(streams)
    BY <1>1, <1>11, <2>2 DEF Typed, TypeOK, DaemonOK
  <2>4. DaemonOK' BY <1>4, <1>11, <2>3 DEF Typed, TypeOK, DaemonOK
  <2>5. Served(h, says) BY <1>3, <1>8, <1>11 DEF Served
  <2> QED BY <1>3, <1>4, <1>5, <1>8, <1>11, <2>3, <2>4, <2>5 DEF Typed, TypeOK
<1>12. CASE /\ removing' = removing \cup {[r |-> r, id |-> h.id, phase |-> x.phase]}
            /\ UNCHANGED <<streams, puller>>
  <2> DEFINE f == [r |-> r, id |-> h.id, phase |-> x.phase]
  <2>1. f \in [r : Requests, id : Nat, phase : Phases] BY <1>1, <1>2 DEF Sources
  <2> HIDE DEF f
  <2>2. removing' = removing \cup {f} BY <1>12 DEF f
  <2>3. DaemonOK' /\ PluginOK' /\ Keeps /\ Quietly
    BY <1>4, <1>12, <2>1, <2>2 DEF Typed, TypeOK, DaemonOK, PluginOK, CallOK, Keeps, Quietly
  <2> QED BY <1>4, <1>5, <1>12, <2>3 DEF Typed, TypeOK
<1> QED BY <1>7, <1>9, <1>10, <1>11, <1>12


(* What is staged with an answer. *)
LEMMA StageIs ==
    ASSUME puller \in Pullers, NEW a \in Says, NEW service \in Nat
    PROVE  /\ Pull!Stage(a, service) \in Seq(Staged)
           /\ a.phase = "prepare" /\ puller.call.phase # "start" =>
                 /\ Len(Pull!Stage(a, service)) = Len(puller.staged) + 1
                 /\ Pull!Stage(a, service)[Len(puller.staged) + 1].structure = a.data
                 /\ \A i \in 1..Len(puller.staged) :
                      Pull!Stage(a, service)[i] = puller.staged[i]
           /\ a.phase = "sources" =>
                 /\ Len(Pull!Stage(a, service)) = Len(puller.staged)
                 /\ \A i \in 1..Len(puller.staged) :
                       IF i = service THEN /\ Pull!Stage(a, service)[i].sources = a.data
                                           /\ Pull!Stage(a, service)[i].structure
                                              = puller.staged[i].structure
                       ELSE Pull!Stage(a, service)[i] = puller.staged[i]
           /\ a.phase \notin {"prepare", "sources"}
              \/ (a.phase = "prepare" /\ puller.call.phase = "start") =>
                 Pull!Stage(a, service) = puller.staged
<1>1. puller.staged \in Seq(Staged) /\ a.data \in Nat BY DEF Pullers, Says
<1>2. CASE a.phase = "prepare" /\ puller.call.phase # "start"
  <2> DEFINE e == [structure |-> a.data, sources |-> 0]
  <2>1. Pull!Stage(a, service) = Append(puller.staged, e) BY <1>2 DEF Pull!Stage
  <2>2. e \in Staged /\ e.structure = a.data BY <1>1 DEF Staged
  <2> HIDE DEF e
  <2> QED BY <1>1, <1>2, <2>1, <2>2
<1>3. CASE a.phase = "sources"
  <2>1. Pull!Stage(a, service) = [puller.staged EXCEPT ![service].sources = a.data]
    BY <1>3 DEF Pull!Stage
  <2>2. CASE service \in 1..Len(puller.staged)
    <3> DEFINE e == [puller.staged[service] EXCEPT !.sources = a.data]
    <3>1. puller.staged[service] \in Staged BY <1>1, <2>2
    <3>2. e \in Staged /\ e.sources = a.data /\ e.structure = puller.staged[service].structure
      BY <1>1, <3>1 DEF Staged
    <3>3. Pull!Stage(a, service) = [puller.staged EXCEPT ![service] = e] BY <1>1, <2>1, <2>2
    <3> HIDE DEF e
    <3> QED BY <1>1, <1>3, <2>2, <3>2, <3>3
  <2>3. CASE service \notin 1..Len(puller.staged)
    <3>1. Pull!Stage(a, service) = puller.staged BY <1>1, <2>1, <2>3
    <3> QED BY <1>1, <1>3, <2>3, <3>1
  <2> QED BY <2>2, <2>3
<1>4. CASE \/ a.phase \notin {"prepare", "sources"}
           \/ a.phase = "prepare" /\ puller.call.phase = "start"
  <2>1. Pull!Stage(a, service) = puller.staged BY <1>4 DEF Pull!Stage
  <2> QED BY <1>1, <1>4, <2>1
<1> QED BY <1>2, <1>3, <1>4

(* A good answer: the pull is given up, or all is staged, or the next phase is asked for. *)
Further(service, phase) ==
    LET call == puller.call
        started == call.phase = "start"
    IN /\ service = IF ~started /\ puller.answer.phase = Pull!LastPhase(puller.kind)
                    THEN call.service + 1 ELSE call.service
       /\ phase = IF started THEN "prepare"
            ELSE Pull!PhaseAfter(puller.answer.phase, puller.kind)

LEMMA AcceptsIs ==
    ASSUME Typed, Pull!Accepts
    PROVE  /\ TypeOK' /\ puller.at = "pulling" /\ puller.call \in Requests
           /\ puller.answer \in Says /\ puller.answer # None /\ puller.answer.ok
           /\ puller'.pull = puller.pull
           /\ \/ Pull!Gone /\ cursors' = cursors
              \/ /\ puller'.at = "applying" /\ puller'.applied = 0
                 /\ puller'.staged = Pull!Stage(puller.answer, puller.call.service)
                 /\ cursors' = cursors /\ puller.answer.over
              \/ \E service \in Nat, phase \in Phases :
                    /\ ~puller.answer.over /\ Further(service, phase)
                    /\ Started => puller.answer.id = puller.id
                    /\ puller'.at = "pulling" /\ puller'.kind = puller.kind
                    /\ puller'.id = puller.answer.id /\ puller'.answer = None
                    /\ puller'.staged = Pull!Stage(puller.answer, puller.call.service)
                    /\ puller'.call \in Requests
                    /\ puller'.call.pull = puller.pull /\ puller'.call.kind = puller.kind
                    /\ puller'.call.id = puller.answer.id
                    /\ puller'.call.service = service /\ puller'.call.phase = phase
                    /\ cursors' = cursors \cup {puller'.call}
<1> DEFINE a == puller.answer
           r == puller.call
           p == [puller EXCEPT !.id = a.id, !.staged = Pull!Stage(a, r.service)]
           started == r.phase = "start"
           service == IF ~started /\ a.phase = Pull!LastPhase(puller.kind)
                      THEN r.service + 1 ELSE r.service
           phase == IF started THEN "prepare" ELSE Pull!PhaseAfter(a.phase, puller.kind)
<1>1. /\ UNCHANGED <<version, streams, current, handlers, removing, place, pulls, edits, losses>>
      /\ puller.at = "pulling" /\ puller.answer # None /\ puller.answer.ok
  BY DEF Pull!Accepts, Pull!diskPart, Pull!daemonPart
<1>2. /\ puller \in Pullers /\ r \in Requests /\ a \in Says /\ r.service \in Nat
      /\ a.id \in Nat
  BY <1>1 DEF Typed, TypeOK, PluginOK, CallOK, Pullers, Requests, Says
<1>3. /\ p \in Pullers /\ p.at = "pulling" /\ p.pull = puller.pull /\ p.kind = puller.kind
      /\ p.id = a.id /\ p.staged = Pull!Stage(a, r.service) /\ p.call = r
  <2>1. Pull!Stage(a, r.service) \in Seq(Staged) BY <1>2, StageIs
  <2> QED BY <1>1, <1>2, <2>1 DEF Pullers
<1>4. service \in Nat /\ phase \in Phases /\ Further(service, phase)
  BY <1>2 DEF Phases, Pull!PhaseAfter, Further
<1>5. \/ Pull!Gone /\ cursors' = cursors
      \/ /\ a.over /\ cursors' = cursors
         /\ puller' = [p EXCEPT !.at = "applying", !.applied = 0, !.answer = None]
      \/ ~a.over /\ (Started => a.id = puller.id) /\ Pull!Sends(p, service, phase)
  <2> HIDE DEF p
  <2> QED BY DEF Pull!Accepts, Started, p
<1> HIDE DEF p, service, phase
<1>6. CASE Pull!Gone /\ cursors' = cursors
  BY <1>1, <1>2, <1>6, GoneIs DEF Typed, TypeOK, DaemonOK, PluginOK, CallOK
<1>7. CASE /\ a.over /\ cursors' = cursors
           /\ puller' = [p EXCEPT !.at = "applying", !.applied = 0, !.answer = None]
  <2>1. /\ puller' \in Pullers /\ puller'.at = "applying" /\ puller'.applied = 0
        /\ puller'.staged = p.staged /\ puller'.pull = p.pull
    <3>1. 0 \in 0..ServiceCount BY DEF Typed, Pull!PullAssumption
    <3> QED BY <1>3, <1>7, <3>1 DEF Pullers
  <2> QED BY <1>1, <1>2, <1>3, <1>7, <2>1 DEF Typed, TypeOK, DaemonOK, PluginOK, CallOK
<1>8. CASE ~a.over /\ (Started => a.id = puller.id) /\ Pull!Sends(p, service, phase)
  <2>1. /\ puller' \in Pullers /\ puller'.call \in Requests
        /\ puller'.at = p.at /\ puller'.pull = p.pull /\ puller'.kind = p.kind
        /\ puller'.id = p.id /\ puller'.staged = p.staged /\ puller'.answer = None
        /\ puller'.call = [pull |-> p.pull, kind |-> p.kind, id |-> p.id,
                           service |-> service, phase |-> phase, try |-> 1]
        /\ cursors' = cursors \cup {puller'.call}
    BY <1>3, <1>4, <1>8, SendsIs
  <2>2. /\ puller'.call.pull = p.pull /\ puller'.call.kind = p.kind /\ puller'.call.id = p.id
        /\ puller'.call.service = service /\ puller'.call.phase = phase
    BY <2>1
  <2>3. TypeOK' BY <1>1, <1>3, <2>1 DEF Typed, TypeOK, DaemonOK, PluginOK, CallOK
  <2> QED BY <1>1, <1>2, <1>3, <1>4, <1>8, <2>1, <2>2, <2>3
<1> QED BY <1>5, <1>6, <1>7, <1>8

LEMMA PullIs ==
    ASSUME Typed, Pull!Pull
    PROVE  /\ TypeOK' /\ puller'.at = "pulling" /\ puller'.pull = pulls + 1
           /\ pulls' = pulls + 1 /\ puller.at = "idle"
           /\ puller'.id = 0 /\ puller'.staged = <<>> /\ puller'.answer = None
           /\ puller'.call \in Requests /\ puller'.call.phase = "start"
           /\ puller'.call.service = 1 /\ puller'.call.id = 0
           /\ puller'.call.pull = pulls + 1 /\ puller'.call.kind = puller'.kind
           /\ cursors' = cursors \cup {puller'.call}
           /\ UNCHANGED <<version, streams, current, handlers, removing, place, edits, losses>>
<1>1. /\ UNCHANGED <<version, streams, current, handlers, removing, place, edits, losses>>
      /\ puller.at = "idle" /\ pulls' = pulls + 1
  BY DEF Pull!Pull, Pull!diskPart, Pull!daemonPart
<1>2. puller \in Pullers /\ pulls + 1 \in Nat /\ <<>> \in Seq(Staged)
  BY DEF Typed, TypeOK, PluginOK
<1>3. PICK kind \in Pull!Kinds :
         Pull!Sends([puller EXCEPT !.at = "pulling", !.pull = pulls + 1, !.kind = kind,
                     !.id = 0,
                                   !.dirty = FALSE, !.staged = <<>>], 1, "start")
  BY DEF Pull!Pull
<1> DEFINE p == [puller EXCEPT !.at = "pulling", !.pull = pulls + 1, !.kind = kind, !.id = 0,
                               !.dirty = FALSE, !.staged = <<>>]
<1>4. /\ p \in Pullers /\ p.at = "pulling" /\ p.pull = pulls + 1 /\ p.kind = kind /\ p.id = 0
      /\ p.staged = <<>>
  BY <1>2 DEF Pullers
<1>5. Pull!Sends(p, 1, "start") BY <1>3
<1> HIDE DEF p
<1>6. /\ puller' \in Pullers /\ puller'.call \in Requests
      /\ puller'.at = p.at /\ puller'.pull = p.pull /\ puller'.kind = p.kind
      /\ puller'.id = p.id /\ puller'.staged = p.staged /\ puller'.answer = None
      /\ puller'.call = [pull |-> p.pull, kind |-> p.kind, id |-> p.id,
                         service |-> 1, phase |-> "start", try |-> 1]
      /\ cursors' = cursors \cup {puller'.call}
  BY <1>4, <1>5, SendsIs
<1>7. /\ puller'.call.pull = p.pull /\ puller'.call.kind = p.kind /\ puller'.call.id = p.id
      /\ puller'.call.service = 1 /\ puller'.call.phase = "start"
  BY <1>6
<1>8. TypeOK' BY <1>1, <1>2, <1>4, <1>6 DEF Typed, TypeOK, DaemonOK, PluginOK, CallOK
<1> QED BY <1>1, <1>4, <1>6, <1>7, <1>8

(* The same call once more, or the end of the pull. *)
LEMMA RetryIs ==
    ASSUME Typed, Pull!Refused \/ Pull!TimesOut
    PROVE  /\ TypeOK' /\ puller.at = "pulling" /\ puller.call \in Requests
           /\ puller'.pull = puller.pull
           /\ UNCHANGED <<version, streams, current, handlers, removing, place, pulls, edits>>
           /\ \/ Pull!Gone /\ cursors' = cursors
              \/ /\ puller'.at = puller.at /\ puller'.kind = puller.kind
                 /\ puller'.id = puller.id /\ puller'.staged = puller.staged
                 /\ puller'.answer = None /\ puller'.call \in Requests
                 /\ Same(puller'.call, puller.call)
                 /\ cursors' = cursors \cup {puller'.call}
<1>1. /\ UNCHANGED <<version, streams, current, handlers, removing, place, pulls, edits>>
      /\ puller.at = "pulling" /\ losses' \in Nat
  BY DEF Pull!Refused, Pull!TimesOut, Pull!diskPart, Pull!daemonPart, Typed, TypeOK
<1>2. puller \in Pullers /\ puller.call \in Requests
  BY <1>1 DEF Typed, TypeOK, PluginOK, CallOK
<1>3. Pull!Retries \/ (Pull!Gone /\ cursors' = cursors) BY DEF Pull!Refused, Pull!TimesOut
<1>4. CASE Pull!Gone /\ cursors' = cursors
  BY <1>1, <1>2, <1>4, GoneIs DEF Typed, TypeOK, DaemonOK, PluginOK, CallOK
<1>5. CASE Pull!Retries /\ ~(Pull!Gone /\ cursors' = cursors)
  <2>1. /\ puller' \in Pullers /\ puller'.call \in Requests
        /\ puller'.at = puller.at /\ puller'.pull = puller.pull
        /\ puller'.kind = puller.kind /\ puller'.id = puller.id
        /\ puller'.staged = puller.staged /\ puller'.answer = None
        /\ puller'.call = [puller.call EXCEPT !.try = 2]
        /\ cursors' = cursors \cup {puller'.call}
    BY <1>2, <1>5, RetriesIs
  <2>2. Same(puller'.call, puller.call) BY <1>2, <2>1 DEF Same, Requests
  <2>3. TypeOK' BY <1>1, <1>2, <2>1 DEF Typed, TypeOK, DaemonOK, PluginOK, CallOK
  <2> QED BY <1>1, <1>2, <2>1, <2>2, <2>3
<1> QED BY <1>3, <1>4, <1>5


LEMMA ApplyIs ==
    ASSUME Typed, StudioHolds, Pull!Apply
    PROVE  /\ TypeOK' /\ puller.at = "applying" /\ puller'.at = "applying"
           /\ puller'.pull = puller.pull /\ puller'.staged = puller.staged
           /\ puller.applied + 1 \in Pull!Services /\ puller'.applied = puller.applied + 1
           /\ puller'.call = IF puller.applied = 0 THEN place ELSE puller.call
           /\ UNCHANGED <<version, streams, current, handlers, removing, cursors, pulls>>
           /\ \A s \in Pull!Services : s # puller.applied + 1 => place'[s] = place[s]
           /\ place'[puller.applied + 1].pull = puller.pull
           /\ Whole(place'[puller.applied + 1])
<1> DEFINE s == puller.applied + 1
           e == [pull |-> puller.pull, structure |-> puller.staged[s].structure,
                 sources |-> puller.staged[s].sources]
           call == IF s = 1 THEN place ELSE puller.call
<1>1. /\ UNCHANGED <<version, streams, current, handlers, removing, cursors, pulls, edits, losses>>
      /\ puller.at = "applying" /\ puller.applied < ServiceCount
      /\ place' = [place EXCEPT ![s] = e]
      /\ puller' = [puller EXCEPT !.applied = s, !.call = IF s = 1 THEN place ELSE @]
  BY DEF Pull!Apply, Pull!diskPart, Pull!daemonPart
<1>2. /\ puller \in Pullers /\ place \in Written
      /\ puller.applied # 0 => puller.call \in Written
  BY <1>1 DEF Typed, TypeOK, PluginOK, CallOK
<1>3. s \in Pull!Services /\ s \in 0..ServiceCount /\ puller.applied \in Nat /\ puller.staged \in Seq(Staged)
      /\ puller.pull \in Nat
  BY <1>1, <1>2 DEF Typed, Pull!PullAssumption, Pullers
<1>4. puller.staged[s] \in Staged /\ Whole(puller.staged[s])
  <2>1. Len(puller.staged) = ServiceCount /\ \A t \in Pull!Services : Whole(puller.staged[t])
    BY <1>1 DEF StudioHolds
  <2> QED BY <1>3, <2>1
<1>5. e \in [pull : Nat, structure : Nat, sources : Nat] /\ e.pull = puller.pull /\ Whole(e)
  BY <1>3, <1>4 DEF Staged, Whole
<1>6. call \in Written /\ call = (IF puller.applied = 0 THEN place ELSE puller.call)
  BY <1>2, <1>3
<1>7. puller' = [puller EXCEPT !.applied = s, !.call = call] BY <1>1, <1>2 DEF Pullers
<1> HIDE DEF e, call
<1>8. /\ puller' \in Pullers /\ puller'.at = "applying" /\ puller'.pull = puller.pull
      /\ puller'.staged = puller.staged /\ puller'.applied = s /\ puller'.call = call
  <2> HIDE DEF s
  <2> QED BY <1>1, <1>2, <1>3, <1>6, <1>7 DEF Pullers
<1>9. /\ place' \in Written
      /\ \A t \in Pull!Services : t # s => place'[t] = place[t]
      /\ place'[s] = e
  BY <1>1, <1>2, <1>3, <1>5 DEF Written
<1>10. TypeOK' BY <1>1, <1>6, <1>8, <1>9 DEF Typed, TypeOK, DaemonOK, PluginOK, CallOK
<1> QED BY <1>1, <1>3, <1>5, <1>6, <1>8, <1>9, <1>10

(* The steps that end a recording, and what the user does to it. *)
LEMMA EndIs ==
    ASSUME Typed, Pull!Commit \/ Pull!Cancel \/ Pull!Touch
    PROVE  /\ TypeOK' /\ puller'.pull = puller.pull
           /\ UNCHANGED <<version, streams, current, handlers, removing, cursors, pulls>>
           /\ \/ /\ puller'.at = "idle" /\ puller.at = "applying"
                 /\ \/ puller.applied = ServiceCount /\ place' = place
                    \/ place' = IF puller.applied = 0 THEN place ELSE puller.call
              \/ puller'.at = "halted" /\ place' = place
              \/ Keeps /\ puller'.answer = puller.answer /\ place' = place
<1>1. /\ UNCHANGED <<version, streams, current, handlers, removing, cursors, pulls, edits>>
      /\ losses' \in Nat
  BY DEF Pull!Commit, Pull!Cancel, Pull!Touch, Pull!diskPart, Pull!daemonPart, Typed, TypeOK
<1>2. puller \in Pullers /\ place \in Written /\ CallOK BY DEF Typed, TypeOK, PluginOK
<1>3. CASE Pull!Touch
  <2>1. puller' = [puller EXCEPT !.dirty = TRUE] /\ place' = place BY <1>3 DEF Pull!Touch
  <2>2. puller' \in Pullers /\ Keeps /\ puller'.answer = puller.answer
    BY <1>2, <2>1 DEF Pullers, Keeps
  <2>3. PluginOK' BY <1>2, <2>1, <2>2 DEF PluginOK, CallOK, Keeps
  <2> QED BY <1>1, <2>1, <2>2, <2>3 DEF Typed, TypeOK, DaemonOK, Keeps
<1>4. CASE /\ puller.at = "applying" /\ Pull!Gone
           /\ \/ puller.applied = ServiceCount /\ place' = place
              \/ place' = IF puller.applied = 0 THEN place ELSE puller.call
  <2>1. puller' \in Pullers /\ puller'.at = "idle" /\ puller'.pull = puller.pull
    BY <1>2, <1>4, GoneIs
  <2>2. place' \in Written BY <1>2, <1>4 DEF CallOK
  <2>3. PluginOK' BY <2>1, <2>2 DEF PluginOK, CallOK
  <2> QED BY <1>1, <1>4, <2>1, <2>3 DEF Typed, TypeOK, DaemonOK
<1>5. CASE puller' = [puller EXCEPT !.at = "halted"] /\ place' = place
  <2>1. puller' \in Pullers /\ puller'.at = "halted" /\ puller'.pull = puller.pull
    BY <1>2, <1>5 DEF Pullers
  <2>2. PluginOK' BY <1>2, <1>5, <2>1 DEF PluginOK, CallOK
  <2> QED BY <1>1, <1>5, <2>1, <2>2 DEF Typed, TypeOK, DaemonOK
<1> QED BY <1>3, <1>4, <1>5 DEF Pull!Commit, Pull!Cancel

-------------------------------------------------------------------------------
(* The invariant is kept: frames. *)

(* Nothing is answered well, and streams only look at the disk. *)
SameStreams ==
    /\ Len(streams') = Len(streams)
    /\ \A i \in 1..Len(streams) :
          /\ streams'[i].pull = streams[i].pull /\ streams'[i].kind = streams[i].kind
          /\ streams'[i].service = streams[i].service /\ streams'[i].phase = streams[i].phase
          /\ streams'[i].heard = streams[i].heard /\ streams'[i].says = streams[i].says
          /\ streams'[i].over = streams[i].over
          /\ streams'[i].thread.gen = streams[i].thread.gen

LEMMA StudioFrame ==
    ASSUME StudioHolds, Keeps, place' = place
    PROVE  StudioHolds'
BY DEF StudioHolds, Keeps, Sound, Even

LEMMA PullsFrame ==
    ASSUME PullsHold, KindsHold, Len(streams') = Len(streams), Asked' \subseteq Asked,
           \A i \in 1..Len(streams) : /\ streams'[i].pull = streams[i].pull
                                      /\ streams'[i].kind = streams[i].kind,
           puller'.pull = puller.pull, pulls' = pulls
    PROVE  PullsHold' /\ KindsHold'
BY DEF PullsHold, KindsHold

LEMMA CallFrame ==
    ASSUME CallHolds, Keeps, Asked' \subseteq Asked
    PROVE  CallHolds'
BY DEF CallHolds, Keeps, Mine, Started

LEMMA QuietHolds ==
    ASSUME Typed, Holds, SameStreams, Keeps, Asked' \subseteq Asked, UNCHANGED <<place, pulls>>,
           puller'.answer = puller.answer \/ ~puller'.answer.ok
    PROVE  PullingHolds' /\ PullsHold' /\ KindsHold' /\ StudioHolds'
<1>1. PullsHold' /\ KindsHold' /\ StudioHolds'
  BY PullsFrame, StudioFrame DEF Holds, SameStreams, Keeps
<1>2. ASSUME puller.at = "pulling" PROVE PullingHolds'
  <2>1. CallHolds /\ OwnStreamHolds /\ AnswerHolds /\ StagedHolds
    BY <1>2 DEF Holds, PullingHolds
  <2>2. CallHolds' BY <2>1, CallFrame
  <2>3. OwnStreamHolds' /\ (Started => (Answered <=> Answered'))
    BY <2>1 DEF OwnStreamHolds, SameStreams, Keeps, Mine, Started, Answered, Awaits,
       Pull!Wants
  <2>4. AnswerHolds'
    BY <2>1, <2>3 DEF AnswerHolds, OwnStreamHolds, SameStreams, Keeps, Mine, Started
  <2>5. StagedHolds'
    <3>1. CASE puller.call.phase = "sources"
      <4>1. puller.id \in 1..Len(streams) BY <2>1, <3>1 DEF OwnStreamHolds, Started
      <4> QED BY <2>1, <3>1, <4>1 DEF StagedHolds, SameStreams, Keeps
    <3>2. CASE puller.call.phase # "sources" BY <2>1, <3>2 DEF StagedHolds, Keeps
    <3> QED BY <3>1, <3>2
  <2> QED BY <2>2, <2>3, <2>4, <2>5 DEF PullingHolds
<1>3. ASSUME puller.at # "pulling" PROVE PullingHolds' BY <1>3 DEF PullingHolds, Keeps
<1> QED BY <1>1, <1>2, <1>3


-------------------------------------------------------------------------------
(* The invariant is kept: the daemon. *)

LEMMA InitHolds == Pull!PullAssumption /\ Pull!Init => Holds
<1> SUFFICES ASSUME Pull!PullAssumption, Pull!Init PROVE Holds OBVIOUS
<1>1. /\ streams = <<>> /\ Len(streams) = 0 /\ Asked = {} /\ pulls = 0
      /\ puller.at = "idle" /\ puller.pull = 0
      /\ \A s \in Pull!Services : place[s] = [pull |-> 0, structure |-> 0, sources |-> 0]
  BY DEF Pull!Init, Asked
<1> QED BY <1>1 DEF Holds, PullingHolds, PullsHold, KindsHold, StudioHolds, Sound, Whole,
   Even

LEMMA StreamStays ==
    ASSUME NEW i, StreamHolds(i), streams'[i] = streams[i], version' = version
    PROVE  StreamHolds(i)'
BY DEF StreamHolds, ThreadHolds, Begun, Passed, Fits

LEMMA EditHolds ==
    ASSUME Typed, Holds, NEW s \in Pull!Services, Pull!Edit(s)
    PROVE  TypeOK' /\ Holds'
<1>1. /\ UNCHANGED <<streams, current, handlers, removing, cursors, puller, place, pulls, losses>>
      /\ version' = [version EXCEPT ![s] = @ + 1] /\ edits' = edits + 1
  BY DEF Pull!Edit, Pull!daemonPart, Pull!pluginPart
<1>2. /\ version' \in [Pull!Services -> Nat]
      /\ \A t \in Pull!Services : version[t] \in Nat /\ version[t] <= version'[t]
  BY <1>1 DEF Typed, TypeOK
<1>3. TypeOK' BY <1>1, <1>2 DEF Typed, TypeOK, DaemonOK, PluginOK, CallOK
<1>4. ASSUME NEW i \in 1..Len(streams) PROVE StreamHolds(i)'
  <2>1. /\ streams[i].service \in Pull!Services /\ streams[i].thread.gen \in Nat
        /\ streams[i].thread.files \in Nat
    BY StreamIs DEF Sources, Threads
  <2>2. ThreadHolds(streams[i])'
    BY SMTT(60), <1>1, <1>2, <2>1 DEF Holds, StreamHolds, ThreadHolds
  <2> QED BY <1>1, <2>2 DEF Holds, StreamHolds, Begun, Passed, Fits
<1>5. SameStreams /\ Keeps /\ Asked' \subseteq Asked BY <1>1 DEF SameStreams, Keeps, Asked
<1> QED BY <1>1, <1>3, <1>4, <1>5, QuietHolds DEF Holds

LEMMA ThreadHoldsOn ==
    ASSUME Typed, Holds, NEW id \in 1..Len(streams), Pull!Thread(id) \/ Pull!Again(id)
    PROVE  TypeOK' /\ Holds'
<1>1. /\ TypeOK' /\ Len(streams') = Len(streams)
      /\ \A i \in 1..Len(streams) : i # id => streams'[i] = streams[i]
  BY ThreadType
<1>2. UNCHANGED <<version, current, handlers, removing, cursors, puller, place, pulls>>
  BY DEF Pull!Thread, Pull!Again, Pull!diskPart, Pull!pluginPart
<1>3. streams[id] \in Sources /\ StreamHolds(id) /\ ThreadHolds(streams[id])
  BY StreamIs DEF Holds, StreamHolds
<1>4. PICK t \in Threads :
         /\ streams' = [streams EXCEPT ![id].thread = t]
         /\ t.gen = streams[id].thread.gen
         /\ t.at = "ready" =>
               t.gen <= t.files /\ t.files <= version[streams[id].service]
         /\ t.fp # 0 => t.at = "ready" /\ t.files <= t.fp
         /\ streams[id].thread.at = "ready" => t.at = "ready"
  <2>1. CASE Pull!Thread(id) BY <1>3, <2>1, ThreadIs
  <2>2. CASE Pull!Again(id)
    <3>1. PICK t \in Threads :
             /\ streams' = [streams EXCEPT ![id].thread = t]
             /\ t.gen = streams[id].thread.gen /\ t.at = streams[id].thread.at
             /\ t.files = streams[id].thread.files /\ t.fp = streams[id].thread.fp
      BY <2>2, AgainIs
    <3> QED BY <1>3, <3>1 DEF ThreadHolds
  <2> QED BY <2>1, <2>2
<1> DEFINE y == [streams[id] EXCEPT !.thread = t]
<1>5. /\ y.thread = t
      /\ y.pull = streams[id].pull /\ y.kind = streams[id].kind
      /\ y.service = streams[id].service /\ y.phase = streams[id].phase
      /\ y.heard = streams[id].heard /\ y.says = streams[id].says /\ y.over = streams[id].over
  BY <1>3, WithThread
<1>6. streams'[id] = y BY <1>4 DEF Typed, TypeOK, DaemonOK
<1> HIDE DEF y
<1>7. SameStreams /\ Keeps /\ Asked' \subseteq Asked
  BY <1>1, <1>2, <1>4, <1>5, <1>6 DEF SameStreams, Keeps, Asked
<1>8. ASSUME NEW i \in 1..Len(streams) PROVE StreamHolds(i)'
  <2>1. CASE i # id BY <1>1, <1>2, <2>1, StreamStays DEF Holds
  <2>2. CASE i = id
    <3>1. ThreadHolds(streams[id])' BY <1>2, <1>3, <1>4, <1>5, <1>6 DEF ThreadHolds
    <3> QED BY <1>3, <1>4, <1>5, <1>6, <2>2, <3>1 DEF StreamHolds, Begun, Passed, Fits
  <2> QED BY <2>1, <2>2
<1> QED BY <1>1, <1>2, <1>7, <1>8, QuietHolds DEF Holds

LEMMA FetchHolds ==
    ASSUME Typed, Holds, NEW r \in cursors, Pull!Fetch(r)
    PROVE  TypeOK' /\ Holds'
<1>1. /\ TypeOK' /\ Keeps /\ Asked' \subseteq Asked
      /\ puller'.answer = puller.answer \/ ~puller'.answer.ok
  BY FetchType
<1>2. UNCHANGED <<version, streams, place, pulls>> BY DEF Pull!Fetch, Pull!diskPart
<1>3. SameStreams /\ \A i \in 1..Len(streams') : StreamHolds(i)'
  BY <1>2, StreamStays DEF SameStreams, Holds
<1> QED BY <1>1, <1>2, <1>3, QuietHolds DEF Holds

LEMMA RemoveHolds ==
    ASSUME Typed, Holds, NEW f \in removing, Pull!Remove(f)
    PROVE  TypeOK' /\ Holds'
<1>1. /\ TypeOK' /\ Keeps /\ Asked' \subseteq Asked
      /\ puller'.answer = puller.answer \/ ~puller'.answer.ok
  BY RemoveType
<1>2. UNCHANGED <<version, streams, place, pulls>> BY DEF Pull!Remove, Pull!diskPart
<1>3. SameStreams /\ \A i \in 1..Len(streams') : StreamHolds(i)'
  BY <1>2, StreamStays DEF SameStreams, Holds
<1> QED BY <1>1, <1>2, <1>3, QuietHolds DEF Holds

LEMMA ExpireHolds ==
    ASSUME Typed, Holds, Pull!Expire
    PROVE  TypeOK' /\ Holds'
<1>1. /\ UNCHANGED <<version, streams, handlers, removing, cursors, puller, place, pulls, edits>>
      /\ current' = 0 /\ losses' = losses + 1
  BY DEF Pull!Expire, Pull!diskPart
<1>2. TypeOK' BY <1>1 DEF Typed, TypeOK, DaemonOK, PluginOK, CallOK
<1>3. /\ SameStreams /\ Keeps /\ Asked' \subseteq Asked
      /\ \A i \in 1..Len(streams') : StreamHolds(i)'
  BY <1>1, StreamStays DEF SameStreams, Keeps, Asked, Holds
<1> QED BY <1>1, <1>2, <1>3, QuietHolds DEF Holds


(* A stream that has gone on is beyond what it has answered. *)
LEMMA PassedIsBeyond ==
    ASSUME NEW x \in Sources, NEW r \in Requests, r.phase \in Phases, r.kind = x.kind,
           Fits(r.phase, x.kind), Passed(x, r), ~x.over
    PROVE  4 * x.service + No(x.phase) > Place(r)
<1>1. /\ ~Ends(r) /\ r.service \in Nat /\ x.kind \in {"full", "selective"}
      /\ x.service = IF r.phase = Pull!LastPhase(r.kind) THEN r.service + 1 ELSE r.service
      /\ x.phase = Pull!PhaseAfter(r.phase, r.kind)
  BY DEF Passed, Requests, Sources
<1>2. CASE r.phase = Pull!LastPhase(r.kind)
  <2>1. x.phase = "prepare" /\ r.phase \in {"checked", "deletes"}
    BY <1>1, <1>2 DEF Pull!PhaseAfter, Pull!LastPhase
  <2>2. No(x.phase) = 0 /\ No(r.phase) \in {2, 3} /\ x.service = r.service + 1
    BY <1>1, <1>2, <2>1 DEF No
  <2> QED BY <1>1, <2>2 DEF Place
<1>3. CASE r.phase # Pull!LastPhase(r.kind)
  <2>1. \/ r.phase = "prepare" /\ x.phase = "sources"
        \/ r.phase = "sources" /\ x.phase = "checked"
        \/ r.phase = "checked" /\ x.phase = "deletes"
    BY <1>1, <1>3 DEF Pull!PhaseAfter, Pull!LastPhase, Fits, Phases
  <2>2. No(x.phase) = No(r.phase) + 1 /\ No(r.phase) \in {0, 1, 2} /\ x.service = r.service
    BY <1>1, <1>3, <2>1 DEF No
  <2> QED BY <1>1, <2>2 DEF Place
<1> QED BY <1>2, <1>3

(* The answer that was kept is the answer to the call. *)
LEMMA KeptHolds ==
    ASSUME Typed, Holds, NEW h \in handlers, Kept(h), Keeps, Asked' \subseteq Asked,
           UNCHANGED <<version, place, pulls>>
    PROVE  Holds'
<1>1. h.r \in Requests /\ h.id \in 1..Len(streams) /\ streams' = streams
  BY HandlerIs DEF Kept
<1>2. CASE puller'.answer = puller.answer
  BY <1>1, <1>2, QuietHolds, StreamStays DEF Holds, SameStreams
<1>3. CASE puller.call = h.r /\ puller'.answer = streams[h.id].says
  <2>1. PullsHold' /\ KindsHold' /\ StudioHolds'
    BY <1>1, PullsFrame, StudioFrame DEF Holds, Keeps
  <2>2. ASSUME puller.at = "pulling" PROVE PullingHolds'
    <3>1. CallHolds /\ OwnStreamHolds /\ StagedHolds BY <2>2 DEF Holds, PullingHolds
    <3>2. CallHolds' BY <3>1, CallFrame
    <3>3. Started /\ puller.id = h.id BY <1>1, <1>3, <3>1 DEF CallHolds, Kept
    <3>4. Answered /\ puller'.answer = streams[puller.id].says
      BY <1>3, <3>3 DEF Kept, Answered
    <3>5. OwnStreamHolds' /\ AnswerHolds' /\ StagedHolds'
      BY <1>1, <3>1, <3>3, <3>4 DEF OwnStreamHolds, AnswerHolds, StagedHolds, Keeps, Mine,
         Started, Answered, Awaits, Pull!Wants
    <3> QED BY <3>2, <3>5 DEF PullingHolds
  <2>3. ASSUME puller.at # "pulling" PROVE PullingHolds' BY <2>3 DEF PullingHolds, Keeps
  <2> QED BY <1>1, <2>1, <2>2, <2>3, StreamStays DEF Holds
<1> QED BY <1>2, <1>3 DEF Kept, Told

(* The next phase: structure and sources of a service are one version. *)
LEMMA ServedStream ==
    ASSUME Typed, Holds, NEW h \in handlers, NEW says \in Says, Served(h, says),
           UNCHANGED version
    PROVE  /\ StreamHolds(h.id)' /\ Len(streams') = Len(streams)
           /\ \A i \in 1..Len(streams) : i # h.id => streams'[i] = streams[i]
           /\ LET x == streams[h.id]
                  y == streams'[h.id]
              IN /\ y.pull = x.pull /\ y.kind = x.kind /\ y.heard = h.r /\ y.says = says
                 /\ h.r.kind = x.kind /\ h.r.phase \in Phases
                 /\ x.phase = "sources" => y.thread.gen = x.thread.gen
<1> DEFINE x == streams[h.id]
           y == Pull!Beyond(x, h.r, says)
<1>1. h.r \in Requests /\ h.id \in 1..Len(streams) /\ h.r \in Asked BY HandlerIs
<1>2. x \in Sources /\ x.thread \in Threads /\ version[x.service] \in Nat BY <1>1, StreamIs
<1>3. StreamHolds(h.id) /\ h.r.kind = x.kind BY <1>1 DEF Holds, KindsHold, Served
<1>4. /\ y \in Sources /\ y.pull = x.pull /\ y.kind = x.kind
      /\ y.heard = h.r /\ y.says = says
      /\ Passed(y, h.r) /\ Fits(y.phase, y.kind)
      /\ \/ /\ y.service = x.service
            /\ y.thread.gen = x.thread.gen /\ y.thread.at = x.thread.at
            /\ y.thread.files = x.thread.files /\ y.thread.fp = x.thread.fp
         \/ /\ y.phase = "prepare" /\ x.phase \notin {"prepare", "sources"}
            /\ y.thread = Pull!Preparing(y.service)
  BY <1>1, <1>2, <1>3, BeyondIs DEF Served, StreamHolds
<1>5. /\ streams'[h.id] = y /\ Len(streams') = Len(streams)
      /\ \A i \in 1..Len(streams) : i # h.id => streams'[i] = streams[i]
  BY <1>1, <1>4 DEF Served, Typed, TypeOK, DaemonOK
<1>6. /\ x.phase \in Phases /\ y.phase \in Phases /\ y.service \in Pull!Services
      /\ x.thread.gen \in Nat /\ x.thread.files \in Nat /\ x.thread.fp \in Nat
  BY <1>2, <1>4 DEF Sources, Threads
<1> HIDE DEF y
<1>7. /\ h.r.service = x.service /\ h.r.phase = x.phase /\ Pull!Ready(x) /\ Pull!Good(x)
      /\ says.phase = x.phase /\ says.data = Pull!Data(x) /\ says.id = h.id
      /\ says.over <=> x.service = ServiceCount /\ x.phase = Pull!LastPhase(x.kind)
      /\ h.r.pull = x.pull
  BY DEF Served, Pull!Wants
<1>8. ThreadHolds(x) BY <1>3 DEF StreamHolds
<1>9. /\ x.phase = "prepare" => Pull!Data(x) = x.thread.gen /\ x.thread.at = "ready"
      /\ x.phase = "sources" => Pull!Data(x) = x.thread.gen
  <2>1. CASE x.phase = "prepare" BY <1>7, <2>1 DEF Pull!Data, Pull!Good
  <2>2. CASE x.phase = "sources"
    <3>1. /\ x.thread.fp # 0 /\ x.thread.fp = x.thread.gen
          /\ version[x.service] = x.thread.files /\ Pull!Data(x) = version[x.service]
      BY <1>7, <2>2 DEF Pull!Data, Pull!Good, Pull!Ready
    <3>2. x.thread.gen <= x.thread.files /\ x.thread.files <= x.thread.fp
      BY <1>8, <3>1 DEF ThreadHolds
    <3> QED BY <1>6, <2>2, <3>1, <3>2
  <2> QED BY <2>1, <2>2
<1>10. /\ y.thread.gen <= version[y.service]
       /\ y.thread.at = "ready" =>
             y.thread.gen <= y.thread.files /\ y.thread.files <= version[y.service]
       /\ y.thread.fp # 0 => y.thread.at = "ready" /\ y.thread.files <= y.thread.fp
       /\ y.phase # "prepare" => y.thread.at = "ready"
  <2>1. CASE y.thread = Pull!Preparing(y.service) /\ y.phase = "prepare"
    <3>1. /\ Pull!Preparing(y.service).at = "emitting" /\ Pull!Preparing(y.service).fp = 0
          /\ Pull!Preparing(y.service).gen = version[y.service]
      BY <1>6, PreparingIs
    <3>2. version[y.service] \in Nat BY <1>6 DEF Typed, TypeOK
    <3> QED BY <2>1, <3>1, <3>2
  <2>2. CASE ~(y.thread = Pull!Preparing(y.service) /\ y.phase = "prepare")
    BY <1>4, <1>8, <1>9, <2>2 DEF ThreadHolds
  <2> QED BY <2>1, <2>2
<1>11. StreamHolds(h.id)'
  <2>1. ThreadHolds(streams[h.id])' BY <1>5, <1>10 DEF ThreadHolds
  <2>2. h.r.phase # "start" /\ Fits(h.r.phase, x.kind) /\ (says.over <=> Ends(h.r))
    BY <1>3, <1>6, <1>7 DEF Phases, StreamHolds, Ends
  <2>3. h.r.phase \in {"prepare", "sources"} => says.data = y.thread.gen BY <1>4, <1>7, <1>9
  <2>4. Passed(streams[h.id], h.r)' BY <1>4, <1>5 DEF Passed, Ends
  <2> QED BY <1>3, <1>4, <1>5, <1>7, <2>1, <2>2, <2>3, <2>4 DEF StreamHolds, Passed, Ends,
     Fits
<1> QED BY <1>3, <1>4, <1>5, <1>6, <1>7, <1>11


LEMMA ServedHolds ==
    ASSUME Typed, Holds, NEW h \in handlers, NEW says \in Says, Served(h, says), Keeps,
           Asked' \subseteq Asked, UNCHANGED <<version, place, pulls>>
    PROVE  Holds'
<1> DEFINE x == streams[h.id]
           y == streams'[h.id]
           r == h.r
<1>1. r \in Requests /\ h.id \in 1..Len(streams) /\ r \in Asked /\ x \in Sources
  BY HandlerIs, StreamIs
<1>2. /\ StreamHolds(h.id)' /\ Len(streams') = Len(streams)
      /\ \A i \in 1..Len(streams) : i # h.id => streams'[i] = streams[i]
  BY ServedStream
<1>3. /\ y.pull = x.pull /\ y.kind = x.kind /\ y.heard = r /\ y.says = says
      /\ r.kind = x.kind /\ r.phase \in Phases
      /\ x.phase = "sources" => y.thread.gen = x.thread.gen
  BY ServedStream
<1>4. /\ r.id = h.id /\ r.pull = x.pull /\ ~x.over /\ r.service = x.service /\ r.phase = x.phase
      /\ says.id = h.id /\ says.ok /\ Told(r, says)
  BY DEF Served, Pull!Wants
<1>5. PullsHold' /\ KindsHold' /\ StudioHolds'
  <2>1. \A i \in 1..Len(streams) : streams'[i].pull = streams[i].pull
                                   /\ streams'[i].kind = streams[i].kind
    BY <1>1, <1>2, <1>3
  <2> QED BY <1>2, <2>1, PullsFrame, StudioFrame DEF Holds, Keeps
<1>6. ASSUME NEW i \in 1..Len(streams') PROVE StreamHolds(i)'
  BY <1>1, <1>2, StreamStays DEF Holds
<1>7. ASSUME puller.at = "pulling" PROVE PullingHolds'
  <2>1. CallHolds /\ OwnStreamHolds /\ AnswerHolds /\ StagedHolds /\ puller.call \in Requests
    BY <1>7 DEF Holds, PullingHolds, Typed, TypeOK, PluginOK, CallOK
  <2>2. CallHolds' BY <2>1, CallFrame
  <2>3. Mine(x) => Started /\ puller.id = h.id /\ Place(r) <= Place(puller.call)
    BY <1>1, <1>3, <1>4, <2>1 DEF CallHolds, Mine, Phases
  <2>4. Started /\ puller.id = h.id => Mine(x) /\ ~Answered /\ Same(r, puller.call)
    <3> SUFFICES ASSUME Started, puller.id = h.id
                 PROVE  Mine(x) /\ ~Answered /\ Same(r, puller.call)
      OBVIOUS
    <3>1. Mine(x) /\ (Answered \/ Awaits(x)) BY <2>1 DEF OwnStreamHolds
    <3>2. x.heard \in Requests /\ StreamHolds(h.id) BY <1>1, StreamIs DEF Holds
    <3>3. ~Answered
      <4> SUFFICES ASSUME Answered PROVE FALSE OBVIOUS
      <4>1. /\ x.heard.service = puller.call.service /\ x.heard.phase = puller.call.phase
        BY <2>1, <3>2, SameIs DEF Answered
      <4>2. /\ x.heard.phase \in Phases /\ x.heard.kind = x.kind /\ Passed(x, x.heard)
            /\ Fits(x.heard.phase, x.kind)
        BY <3>2, <4>1 DEF StreamHolds, Started, Requests
      <4>3. 4 * x.service + No(x.phase) > Place(x.heard)
        BY <1>1, <1>4, <3>2, <4>2, PassedIsBeyond
      <4>4. Place(x.heard) = Place(puller.call) /\ Place(r) = 4 * x.service + No(x.phase)
        BY <1>4, <4>1 DEF Place
      <4>5. Place(x.heard) \in Nat /\ Place(r) \in Nat
        <5>1. No(x.heard.phase) \in Nat /\ No(r.phase) \in Nat BY DEF No
        <5>2. x.heard.service \in Nat /\ r.service \in Nat BY <1>1, <3>2 DEF Requests
        <5> QED BY <5>1, <5>2 DEF Place
      <4> QED BY <2>3, <3>1, <4>3, <4>4, <4>5
    <3>4. r.service = puller.call.service /\ r.phase = puller.call.phase
      BY <1>4, <3>1, <3>3 DEF Awaits, Pull!Wants
    <3>5. /\ r.pull = puller.call.pull /\ r.kind = puller.call.kind /\ r.id = puller.call.id
      BY <1>1, <1>4, <2>1, <3>1 DEF CallHolds, Mine
    <3> QED BY <1>1, <2>1, <3>1, <3>3, <3>4, <3>5, SameIs
  <2>5. Started /\ puller.id = h.id => Answered' BY <1>3, <2>4 DEF Answered, Keeps
  <2>6. Started /\ puller.id # h.id =>
           puller.id \in 1..Len(streams) /\ streams'[puller.id] = streams[puller.id]
    BY <1>2, <2>1 DEF OwnStreamHolds
  <2>7. OwnStreamHolds'
    <3>1. ASSUME NEW i \in 1..Len(streams), streams'[i].pull = puller.pull
          PROVE  /\ streams'[i].kind = puller.kind
                 /\ ~Started \/ i # puller.id => streams'[i].heard.phase = "start"
      <4>1. CASE i = h.id BY <1>1, <1>3, <2>1, <2>3, <3>1, <4>1 DEF OwnStreamHolds, Mine
      <4>2. CASE i # h.id BY <1>2, <2>1, <3>1, <4>2 DEF OwnStreamHolds, Mine
      <4> QED BY <4>1, <4>2
    <3>2. ASSUME Started
          PROVE  /\ puller.id \in 1..Len(streams) /\ streams'[puller.id].pull = puller.pull
                 /\ Answered' \/ Awaits(streams'[puller.id])
      <4>1. CASE puller.id = h.id BY <1>1, <1>3, <2>4, <2>5, <3>2, <4>1 DEF Mine
      <4>2. CASE puller.id # h.id
        BY <2>1, <2>6, <3>2, <4>2 DEF OwnStreamHolds, Mine, Answered, Keeps
      <4> QED BY <4>1, <4>2
    <3> QED BY <1>2, <3>1, <3>2 DEF OwnStreamHolds, Mine, Started, Keeps, Awaits, Pull!Wants
  <2>8. AnswerHolds'
    <3>1. CASE puller'.answer = puller.answer
      <4>1. CASE Started
        BY <2>1, <2>4, <2>6, <3>1, <4>1 DEF AnswerHolds, Started, Answered, Keeps
      <4>2. CASE ~Started
        BY <1>1, <1>2, <1>3, <2>1, <3>1, <4>2 DEF AnswerHolds, Started, Mine, Keeps
      <4> QED BY <4>1, <4>2
    <3>2. CASE puller.call = r /\ puller'.answer = says
      <4>1. Started /\ puller.id = h.id
        BY <1>1, <1>3, <1>4, <2>1, <3>2 DEF CallHolds, Mine, Phases
      <4> QED BY <1>3, <2>5, <3>2, <4>1 DEF AnswerHolds, Started, Keeps
    <3> QED BY <1>4, <3>1, <3>2 DEF Told
  <2>9. StagedHolds'
    <3>1. ASSUME puller.call.phase = "sources"
          PROVE  streams'[puller.id].thread.gen = streams[puller.id].thread.gen
      <4>1. CASE puller.id = h.id
        <5>1. r.phase = "sources" BY <1>1, <2>1, <2>4, <3>1, <4>1, SameIs DEF Started
        <5> QED BY <1>3, <1>4, <4>1, <5>1
      <4>2. CASE puller.id # h.id BY <2>6, <3>1, <4>2 DEF Started
      <4> QED BY <4>1, <4>2
    <3> QED BY <2>1, <3>1 DEF StagedHolds, Keeps
  <2> QED BY <2>2, <2>7, <2>8, <2>9 DEF PullingHolds
<1>8. ASSUME puller.at # "pulling" PROVE PullingHolds' BY <1>8 DEF PullingHolds, Keeps
<1> QED BY <1>5, <1>6, <1>7, <1>8 DEF Holds

LEMMA ServeHolds ==
    ASSUME Typed, Holds, NEW h \in handlers, Pull!Serve(h)
    PROVE  TypeOK' /\ Holds'
<1>1. /\ TypeOK' /\ Keeps /\ Asked' \subseteq Asked /\ Len(streams') = Len(streams)
      /\ Quietly \/ Kept(h) \/ \E says \in Says : Served(h, says)
  BY ServeType DEF Holds
<1>2. UNCHANGED <<version, place, pulls>> BY DEF Pull!Serve, Pull!diskPart
<1>3. CASE Quietly
  <2>1. SameStreams /\ \A i \in 1..Len(streams') : StreamHolds(i)'
    BY <1>2, <1>3, StreamStays DEF Quietly, SameStreams, Holds
  <2> QED BY <1>1, <1>2, <1>3, <2>1, QuietHolds DEF Holds, Quietly
<1> QED BY <1>1, <1>2, <1>3, KeptHolds, ServedHolds

LEMMA StartHolds ==
    ASSUME Typed, Holds, NEW r \in cursors, r.phase = "start", Pull!Start(r)
    PROVE  TypeOK' /\ Holds'
<1>1. TypeOK' /\ Keeps BY StartType
<1>2. UNCHANGED <<version, handlers, place, pulls>> /\ cursors' = cursors \ {r}
  BY DEF Pull!Start, Pull!diskPart
<1>3. Asked' \subseteq Asked /\ r \in Asked /\ r \in Requests
  BY <1>2 DEF Asked, Typed, TypeOK, DaemonOK
<1>4. StudioHolds' BY <1>1, <1>2, StudioFrame DEF Holds
<1>5. ASSUME puller.at = "pulling"
      PROVE  /\ CallHolds /\ OwnStreamHolds /\ AnswerHolds /\ StagedHolds
             /\ puller.call = r => ~Started /\ Mine(r) /\ puller.id = 0
             /\ CallHolds'
  <2>1. CallHolds /\ OwnStreamHolds /\ AnswerHolds /\ StagedHolds
    BY <1>5 DEF Holds, PullingHolds
  <2> QED BY <1>1, <1>3, <2>1, CallFrame DEF CallHolds, Started
<1>6. ASSUME puller.at # "pulling" PROVE PullingHolds' BY <1>1, <1>6 DEF PullingHolds, Keeps
<1>7. CASE /\ UNCHANGED streams /\ current \in 1..Len(streams)
           /\ streams[current].pull = r.pull /\ streams[current].heard.phase = "start"
           /\ Told(r, streams[current].says)
  <2>1. PullsHold' /\ KindsHold' BY <1>1, <1>2, <1>3, <1>7, PullsFrame DEF Holds, Keeps
  <2>2. ASSUME puller.at = "pulling" PROVE PullingHolds'
    <3>1. OwnStreamHolds' /\ StagedHolds' /\ (Answered <=> Answered')
      BY <1>1, <1>5, <1>7, <2>2 DEF OwnStreamHolds, StagedHolds, Keeps, Mine, Started,
         Answered, Awaits, Pull!Wants
    <3>2. AnswerHolds'
      <4>1. CASE puller'.answer = puller.answer
        BY <1>1, <1>5, <1>7, <2>2, <3>1, <4>1 DEF AnswerHolds, Keeps, Mine, Started
      <4>2. CASE puller.call = r /\ puller'.answer = streams[current].says
        <5>1. StreamHolds(current) BY <1>7 DEF Holds
        <5>2. /\ puller'.answer.id = current /\ puller'.answer.phase = "prepare"
              /\ ~puller'.answer.over
          BY <1>7, <4>2, <5>1 DEF StreamHolds
        <5> QED BY <1>1, <1>5, <1>7, <2>2, <4>2, <5>2 DEF AnswerHolds, Keeps, Mine, Started
      <4> QED BY <1>7, <4>1, <4>2 DEF Told
    <3> QED BY <1>5, <2>2, <3>1, <3>2 DEF PullingHolds
  <2> QED BY <1>1, <1>2, <1>4, <1>6, <1>7, <2>1, <2>2, StreamStays DEF Holds
<1>8. ASSUME NEW x \in Sources, NEW says \in Says,
             streams' = Append(streams, x), Told(r, says),
             x = [pull |-> r.pull, kind |-> r.kind, service |-> 1,
                  phase |-> "prepare", thread |-> Pull!Preparing(1), heard |-> r,
                  says |-> says, over |-> FALSE],
             says.id = Len(streams) + 1, says.ok, says.phase = "prepare", ~says.over
      PROVE  Holds'
  <2>0. Len(streams) \in Nat BY DEF Typed, TypeOK, DaemonOK
  <2>1. PICK n \in Nat :
           /\ n = Len(streams) + 1 /\ Len(streams') = n /\ streams'[n] = x
           /\ Len(streams) \in Nat /\ n \in 1..Len(streams')
           /\ \A i \in 1..Len(streams') : i # n => i \in 1..Len(streams)
           /\ \A i \in 1..Len(streams) : streams'[i] = streams[i]
    BY <2>0, <1>8 DEF Typed, TypeOK, DaemonOK
  <2>2. /\ x.pull = r.pull /\ x.kind = r.kind /\ x.service = 1 /\ x.phase = "prepare"
        /\ x.thread = Pull!Preparing(1) /\ x.heard = r /\ x.says = says /\ ~x.over
    BY <1>8
  <2>3. 1 \in Pull!Services /\ version[1] \in Nat BY DEF Typed, TypeOK, Pull!PullAssumption
  <2>4. StreamHolds(n)'
    <3>0. /\ x.thread.at = "emitting" /\ x.thread.fp = 0 /\ x.thread.gen = version[1]
      BY <2>2, <2>3, PreparingIs
    <3>1. ThreadHolds(streams[n])' BY <1>2, <2>1, <2>2, <2>3, <3>0 DEF ThreadHolds
    <3> QED BY <1>8, <2>1, <2>2, <3>1 DEF StreamHolds, Begun, Fits
  <2>5. ASSUME NEW i \in 1..Len(streams') PROVE StreamHolds(i)'
    <3>1. CASE i = n BY <2>4, <3>1
    <3>2. CASE i # n BY <1>2, <2>1, <3>2, StreamStays DEF Holds
    <3> QED BY <3>1, <3>2
  <2>6. PullsHold' /\ KindsHold'
    BY <1>1, <1>2, <1>3, <2>1, <2>2 DEF Holds, PullsHold, KindsHold, Keeps
  <2>7. ASSUME puller.at = "pulling" PROVE PullingHolds'
    <3>1. OwnStreamHolds' /\ (Started => Answered = Answered'
                                         /\ streams'[puller.id] = streams[puller.id])
      <4>1. Started => puller.id \in 1..Len(streams) /\ streams'[puller.id] = streams[puller.id]
        BY <1>5, <2>1, <2>7 DEF OwnStreamHolds
      <4>2. ASSUME NEW i \in 1..Len(streams'), streams'[i].pull = puller.pull
            PROVE  /\ streams'[i].kind = puller.kind
                   /\ ~Started \/ i # puller.id => streams'[i].heard.phase = "start"
        <5>1. CASE i = n BY <1>3, <1>5, <2>1, <2>2, <2>7, <4>2, <5>1 DEF CallHolds, Mine
        <5>2. CASE i # n BY <1>5, <2>1, <2>7, <4>2, <5>2 DEF OwnStreamHolds, Mine
        <5> QED BY <5>1, <5>2
      <4> QED BY <1>1, <1>5, <2>1, <2>7, <4>1, <4>2 DEF OwnStreamHolds, Keeps, Mine,
         Started, Answered, Awaits, Pull!Wants
    <3>2. StagedHolds' BY <1>1, <1>5, <2>7, <3>1 DEF StagedHolds, Keeps, Started
    <3>3. AnswerHolds'
      <4>1. CASE puller'.answer = puller.answer
        BY <1>1, <1>5, <2>1, <2>7, <3>1, <4>1 DEF AnswerHolds, Keeps, Mine, Started
      <4>2. CASE puller.call = r /\ puller'.answer = says
        BY <1>1, <1>5, <1>8, <2>1, <2>2, <2>7, <4>2 DEF AnswerHolds, Keeps, Mine, Started
      <4> QED BY <1>8, <4>1, <4>2 DEF Told
    <3> QED BY <1>5, <2>7, <3>1, <3>2, <3>3 DEF PullingHolds
  <2> QED BY <1>4, <1>6, <2>5, <2>6, <2>7 DEF Holds
<1> QED BY <1>1, <1>7, <1>8, StartType


-------------------------------------------------------------------------------
(* The invariant is kept: the plugin. *)

LEMMA IdleHolds ==
    ASSUME Typed, Holds, puller'.at # "pulling", puller'.pull = puller.pull, StudioHolds',
           UNCHANGED <<version, streams, handlers, cursors, pulls>>
    PROVE  Holds'
<1>1. PullsHold' /\ KindsHold' BY DEF Holds, PullsHold, KindsHold, Asked
<1> QED BY <1>1, StreamStays DEF Holds, PullingHolds

LEMMA PullHolds ==
    ASSUME Typed, Holds, Pull!Pull
    PROVE  TypeOK' /\ Holds'
<1>1. /\ TypeOK' /\ puller'.at = "pulling" /\ puller'.pull = pulls + 1
      /\ pulls' = pulls + 1 /\ puller.at = "idle"
      /\ puller'.id = 0 /\ puller'.staged = <<>> /\ puller'.answer = None
      /\ puller'.call \in Requests /\ puller'.call.phase = "start"
      /\ puller'.call.service = 1 /\ puller'.call.id = 0
      /\ puller'.call.pull = pulls + 1 /\ puller'.call.kind = puller'.kind
      /\ cursors' = cursors \cup {puller'.call}
      /\ UNCHANGED <<version, streams, current, handlers, removing, place, edits, losses>>
  BY PullIs
<1>2. Asked' = Asked \cup {puller'.call} /\ pulls \in Nat BY <1>1 DEF Asked, Typed, TypeOK
<1>3. /\ \A r \in Asked : r.pull <= pulls /\ r.pull \in Nat
      /\ \A i \in 1..Len(streams) : streams[i].pull <= pulls /\ streams[i].pull \in Nat
  <2>1. \A r \in Asked : r \in Requests BY HandlerIs DEF Asked, Typed, TypeOK, DaemonOK
  <2>2. \A i \in 1..Len(streams) : streams[i] \in Sources BY StreamIs
  <2> QED BY <2>1, <2>2 DEF Holds, PullsHold, Requests, Sources
<1>4. PullsHold' /\ KindsHold' BY <1>1, <1>2, <1>3 DEF Holds, PullsHold, KindsHold
<1>5. StudioHolds' BY <1>1 DEF Holds, StudioHolds, Sound, Even
<1>6. CallHolds' BY <1>1, <1>2, <1>3 DEF CallHolds, Mine, Started
<1>7. OwnStreamHolds' /\ AnswerHolds'
  BY <1>1, <1>2, <1>3 DEF OwnStreamHolds, AnswerHolds, Mine, Started
<1>8. StagedHolds' BY <1>1 DEF StagedHolds
<1> QED BY <1>1, <1>4, <1>5, <1>6, <1>7, <1>8, StreamStays DEF Holds, PullingHolds

(* A call more of the same pull. *)
LEMMA CallMore ==
    ASSUME Typed, Holds, puller.at = "pulling", NEW c, cursors' = cursors \cup {c},
           c.pull = puller.pull, c.kind = puller.kind, puller'.pull = puller.pull,
           UNCHANGED <<streams, handlers, pulls>>
    PROVE  PullsHold' /\ KindsHold' /\ Asked' = Asked \cup {c}
<1>1. Asked' = Asked \cup {c} BY DEF Asked
<1>2. /\ \A r \in Asked : r.pull = puller.pull => r.kind = puller.kind
      /\ \A i \in 1..Len(streams) : streams[i].pull = puller.pull =>
           streams[i].kind = puller.kind
      /\ puller.pull = pulls /\ pulls \in Nat
  BY DEF Holds, PullingHolds, CallHolds, OwnStreamHolds, Mine, PullsHold, Typed, TypeOK
<1> QED BY <1>1, <1>2 DEF Holds, PullsHold, KindsHold

LEMMA RetryHolds ==
    ASSUME Typed, Holds, Pull!Refused \/ Pull!TimesOut
    PROVE  TypeOK' /\ Holds'
<1>1. /\ TypeOK' /\ puller.at = "pulling" /\ puller.call \in Requests
      /\ puller'.pull = puller.pull
      /\ UNCHANGED <<version, streams, current, handlers, removing, place, pulls, edits>>
      /\ \/ Pull!Gone /\ cursors' = cursors
         \/ /\ puller'.at = puller.at /\ puller'.kind = puller.kind
            /\ puller'.id = puller.id /\ puller'.staged = puller.staged
            /\ puller'.answer = None /\ puller'.call \in Requests
            /\ Same(puller'.call, puller.call)
            /\ cursors' = cursors \cup {puller'.call}
  BY RetryIs
<1>2. CASE Pull!Gone /\ cursors' = cursors
  <2>1. puller'.at = "idle" BY <1>2, GoneIs DEF Typed, TypeOK, PluginOK
  <2>2. StudioHolds' BY <1>1, <2>1 DEF Holds, StudioHolds, Sound, Even
  <2> QED BY <1>1, <1>2, <2>1, <2>2, IdleHolds
<1>3. CASE /\ puller'.at = puller.at /\ puller'.kind = puller.kind
           /\ puller'.id = puller.id /\ puller'.staged = puller.staged
           /\ puller'.answer = None /\ puller'.call \in Requests
           /\ Same(puller'.call, puller.call)
           /\ cursors' = cursors \cup {puller'.call}
  <2>1. /\ CallHolds /\ OwnStreamHolds /\ StagedHolds BY <1>1 DEF Holds, PullingHolds
  <2>2. PICK c \in Requests :
           /\ c = puller'.call /\ c.pull = puller.call.pull /\ c.kind = puller.call.kind
           /\ c.id = puller.call.id /\ c.service = puller.call.service
           /\ c.phase = puller.call.phase
    BY <1>1, <1>3, SameIs
  <2>3. PullsHold' /\ KindsHold' /\ Asked' = Asked \cup {c}
    BY <1>1, <1>3, <2>1, <2>2, CallMore DEF CallHolds, Mine
  <2>4. StudioHolds' BY <1>1, <1>3 DEF Holds, StudioHolds, Sound, Even
  <2>5. Place(c) = Place(puller.call) /\ Place(c) \in Nat
    <3>1. No(c.phase) \in Nat /\ c.service \in Nat BY DEF No, Requests
    <3> QED BY <2>2, <3>1 DEF Place
  <2>6. CallHolds' BY <1>1, <1>3, <2>1, <2>2, <2>3, <2>5 DEF CallHolds, Mine, Started
  <2>7. Started => (Answered <=> Answered')
    <3> SUFFICES ASSUME Started PROVE Answered <=> Answered' OBVIOUS
    <3>1. streams[puller.id].heard \in Requests BY <2>1, StreamIs DEF OwnStreamHolds
    <3>2. Same(streams[puller.id].heard, c) <=> Same(streams[puller.id].heard, puller.call)
      BY <1>1, <2>2, <3>1, SameIs
    <3> QED BY <1>1, <1>3, <2>2, <3>2 DEF Answered
  <2>8. OwnStreamHolds' /\ AnswerHolds'
    BY <1>1, <1>3, <2>1, <2>2, <2>7 DEF OwnStreamHolds, AnswerHolds, Mine, Started, Awaits,
       Pull!Wants
  <2>9. StagedHolds' BY <1>1, <1>3, <2>1, <2>2 DEF StagedHolds
  <2> QED BY <1>1, <1>3, <2>3, <2>4, <2>6, <2>8, <2>9, StreamStays DEF Holds, PullingHolds
<1> QED BY <1>1, <1>2, <1>3

(* Equal requests have brought a stream to the same place. *)
LEMMA PassedSame ==
    ASSUME NEW x, NEW r, NEW q, Passed(x, r),
           r.service = q.service, r.phase = q.phase, r.kind = q.kind
    PROVE  Passed(x, q) /\ (Ends(r) <=> Ends(q))
<1>1. Ends(r) <=> Ends(q) BY DEF Ends
<1>2. CASE Ends(r) BY <1>1, <1>2 DEF Passed
<1>3. CASE ~Ends(r)
  <2>1. ~Ends(q) BY <1>1, <1>3
  <2>2. /\ ~x.over /\ x.phase = Pull!PhaseAfter(r.phase, r.kind)
        /\ x.service = IF r.phase = Pull!LastPhase(r.kind) THEN r.service + 1 ELSE r.service
    BY <1>3 DEF Passed
  <2>3. Pull!PhaseAfter(r.phase, r.kind) = Pull!PhaseAfter(q.phase, q.kind)
        /\ Pull!LastPhase(r.kind) = Pull!LastPhase(q.kind)
    OBVIOUS
  <2> QED BY <1>1, <2>1, <2>2, <2>3 DEF Passed
<1> QED BY <1>2, <1>3

(* What a good answer to a call says of the stream. *)
LEMMA GoodAnswer ==
    ASSUME Typed, Holds, puller.at = "pulling", puller.answer # None, puller.answer.ok, Started,
           NEW x, x = streams[puller.id], NEW c, c = puller.call, NEW a, a = puller.answer
    PROVE  /\ puller.id \in 1..Len(streams) /\ Mine(x) /\ x.kind = puller.kind
           /\ c.phase \in Phases /\ a.phase = c.phase /\ c.kind = x.kind
                /\ Fits(c.phase, x.kind)
           /\ Passed(x, c) /\ (a.over <=> Ends(c))
           /\ c.phase \in {"prepare", "sources"} => a.data = x.thread.gen
           /\ x \in Sources /\ c \in Requests
<1>1. /\ CallHolds /\ OwnStreamHolds /\ AnswerHolds /\ c \in Requests
  BY DEF Holds, PullingHolds, Typed, TypeOK, PluginOK, CallOK
<1>2. puller.id \in 1..Len(streams) /\ Mine(x) /\ x.kind = puller.kind
  BY <1>1 DEF OwnStreamHolds
<1>3. x \in Sources /\ x.heard \in Requests /\ StreamHolds(puller.id)
  BY <1>2, StreamIs DEF Holds
<1>4. Same(x.heard, c) /\ a = x.says BY <1>1 DEF AnswerHolds, Answered
<1>5. /\ x.heard.phase = c.phase /\ x.heard.service = c.service /\ x.heard.kind = c.kind
  BY <1>1, <1>3, <1>4, SameIs
<1>6. c.phase \in Phases BY <1>1 DEF Started, Requests
<1>7. /\ Passed(x, x.heard) /\ (a.over <=> Ends(x.heard)) /\ a.phase = c.phase
      /\ c.kind = x.kind /\ Fits(c.phase, x.kind)
      /\ c.phase \in {"prepare", "sources"} => a.data = x.thread.gen
  BY <1>3, <1>4, <1>5, <1>6 DEF StreamHolds, Started
<1>8. Passed(x, c) /\ (Ends(x.heard) <=> Ends(c)) BY <1>5, <1>7, PassedSame
<1> QED BY <1>1, <1>2, <1>3, <1>6, <1>7, <1>8


(* The pull goes on to the next call. *)
LEMMA FurtherHolds ==
    ASSUME Typed, Holds, puller.at = "pulling", puller.call \in Requests,
           puller.answer \in Says, puller.answer # None, puller.answer.ok,
           ~puller.answer.over, puller'.pull = puller.pull,
           NEW service \in Nat, NEW phase \in Phases, Further(service, phase),
           Started => puller.answer.id = puller.id,
           puller'.at = "pulling", puller'.kind = puller.kind,
           puller'.id = puller.answer.id, puller'.answer = None,
           puller'.staged = Pull!Stage(puller.answer, puller.call.service),
           NEW call \in Requests, puller'.call = call,
           call.pull = puller.pull, call.kind = puller.kind, call.id = puller.answer.id,
           call.service = service, call.phase = phase,
           cursors' = cursors \cup {call},
           UNCHANGED <<version, streams, handlers, place, pulls>>
    PROVE  Holds'
<1> DEFINE a == puller.answer
           c == puller.call
<1>1. CallHolds /\ OwnStreamHolds /\ AnswerHolds /\ StagedHolds BY DEF Holds, PullingHolds
<1>2. PullsHold' /\ KindsHold' /\ Asked' = Asked \cup {call} BY CallMore
<1>3. StudioHolds' BY DEF Holds, StudioHolds, Sound, Even
<1>4. PICK id \in 1..Len(streams) : id = a.id /\ (Started => id = puller.id)
  BY <1>1 DEF OwnStreamHolds, AnswerHolds
<1>5. PICK x \in Sources : x = streams[id] /\ StreamHolds(id) BY StreamIs DEF Holds
<1>6. call.phase # "start" /\ puller \in Pullers /\ c.service \in Nat
  BY DEF Phases, Typed, TypeOK, PluginOK, Requests
<1>7. CASE ~Started
  <2>1. a.phase = "prepare" /\ c.phase = "start" /\ service = 1 /\ phase = "prepare"
        /\ c.service = 1 /\ Mine(x)
    BY <1>1, <1>4, <1>5, <1>7 DEF AnswerHolds, CallHolds, Started, Further
  <2>2. Begun(x) /\ x.kind = puller.kind
    BY <1>1, <1>5, <1>7, <2>1 DEF OwnStreamHolds, StreamHolds
  <2>3. puller'.staged = puller.staged /\ Len(puller.staged) = 0
    BY <1>1, <1>6, <2>1, StageIs DEF StagedHolds
  <2>4. StagedHolds' BY <2>1, <2>3 DEF StagedHolds
  <2>5. CallHolds'
    <3>1. \A r \in Asked : Mine(r) => r.phase = "start" /\ r.kind = puller.kind
      BY <1>1, <1>7 DEF CallHolds
    <3>2. Place(call) <= Place(call)
      <4>1. No(call.phase) \in Nat BY DEF No
      <4> QED BY <4>1 DEF Place
    <3>3. puller'.call.phase # "start" BY <1>6
    <3>4. \A r \in Asked' : r.pull = puller'.pull =>
             /\ r.kind = puller'.kind
             /\ r.phase # "start" => r.id = puller'.id /\ Place(r) <= Place(call)
      BY <1>2, <3>1, <3>2 DEF Mine
    <3> QED BY <3>3, <3>4 DEF CallHolds, Mine, Started
  <2>6. OwnStreamHolds' /\ AnswerHolds'
    BY <1>1, <1>4, <1>5, <1>6, <1>7, <2>1, <2>2 DEF OwnStreamHolds, AnswerHolds, Mine,
       Started, Awaits, Pull!Wants, Begun
  <2> QED BY <1>2, <1>3, <2>4, <2>5, <2>6, StreamStays DEF Holds, PullingHolds
<1>8. CASE Started
  <2>1. /\ Mine(x) /\ x.kind = puller.kind /\ id = puller.id
        /\ c.phase \in Phases /\ a.phase = c.phase /\ c.kind = x.kind /\ Fits(c.phase, x.kind)
        /\ Passed(x, c) /\ ~Ends(c)
        /\ c.phase \in {"prepare", "sources"} => a.data = x.thread.gen
    BY <1>4, <1>5, <1>8, GoodAnswer
  <2>2. ~x.over /\ x.service = service /\ x.phase = phase
    BY <1>1, <1>8, <2>1 DEF Passed, Further, Started, CallHolds
  <2>3. Place(call) > Place(c) /\ Place(call) \in Nat /\ Place(c) \in Nat
    <3>1. 4 * x.service + No(x.phase) > Place(c) BY <2>1, <2>2, PassedIsBeyond
    <3>2. No(c.phase) \in Nat /\ No(phase) \in Nat BY DEF No
    <3> QED BY SMTT(60), <1>6, <2>2, <3>1, <3>2 DEF Place
  <2>4. CallHolds'
    <3>1. \A r \in Asked : r.phase # "start" => Place(r) \in Nat
      <4>1. \A r \in Asked : r \in Requests BY HandlerIs DEF Asked, Typed, TypeOK, DaemonOK
      <4>2. \A r \in Asked : No(r.phase) \in Nat BY DEF No
      <4> QED BY SMTT(60), <4>1, <4>2 DEF Place, Requests
    <3> QED BY <1>1, <1>2, <1>4, <1>6, <1>8, <2>1, <2>3, <3>1 DEF CallHolds, Mine, Started
  <2>5. OwnStreamHolds' /\ AnswerHolds'
    BY <1>1, <1>4, <1>5, <1>6, <1>8, <2>1, <2>2 DEF OwnStreamHolds, AnswerHolds, Mine,
       Started, Awaits, Pull!Wants
  <2>6. StagedHolds'
    <3> DEFINE old == puller.staged
    <3>1. /\ old \in Seq(Staged) /\ Len(old) \in Nat
          /\ Len(old) = (IF c.phase = "prepare" THEN c.service - 1 ELSE c.service)
          /\ \A i \in 1..Len(old) :
                i < c.service \/ c.phase \in {"checked", "deletes"} => Whole(old[i])
          /\ c.phase = "sources" => old[c.service].structure = x.thread.gen
      BY <1>1, <1>5, <1>6, <1>8, <2>1 DEF StagedHolds, Started, Pullers
    <3>2. CASE c.phase = "prepare"
      <4>1. Len(old) + 1 = c.service /\ a.data = x.thread.gen /\ a.phase = "prepare"
        BY <1>6, <2>1, <3>1, <3>2
      <4>2. /\ Len(puller'.staged) = c.service
            /\ puller'.staged[c.service].structure = x.thread.gen
            /\ \A i \in 1..Len(old) : puller'.staged[i] = old[i]
        <5>1. /\ Len(puller'.staged) = Len(old) + 1
              /\ puller'.staged[Len(old) + 1].structure = a.data
              /\ \A i \in 1..Len(old) : puller'.staged[i] = old[i]
          BY <1>6, <1>8, <4>1, StageIs DEF Started
        <5> QED BY <4>1, <5>1
      <4>3. call.phase = "sources" /\ call.service = c.service
        BY <1>8, <2>1, <3>2 DEF Further, Started, Pull!PhaseAfter, Pull!LastPhase
      <4>4. Len(puller'.staged) = puller'.call.service BY <4>2, <4>3
      <4>5. \A i \in 1..Len(puller'.staged) : i < puller'.call.service =>
              Whole(puller'.staged[i])
        <5>1. \A i \in 1..Len(old) : Whole(old[i]) BY <1>6, <3>1, <4>1
        <5>2. \A i \in 1..Len(old) : Whole(puller'.staged[i])
          <6>1. \A i \in 1..Len(old) : puller'.staged[i] = old[i] BY <4>2
          <6> QED BY <5>1, <6>1 DEF Whole
        <5>3. \A i \in 1..c.service : i < c.service => i \in 1..Len(old) BY <1>6, <3>1, <4>1
        <5> QED BY <4>2, <4>3, <5>2, <5>3
      <4>6. puller'.staged[puller'.call.service].structure = streams'[puller'.id].thread.gen
        BY <1>4, <1>5, <2>1, <4>2, <4>3
      <4> QED BY <4>3, <4>4, <4>5, <4>6 DEF StagedHolds
    <3>3. CASE c.phase = "sources"
      <4>1. /\ Len(puller'.staged) = c.service
            /\ \A i \in 1..Len(old) :
                  IF i = c.service THEN Whole(puller'.staged[i]) ELSE puller'.staged[i] = old[i]
        <5>1. /\ Len(puller'.staged) = Len(old)
              /\ \A i \in 1..Len(old) :
                    IF i = c.service THEN /\ puller'.staged[i].sources = a.data
                                          /\ puller'.staged[i].structure = old[i].structure
                    ELSE puller'.staged[i] = old[i]
          BY SMTT(60), <1>6, <2>1, <3>3, StageIs
        <5> QED BY <2>1, <3>1, <3>3, <5>1 DEF Whole
      <4>2. call.phase = "checked" /\ call.service = c.service
        BY <1>8, <2>1, <3>3 DEF Further, Started, Pull!PhaseAfter, Pull!LastPhase
      <4> QED BY <1>6, <3>1, <3>3, <4>1, <4>2 DEF StagedHolds
    <3>4. CASE c.phase \in {"checked", "deletes"}
      <4>1. puller'.staged = old BY <1>6, <2>1, <3>4, StageIs
      <4>2. \/ call.phase = "deletes" /\ call.service = c.service
            \/ call.phase = "prepare" /\ call.service = c.service + 1
        BY <1>5, <1>8, <2>1, <3>4 DEF Further, Started, Pull!PhaseAfter, Pull!LastPhase,
           Fits, Sources
      <4> QED BY SMTT(60), <1>6, <3>1, <3>4, <4>1, <4>2 DEF StagedHolds
    <3> QED BY <2>1, <3>2, <3>3, <3>4 DEF Phases
  <2> QED BY <1>2, <1>3, <2>4, <2>5, <2>6, StreamStays DEF Holds, PullingHolds
<1> QED BY <1>7, <1>8

LEMMA AcceptsHolds ==
    ASSUME Typed, Holds, Pull!Accepts
    PROVE  TypeOK' /\ Holds'
<1>1. /\ TypeOK' /\ puller.at = "pulling" /\ puller.call \in Requests
      /\ puller.answer \in Says /\ puller.answer # None /\ puller.answer.ok
      /\ puller'.pull = puller.pull
  BY AcceptsIs
<1>2. UNCHANGED <<version, streams, handlers, place, pulls>>
  BY DEF Pull!Accepts, Pull!diskPart, Pull!daemonPart
<1>3. CASE Pull!Gone /\ cursors' = cursors
  <2>1. puller'.at = "idle" BY <1>3, GoneIs DEF Typed, TypeOK, PluginOK
  <2>2. StudioHolds' BY <1>1, <1>2, <2>1 DEF Holds, StudioHolds, Sound, Even
  <2> QED BY <1>1, <1>2, <1>3, <2>1, <2>2, IdleHolds
<1>4. CASE /\ puller'.at = "applying" /\ puller'.applied = 0
           /\ puller'.staged = Pull!Stage(puller.answer, puller.call.service)
           /\ cursors' = cursors /\ puller.answer.over
  <2>1. AnswerHolds /\ StagedHolds BY <1>1 DEF Holds, PullingHolds
  <2>2. Started BY <1>1, <1>4, <2>1 DEF AnswerHolds
  <2>3. puller.call.service = ServiceCount /\ puller.answer.phase = puller.call.phase
        /\ puller.call.phase \in {"checked", "deletes"}
    BY <1>1, <1>4, <2>2, GoodAnswer DEF Ends, Pull!LastPhase
  <2>4. puller'.staged = puller.staged
    BY ZenonT(60), <1>1, <1>4, <2>3, StageIs DEF Typed, TypeOK, PluginOK, Requests
  <2>5. Len(puller.staged) = ServiceCount /\ \A s \in Pull!Services : Whole(puller.staged[s])
    BY <2>1, <2>3 DEF StagedHolds
  <2>6. StudioHolds' BY <1>1, <1>2, <1>4, <2>4, <2>5 DEF Holds, StudioHolds, Sound, Even
  <2> QED BY <1>1, <1>2, <1>4, <2>6, IdleHolds
<1>5. ASSUME NEW service \in Nat, NEW phase \in Phases,
             ~puller.answer.over, Further(service, phase),
             Started => puller.answer.id = puller.id,
             puller'.at = "pulling", puller'.kind = puller.kind,
             puller'.id = puller.answer.id, puller'.answer = None,
             puller'.staged = Pull!Stage(puller.answer, puller.call.service),
             puller'.call \in Requests,
             puller'.call.pull = puller.pull, puller'.call.kind = puller.kind,
             puller'.call.id = puller.answer.id,
             puller'.call.service = service, puller'.call.phase = phase,
             cursors' = cursors \cup {puller'.call}
      PROVE  Holds'
  <2>1. PICK call \in Requests : call = puller'.call BY <1>5
  <2> QED BY <1>1, <1>2, <1>5, <2>1, FurtherHolds
<1> QED BY <1>1, <1>3, <1>4, <1>5, AcceptsIs

LEMMA ApplyHolds ==
    ASSUME Typed, Holds, Pull!Apply
    PROVE  TypeOK' /\ Holds'
<1>1. /\ TypeOK' /\ puller.at = "applying" /\ puller'.at = "applying"
      /\ puller'.pull = puller.pull /\ puller'.staged = puller.staged
      /\ puller.applied + 1 \in Pull!Services /\ puller'.applied = puller.applied + 1
      /\ puller'.call = IF puller.applied = 0 THEN place ELSE puller.call
      /\ UNCHANGED <<version, streams, current, handlers, removing, cursors, pulls>>
      /\ \A s \in Pull!Services : s # puller.applied + 1 => place'[s] = place[s]
      /\ place'[puller.applied + 1].pull = puller.pull
      /\ Whole(place'[puller.applied + 1])
  BY ApplyIs DEF Holds
<1>2. /\ Sound(place) /\ Len(puller.staged) = ServiceCount /\ \A s \in Pull!Services : Whole(puller.staged[s])
      /\ puller.applied = 0 => Even(place)
      /\ puller.applied # 0 => Sound(puller.call) /\ Even(puller.call)
      /\ \A s \in Pull!Services : s <= puller.applied => place[s].pull = puller.pull
      /\ puller.applied \in Nat
  BY <1>1 DEF Holds, StudioHolds, Typed, TypeOK, PluginOK, Pullers
<1>3. Sound(place') BY <1>1, <1>2 DEF Sound
<1>4. Sound(puller'.call) /\ Even(puller'.call)
  <2>1. CASE puller.applied = 0
    <3>1. puller'.call = place /\ Sound(place) /\ Even(place) BY <1>1, <1>2, <2>1
    <3> QED BY <3>1 DEF Sound, Even
  <2>2. CASE puller.applied # 0
    <3>1. puller'.call = puller.call /\ Sound(puller.call) /\ Even(puller.call)
      BY <1>1, <1>2, <2>2
    <3> QED BY <3>1 DEF Sound, Even
  <2> QED BY <2>1, <2>2
<1>5. \A s \in Pull!Services : s <= puller'.applied => place'[s].pull = puller'.pull
  <2> SUFFICES ASSUME NEW s \in Pull!Services, s <= puller.applied + 1
               PROVE  place'[s].pull = puller.pull
    BY <1>1
  <2>1. CASE s = puller.applied + 1 BY <1>1, <2>1
  <2>2. CASE s # puller.applied + 1
    <3>1. s <= puller.applied BY <1>2, <2>2
    <3> QED BY <1>1, <1>2, <2>2, <3>1
  <2> QED BY <2>1, <2>2
<1>6. StudioHolds' BY <1>1, <1>2, <1>3, <1>4, <1>5 DEF StudioHolds, Sound, Even
<1> QED BY <1>1, <1>6, IdleHolds

LEMMA EndHolds ==
    ASSUME Typed, Holds, Pull!Commit \/ Pull!Cancel \/ Pull!Touch
    PROVE  TypeOK' /\ Holds'
<1>1. /\ TypeOK' /\ puller'.pull = puller.pull
      /\ UNCHANGED <<version, streams, current, handlers, removing, cursors, pulls>>
      /\ \/ /\ puller'.at = "idle" /\ puller.at = "applying"
            /\ \/ puller.applied = ServiceCount /\ place' = place
               \/ place' = IF puller.applied = 0 THEN place ELSE puller.call
         \/ puller'.at = "halted" /\ place' = place
         \/ Keeps /\ puller'.answer = puller.answer /\ place' = place
  BY EndIs
<1>2. CASE /\ puller'.at = "idle" /\ puller.at = "applying"
           /\ \/ puller.applied = ServiceCount /\ place' = place
              \/ place' = IF puller.applied = 0 THEN place ELSE puller.call
  <2>1. Sound(place') BY <1>2 DEF Holds, StudioHolds
  <2>2. Even(place')
    <3>1. CASE puller.applied = ServiceCount /\ place' = place
      BY <1>2, <3>1 DEF Holds, StudioHolds, Even, Typed, Pull!PullAssumption
    <3>2. CASE place' = IF puller.applied = 0 THEN place ELSE puller.call
      BY <1>2, <3>2 DEF Holds, StudioHolds
    <3> QED BY <1>2, <3>1, <3>2
  <2>3. StudioHolds' BY <1>2, <2>1, <2>2 DEF StudioHolds, Sound, Even
  <2> QED BY <1>1, <1>2, <2>3, IdleHolds
<1>3. CASE puller'.at = "halted" /\ place' = place
  <2>1. StudioHolds' BY <1>3 DEF Holds, StudioHolds, Sound
  <2> QED BY <1>1, <1>3, <2>1, IdleHolds
<1>4. CASE Keeps /\ puller'.answer = puller.answer /\ place' = place
  <2>1. SameStreams /\ Asked' \subseteq Asked /\ \A i \in 1..Len(streams') : StreamHolds(i)'
    BY <1>1, StreamStays DEF SameStreams, Asked, Holds
  <2> QED BY <1>1, <1>4, <2>1, QuietHolds DEF Holds
<1> QED BY <1>1, <1>2, <1>3, <1>4

-------------------------------------------------------------------------------
LEMMA HoldsStep == Typed /\ Holds /\ [Pull!Next]_Pull!vars => Typed' /\ Holds'
<1> SUFFICES ASSUME Typed, Holds, [Pull!Next]_Pull!vars PROVE TypeOK' /\ Holds'
  BY DEF Typed, Pull!PullAssumption
<1>1. CASE UNCHANGED Pull!vars
  <2>1. /\ UNCHANGED <<version, edits, streams, current, handlers, removing, cursors, puller,
                       place, pulls, losses>>
    BY <1>1 DEF Pull!vars, Pull!diskPart, Pull!daemonPart, Pull!pluginPart
  <2>2. TypeOK' BY <2>1 DEF Typed, TypeOK, DaemonOK, PluginOK, CallOK
  <2>3. /\ SameStreams /\ Keeps /\ Asked' \subseteq Asked
        /\ \A i \in 1..Len(streams') : StreamHolds(i)'
    BY <2>1, StreamStays DEF SameStreams, Keeps, Asked, Holds
  <2> QED BY <2>1, <2>2, <2>3, QuietHolds DEF Holds
<1>2. ASSUME NEW s \in Pull!Services, Pull!Edit(s) PROVE TypeOK' /\ Holds'
  BY <1>2, EditHolds
<1>3. ASSUME NEW r \in cursors, Pull!Start(r) PROVE TypeOK' /\ Holds'
  BY <1>3, StartHolds DEF Pull!Start
<1>4. ASSUME NEW r \in cursors, Pull!Fetch(r) PROVE TypeOK' /\ Holds' BY <1>4, FetchHolds
<1>5. ASSUME NEW h \in handlers, Pull!Serve(h) PROVE TypeOK' /\ Holds' BY <1>5, ServeHolds
<1>6. ASSUME NEW f \in removing, Pull!Remove(f) PROVE TypeOK' /\ Holds' BY <1>6, RemoveHolds
<1>7. ASSUME NEW id \in 1..Len(streams), Pull!Thread(id) \/ Pull!Again(id)
      PROVE TypeOK' /\ Holds'
  BY <1>7, ThreadHoldsOn
<1> QED BY <1>1, <1>2, <1>3, <1>4, <1>5, <1>6, <1>7, ExpireHolds, PullHolds, RetryHolds,
   AcceptsHolds, ApplyHolds, EndHolds DEF Pull!Next

(* Types, and that a stream is never behind its last answer nor the plugin ahead of its
   stream (snapshot_stream and doPullPath stay in step). *)
THEOREM PullsStayInStep == Pull!PullAssumption => (Pull!Spec => [](TypeOK /\ Holds))
<1> SUFFICES ASSUME Pull!PullAssumption PROVE Pull!Spec => [](TypeOK /\ Holds) OBVIOUS
<1>1. Pull!Init => Typed /\ Holds BY InitType, InitHolds
<1>2. Typed => TypeOK BY DEF Typed
<1> QED BY <1>1, <1>2, HoldsStep, PTL DEF Pull!Spec

(* A service arrives in Studio as it once was on the disk, although its structure and its
   sources are read at different times under an editor (prepare_pull_service,
   poll_revalidated_pull_fingerprint). *)
THEOREM ServicesArriveWhole == Pull!PullAssumption => (Pull!Spec => []Pull!ServicesAreWhole)
<1> SUFFICES ASSUME Pull!PullAssumption PROVE Pull!Spec => []Pull!ServicesAreWhole OBVIOUS
<1>1. Holds => Pull!ServicesAreWhole
  BY DEF Holds, StudioHolds, Sound, Whole, Pull!ServicesAreWhole
<1> QED BY <1>1, PullsStayInStep, PTL

(* A pull is written for all services or, taken back, for none, whatever is lost, repeated,
   expired or refused on the way (doPullPath). *)
THEOREM PullsAreAtomic == Pull!PullAssumption => (Pull!Spec => []Pull!PullIsAtomic)
<1> SUFFICES ASSUME Pull!PullAssumption PROVE Pull!Spec => []Pull!PullIsAtomic OBVIOUS
<1>1. TypeOK /\ Holds => Pull!PullIsAtomic
  <2>1. PluginOK => puller.at \in {"idle", "pulling", "applying", "halted"}
    BY DEF PluginOK, Pullers
  <2> QED BY <2>1 DEF TypeOK, Holds, StudioHolds, Even, Pull!PullIsAtomic
<1> QED BY <1>1, PullsStayInStep, PTL

(* A pull brings each service whole, and all of them or none (PullIsWhole). *)
THEOREM PullsAreWhole == Pull!PullAssumption => (Pull!Spec => []PullIsWhole)
<1>1. Pull!ServicesAreWhole /\ Pull!PullIsAtomic => PullIsWhole BY DEF PullIsWhole
<1> QED BY <1>1, ServicesArriveWhole, PullsAreAtomic, PTL
===============================================================================
