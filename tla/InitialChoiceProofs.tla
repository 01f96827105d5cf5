-------------------------- MODULE InitialChoiceProofs --------------------------
(***************************************************************************)
(* InitialChoice for any number of services, windows, polls, comparisons,   *)
(* edits and failures: it implements Decision, windows are told the truth,  *)
(* selections are whole, and what is pushed or taken for the same is what   *)
(* was compared.                                                            *)
(***************************************************************************)
EXTENDS InitialChoice, TLAPS

Bound == [scans : 0..MaxScans, edits : 0..MaxEdits, submits : 0..MaxSubmits,
          losses : Nat, expiries : Nat, crashes : Nat]

(* Every edit appends a tree to a service and is one of the budget. *)
DiskHolds ==
    /\ disk \in [Services -> Seq(BOOLEAN)]
    /\ budget \in Bound
    /\ \A s \in Services : Gen(s) \in Nat \ {0} /\ Gen(s) + budget.edits <= MaxEdits + 1

(* A comparison has captured one tree of each service it is through with, and if it is still
   clean each was what Studio has; so was the one the thread reads. *)
SessionHolds ==
    /\ session \in Sessions \cup {None}
    /\ session # None =>
          /\ Len(session.gens) = session.service - (IF session.phase > 2 THEN 0 ELSE 1)
          /\ \A s \in 1..Len(session.gens) :
                /\ session.gens[s] \in 1..Gen(s)
                /\ session.clean => disk[s][session.gens[s]]
          /\ session.last # None =>
                /\ session.says \in Says
                /\ session.says = "compare" /\ session.last[2] = "hashes" => session.last[1] < N
          /\ session.over => session.service = N /\ session.phase = 4
    /\ prep \in [at : {"none", "reading", "ok", "failed"}, gen : Nat, same : BOOLEAN]
    /\ prep.at # "none" => session # None /\ session.phase = 2
    /\ prep.at \in {"reading", "ok"} => prep.gen \in 1..Gen(session.service)
    /\ prep.at = "ok" => prep.same = disk[session.service][prep.gen]

(* The first call of a scan is sent once; no other is of a later question than the
   plugin's. *)
CallHolds(r, q) == /\ r.q <= q
                   /\ r.phase = "stats" => r.service = 0 /\ r.try = 1

PluginStates == {"idle", "comparing", "synced", "waiting", "starting", "transfer", "stopped"}
Answers == Says \cup Verdict \cup {All("pending"), All("stale"), None}

PluginType == [at : PluginStates, q : 0..MaxScans, call : Calls \cup {None},
               answer : Answers, poll : Polls \cup {None}]

(* The plugin has a call or a poll exactly while it waits for its answer, and after the last
   chunk of all it is not told to go on comparing. *)
PluginShape ==
    /\ plugin \in PluginType
    /\ plugin.at # "idle" => plugin.q # 0
    /\ plugin.call # None => /\ plugin.at = "comparing" /\ plugin.call.q = plugin.q
                             /\ CallHolds(plugin.call, plugin.q)
    /\ plugin.at = "comparing" =>
          /\ plugin.call # None /\ plugin.answer \in Says \cup {None}
          /\ plugin.answer = "compare" /\ plugin.call.phase = "hashes" => plugin.call.service < N
    /\ plugin.at \notin {"comparing", "waiting"} => plugin.answer = None
    /\ plugin.poll # None => plugin.at = "waiting"

PluginHolds ==
    /\ PluginShape
    /\ plugin.q <= MaxScans - budget.scans
    /\ inflight \subseteq Calls /\ \A r \in inflight : CallHolds(r, plugin.q)
    /\ session # None => session.q <= plugin.q

(* A question that has not been asked yet. *)
Fresh(q) == verdict[q] = None /\ (slot # None => slot.q # q)

(* A comparison under way, one that is about to begin and one that has not been thought of
   lead to a question that is new. *)
QuestionsAreNew ==
    /\ session # None /\ ~session.over => Fresh(session.q)
    /\ \A r \in inflight : r.phase = "stats" =>
          Fresh(r.q) /\ (session # None => session.q # r.q)
    /\ \A q \in Questions : q > plugin.q => Fresh(q)

(* The slot and what was decided agree; half a selection is the first chunk of the
   submission it names. *)
SlotHolds ==
    /\ slot \in Slots \cup {None}
    /\ verdict \in [Questions -> Verdict \cup {None}]
    /\ compared \in [Questions -> GenMaps \cup {None}]
    /\ slot # None =>
          /\ verdict[slot.q] = IF slot.choice = None THEN None
                               ELSE [choice |-> slot.choice, paths |-> slot.paths]
          /\ slot.gens = compared[slot.q] /\ slot.gens \in Gens
          /\ slot.sub # None => slot.got = {<<slot.sub, 0>>} /\ slot.next = 1

(* What a poll has read and what a grant allows is what was decided. *)
PollType == [at : {"free", "waiting", "read", "granted"}, q : 0..MaxScans,
             verdict : Verdict \cup {None}, gens : GenMaps \cup {None}]
PollHolds(p, decided, about) ==
    /\ p.at # "free" => p.q # 0
    /\ p.at \in {"read", "granted"} =>
          p.verdict # None /\ p.verdict = decided[p.q] /\ p.gens = about[p.q]
PollsHold ==
    /\ poll \in [Polls -> PollType]
    /\ \A k \in Polls : PollHolds(poll[k], verdict, compared)
    /\ plugin.poll # None /\ poll[plugin.poll].at # "free" => poll[plugin.poll].q = plugin.q

GrantType == [q : Questions, verdict : Verdict, gens : GenMaps \cup {None}]
GrantHolds(g, decided, about) ==
    /\ g.verdict = decided[g.q] /\ NeedsGrant(g.verdict)
    /\ g.verdict.choice = "studio" => g.gens = about[g.q]
GrantsHold == grants \subseteq GrantType /\ \A g \in grants : GrantHolds(g, verdict, compared)

(* What the plugin is told and does is what was decided, once. *)
DoneHolds ==
    /\ done \in [Questions -> Verdict \cup {None}]
    /\ \A q \in Questions : done[q] # None => done[q] = verdict[q] /\ q <= plugin.q
    /\ plugin.at \in {"comparing", "waiting", "starting"} => done[plugin.q] = None
    /\ plugin.at = "transfer" => done[plugin.q] # None
    /\ plugin.at = "waiting" => \/ plugin.answer \in {None, All("pending"), All("stale")}
                                \/ plugin.answer \in Verdict /\ plugin.answer = verdict[plugin.q]

(* The messages of a window are its own; those of a submission are of one question, and a
   submission that has not begun has none. *)
Sent == mail \cup {window[w].call : w \in {w \in Windows : window[w].at = "busy"}}
Begun == MaxSubmits - budget.submits
MailHolds(S, begun) ==
    /\ S \subseteq Mail
    /\ \A m \in S : m.kind # "full" => m.sub \in 1..begun /\ m.choice = "disk"
    /\ \A m, n \in S : m.kind = "chunk" /\ n.kind = "chunk" /\ m.sub = n.sub => m.q = n.q
WindowType == [at : {"closed", "open", "busy"}, q : 0..MaxScans,
               call : Mail \cup {None}, answer : {"ok", "error", None}]
WindowHolds(r, w) ==
    /\ r.at # "closed" => r.q # 0
    /\ r.at = "busy" => r.call # None /\ r.call.from = w /\ r.call.kind # "abort"
    /\ r.at # "busy" => r.call = None
WindowsHold ==
    /\ window \in [Windows -> WindowType]
    /\ \A w \in Windows : WindowHolds(window[w], w)
    /\ MailHolds(Sent, Begun)
    /\ replays \subseteq 1..Begun
    /\ deciding \subseteq [m : Mail, gens : GenMaps, at : {"read", "fresh"}]
    /\ \A d \in deciding : d.m.kind = "full" /\ d.gens \in Gens

(* A receipt is kept of a submission that was chosen, and a window is told that all is well
   when what it meant was. *)
Whole(sub) == [choice |-> "disk", paths |-> {sub} \X Chunks]
Closes(m)  == m.kind = "full" \/ m.chunk = Last
AnswerHolds(r, decided) == r.at = "busy" /\ r.answer = "ok" /\ Closes(r.call) =>
                              decided[r.call.q] = Meant(r.call)
ReceiptsHold ==
    /\ \A m \in Sent : m.kind = "chunk" /\ m.sub \in replays => verdict[m.q] = Whole(m.sub)
    /\ \A w \in Windows : AnswerHolds(window[w], verdict)
    /\ told \subseteq Questions \X Verdict
    /\ ToldIsTrue

SyncHolds ==
    /\ synced \in GenMaps \cup {None}
    /\ synced # None => \A s \in Services : synced[s] \in 1..Gen(s) /\ disk[s][synced[s]]

-------------------------------------------------------------------------------
(* The disk and the budget. *)
LEMMA PhaseFacts ==
    /\ PhaseNames = {"structure", "prepare", "identities", "hashes"}
    /\ \A i \in 1..4 : /\ Phases[i] \in PhaseNames
                       /\ Phases[i] = "structure" <=> i = 1
                       /\ Phases[i] = "prepare" <=> i = 2
                       /\ Phases[i] = "identities" <=> i = 3
                       /\ Phases[i] = "hashes" <=> i = 4
<1>1. Phases[1] = "structure" /\ Phases[2] = "prepare" /\ Phases[3] = "identities" /\ Phases[4] = "hashes"
  BY DEF Phases
<1>2. \A i \in 1..4 : i = 1 \/ i = 2 \/ i = 3 \/ i = 4 OBVIOUS
<1> QED BY <1>1, <1>2 DEF PhaseNames

LEMMA SpendStep ==
    ASSUME budget \in Bound,
           NEW what \in {"scans", "edits", "submits", "losses", "expiries", "crashes"}, Spend(what)
    PROVE  /\ budget' \in Bound
           /\ budget'.scans <= budget.scans /\ budget'.edits <= budget.edits
           /\ budget'.submits <= budget.submits
           /\ what = "edits" => budget'.edits = budget.edits - 1
           /\ what = "scans" => budget.scans > 0 /\ budget'.scans = budget.scans - 1
           /\ what = "submits" => budget.submits > 0 /\ budget'.submits = budget.submits - 1
<1> USE ChoiceAssumption DEF Bound
<1>1. CASE what = "scans" BY <1>1 DEF Spend
<1>2. CASE what = "edits" BY <1>2 DEF Spend
<1>3. CASE what = "submits" BY <1>3 DEF Spend
<1>4. CASE what = "losses" BY <1>4 DEF Spend
<1>5. CASE what = "expiries" BY <1>5 DEF Spend
<1>6. CASE what = "crashes" BY <1>6 DEF Spend
<1> QED BY <1>1, <1>2, <1>3, <1>4, <1>5, <1>6

LEMMA BudgetTurns ==
    ASSUME [Next]_vars, ~\E s \in Services : Edit(s)
    PROVE  /\ UNCHANGED disk
           /\ UNCHANGED budget \/ \E what \in {"scans", "submits", "losses", "expiries", "crashes"} : Spend(what)
<1>1. CASE \E r \in inflight : Receive(r) BY <1>1 DEF Receive
<1>2. CASE \E m \in mail : Handle(m) BY <1>2 DEF Handle
<1>3. CASE \E d \in deciding : Revalidate(d) \/ ChooseStudio(d)
  BY <1>3 DEF Revalidate, ChooseStudio
<1>4. CASE \E k \in Polls : InitialDecision(k) BY <1>4 DEF InitialDecision
<1>5. CASE \E w \in Windows : Window(w)
  BY <1>5 DEF Window, WindowOpens, SubmitFullChoice, SubmitSelected, WindowAnswered,
     WindowRefused, WindowCloses, GivesUp
<1>6. CASE Plugin
  BY <1>6 DEF Plugin, PluginScans, PluginCompares, PluginTimesOut, PluginPolls,
     PluginLosesPoll, PluginDecided, PluginStarts, PluginFails, PluginRestarts, GivesUp
<1>7. CASE PrepareReads \/ Expire \/ Crash \/ Lose \/ UNCHANGED vars
  BY <1>7 DEF PrepareReads, Expire, Crash, Lose, vars
<1> QED BY <1>1, <1>2, <1>3, <1>4, <1>5, <1>6, <1>7 DEF Next

(* The trees a service has had stay; the rest is about the newest. *)
LEMMA DiskStep ==
    ASSUME DiskHolds, [Next]_vars
    PROVE  /\ DiskHolds'
           /\ budget'.scans <= budget.scans /\ budget'.submits <= budget.submits
           /\ \A s \in Services : /\ Gen(s)' >= Gen(s)
                                  /\ \A i \in 1..Gen(s) : disk'[s][i] = disk[s][i]
<1> DEFINE Goal == /\ DiskHolds'
                   /\ budget'.scans <= budget.scans /\ budget'.submits <= budget.submits
                   /\ \A s \in Services : /\ Gen(s)' >= Gen(s)
                                          /\ \A i \in 1..Gen(s) : disk'[s][i] = disk[s][i]
<1> HIDE DEF Goal
<1>1. CASE ~\E s \in Services : Edit(s)
  <2>1. UNCHANGED disk /\ budget' \in Bound /\ budget'.edits <= budget.edits
        /\ budget'.scans <= budget.scans /\ budget'.submits <= budget.submits
    BY <1>1, BudgetTurns, SpendStep DEF DiskHolds, Bound
  <2>2. \A s \in Services : Gen(s)' = Gen(s) BY <2>1 DEF Gen
  <2>3. budget.edits \in Nat /\ budget'.edits \in Nat /\ MaxEdits \in Nat
    BY <2>1, ChoiceAssumption DEF DiskHolds, Bound
  <2>4. \A s \in Services : Gen(s) + budget'.edits <= MaxEdits + 1
    BY <2>1, <2>3 DEF DiskHolds
  <2>5. \A s \in Services : Gen(s)' >= Gen(s) BY <2>2 DEF DiskHolds
  <2> QED BY <2>1, <2>2, <2>4, <2>5 DEF DiskHolds, Goal
<1>2. ASSUME NEW s \in Services, Edit(s) PROVE Goal
  <2>1. budget' \in Bound /\ budget'.edits = budget.edits - 1
        /\ budget'.scans <= budget.scans /\ budget'.submits <= budget.submits
    BY <1>2, SpendStep DEF DiskHolds, Edit
  <2>2. PICK same \in BOOLEAN : disk' = [disk EXCEPT ![s] = Append(@, same)]
    BY <1>2 DEF Edit
  <2>3. /\ disk'[s] = Append(disk[s], same) /\ disk[s] \in Seq(BOOLEAN)
        /\ \A t \in Services \ {s} : disk'[t] = disk[t]
    BY <2>2 DEF DiskHolds
  <2>4. Gen(s)' = Gen(s) + 1 /\ \A i \in 1..Gen(s) : disk'[s][i] = disk[s][i]
    BY <2>3 DEF Gen
  <2>5. disk' \in [Services -> Seq(BOOLEAN)] BY <2>2, <2>3 DEF DiskHolds
  <2>6. \A t \in Services : Gen(t)' \in Nat \ {0} /\ Gen(t)' + budget'.edits <= MaxEdits + 1
    <3>1. budget.edits \in Nat /\ budget'.edits \in Nat /\ MaxEdits \in Nat
      BY <2>1, ChoiceAssumption DEF DiskHolds, Bound
    <3>2. \A t \in Services \ {s} : Gen(t)' = Gen(t) BY <2>3 DEF Gen
    <3>3. \A t \in Services : Gen(t) \in Nat \ {0} /\ Gen(t) + budget.edits <= MaxEdits + 1
      BY DEF DiskHolds
    <3>4. Gen(s)' \in Nat \ {0} /\ Gen(s)' + budget'.edits <= MaxEdits + 1
      BY <2>1, <2>4, <3>1, <3>3
    <3>5. ASSUME NEW t \in Services \ {s}
          PROVE  Gen(t)' \in Nat \ {0} /\ Gen(t)' + budget'.edits <= MaxEdits + 1
      BY <2>1, <3>1, <3>2, <3>3
    <3> QED BY <3>4, <3>5
  <2>7. \A t \in Services : Gen(t)' >= Gen(t) /\ \A i \in 1..Gen(t) : disk'[t][i] = disk[t][i]
    BY SMTT(60), <2>3, <2>4 DEF DiskHolds, Gen
  <2> QED BY <2>1, <2>5, <2>6, <2>7 DEF DiskHolds, Goal
<1> QED BY <1>1, <1>2 DEF Goal

LEMMA CallFacts ==
    Calls = [q : Questions, service : 0..N, phase : {"stats"} \cup PhaseNames, try : {1, 2}]
<1> DEFINE Flat == [q : Questions, service : 0..N, phase : {"stats"} \cup PhaseNames, try : {1, 2}]
<1>1. ASSUME NEW r \in Calls PROVE r \in Flat
  <2>1. PICK q \in Questions : r \in CallOf(q) BY DEF Calls
  <2> QED BY <2>1 DEF CallOf
<1>2. ASSUME NEW r \in Flat PROVE r \in Calls
  <2>1. r \in CallOf(r.q) /\ r.q \in Questions BY DEF CallOf
  <2> QED BY <2>1 DEF Calls
<1> QED BY <1>1, <1>2

LEMMA MailFacts ==
    Mail = [from : Windows, kind : {"full", "chunk", "abort"}, q : Questions,
            choice : Choices, sub : 0..MaxSubmits, chunk : Chunks, try : 1..3]
<1> DEFINE Flat == [from : Windows, kind : {"full", "chunk", "abort"}, q : Questions,
                    choice : Choices, sub : 0..MaxSubmits, chunk : Chunks, try : 1..3]
<1>1. ASSUME NEW m \in Mail PROVE m \in Flat
  <2>1. PICK w \in Windows : m \in MailOf(w) BY DEF Mail
  <2> QED BY <2>1 DEF MailOf
<1>2. ASSUME NEW m \in Flat PROVE m \in Mail
  <2>1. m \in MailOf(m.from) /\ m.from \in Windows BY DEF MailOf
  <2> QED BY <2>1 DEF Mail
<1> QED BY <1>1, <1>2

-------------------------------------------------------------------------------
(* The comparison. What is open to a chunk is a comparison of its service and phase. *)
LEMMA OpenFacts ==
    ASSUME SessionHolds, NEW r, Open(r)
    PROVE  /\ session \in Sessions /\ ~session.over
           /\ r.service = session.service /\ r.phase = Phases[session.phase]
           /\ r.service \in Services /\ session.phase \in 1..4
           /\ Chunk(r) \in Services \X PhaseNames
<1>1. session \in Sessions BY DEF SessionHolds, Open
<1>2. r.service = session.service /\ r.phase = Phases[session.phase] /\ ~session.over
  BY DEF Open, Expected, Chunk
<1> QED BY <1>1, <1>2, PhaseFacts DEF Sessions, Chunk

LEMMA SessionFrame ==
    ASSUME DiskHolds, SessionHolds, [Next]_vars, UNCHANGED session,
           \/ UNCHANGED prep
           \/ prep' = NoPrep
           \/ /\ prep.at = "reading" /\ prep'.gen = prep.gen
              /\ prep' \in [at : {"ok", "failed"}, gen : Nat, same : BOOLEAN]
              /\ prep'.at = "ok" => prep'.same = disk[session.service][prep.gen]
    PROVE  SessionHolds'
<1> USE DEF SessionHolds
<1>1. \A s \in Services : /\ Gen(s) \in Nat /\ Gen(s)' \in Nat /\ Gen(s)' >= Gen(s)
                          /\ \A i \in 1..Gen(s) : disk'[s][i] = disk[s][i]
  BY DiskStep DEF DiskHolds
<1>2. session # None => session.service \in Services BY DEF Sessions
<1>3. ASSUME session # None, NEW s \in 1..Len(session.gens)
      PROVE  /\ s \in Services /\ session.gens[s] \in 1..Gen(s)' /\ session.gens[s] \in 1..Gen(s)
             /\ session.clean => disk'[s][session.gens[s]]
  <2>1. s \in Services BY <1>3, ChoiceAssumption DEF Sessions, Services
  <2> QED BY SMTT(60), <1>1, <1>3, <2>1
<1>4. CASE UNCHANGED prep
  <2>1. prep.at \in {"reading", "ok"} => /\ session.service \in Services
                                         /\ prep.gen \in 1..Gen(session.service)'
                                         /\ prep.gen \in 1..Gen(session.service)
    BY <1>1, <1>2
  <2>2. prep.at = "ok" => prep.same = disk'[session.service][prep.gen] BY <1>1, <2>1
  <2> QED BY <1>3, <1>4, <2>1, <2>2
<1>5. CASE prep' = NoPrep BY <1>3, <1>5 DEF NoPrep
<1>6. CASE /\ prep.at = "reading" /\ prep'.gen = prep.gen
           /\ prep' \in [at : {"ok", "failed"}, gen : Nat, same : BOOLEAN]
           /\ prep'.at = "ok" => prep'.same = disk[session.service][prep.gen]
  <2>1. /\ prep' \in [at : {"none", "reading", "ok", "failed"}, gen : Nat, same : BOOLEAN]
        /\ prep'.at # "reading"
    BY <1>6
  <2>2. session # None /\ session.phase = 2 /\ session.service \in Services
        /\ prep.gen \in 1..Gen(session.service)
    BY <1>2, <1>6
  <2>3. prep.gen \in 1..Gen(session.service)'
        /\ disk'[session.service][prep.gen] = disk[session.service][prep.gen]
    BY <1>1, <2>2
  <2> QED BY <1>3, <1>6, <2>1, <2>2, <2>3
<1> QED BY <1>4, <1>5, <1>6

LEMMA ChunkKeepsSession ==
    ASSUME DiskHolds, SessionHolds, NEW r \in Calls, UNCHANGED disk,
           InitialCompare(r) \/ Structure(r) \/ DiskPrepare(r) \/ Identities(r)
              \/ NextService(r) \/ Finish(r)
    PROVE  SessionHolds'
<1>0. N \in Nat \ {0} /\ None \notin Sessions /\ None \notin Says BY ChoiceAssumption
<1>1. \A s \in Services : Gen(s)' = Gen(s) /\ Gen(s) \in Nat \ {0} /\ disk'[s] = disk[s]
  BY DEF DiskHolds, Gen
<1>2. CASE InitialCompare(r)
  <2>1. session' = [q |-> r.q, service |-> 1, phase |-> 1, gens |-> <<>>, clean |-> TRUE,
                    last |-> None, says |-> None, over |-> FALSE]
        /\ prep' = NoPrep
    BY <1>2 DEF InitialCompare
  <2>2. session' \in Sessions BY <2>1, <1>0, CallFacts DEF Sessions, Services
  <2> QED BY <2>1, <2>2, <1>0 DEF NoPrep, SessionHolds
<1>3. CASE Open(r)
  <2> DEFINE With(service, phase, gens, clean, over, says, last) ==
               [q |-> session.q, service |-> service, phase |-> phase, gens |-> gens,
                clean |-> clean, over |-> over, says |-> says, last |-> last]
  <2>1. /\ session \in Sessions /\ ~session.over /\ session.service \in Services
        /\ r.service = session.service /\ r.phase = Phases[session.phase]
        /\ session.phase \in 1..4 /\ Chunk(r) \in Services \X PhaseNames
        /\ Chunk(r)[1] = r.service /\ Chunk(r)[2] = r.phase
    BY <1>3, OpenFacts DEF Chunk
  <2>0. /\ session.q \in Questions /\ session.gens \in Seq(Nat) /\ session.clean \in BOOLEAN
        /\ session.over \in BOOLEAN /\ session.says \in Says \cup {None}
        /\ session.last \in (Services \X PhaseNames) \cup {None}
        /\ Chunk(r) \in (Services \X PhaseNames) \cup {None}
        /\ {"compare", "decide", "in-sync", "error"} \subseteq Says \cup {None}
    BY <2>1 DEF Sessions, Says
  <2>2. \A i \in 1..4 : Phases[i] = r.phase => i = session.phase BY <2>1, PhaseFacts
  <2>3. session.service \in Nat BY <2>1, <1>0 DEF Services
  <2>4. CASE Structure(r)
    <3>1. r.phase = "structure" /\ session.phase = 1 BY <2>1, <2>4, PhaseFacts DEF Structure
    <3>2. session' = With(session.service, 2, session.gens, session.clean, session.over,
                          "compare", Chunk(r))
          /\ prep' = [at |-> "reading", gen |-> Gen(r.service), same |-> FALSE]
      BY <2>1, <2>4 DEF Structure, Advance, Sessions
    <3>3. session' \in Sessions BY <2>0, <2>1, <3>2 DEF Sessions
    <3>4. /\ session'.phase = 2 /\ session'.service = session.service /\ session'.gens = session.gens
          /\ session'.clean = session.clean /\ session'.over = session.over
          /\ session'.last = Chunk(r) /\ session'.says = "compare"
      BY <2>1, <3>1, <3>2
    <3>5. \A s \in 1..Len(session.gens) : s \in Services
      BY SMTT(60), <2>1, <2>3, <3>1, <1>0 DEF Sessions, Services, SessionHolds
    <3> QED
      BY SMTT(60), <1>0, <1>1, <2>1, <2>3, <3>1, <3>2, <3>3, <3>4, <3>5
      DEF Says, SessionHolds
  <2>5. CASE Identities(r)
    <3>1. r.phase = "identities" /\ session.phase = 3
      BY <2>1, <2>5, PhaseFacts DEF Identities
    <3>2. session' = With(session.service, 4, session.gens, session.clean, session.over,
                          "compare", Chunk(r))
          /\ prep' = prep
      BY <2>1, <2>5 DEF Identities, Advance, Sessions
    <3>3. session' \in Sessions BY <2>0, <2>1, <3>2 DEF Sessions
    <3>4. /\ session'.phase = 4 /\ session'.service = session.service /\ session'.gens = session.gens
          /\ session'.clean = session.clean /\ session'.over = session.over
          /\ session'.last = Chunk(r) /\ session'.says = "compare"
      BY <2>1, <3>1, <3>2
    <3>5. \A s \in 1..Len(session.gens) : s \in Services
      BY SMTT(60), <2>1, <2>3, <3>1, <1>0 DEF Sessions, Services, SessionHolds
    <3> QED BY <1>0, <1>1, <2>1, <2>3, <3>1, <3>2, <3>3, <3>4, <3>5 DEF Says, SessionHolds
  <2>6. CASE NextService(r)
    <3>1. r.phase = "hashes" /\ session.phase = 4 /\ r.service < N
      BY <2>1, <2>6, PhaseFacts DEF NextService
    <3>2. session' = With(session.service + 1, 1, session.gens,
                          session.clean /\ disk[r.service][Gen(r.service)], session.over,
                          "compare", Chunk(r))
          /\ prep' = prep
      BY <2>1, <2>6 DEF NextService, Advance, Sessions
    <3>0. disk[r.service][Gen(r.service)] \in BOOLEAN
      <4>1. disk[r.service] \in Seq(BOOLEAN) /\ Gen(r.service) \in 1..Len(disk[r.service])
        BY <2>1 DEF DiskHolds, Gen
      <4> QED BY <4>1
    <3>3. session' \in Sessions
      <4>1. (session.clean /\ disk[r.service][Gen(r.service)]) \in BOOLEAN OBVIOUS
      <4>2. session.service + 1 \in Services BY <2>1, <2>3, <3>1, <1>0 DEF Services
      <4> QED BY <2>0, <2>1, <3>2, <4>1, <4>2 DEF Sessions
    <3>4. /\ session'.phase = 1 /\ session'.service = session.service + 1
          /\ session'.gens = session.gens /\ session'.clean => session.clean
          /\ session'.over = session.over
          /\ session'.last = Chunk(r) /\ session'.says = "compare"
      BY <2>1, <3>1, <3>2
    <3>5. \A s \in 1..Len(session.gens) : s \in Services
      BY <2>1, <2>3, <3>1, <1>0 DEF Sessions, Services, SessionHolds
    <3> QED
      BY SMTT(60), <1>0, <1>1, <2>1, <2>3, <3>1, <3>2, <3>3, <3>4, <3>5
      DEF Says, SessionHolds
  <2>7. CASE Finish(r)
    <3>1. r.phase = "hashes" /\ session.phase = 4 /\ r.service = N
      BY <2>1, <2>7, PhaseFacts DEF Finish
    <3>0. PICK says \in {"decide", "in-sync", "error"} :
             session' = [session EXCEPT !.last = Chunk(r), !.says = says, !.over = TRUE]
      BY <2>7 DEF Finish, Advance
    <3>2. session' = With(session.service, session.phase, session.gens, session.clean, TRUE,
                          says, Chunk(r))
          /\ prep' = prep
      BY <2>1, <2>7, <3>0 DEF Finish, Sessions
    <3>3. session' \in Sessions BY <2>0, <2>1, <3>2 DEF Sessions
    <3>4. /\ session'.phase = 4 /\ session'.service = session.service
          /\ session'.gens = session.gens /\ session'.clean = session.clean
          /\ session'.last = Chunk(r) /\ session'.says = says
      BY <2>1, <3>1, <3>2
    <3>5. \A s \in 1..Len(session.gens) : s \in Services
      BY <2>1, <2>3, <3>1, <1>0 DEF Sessions, Services, SessionHolds
    <3> QED BY <1>0, <1>1, <2>1, <2>3, <3>1, <3>2, <3>3, <3>4, <3>5 DEF Says, SessionHolds
  <2>8. CASE DiskPrepare(r) /\ prep.at = "ok"
    <3>1. r.phase = "prepare" /\ session.phase = 2 BY <2>1, <2>8, PhaseFacts DEF DiskPrepare
    <3>2. session' = With(session.service, 3, Append(session.gens, prep.gen),
                          session.clean /\ prep.same, session.over, "compare", Chunk(r))
          /\ prep' = NoPrep
      BY <2>1, <2>8 DEF DiskPrepare, Advance, Sessions
    <3>3. session.gens \in Seq(Nat) /\ prep.gen \in Nat /\ (session.clean /\ prep.same) \in BOOLEAN
      BY <2>1 DEF Sessions, SessionHolds
    <3>4. Append(session.gens, prep.gen) \in Seq(Nat)
          /\ Len(Append(session.gens, prep.gen)) = Len(session.gens) + 1
          /\ \A s \in 1..Len(session.gens) : Append(session.gens, prep.gen)[s] = session.gens[s]
          /\ Append(session.gens, prep.gen)[Len(session.gens) + 1] = prep.gen
      BY <3>3
    <3>5. session' \in Sessions BY <2>0, <2>1, <3>2, <3>3, <3>4 DEF Sessions
    <3>6. /\ session'.phase = 3 /\ session'.service = session.service
          /\ session'.gens = Append(session.gens, prep.gen)
          /\ session'.clean = (session.clean /\ prep.same) /\ session'.over = session.over
          /\ session'.last = Chunk(r) /\ session'.says = "compare"
      BY <2>1, <3>1, <3>2
    <3>7. Len(session.gens) = session.service - 1 /\ Len(session.gens) \in Nat
      BY <1>0, <2>1, <3>1, <3>3 DEF SessionHolds
    <3>8. /\ \A s \in 1..Len(session.gens) :
                session.gens[s] \in 1..Gen(s) /\ (session.clean => disk[s][session.gens[s]])
          /\ prep.gen \in 1..Gen(session.service) /\ prep.same = disk[session.service][prep.gen]
      BY <1>0, <2>1, <2>8 DEF SessionHolds
    <3>9. ASSUME NEW s \in 1..Len(session'.gens)
          PROVE  /\ s \in Services /\ session'.gens[s] \in 1..Gen(s)
                 /\ session'.clean => disk[s][session'.gens[s]]
      <4>1. s \in Services BY <2>1, <2>3, <3>4, <3>6, <3>7, <1>0 DEF Services
      <4>2. CASE s \in 1..Len(session.gens)
        <5>1. session'.gens[s] = session.gens[s] BY <3>4, <3>6, <4>2
        <5> QED BY <3>6, <3>8, <4>1, <4>2, <5>1
      <4>3. CASE s = session.service
        <5>1. session'.gens[s] = prep.gen BY <2>3, <3>4, <3>6, <3>7, <4>3
        <5> QED BY <3>6, <3>8, <4>1, <4>3, <5>1
      <4> QED BY <2>3, <3>4, <3>6, <3>7, <4>2, <4>3
    <3>10. /\ Len(session'.gens) = session'.service - (IF session'.phase > 2 THEN 0 ELSE 1)
           /\ session'.last # None =>
                 /\ session'.says \in Says
                 /\ session'.says = "compare" /\ session'.last[2] = "hashes" => session'.last[1] < N
           /\ session'.over => session'.service = N /\ session'.phase = 4
      BY <2>1, <2>3, <3>1, <3>4, <3>6, <3>7 DEF Says
    <3>11. \A s \in 1..Len(session'.gens) :
              session'.gens[s] \in 1..Gen(s)' /\ (session'.clean => disk'[s][session'.gens[s]])
      BY <1>1, <3>9
    <3> QED BY <3>2, <3>5, <3>10, <3>11 DEF NoPrep, SessionHolds
  <2>9. CASE DiskPrepare(r) /\ prep.at # "ok"
    <3>1. r.phase = "prepare" /\ session.phase = 2 BY <2>1, <2>9, PhaseFacts DEF DiskPrepare
    <3>2. session' = With(session.service, 1, session.gens, session.clean, session.over,
                          session.says, session.last)
          /\ prep' = NoPrep
      BY <2>1, <2>9 DEF DiskPrepare, Sessions
    <3>3. session' \in Sessions BY <2>0, <2>1, <3>2 DEF Sessions
    <3>4. /\ session'.phase = 1 /\ session'.service = session.service /\ session'.gens = session.gens
          /\ session'.clean = session.clean /\ session'.over = session.over
          /\ session'.last = session.last /\ session'.says = session.says
      BY <2>1, <3>1, <3>2
    <3>5. \A s \in 1..Len(session.gens) : s \in Services
      BY <2>1, <2>3, <3>1, <1>0 DEF Sessions, Services, SessionHolds
    <3> QED
      BY SMTT(60), <1>0, <1>1, <2>1, <2>3, <3>1, <3>2, <3>3, <3>4, <3>5
      DEF NoPrep, SessionHolds
  <2> QED BY <1>2, <2>4, <2>5, <2>6, <2>7, <2>8, <2>9
<1> QED BY <1>2, <1>3 DEF Structure, DiskPrepare, Identities, NextService, Finish

(* A choice leaves the comparison alone or ends one that is over. *)
LEMMA ChoiceClears ==
    ASSUME \/ \E m \in mail : Handle(m)
           \/ \E d \in deciding : Revalidate(d) \/ ChooseStudio(d)
    PROVE  /\ UNCHANGED prep
           /\ UNCHANGED session \/ (session # None /\ session.over /\ session' = None)
<1>1. ASSUME NEW m \in mail, Handle(m)
      PROVE  /\ UNCHANGED prep
             /\ UNCHANGED session \/ (session # None /\ session.over /\ session' = None)
  BY <1>1 DEF Handle, DecideAll, Choose, Chosen, DecideStudio, Selection, Abort, Refuse,
     Cleared
<1>2. ASSUME NEW d \in deciding, Revalidate(d) \/ ChooseStudio(d)
      PROVE  /\ UNCHANGED prep
             /\ UNCHANGED session \/ (session # None /\ session.over /\ session' = None)
  BY <1>2 DEF Revalidate, ChooseStudio, Choose, Chosen, Refuse, Cleared
<1> QED BY <1>1, <1>2

LEMMA SessionStep ==
    ASSUME DiskHolds, SessionHolds, PluginHolds, [Next]_vars
    PROVE  SessionHolds'
<1>1. \A s \in Services : /\ Gen(s) \in Nat \ {0} /\ Gen(s)' \in Nat \ {0} /\ Gen(s)' >= Gen(s)
                          /\ disk[s] \in Seq(BOOLEAN)
  BY DiskStep DEF DiskHolds
<1>2. CASE UNCHANGED <<session, prep>> BY <1>2, SessionFrame
<1>3. CASE session' = None /\ prep' \in {prep, NoPrep} /\ prep'.at = "none"
  <2>1. NoPrep \in [at : {"none", "reading", "ok", "failed"}, gen : Nat, same : BOOLEAN]
    BY DEF NoPrep
  <2>2. prep' \in [at : {"none", "reading", "ok", "failed"}, gen : Nat, same : BOOLEAN]
    BY <1>3, <2>1 DEF SessionHolds
  <2> QED BY <1>3, <2>2 DEF SessionHolds
<1>4. CASE \E r \in inflight : Receive(r)
  <2>1. PICK r \in Calls : Receive(r) BY <1>4 DEF PluginHolds
  <2>2. UNCHANGED disk BY <2>1 DEF Receive
  <2>3. CASE RefuseChunk(r) BY <2>3, <1>2 DEF RefuseChunk
  <2> QED BY <2>1, <2>2, <2>3, ChunkKeepsSession DEF Receive
<1>5. CASE PrepareReads
  <2>1. UNCHANGED <<disk, session>> /\ prep.at = "reading" BY <1>5 DEF PrepareReads
  <2>2. session # None /\ session.service \in Services /\ prep.gen \in 1..Gen(session.service)
        /\ prep \in [at : {"none", "reading", "ok", "failed"}, gen : Nat, same : BOOLEAN]
    BY <2>1 DEF SessionHolds, Sessions
  <2>4. CASE Gen(session.service) = prep.gen
    <3>1. prep' = [prep EXCEPT !.at = "ok", !.same = disk[session.service][prep.gen]]
      BY <1>5, <2>4 DEF PrepareReads
    <3>2. disk[session.service][prep.gen] \in BOOLEAN
      <4>1. disk[session.service] \in Seq(BOOLEAN) /\ prep.gen \in 1..Len(disk[session.service])
        BY <1>1, <2>2, <2>4 DEF Gen
      <4> QED BY <4>1
    <3>3. prep'.at = "ok" /\ prep'.gen = prep.gen /\ prep'.same = disk[session.service][prep.gen]
          /\ prep' \in [at : {"ok", "failed"}, gen : Nat, same : BOOLEAN]
      BY <2>2, <3>1, <3>2
    <3> QED BY <2>1, <3>3, SessionFrame
  <2>5. CASE Gen(session.service) # prep.gen
    <3>1. prep' = [prep EXCEPT !.at = "failed"] BY <1>5, <2>5 DEF PrepareReads
    <3>2. prep'.at = "failed" /\ prep'.gen = prep.gen
          /\ prep' \in [at : {"ok", "failed"}, gen : Nat, same : BOOLEAN]
      BY <2>2, <3>1
    <3> QED BY <2>1, <3>2, SessionFrame
  <2> QED BY <2>4, <2>5
<1>6. CASE \/ \E m \in mail : Handle(m)
           \/ \E d \in deciding : Revalidate(d) \/ ChooseStudio(d)
  <2>1. session # None /\ session.over => prep.at = "none"
    BY ChoiceAssumption DEF SessionHolds
  <2> QED BY <1>2, <1>3, <1>6, <2>1, ChoiceClears
<1>7. CASE Expire \/ Crash
  <2>1. prep' = NoPrep => prep'.at = "none" BY DEF NoPrep
  <2> QED BY <1>2, <1>3, <1>7, <2>1 DEF Expire, Crash
<1>8. CASE \E s \in Services : Edit(s) BY <1>2, <1>8 DEF Edit, daemonVars
<1>9. CASE \E k \in Polls : InitialDecision(k) BY <1>2, <1>9 DEF InitialDecision
<1>10. CASE \E w \in Windows : Window(w) BY <1>2, <1>10 DEF Window, daemonVars
<1>11. CASE Plugin
  BY <1>2, <1>11 DEF Plugin, PluginScans, PluginCompares, PluginTimesOut, PluginPolls,
     PluginLosesPoll, PluginDecided, PluginStarts, PluginFails, PluginRestarts, daemonVars
<1>12. CASE Lose \/ UNCHANGED vars BY <1>2, <1>12 DEF Lose, vars, daemonVars
<1> QED BY <1>4, <1>5, <1>6, <1>7, <1>8, <1>9, <1>10, <1>11, <1>12 DEF Next

(* The disk has at least one tree of each service, and as many as fit. *)
LEMMA GenFacts ==
    ASSUME DiskHolds
    PROVE  \A s \in Services : Gen(s) \in 1..(MaxEdits + 1)
<1>1. MaxEdits \in Nat /\ budget.edits \in Nat BY ChoiceAssumption DEF DiskHolds, Bound
<1>2. \A s \in Services : Gen(s) \in Nat \ {0} /\ Gen(s) + budget.edits <= MaxEdits + 1
  BY DEF DiskHolds
<1> QED BY <1>1, <1>2

LEMMA SyncStep ==
    ASSUME DiskHolds, SessionHolds, PluginHolds, SyncHolds, [Next]_vars
    PROVE  SyncHolds'
<1>0. N \in Nat \ {0} /\ None \notin Sessions BY ChoiceAssumption
<1>1. \A s \in Services : /\ Gen(s) \in Nat \ {0} /\ Gen(s)' \in Nat \ {0} /\ Gen(s)' >= Gen(s)
                          /\ \A i \in 1..Gen(s) : disk'[s][i] = disk[s][i]
  BY DiskStep DEF DiskHolds
<1>2. CASE UNCHANGED synced BY <1>1, <1>2 DEF SyncHolds
<1>3. ASSUME NEW r, Finish(r), UNCHANGED disk, synced' = Now, session.clean, disk[N][Gen(N)],
             session.gens = Now
      PROVE  SyncHolds'
  <2>1. session \in Sessions /\ session.service = N /\ session.phase = 4
    BY <1>3, OpenFacts, PhaseFacts DEF Finish
  <2>2. Len(session.gens) = N BY <1>0, <2>1 DEF SessionHolds
  <2>3. \A s \in Services : disk[s][Gen(s)]
    BY <1>0, <1>3, <2>1, <2>2 DEF SessionHolds, Now, Services
  <2>4. \A s \in Services : synced'[s] = Gen(s) /\ Gen(s)' = Gen(s) BY <1>3 DEF Now, Gen
  <2>5. synced' \in GenMaps BY <1>3, GenFacts DEF Now, GenMaps, Services
  <2> QED BY <1>1, <1>3, <2>3, <2>4, <2>5 DEF SyncHolds
<1>4. CASE \E r \in inflight : Receive(r)
  <2>1. PICK r \in inflight : Receive(r) BY <1>4
  <2>2. UNCHANGED disk BY <2>1 DEF Receive
  <2>3. CASE Finish(r) BY <1>2, <1>3, <2>2, <2>3 DEF Finish, StillCompared
  <2>4. CASE ~Finish(r)
    BY <1>2, <2>1, <2>4 DEF Receive, InitialCompare, RefuseChunk, Structure, DiskPrepare,
       Identities, NextService
  <2> QED BY <2>3, <2>4
<1>5. CASE ~\E r \in inflight : Receive(r)
  <2>1. UNCHANGED synced
    <3>1. CASE \E s \in Services : Edit(s) BY <3>1 DEF Edit, observed
    <3>2. CASE \E m \in mail : Handle(m) BY <3>2 DEF Handle
    <3>3. CASE \E d \in deciding : Revalidate(d) \/ ChooseStudio(d)
      BY <3>3 DEF Revalidate, ChooseStudio, observed
    <3>4. CASE \E k \in Polls : InitialDecision(k) BY <3>4 DEF InitialDecision, observed
    <3>5. CASE \E w \in Windows : Window(w) BY <3>5 DEF Window
    <3>6. CASE Plugin
      BY <3>6 DEF Plugin, PluginScans, PluginCompares, PluginTimesOut, PluginPolls,
         PluginLosesPoll, PluginDecided, PluginStarts, PluginFails, PluginRestarts, observed
    <3>7. CASE PrepareReads \/ Expire \/ Crash \/ Lose \/ UNCHANGED vars
      BY <3>7 DEF PrepareReads, Expire, Crash, Lose, vars, observed
    <3> QED BY <1>5, <3>1, <3>2, <3>3, <3>4, <3>5, <3>6, <3>7 DEF Next
  <2> QED BY <1>2, <2>1
<1> QED BY <1>4, <1>5

(* A comparison is of the question it was of, or has just begun; one that is over stays
   so. *)
LEMMA SessionOf ==
    ASSUME SessionHolds, [Next]_vars
    PROVE  session' # None =>
             \/ session # None /\ session'.q = session.q /\ (~session'.over => ~session.over)
             \/ \E r \in inflight : Receive(r) /\ InitialCompare(r) /\ session'.q = r.q
<1> DEFINE Goal == session' # None =>
             \/ session # None /\ session'.q = session.q /\ (~session'.over => ~session.over)
             \/ \E r \in inflight : Receive(r) /\ InitialCompare(r) /\ session'.q = r.q
<1> HIDE DEF Goal
<1>1. CASE UNCHANGED session \/ session' = None BY SMTT(60), <1>1 DEF Goal
<1>2. CASE \E r \in inflight : Receive(r)
  <2>1. PICK r \in inflight : Receive(r) BY <1>2
  <2>2. CASE InitialCompare(r) BY <2>1, <2>2 DEF InitialCompare, Goal
  <2>3. CASE RefuseChunk(r) BY <1>1, <2>3 DEF RefuseChunk
  <2>4. CASE Open(r)
    <3>1. session \in Sessions /\ session # None /\ ~session.over
      BY <2>4, OpenFacts DEF Open
    <3>2. CASE Structure(r) BY <3>1, <3>2 DEF Structure, Advance, Sessions, Goal
    <3>3. CASE DiskPrepare(r) BY <3>1, <3>3 DEF DiskPrepare, Advance, Sessions, Goal
    <3>4. CASE Identities(r) BY <3>1, <3>4 DEF Identities, Advance, Sessions, Goal
    <3>5. CASE NextService(r) BY <3>1, <3>5 DEF NextService, Advance, Sessions, Goal
    <3>6. CASE Finish(r) BY <3>1, <3>6 DEF Finish, Advance, Sessions, Goal
    <3> QED BY <1>1, <2>1, <2>2, <2>3, <3>2, <3>3, <3>4, <3>5, <3>6 DEF Receive
  <2> QED BY <2>1, <2>2, <2>3, <2>4 DEF Receive, Structure, DiskPrepare, Identities,
     NextService, Finish
<1>3. CASE ~\E r \in inflight : Receive(r)
  <2>1. UNCHANGED session \/ session' = None
    <3>1. CASE \E s \in Services : Edit(s) BY <3>1 DEF Edit, daemonVars
    <3>2. CASE \/ \E m \in mail : Handle(m)
               \/ \E d \in deciding : Revalidate(d) \/ ChooseStudio(d)
      BY <3>2, ChoiceClears
    <3>4. CASE \E k \in Polls : InitialDecision(k) BY <3>4 DEF InitialDecision
    <3>5. CASE \E w \in Windows : Window(w) BY <3>5 DEF Window, daemonVars
    <3>6. CASE Plugin
      BY <3>6 DEF Plugin, PluginScans, PluginCompares, PluginTimesOut, PluginPolls,
         PluginLosesPoll, PluginDecided, PluginStarts, PluginFails, PluginRestarts,
         daemonVars
    <3>7. CASE PrepareReads \/ Expire \/ Crash \/ Lose \/ UNCHANGED vars
      BY <3>7 DEF PrepareReads, Expire, Crash, Lose, vars, daemonVars
    <3> QED BY <1>3, <3>1, <3>2, <3>4, <3>5, <3>6, <3>7 DEF Next
  <2> QED BY <1>1, <2>1
<1> QED BY <1>2, <1>3 DEF Goal

-------------------------------------------------------------------------------
(* The plugin. *)
LEMMA PluginFields ==
    ASSUME PluginShape
    PROVE  /\ plugin = [at |-> plugin.at, q |-> plugin.q, call |-> plugin.call,
                        answer |-> plugin.answer, poll |-> plugin.poll]
           /\ plugin.at \in PluginStates /\ plugin.q \in 0..MaxScans
           /\ plugin.call \in Calls \cup {None} /\ plugin.answer \in Answers
           /\ plugin.poll \in Polls \cup {None}
  BY DEF PluginShape, PluginType

(* An answer that fits what the plugin waits for changes nothing else. *)
LEMMA PluginAnswered ==
    ASSUME PluginShape, NEW a \in Answers, plugin' = [plugin EXCEPT !.answer = a],
           \/ plugin.at = "waiting"
           \/ a = None
           \/ /\ plugin.at = "comparing" /\ a \in Says
              /\ a = "compare" /\ plugin.call.phase = "hashes" => plugin.call.service < N
    PROVE  PluginShape' /\ plugin'.q = plugin.q
<1>1. plugin' = [at |-> plugin.at, q |-> plugin.q, call |-> plugin.call, answer |-> a,
                 poll |-> plugin.poll]
  BY PluginFields
<1>2. /\ plugin'.at = plugin.at /\ plugin'.q = plugin.q /\ plugin'.call = plugin.call
      /\ plugin'.answer = a /\ plugin'.poll = plugin.poll
  BY <1>1
<1>3. plugin' \in PluginType BY <1>1, PluginFields DEF PluginType
<1>4. None \notin Says /\ None # "compare" BY ChoiceAssumption DEF Says
<1> QED BY <1>2, <1>3, <1>4 DEF PluginShape

(* The plugin stops to compare or to wait for an answer. *)
LEMMA PluginLeaves ==
    ASSUME PluginShape, NEW at \in PluginStates \ {"comparing"}, at # "idle" => plugin.q # 0,
           plugin' = [at |-> at, q |-> plugin.q, call |-> None, answer |-> None, poll |-> None]
    PROVE  PluginShape' /\ plugin'.q = plugin.q
<1>1. plugin' \in PluginType BY PluginFields DEF PluginType, Answers
<1>2. plugin'.at = at /\ plugin'.q = plugin.q /\ plugin'.call = None /\ plugin'.answer = None /\ plugin'.poll = None
  OBVIOUS
<1> QED BY <1>1, <1>2 DEF PluginShape

(* It sends a chunk of the comparison of its question. *)
LEMMA PluginSends ==
    ASSUME PluginShape, NEW q \in Questions, NEW service \in 0..N,
           NEW phase \in {"stats"} \cup PhaseNames, NEW try \in {1, 2},
           phase = "stats" => service = 0 /\ try = 1,
           plugin.poll = None, Sends(q, service, phase, try)
    PROVE  /\ PluginShape' /\ plugin'.q = q
           /\ [q |-> q, service |-> service, phase |-> phase, try |-> try] \in Calls
           /\ CallHolds([q |-> q, service |-> service, phase |-> phase, try |-> try], q)
           /\ inflight' = inflight \cup {[q |-> q, service |-> service, phase |-> phase, try |-> try]}
<1> DEFINE r == [q |-> q, service |-> service, phase |-> phase, try |-> try]
<1>1. plugin' = [at |-> "comparing", q |-> q, call |-> r, answer |-> None, poll |-> None]
  BY PluginFields DEF Sends
<1>2. r \in Calls BY CallFacts
<1>3. plugin' \in PluginType BY <1>1, <1>2 DEF PluginType, PluginStates, Answers, Questions
<1>4. None \notin Calls /\ None \notin Says /\ None # "compare" /\ MaxScans \in Nat /\ q \in Nat /\ q # 0 /\ q <= q
  BY ChoiceAssumption DEF Questions, Says
<1>5. r.q = q /\ r.service = service /\ r.phase = phase /\ r.try = try OBVIOUS
<1> HIDE DEF r
<1>6. /\ plugin'.at = "comparing" /\ plugin'.q = q /\ plugin'.call = r /\ plugin'.answer = None
      /\ plugin'.poll = None
  BY <1>1
<1>7. CallHolds(r, q) BY <1>4, <1>5 DEF CallHolds
<1>8. PluginShape'
  <2>1. plugin'.call.q = plugin'.q /\ CallHolds(plugin'.call, plugin'.q) BY <1>5, <1>6, <1>7
  <2>2. plugin'.call # None /\ plugin'.answer \in Says \cup {None} /\ plugin'.answer # "compare"
    BY <1>2, <1>4, <1>6
  <2> QED BY <1>3, <1>4, <1>6, <2>1, <2>2 DEF PluginShape
<1> QED BY <1>2, <1>6, <1>7, <1>8 DEF Sends, r

(* The answers of the daemon to a chunk. *)
LEMMA ReceiveAnswers ==
    ASSUME SessionHolds, PluginHolds, NEW r \in inflight, Receive(r)
    PROVE  \E says \in Says : /\ Answer(r, says)
                              /\ says = "compare" /\ r.phase = "hashes" => r.service < N
<1>0. r \in Calls /\ None \notin Sessions BY ChoiceAssumption DEF PluginHolds
<1>1. {"compare", "in-sync", "decide", "error"} = Says BY DEF Says
<1>2. CASE InitialCompare(r) BY <1>1, <1>2 DEF InitialCompare
<1>3. CASE RefuseChunk(r)
  <2>1. CASE session # None /\ session.q = r.q /\ Replays(r)
    <3>1. Answer(r, session.says) /\ session.last = <<r.service, r.phase>>
      BY <1>3, <2>1 DEF RefuseChunk, Replays, Chunk
    <3>2. session.last # None BY <1>0, <3>1, CallFacts, ChoiceAssumption
    <3>3. session.says \in Says
          /\ (session.says = "compare" /\ r.phase = "hashes" => r.service < N)
      BY <2>1, <3>1, <3>2 DEF SessionHolds
    <3> QED BY <3>1, <3>3
  <2>2. CASE ~(session # None /\ session.q = r.q /\ Replays(r))
    <3>1. Answer(r, "error") BY <1>3, <2>2 DEF RefuseChunk
    <3> QED BY <1>1, <3>1
  <2> QED BY <2>1, <2>2
<1>4. CASE Structure(r) \/ DiskPrepare(r) \/ Identities(r)
  BY <1>1, <1>4 DEF Structure, DiskPrepare, Identities
<1>5. CASE NextService(r) BY <1>1, <1>5 DEF NextService
<1>6. CASE Finish(r)
  <2>1. PICK says \in {"decide", "in-sync", "error"} : Answer(r, says) BY <1>6 DEF Finish
  <2> QED BY <1>1, <2>1
<1> QED BY <1>2, <1>3, <1>4, <1>5, <1>6 DEF Receive

(* Every step but the start of a scan leaves the plugin's question. *)
LEMMA PluginStep ==
    ASSUME DiskHolds, SessionHolds, PluginHolds, PollsHold, [Next]_vars, ~PluginScans
    PROVE  /\ PluginShape' /\ plugin'.q = plugin.q
           /\ \A r \in inflight' \ inflight : r \in Calls /\ CallHolds(r, plugin.q) /\ r.phase # "stats"
<1> DEFINE Same == PluginShape' /\ plugin'.q = plugin.q
           Goal == /\ Same
                   /\ \A r \in inflight' \ inflight :
                         r \in Calls /\ CallHolds(r, plugin.q) /\ r.phase # "stats"
<1>0. PluginShape /\ None \notin Calls /\ None \notin Polls /\ None \notin Says
  BY ChoiceAssumption DEF PluginHolds
<1> SUFFICES Goal OBVIOUS
<1> HIDE DEF Goal, Same
<1>1. ASSUME UNCHANGED plugin PROVE Same BY <1>0, <1>1 DEF PluginShape, Same
<1>2. CASE \E r \in inflight : Receive(r)
  <2>1. PICK r \in inflight : Receive(r) BY <1>2
  <2>2. PICK says \in Says : /\ Answer(r, says)
                             /\ says = "compare" /\ r.phase = "hashes" => r.service < N
    BY <2>1, ReceiveAnswers
  <2>3. ASSUME plugin.call = r PROVE Same
    <3>1. plugin' = [plugin EXCEPT !.answer = says] /\ r # None
      BY <1>0, <2>1, <2>2, <2>3 DEF Answer, PluginHolds
    <3>2. plugin.at = "comparing" BY <1>0, <2>3, <3>1 DEF PluginShape
    <3> QED BY <1>0, <2>2, <2>3, <3>1, <3>2, PluginAnswered DEF Answers, Same
  <2>4. Same BY <1>1, <2>2, <2>3 DEF Answer
  <2> QED BY <2>1, <2>4 DEF Receive, Goal
<1>3. CASE \E k \in Polls : InitialDecision(k)
  <2>1. PICK k \in Polls : InitialDecision(k) BY <1>3
  <2>2. ASSUME NEW says \in Answers, Tell(k, says) PROVE Same
    <3>1. CASE plugin.poll = k
      <4>1. plugin' = [plugin EXCEPT !.answer = says] /\ plugin.at = "waiting"
        BY <1>0, <2>2, <3>1 DEF Tell, PluginShape
      <4> QED BY <1>0, <4>1, PluginAnswered DEF Same
    <3> QED BY <1>1, <2>2, <3>1 DEF Tell
  <2>3. ASSUME PollReads(k) \/ PollPending(k) PROVE Same
    BY <1>1, <2>2, <2>3 DEF PollReads, PollPending, Answers
  <2>4. ASSUME PollGrants(k) PROVE Same BY <1>1, <2>4 DEF PollGrants
  <2>5. ASSUME PollAnswers(k) PROVE Same
    <3>1. poll[k].verdict \in Answers BY <2>5 DEF PollAnswers, PollsHold, PollType, Answers
    <3> QED BY <2>2, <2>5, <3>1 DEF PollAnswers
  <2> QED BY <2>1, <2>3, <2>4, <2>5 DEF InitialDecision, Goal
<1>4. CASE Lose
  <2>1. inflight' \subseteq inflight BY <1>4 DEF Lose
  <2>2. UNCHANGED plugin \/ plugin' = [plugin EXCEPT !.answer = None] BY <1>4 DEF Lose
  <2> QED BY <1>0, <1>1, <2>1, <2>2, PluginAnswered DEF Goal, Same, Answers
<1>5. CASE Plugin
  <2>1. ASSUME NEW at \in PluginStates \ {"comparing"}, at # "idle" => plugin.at # "idle",
               plugin' = [Away EXCEPT !.at = at], UNCHANGED inflight
        PROVE  Goal
    <3>1. plugin' = [at |-> at, q |-> plugin.q, call |-> None, answer |-> None, poll |-> None]
      BY <1>0, <2>1, PluginFields DEF Away
    <3>2. at # "idle" => plugin.q # 0 BY <1>0, <2>1 DEF PluginShape
    <3> QED BY <1>0, <2>1, <3>1, <3>2, PluginLeaves DEF Goal, Same
  <2>2. Away = [Away EXCEPT !.at = "idle"] /\ "idle" \in PluginStates
    BY <1>0, PluginFields DEF Away, PluginStates
  <2>3. ASSUME plugin.at = "comparing", Retries PROVE Goal
    <3>1. CASE plugin' = Away /\ UNCHANGED inflight BY <2>1, <2>2, <3>1
    <3>2. CASE /\ plugin.call.phase # "stats" /\ plugin.call.try = 1
               /\ Sends(plugin.call.q, plugin.call.service, plugin.call.phase, 2)
      <4>1. /\ plugin.call \in Calls /\ plugin.poll = None /\ plugin.call.q = plugin.q
        BY <1>0, <2>3, PluginFields DEF PluginShape
      <4>2. /\ plugin.call.q \in Questions /\ plugin.call.service \in 0..N
            /\ plugin.call.phase \in {"stats"} \cup PhaseNames
        BY <4>1, CallFacts
      <4> HIDE DEF Goal
      <4> DEFINE r == [q |-> plugin.call.q, service |-> plugin.call.service,
                       phase |-> plugin.call.phase, try |-> 2]
      <4>3. /\ PluginShape' /\ plugin'.q = plugin.call.q /\ r \in Calls
            /\ CallHolds(r, plugin.call.q) /\ inflight' = inflight \cup {r}
        BY <1>0, <3>2, <4>1, <4>2, PluginSends
      <4> QED BY <3>2, <4>1, <4>3 DEF Goal, Same
    <3> QED BY <2>3, <3>1, <3>2 DEF Retries
  <2>4. CASE PluginCompares
    <3>1. plugin.at = "comparing" /\ plugin.answer \in Says
      BY <1>0, <2>4 DEF PluginCompares, PluginShape
    <3>2. CASE plugin.answer = "compare"
      <4>1. /\ plugin.call \in Calls /\ plugin.call # None /\ plugin.poll = None
            /\ plugin.q \in Questions
            /\ plugin.call.phase = "hashes" => plugin.call.service < N
            /\ plugin.call.phase = "stats" => plugin.call.service = 0
        BY <1>0, <3>1, <3>2, PluginFields DEF PluginShape, CallHolds, Questions
      <4>2. /\ plugin.call.service \in 0..N /\ plugin.call.phase \in {"stats"} \cup PhaseNames
            /\ N \in Nat \ {0}
        BY <4>1, CallFacts, ChoiceAssumption
      <4>3. ServiceAfter(plugin.call) \in 0..N BY <4>1, <4>2 DEF ServiceAfter
      <4>4. PhaseAfter(plugin.call.phase) \in PhaseNames /\ "stats" \notin PhaseNames
        BY <4>2, PhaseFacts DEF PhaseAfter
      <4>5. Sends(plugin.q, ServiceAfter(plugin.call), PhaseAfter(plugin.call.phase), 1)
        BY <2>4, <3>2 DEF PluginCompares
      <4> DEFINE r == [q |-> plugin.q, service |-> ServiceAfter(plugin.call),
                       phase |-> PhaseAfter(plugin.call.phase), try |-> 1]
      <4>6. /\ PluginShape' /\ plugin'.q = plugin.q /\ r \in Calls
            /\ CallHolds(r, plugin.q) /\ inflight' = inflight \cup {r}
        BY <1>0, <4>1, <4>3, <4>4, <4>5, PluginSends
      <4> QED BY <4>4, <4>6 DEF Goal, Same
    <3>3. CASE plugin.answer = "error" BY <2>3, <2>4, <3>1, <3>3 DEF PluginCompares
    <3>4. CASE plugin.answer \notin {"compare", "error"}
      <4>1. PICK at \in {"waiting", "synced"} : plugin' = [Away EXCEPT !.at = at] /\ UNCHANGED inflight
        BY <2>4, <3>4 DEF PluginCompares
      <4> QED BY <2>1, <3>1, <4>1 DEF PluginStates
    <3> QED BY <3>2, <3>3, <3>4
  <2>5. CASE PluginTimesOut BY <2>3, <2>5 DEF PluginTimesOut
  <2>6. CASE \E k \in Polls : PluginPolls(k)
    <3>1. PICK k \in Polls : plugin' = [plugin EXCEPT !.poll = k] /\ plugin.at = "waiting"
                             /\ UNCHANGED inflight
      BY <2>6 DEF PluginPolls
    <3>2. plugin' = [at |-> plugin.at, q |-> plugin.q, call |-> plugin.call,
                     answer |-> plugin.answer, poll |-> k]
      BY <1>0, <3>1, PluginFields
    <3>3. plugin' \in PluginType BY <1>0, <3>1, <3>2, PluginFields DEF PluginType
    <3>4. /\ plugin'.at = plugin.at /\ plugin'.q = plugin.q /\ plugin'.call = plugin.call
          /\ plugin'.answer = plugin.answer
      BY <3>2
    <3> QED BY <1>0, <3>1, <3>3, <3>4 DEF PluginShape, Goal, Same
  <2>7. CASE PluginLosesPoll \/ (PluginDecided /\ plugin.answer = All("pending"))
    <3>1. /\ plugin.at = "waiting" /\ UNCHANGED inflight
          /\ \/ plugin' = [plugin EXCEPT !.poll = None]
             \/ plugin' = [plugin EXCEPT !.poll = None, !.answer = None]
      <4>1. CASE PluginLosesPoll BY <4>1 DEF PluginLosesPoll
      <4>2. CASE PluginDecided /\ plugin.answer = All("pending")
        <5>1. All("pending") # All("stale") BY DEF All
        <5> QED BY <4>2, <5>1 DEF PluginDecided
      <4> QED BY <2>7, <4>1, <4>2
    <3>2. PICK a \in {plugin.answer, None} :
             plugin' = [at |-> plugin.at, q |-> plugin.q, call |-> plugin.call,
                        answer |-> a, poll |-> None]
      BY <1>0, <3>1, PluginFields
    <3>3. plugin' \in PluginType BY <1>0, <3>1, <3>2, PluginFields DEF PluginType, Answers
    <3>4. /\ plugin'.at = plugin.at /\ plugin'.q = plugin.q /\ plugin'.call = plugin.call
          /\ plugin'.poll = None
      BY <3>2
    <3> QED BY <1>0, <3>1, <3>3, <3>4 DEF PluginShape, Goal, Same
  <2>8. CASE PluginDecided /\ plugin.answer # All("pending")
    <3>1. \E at \in PluginStates \ {"comparing"} :
             plugin' = [Away EXCEPT !.at = at] /\ UNCHANGED inflight /\ plugin.at # "idle"
      BY <2>2, <2>8 DEF PluginDecided, Carries, PluginStates
    <3> QED BY <2>1, <3>1
  <2>9. CASE PluginStarts
    <3>1. \E at \in PluginStates \ {"comparing"} :
             plugin' = [Away EXCEPT !.at = at] /\ UNCHANGED inflight /\ plugin.at # "idle"
      BY <2>2, <2>9 DEF PluginStarts, Carries, PluginStates
    <3> QED BY <2>1, <3>1
  <2>10. CASE PluginFails \/ PluginRestarts
    BY <2>1, <2>2, <2>10 DEF PluginFails, PluginRestarts
  <2> QED BY <1>5, <2>4, <2>5, <2>6, <2>7, <2>8, <2>9, <2>10 DEF Plugin
<1>6. CASE \/ \E s \in Services : Edit(s)
           \/ \E w \in Windows : Window(w)
  BY <1>1, <1>6 DEF Edit, Window, Goal
<1>7. CASE \E m \in mail : Handle(m) BY <1>1, <1>7 DEF Handle, Goal
<1>8. CASE \E d \in deciding : Revalidate(d) \/ ChooseStudio(d)
  BY <1>1, <1>8 DEF Revalidate, ChooseStudio, Goal
<1>9. CASE PrepareReads \/ Expire \/ Crash \/ UNCHANGED vars
  BY <1>1, <1>9 DEF PrepareReads, Expire, Crash, vars, Goal
<1> QED BY <1>2, <1>3, <1>4, <1>5, <1>6, <1>7, <1>8, <1>9 DEF Next

(* A scan is of a question later than any before. *)
LEMMA ScanFacts ==
    ASSUME DiskHolds, PluginHolds, PluginScans
    PROVE  /\ PluginShape' /\ plugin'.q \in Questions /\ plugin'.q > plugin.q
           /\ plugin'.q <= MaxScans - budget'.scans
           /\ plugin'.at = "comparing"
           /\ \E r \in Calls : /\ r.q = plugin'.q /\ CallHolds(r, plugin'.q)
                               /\ inflight' = inflight \cup {r}
<1> DEFINE q == MaxScans - budget.scans + 1
           r == [q |-> q, service |-> 0, phase |-> "stats", try |-> 1]
<1>1. /\ budget \in Bound /\ PluginShape /\ plugin.q <= MaxScans - budget.scans
      /\ plugin.q \in 0..MaxScans /\ MaxScans \in Nat /\ N \in Nat \ {0}
  BY ChoiceAssumption, PluginFields DEF DiskHolds, PluginHolds
<1>2. budget.scans \in 0..MaxScans /\ budget.scans > 0 /\ budget'.scans = budget.scans - 1
  BY <1>1, SpendStep DEF PluginScans, Bound
<1>3. q \in Questions /\ q > plugin.q /\ q <= MaxScans - budget'.scans
  BY <1>1, <1>2 DEF Questions
<1>4. plugin.at = "idle" /\ Sends(q, 0, "stats", 1) BY DEF PluginScans
<1> HIDE DEF q
<1>5. plugin.poll = None BY <1>1, <1>4 DEF PluginShape
<1>6. /\ PluginShape' /\ plugin'.q = q /\ r \in Calls /\ CallHolds(r, q)
      /\ inflight' = inflight \cup {r}
  <2>1. 0 \in 0..N /\ "stats" \in {"stats"} \cup PhaseNames /\ 1 \in {1, 2} BY <1>1
  <2>2. "stats" = "stats" => 0 = 0 /\ 1 = 1 OBVIOUS
  <2> QED BY ONLY <1>1, <1>3, <1>4, <1>5, <2>1, <2>2, PluginSends
<1>7. plugin'.at = "comparing" BY <1>1, <1>4, PluginFields DEF Sends
<1> QED BY <1>3, <1>6, <1>7

LEMMA PluginTurns ==
    ASSUME DiskHolds, SessionHolds, PluginHolds, PollsHold, [Next]_vars
    PROVE  PluginHolds' /\ plugin'.q >= plugin.q
<1>1. PluginShape' /\ plugin'.q >= plugin.q /\ plugin'.q <= MaxScans - budget'.scans
      /\ plugin.q \in Nat /\ plugin'.q \in Nat
  <2>1. CASE PluginScans BY <2>1, ScanFacts, PluginFields DEF PluginHolds, Questions
  <2>2. CASE ~PluginScans
    <3>1. PluginShape' /\ plugin'.q = plugin.q BY <2>2, PluginStep
    <3>2. plugin.q \in 0..MaxScans /\ plugin.q <= MaxScans - budget.scans
      BY PluginFields DEF PluginHolds
    <3>3. budget'.scans <= budget.scans /\ budget.scans \in Nat /\ budget'.scans \in Nat
          /\ MaxScans \in Nat
      BY DiskStep, ChoiceAssumption DEF DiskHolds, Bound
    <3> QED BY <3>1, <3>2, <3>3
  <2> QED BY <2>1, <2>2
<1>2. \A r \in Calls : r.q \in Nat BY CallFacts DEF Questions
<1>3. inflight' \subseteq Calls /\ \A r \in inflight' : CallHolds(r, plugin'.q)
  <2>1. \A r \in inflight : r \in Calls /\ CallHolds(r, plugin'.q)
    BY <1>1, <1>2 DEF PluginHolds, CallHolds
  <2>2. CASE PluginScans BY <2>1, <2>2, ScanFacts
  <2>3. CASE ~PluginScans BY <2>1, <2>3, PluginStep
  <2> QED BY <2>2, <2>3
<1>4. session' # None => session'.q <= plugin'.q
  <2>1. session # None => session.q \in Nat /\ session.q <= plugin.q
    BY DEF SessionHolds, Sessions, Questions, PluginHolds
  <2>2. \A r \in inflight : r.q \in Nat /\ r.q <= plugin.q
    BY <1>2 DEF PluginHolds, CallHolds
  <2> QED BY <1>1, <2>1, <2>2, SessionOf
<1> QED BY <1>1, <1>3, <1>4 DEF PluginHolds

-------------------------------------------------------------------------------
(* The question. What happens to it: it is answered as a message means, half a selection is
   taken or dropped, it goes, or a new one is asked. *)
Chooses(m) == /\ Asked(m.q) /\ slot.choice = None
              /\ m.kind = "full" \/ (m.kind = "chunk" /\ m.sub \in Submissions /\ m.choice = "disk")
              /\ Chosen(m.q, Meant(m))
Halves == /\ slot # None /\ slot.choice = None
          /\ \E sub \in Submissions :
                slot' = [slot EXCEPT !.sub = sub, !.got = {<<sub, 0>>}, !.next = 1]
Drops  == /\ slot # None /\ slot' = [slot EXCEPT !.sub = None, !.got = {}]
Asks   == \E r \in inflight : /\ Receive(r) /\ Finish(r)
                              /\ slot' = Question(r.q, session.gens)
                              /\ compared' = [compared EXCEPT ![r.q] = session.gens]
SlotTurns == \/ \E m \in Mail : Chooses(m) /\ UNCHANGED compared
             \/ UNCHANGED verdict /\ UNCHANGED compared /\ (Halves \/ Drops \/ UNCHANGED slot \/ slot' = None)
             \/ UNCHANGED verdict /\ Asks

(* The messages of a window and their submissions. *)
LEMMA Messages ==
    ASSUME WindowsHold, DiskHolds, NEW m \in mail
    PROVE  /\ m \in Mail /\ m.q \in Questions /\ m.choice \in Choices /\ m.chunk \in Chunks
           /\ m.kind \in {"full", "chunk", "abort"}
           /\ m.kind # "full" => m.sub \in 1..Begun /\ m.sub \in Submissions /\ m.choice = "disk"
<1>1. m \in Mail /\ m \in Sent BY DEF WindowsHold, MailHolds, Sent
<1>2. m.kind # "full" => m.sub \in 1..Begun /\ m.choice = "disk"
  BY <1>1 DEF WindowsHold, MailHolds
<1>3. Begun \in 0..MaxSubmits /\ MaxSubmits \in Nat
  BY ChoiceAssumption DEF Begun, DiskHolds, Bound
<1> QED BY <1>1, <1>2, <1>3, MailFacts DEF Submissions

LEMMA SelectionTurns ==
    ASSUME SlotHolds, WindowsHold, DiskHolds, NEW m \in mail, Selection(m)
    PROVE  \/ Chooses(m)
           \/ UNCHANGED verdict /\ (Halves \/ UNCHANGED slot)
<1>1. /\ m \in Mail /\ m.kind = "chunk" /\ m.sub \in Submissions /\ m.chunk \in {0, 1}
      /\ m.choice = "disk" /\ None \notin Submissions
  BY Messages, ChoiceAssumption DEF Selection, Chunks
<1>2. CASE \/ m.sub \in replays \/ ~Takes(m) \/ (slot.sub = m.sub /\ m.chunk < slot.next)
  BY <1>2 DEF Selection, Refuse
<1>3. CASE /\ m.sub \notin replays /\ Takes(m) /\ ~(slot.sub = m.sub /\ m.chunk < slot.next)
  <2>1. /\ Asked(m.q) /\ slot.choice = None /\ slot # None
        /\ m.chunk = 0 \/ slot.sub = m.sub
    BY <1>3 DEF Takes, Asked
  <2>2. slot.sub = m.sub => slot.got = {<<m.sub, 0>>} /\ slot.next = 1
    BY <1>1, <2>1 DEF SlotHolds
  <2>3. CASE m.chunk = Last
    <3>1. slot.sub = m.sub BY <2>1, <2>3 DEF Last
    <3>2. Chosen(m.q, [choice |-> "disk", paths |-> {<<m.sub, 0>>} \cup {<<m.sub, 1>>}])
      BY <1>3, <2>2, <2>3, <3>1 DEF Selection, Last
    <3>3. Meant(m) = [choice |-> "disk", paths |-> {<<m.sub, 0>>} \cup {<<m.sub, 1>>}]
      BY <1>1 DEF Meant, Chunks
    <3> QED BY <1>1, <2>1, <3>2, <3>3 DEF Chooses
  <2>4. CASE m.chunk # Last
    <3>1. m.chunk = 0 /\ slot.sub # m.sub BY <1>1, <1>3, <2>2, <2>4 DEF Last
    <3>2. slot' = [slot EXCEPT !.sub = m.sub, !.got = {} \cup {<<m.sub, m.chunk>>}, !.next = 1]
          /\ UNCHANGED verdict
      BY <1>3, <2>4, <3>1 DEF Selection
    <3>3. {} \cup {<<m.sub, m.chunk>>} = {<<m.sub, 0>>} BY <3>1
    <3> QED BY <1>1, <2>1, <3>2, <3>3 DEF Halves
  <2> QED BY <2>3, <2>4
<1> QED BY <1>2, <1>3

LEMMA SlotOf ==
    ASSUME SlotHolds, WindowsHold, DiskHolds, [Next]_vars
    PROVE  SlotTurns
<1>1. ASSUME NEW m \in Mail, m.kind = "full", Choose(m), UNCHANGED compared PROVE SlotTurns
  <2>1. Meant(m) = All(m.choice) BY <1>1 DEF Meant, All
  <2> QED BY <1>1, <2>1 DEF Choose, Refuse, SlotTurns, Chooses, Asked
<1>2. CASE \E m \in mail : Handle(m)
  <2>1. PICK m \in mail : Handle(m) BY <1>2
  <2>2. m \in Mail /\ UNCHANGED compared BY <2>1, Messages DEF Handle
  <2>3. CASE DecideAll(m) BY <1>1, <2>2, <2>3 DEF DecideAll
  <2>4. CASE DecideStudio(m) BY <2>2, <2>4 DEF DecideStudio, Refuse, SlotTurns
  <2>5. CASE Selection(m) BY <2>1, <2>2, <2>5, SelectionTurns DEF SlotTurns
  <2>6. CASE Abort(m) BY <2>2, <2>6 DEF Abort, SlotTurns, Drops, Asked
  <2> QED BY <2>1, <2>3, <2>4, <2>5, <2>6 DEF Handle
<1>3. CASE \E d \in deciding : Revalidate(d) \/ ChooseStudio(d)
  <2>1. PICK d \in deciding : Revalidate(d) \/ ChooseStudio(d) BY <1>3
  <2>2. d.m \in Mail /\ d.m.kind = "full" BY DEF WindowsHold
  <2>3. CASE Revalidate(d) BY <2>3 DEF Revalidate, observed, SlotTurns
  <2>4. CASE ChooseStudio(d) BY <1>1, <2>2, <2>4 DEF ChooseStudio
  <2> QED BY <2>1, <2>3, <2>4
<1>4. CASE \E r \in inflight : Receive(r)
  <2>1. PICK r \in inflight : Receive(r) BY <1>4
  <2>2. CASE Finish(r) BY <2>1, <2>2 DEF Finish, SlotTurns, Asks
  <2>3. CASE ~Finish(r)
    BY <2>1, <2>3 DEF Receive, InitialCompare, RefuseChunk, Structure, DiskPrepare,
       Identities, NextService, SlotTurns
  <2> QED BY <2>2, <2>3
<1>5. CASE \E k \in Polls : InitialDecision(k)
  BY <1>5 DEF InitialDecision, PollGrants, PollAnswers, observed, SlotTurns
<1>6. CASE Expire BY <1>6 DEF Expire, observed, SlotTurns, Drops
<1>7. CASE Crash BY <1>7 DEF Crash, observed, SlotTurns
<1>8. CASE \E s \in Services : Edit(s) BY <1>8 DEF Edit, observed, daemonVars, SlotTurns
<1>9. CASE \E w \in Windows : Window(w) BY <1>9 DEF Window, daemonVars, SlotTurns
<1>10. CASE Plugin
  BY <1>10 DEF Plugin, PluginScans, PluginCompares, PluginTimesOut, PluginPolls,
     PluginLosesPoll, PluginDecided, PluginStarts, PluginFails, PluginRestarts, daemonVars,
     observed, SlotTurns
<1>11. CASE PrepareReads \/ Lose \/ UNCHANGED vars
  BY <1>11 DEF PrepareReads, Lose, vars, daemonVars, observed, SlotTurns
<1> QED BY <1>2, <1>3, <1>4, <1>5, <1>6, <1>7, <1>8, <1>9, <1>10, <1>11 DEF Next

LEMMA SlotFields ==
    ASSUME SlotHolds, slot # None
    PROVE  /\ slot = [q |-> slot.q, choice |-> slot.choice, paths |-> slot.paths, gens |-> slot.gens,
                      sub |-> slot.sub, next |-> slot.next, got |-> slot.got]
           /\ slot.q \in Questions /\ slot.choice \in Choices \cup {None} /\ slot.paths \in Paths
           /\ slot.gens \in GenMaps /\ slot.sub \in Submissions \cup {None}
           /\ slot.next \in Chunks /\ slot.got \in Paths
<1>1. slot \in Slots BY DEF SlotHolds
<1> QED BY <1>1 DEF Slots

(* The question of a slot that is answered, half filled or emptied stays. *)
LEMMA SlotKeeps ==
    ASSUME SlotHolds, \/ \E m \in Mail : Chooses(m)
                      \/ Halves \/ Drops
    PROVE  slot # None /\ slot'.q = slot.q /\ slot'.gens = slot.gens
  BY SlotFields DEF Chooses, Chosen, Asked, Halves, Drops

(* A question stays new until the comparison of it ends. *)
LEMMA FreshStays ==
    ASSUME SlotHolds, SessionHolds, SlotTurns, NEW q \in Questions, Fresh(q)
    PROVE  \/ Fresh(q)'
           \/ /\ session # None /\ session.q = q /\ ~session.over
              /\ session'.over /\ session'.q = q
<1> DEFINE Goal == \/ Fresh(q)'
                   \/ /\ session # None /\ session.q = q /\ ~session.over
                      /\ session'.over /\ session'.q = q
<1> SUFFICES Goal OBVIOUS
<1> HIDE DEF Goal
<1>1. CASE \E m \in Mail : Chooses(m)
  <2>1. PICK m \in Mail : Chooses(m) BY <1>1
  <2>2. slot # None /\ slot'.q = slot.q /\ slot.q # q /\ m.q = slot.q
    BY <2>1, SlotKeeps DEF Fresh, Chooses, Asked
  <2>3. verdict'[q] = verdict[q] BY <2>1, <2>2 DEF Chooses, Chosen, SlotHolds
  <2> QED BY <2>2, <2>3 DEF Fresh, Goal
<1>2. CASE UNCHANGED verdict /\ (Halves \/ Drops) BY <1>2, SlotKeeps DEF Fresh, Goal
<1>3. CASE UNCHANGED verdict /\ (UNCHANGED slot \/ slot' = None) BY <1>3 DEF Fresh, Goal
<1>4. CASE UNCHANGED verdict /\ Asks
  <2>1. PICK r \in inflight : Finish(r) /\ slot' = Question(r.q, session.gens)
    BY <1>4 DEF Asks
  <2>2. slot'.q = r.q BY <2>1 DEF Question
  <2>3. session \in Sessions /\ session # None /\ session.q = r.q /\ ~session.over
    BY <2>1, OpenFacts DEF Finish, Open
  <2>4. session'.over /\ session'.q = session.q BY <2>1, <2>3 DEF Finish, Advance, Sessions
  <2> QED BY <1>4, <2>2, <2>3, <2>4 DEF Fresh, Goal
<1> QED BY <1>1, <1>2, <1>3, <1>4 DEF SlotTurns

(* What was decided stays decided, and what it was decided about compared. *)
LEMMA DecidedStays ==
    ASSUME SlotHolds, SessionHolds, QuestionsAreNew, SlotTurns, NEW q \in Questions, verdict[q] # None
    PROVE  verdict'[q] = verdict[q] /\ compared'[q] = compared[q]
<1>1. CASE \E m \in Mail : Chooses(m) /\ UNCHANGED compared
  <2>1. PICK m \in Mail : Chooses(m) /\ UNCHANGED compared BY <1>1
  <2>2. m.q = slot.q /\ verdict[slot.q] = None BY <2>1 DEF Chooses, Asked, SlotHolds
  <2>3. verdict'[q] = verdict[q] BY <2>1, <2>2 DEF Chooses, Chosen, SlotHolds
  <2> QED BY <2>1, <2>3
<1>2. CASE UNCHANGED <<verdict, compared>> BY <1>2
<1>3. CASE UNCHANGED verdict /\ Asks
  <2>1. PICK r \in inflight : Finish(r) /\ compared' = [compared EXCEPT ![r.q] = session.gens]
    BY <1>3 DEF Asks
  <2>2. session # None /\ session.q = r.q /\ ~session.over
    BY <2>1, OpenFacts DEF Finish, Open
  <2>3. q # r.q BY <2>2 DEF QuestionsAreNew, Fresh
  <2> QED BY <1>3, <2>1, <2>3 DEF SlotHolds
<1> QED BY <1>1, <1>2, <1>3 DEF SlotTurns

LEMMA QuestionsStep ==
    ASSUME DiskHolds, SessionHolds, PluginHolds, QuestionsAreNew, SlotHolds, PollsHold, SlotTurns,
           [Next]_vars
    PROVE  QuestionsAreNew'
<1>0. /\ plugin'.q >= plugin.q /\ plugin.q \in Nat /\ plugin'.q \in Nat
      /\ \A r \in Calls : r.q \in Questions /\ r.q \in Nat
      /\ \A q \in Questions : q \in Nat
      /\ None \notin Sessions
  BY PluginTurns, PluginFields, CallFacts, ChoiceAssumption DEF PluginHolds, Questions,
     PluginShape, PluginType
<1>1. session # None => session.q \in Questions /\ session.q \in Nat /\ session.q <= plugin.q
  BY <1>0 DEF SessionHolds, Sessions, PluginHolds
<1>2. ASSUME NEW r \in inflight, r.phase = "stats"
      PROVE  Fresh(r.q)' /\ r.q \in Questions /\ r.q <= plugin.q
  <2>1. r.q \in Questions /\ Fresh(r.q) /\ (session # None => session.q # r.q) /\ r.q <= plugin.q
    BY <1>0, <1>2 DEF PluginHolds, QuestionsAreNew, CallHolds
  <2> QED BY <2>1, FreshStays
<1>3. ASSUME NEW q, session' # None, ~session'.over, session'.q = q PROVE Fresh(q)'
  <2>1. CASE session # None /\ q = session.q /\ ~session.over
    <3>1. q \in Questions /\ Fresh(q) BY <1>1, <2>1 DEF QuestionsAreNew
    <3> QED BY <1>3, <3>1, FreshStays
  <2>2. CASE \E r \in inflight : Receive(r) /\ InitialCompare(r) /\ q = r.q
    BY <1>2, <2>2 DEF InitialCompare
  <2> QED BY <1>3, <2>1, <2>2, SessionOf
<1>4. ASSUME NEW r \in inflight', r.phase = "stats"
      PROVE  Fresh(r.q)' /\ (session' # None => session'.q # r.q)
  <2>1. CASE r \in inflight
    <3>1. Fresh(r.q)' /\ (session # None => session.q # r.q)
      BY <1>2, <1>4, <2>1 DEF QuestionsAreNew
    <3>2. ASSUME NEW r2 \in inflight, Receive(r2), InitialCompare(r2) PROVE r2.q # r.q
      <4>1. r # r2 /\ r \in Calls /\ r2 \in Calls /\ r2.phase = "stats"
        BY <1>4, <2>1, <3>2 DEF Receive, InitialCompare, PluginHolds
      <4>2. r.service = 0 /\ r.try = 1 /\ r2.service = 0 /\ r2.try = 1
        BY <1>4, <2>1, <4>1 DEF PluginHolds, CallHolds
      <4> QED BY <1>4, <4>1, <4>2, CallFacts
    <3> QED BY <3>1, <3>2, SessionOf
  <2>2. CASE r \notin inflight
    <3>1. PluginScans BY <1>4, <2>2, PluginStep
    <3>2. r.q \in Questions /\ r.q > plugin.q BY <2>2, <3>1, <1>0, ScanFacts
    <3>3. Fresh(r.q) /\ UNCHANGED <<session, slot, verdict>>
      BY <3>1, <3>2 DEF QuestionsAreNew, PluginScans, daemonVars, observed
    <3> QED BY <1>0, <1>1, <3>2, <3>3 DEF Fresh
  <2> QED BY <2>1, <2>2
<1>5. ASSUME NEW q \in Questions, q > plugin'.q PROVE Fresh(q)'
  <2>1. q > plugin.q /\ q \in Nat BY <1>0, <1>5
  <2>2. Fresh(q) /\ ~(session # None /\ session.q = q)
    BY <1>0, <1>1, <2>1 DEF QuestionsAreNew
  <2> QED BY <2>2, FreshStays
<1> QED BY <1>3, <1>4, <1>5 DEF QuestionsAreNew, Fresh

(* What a message that chooses means is all of a side, or a whole selection. *)
LEMMA MeantFacts ==
    ASSUME NEW m \in Mail, \/ m.kind = "full"
                           \/ m.kind = "chunk" /\ m.sub \in Submissions /\ m.choice = "disk"
    PROVE  /\ Meant(m) \in Verdict /\ Meant(m).choice \in Choices /\ Meant(m).paths \in Paths
           /\ Meant(m) = [choice |-> Meant(m).choice, paths |-> Meant(m).paths]
           /\ m.kind = "full" => Meant(m) = All(m.choice)
           /\ m.kind = "chunk" => Meant(m) = Whole(m.sub)
<1>1. m.choice \in Choices /\ "full" # "chunk" BY MailFacts
<1>2. CASE m.kind = "full"
  <2>1. Meant(m) = [choice |-> m.choice, paths |-> {}] BY <1>2 DEF Meant
  <2>2. {} \in Paths BY DEF Paths
  <2> QED BY <1>1, <1>2, <2>1, <2>2 DEF Verdict, Verdicts, All
<1>3. CASE m.kind = "chunk" /\ m.sub \in Submissions /\ m.choice = "disk"
  <2>1. Meant(m) = [choice |-> "disk", paths |-> {<<m.sub, c>> : c \in Chunks}]
    BY <1>3 DEF Meant
  <2>2. {<<m.sub, c>> : c \in Chunks} = {m.sub} \X Chunks OBVIOUS
  <2>3. {m.sub} \X Chunks \in Paths BY <1>3 DEF Paths
  <2> QED BY SMTT(60), <1>1, <1>3, <2>1, <2>2, <2>3 DEF Verdict, Verdicts, Whole
<1> QED BY <1>2, <1>3

(* The compared trees a question is about are trees of the disk. *)
LEMMA GensFacts ==
    ASSUME DiskHolds, SessionHolds, NEW r, Finish(r)
    PROVE  /\ session \in Sessions /\ session # None /\ session.q = r.q /\ ~session.over
           /\ r.q \in Questions /\ session.gens \in Gens /\ session.gens \in GenMaps
<1>1. session \in Sessions /\ session # None /\ session.q = r.q /\ ~session.over
      /\ session.service = N /\ session.phase = 4
  BY OpenFacts, PhaseFacts DEF Finish, Open
<1>2. N \in Nat \ {0} BY ChoiceAssumption
<1>3. Len(session.gens) = N /\ session.gens \in Seq(Nat) /\ r.q \in Questions
  BY <1>1, <1>2 DEF SessionHolds, Sessions
<1>4. \A s \in 1..N : session.gens[s] \in 1..Gen(s) /\ Gen(s) \in 1..(MaxEdits + 1)
  BY <1>1, <1>3, GenFacts DEF SessionHolds, Services
<1>5. MaxEdits \in Nat BY ChoiceAssumption
<1>6. \A s \in 1..N : session.gens[s] \in 1..(MaxEdits + 1) /\ session.gens[s] <= Gen(s)
  BY <1>4, <1>5
<1>7. session.gens \in [1..N -> 1..(MaxEdits + 1)] BY <1>3, <1>6
<1> QED BY <1>1, <1>3, <1>6, <1>7 DEF GenMaps, Gens, Services

LEMMA GensGrow ==
    ASSUME DiskHolds, [Next]_vars, NEW g \in Gens
    PROVE  g \in Gens' /\ g \in GenMaps
<1>1. \A s \in Services : Gen(s)' >= Gen(s) /\ Gen(s) \in Nat /\ Gen(s)' \in Nat /\ g[s] \in Nat
  BY DiskStep DEF DiskHolds, Gens, GenMaps, Services
<1>2. g \in GenMaps /\ \A s \in Services : g[s] <= Gen(s) BY DEF Gens
<1>3. \A s \in Services : g[s] <= Gen(s)' BY <1>1, <1>2
<1> QED BY <1>2, <1>3 DEF Gens, GenMaps, Services

LEMMA SlotStep ==
    ASSUME DiskHolds, SessionHolds, QuestionsAreNew, SlotHolds, SlotTurns, [Next]_vars
    PROVE  SlotHolds'
<1> DEFINE Shown == slot # None =>
          /\ verdict[slot.q] = IF slot.choice = None THEN None
                               ELSE [choice |-> slot.choice, paths |-> slot.paths]
          /\ slot.gens = compared[slot.q] /\ slot.gens \in Gens
          /\ slot.sub # None => slot.got = {<<slot.sub, 0>>} /\ slot.next = 1
<1>0. /\ verdict \in [Questions -> Verdict \cup {None}]
      /\ compared \in [Questions -> GenMaps \cup {None}]
      /\ None \notin Choices /\ None \notin Submissions /\ Shown
  BY ChoiceAssumption DEF SlotHolds
<1>1. CASE \E m \in Mail : Chooses(m) /\ UNCHANGED compared
  <2>1. PICK m \in Mail : Chooses(m) /\ UNCHANGED compared BY <1>1
  <2>2. /\ slot # None /\ m.q = slot.q /\ slot.choice = None /\ Meant(m) \in Verdict
        /\ Meant(m).choice \in Choices /\ Meant(m).paths \in Paths
        /\ Meant(m) = [choice |-> Meant(m).choice, paths |-> Meant(m).paths]
    BY <2>1, MeantFacts DEF Chooses, Asked
  <2>3. /\ verdict' = [verdict EXCEPT ![slot.q] = Meant(m)]
        /\ slot' = [q |-> slot.q, choice |-> Meant(m).choice, paths |-> Meant(m).paths,
                    gens |-> slot.gens, sub |-> None, next |-> slot.next, got |-> {}]
    BY <2>1, <2>2, SlotFields DEF Chooses, Chosen
  <2>4. slot' \in Slots BY <2>2, <2>3, SlotFields DEF Slots, Paths
  <2>5. slot.gens \in Gens' BY <1>0, <2>2, GensGrow
  <2>6. verdict' \in [Questions -> Verdict \cup {None}]
        /\ verdict'[slot.q] = [choice |-> Meant(m).choice, paths |-> Meant(m).paths]
    BY <1>0, <2>2, <2>3, SlotFields
  <2>7. /\ slot'.q = slot.q /\ slot'.choice = Meant(m).choice /\ slot'.paths = Meant(m).paths
        /\ slot'.gens = slot.gens /\ slot'.sub = None /\ slot'.choice # None
    BY <1>0, <2>2, <2>3
  <2> HIDE DEF Shown
  <2>8. Shown' BY <1>0, <2>1, <2>2, <2>5, <2>6, <2>7 DEF Shown
  <2> QED BY <1>0, <2>1, <2>4, <2>6, <2>8 DEF SlotHolds, Shown
<1>2. CASE UNCHANGED <<verdict, compared>> /\ (Halves \/ Drops)
  <2>1. /\ slot # None
        /\ \E sub \in Submissions \cup {None}, next \in Chunks, got \in Paths :
              /\ slot' = [q |-> slot.q, choice |-> slot.choice, paths |-> slot.paths,
                          gens |-> slot.gens, sub |-> sub, next |-> next, got |-> got]
              /\ sub # None => got = {<<sub, 0>>} /\ next = 1
    <3>1. CASE Halves
      <4>1. PICK sub \in Submissions :
               slot' = [slot EXCEPT !.sub = sub, !.got = {<<sub, 0>>}, !.next = 1]
        BY <3>1 DEF Halves
      <4>2. slot # None /\ {<<sub, 0>>} \in Paths /\ 1 \in Chunks
        BY <3>1 DEF Halves, Paths, Chunks
      <4>3. slot' = [q |-> slot.q, choice |-> slot.choice, paths |-> slot.paths,
                     gens |-> slot.gens, sub |-> sub, next |-> 1, got |-> {<<sub, 0>>}]
        BY <4>1, <4>2, SlotFields
      <4> QED BY <4>2, <4>3
    <3>2. CASE Drops
      <4>1. slot # None /\ slot' = [slot EXCEPT !.sub = None, !.got = {}] /\ {} \in Paths
        BY <3>2 DEF Drops, Paths
      <4>2. slot' = [q |-> slot.q, choice |-> slot.choice, paths |-> slot.paths,
                     gens |-> slot.gens, sub |-> None, next |-> slot.next, got |-> {}]
            /\ slot.next \in Chunks
        BY <4>1, SlotFields
      <4> QED BY <4>1, <4>2
    <3> QED BY <1>2, <3>1, <3>2
  <2>2. PICK sub \in Submissions \cup {None}, next \in Chunks, got \in Paths :
           /\ slot' = [q |-> slot.q, choice |-> slot.choice, paths |-> slot.paths,
                       gens |-> slot.gens, sub |-> sub, next |-> next, got |-> got]
           /\ sub # None => got = {<<sub, 0>>} /\ next = 1
    BY <2>1
  <2>3. slot' \in Slots BY <2>1, <2>2, SlotFields DEF Slots
  <2>4. slot.gens \in Gens' BY <1>0, <2>1, GensGrow
  <2>5. /\ slot'.q = slot.q /\ slot'.choice = slot.choice /\ slot'.paths = slot.paths
        /\ slot'.gens = slot.gens /\ slot'.sub = sub /\ slot'.next = next /\ slot'.got = got
    BY <2>2
  <2> HIDE DEF Shown
  <2>6. Shown' BY <1>0, <1>2, <2>1, <2>2, <2>4, <2>5 DEF Shown
  <2> QED BY <1>0, <1>2, <2>3, <2>6 DEF SlotHolds, Shown
<1>3. CASE UNCHANGED <<verdict, compared, slot>>
  <2>1. slot # None => slot.gens \in Gens' BY <1>0, GensGrow
  <2> QED BY <1>3, <2>1 DEF SlotHolds
<1>4. CASE UNCHANGED <<verdict, compared>> /\ slot' = None BY <1>0, <1>4 DEF SlotHolds
<1>5. CASE UNCHANGED verdict /\ Asks
  <2>1. PICK r \in inflight : /\ Finish(r) /\ slot' = Question(r.q, session.gens)
                              /\ compared' = [compared EXCEPT ![r.q] = session.gens]
    BY <1>5 DEF Asks
  <2>2. /\ session # None /\ session.q = r.q /\ ~session.over /\ r.q \in Questions
        /\ session.gens \in Gens /\ session.gens \in GenMaps
    BY <2>1, GensFacts
  <2>3. verdict[r.q] = None /\ session.gens \in Gens'
    BY <2>2, GensGrow DEF QuestionsAreNew, Fresh
  <2>4. slot' = [q |-> r.q, choice |-> None, paths |-> {}, gens |-> session.gens, sub |-> None,
                 next |-> 0, got |-> {}]
    BY <2>1 DEF Question
  <2>5. slot' \in Slots BY <2>2, <2>4 DEF Slots, Paths, Chunks
  <2>6. compared' \in [Questions -> GenMaps \cup {None}] /\ compared'[r.q] = session.gens
    BY <1>0, <2>1, <2>2
  <2>7. slot'.q = r.q /\ slot'.choice = None /\ slot'.gens = session.gens /\ slot'.sub = None
    BY <2>4
  <2> HIDE DEF Shown
  <2>8. Shown' BY <1>5, <2>3, <2>6, <2>7 DEF Shown
  <2> QED BY <1>0, <1>5, <2>5, <2>6, <2>8 DEF SlotHolds, Shown
<1> QED BY <1>1, <1>2, <1>3, <1>4, <1>5 DEF SlotTurns

-------------------------------------------------------------------------------
(* Polls and grants. The plugin asks for its own question, or not at all. *)
LEMMA PollOf ==
    ASSUME DiskHolds, SessionHolds, PluginHolds, PollsHold, [Next]_vars,
           ~\E k \in Polls : PluginPolls(k), plugin'.poll # None
    PROVE  plugin'.poll = plugin.poll /\ plugin'.q = plugin.q
<1>0. PluginShape BY DEF PluginHolds
<1>1. ~PluginScans
  <2>1. CASE PluginScans
    <3>1. PluginShape' /\ plugin'.at = "comparing" BY <2>1, ScanFacts
    <3> QED BY <3>1 DEF PluginShape
  <2> QED BY <2>1
<1>2. plugin'.q = plugin.q BY <1>1, PluginStep
<1>3. plugin'.poll \in {plugin.poll, None}
  <2>1. ASSUME NEW r \in inflight, Receive(r) PROVE plugin'.poll = plugin.poll
    BY <1>0, <2>1, PluginFields, ReceiveAnswers DEF Answer
  <2>2. ASSUME NEW k \in Polls, InitialDecision(k) PROVE plugin'.poll = plugin.poll
    BY <1>0, <2>2, PluginFields DEF InitialDecision, PollReads, PollPending, PollGrants,
       PollAnswers, Tell
  <2>3. CASE Lose BY <1>0, <2>3, PluginFields DEF Lose
  <2>4. CASE Plugin
    <3>1. Away.poll = None /\ \A at : [Away EXCEPT !.at = at].poll = None
      BY <1>0, PluginFields DEF Away
    <3>2. CASE PluginCompares \/ PluginTimesOut
      <4>1. plugin.at = "comparing" => plugin.poll = None BY <1>0 DEF PluginShape
      <4> QED BY <1>0, <3>1, <3>2, <4>1, PluginFields DEF PluginCompares, PluginTimesOut,
         Retries, Sends
    <3>3. CASE PluginLosesPoll BY <1>0, <3>3, PluginFields DEF PluginLosesPoll
    <3>4. CASE PluginDecided
      <4>1. All("pending") # All("stale") BY DEF All
      <4> QED BY <1>0, <3>1, <3>4, <4>1, PluginFields DEF PluginDecided, Carries
    <3>5. CASE PluginStarts \/ PluginFails \/ PluginRestarts
      BY <3>1, <3>5 DEF PluginStarts, PluginFails, PluginRestarts, Carries
    <3> QED BY <1>1, <2>4, <3>2, <3>3, <3>4, <3>5 DEF Plugin
  <2>5. CASE \/ \E s \in Services : Edit(s)
             \/ \E w \in Windows : Window(w)
    BY <2>5 DEF Edit, Window
  <2>6. CASE \/ \E m \in mail : Handle(m)
             \/ \E d \in deciding : Revalidate(d) \/ ChooseStudio(d)
    BY <2>6 DEF Handle, Revalidate, ChooseStudio
  <2>7. CASE PrepareReads \/ Expire \/ Crash \/ UNCHANGED vars
    BY <2>7 DEF PrepareReads, Expire, Crash, vars
  <2> QED BY <2>1, <2>2, <2>3, <2>4, <2>5, <2>6, <2>7 DEF Next
<1> QED BY <1>2, <1>3

(* Only a poll's own steps, and a crash, touch it. *)
LEMMA PollTurns ==
    ASSUME [Next]_vars
    PROVE  \/ UNCHANGED poll
           \/ \E k \in Polls : PluginPolls(k) \/ InitialDecision(k)
           \/ Crash
<1>1. CASE \E r \in inflight : Receive(r) BY <1>1 DEF Receive
<1>2. CASE \/ \E m \in mail : Handle(m)
           \/ \E d \in deciding : Revalidate(d) \/ ChooseStudio(d)
  BY <1>2 DEF Handle, Revalidate, ChooseStudio
<1>3. CASE \/ \E s \in Services : Edit(s)
           \/ \E w \in Windows : Window(w)
  BY <1>3 DEF Edit, Window, daemonVars
<1>4. CASE Plugin
  BY <1>4 DEF Plugin, PluginScans, PluginCompares, PluginTimesOut, PluginLosesPoll,
     PluginDecided, PluginStarts, PluginFails, PluginRestarts, daemonVars
<1>5. CASE PrepareReads \/ Expire \/ Lose \/ UNCHANGED vars
  BY <1>5 DEF PrepareReads, Expire, Lose, vars, daemonVars
<1> QED BY <1>1, <1>2, <1>3, <1>4, <1>5 DEF Next

LEMMA PollsStep ==
    ASSUME DiskHolds, SessionHolds, PluginHolds, QuestionsAreNew, SlotHolds, SlotTurns, PollsHold,
           [Next]_vars
    PROVE  PollsHold'
<1>0. /\ PluginShape /\ None \notin Polls /\ MaxScans \in Nat
      /\ poll \in [Polls -> PollType]
      /\ \A k \in Polls : poll[k] \in PollType /\ PollHolds(poll[k], verdict, compared)
  BY ChoiceAssumption DEF PluginHolds, PollsHold
<1>1. ASSUME NEW p \in PollType, PollHolds(p, verdict, compared) PROVE PollHolds(p, verdict', compared')
  <2>1. CASE p.at \in {"read", "granted"}
    <3>1. p.q \in Questions /\ verdict[p.q] # None
      BY <1>0, <1>1, <2>1 DEF PollHolds, PollType, Questions
    <3>2. verdict'[p.q] = verdict[p.q] /\ compared'[p.q] = compared[p.q]
      BY <3>1, DecidedStays
    <3> QED BY <1>1, <3>2 DEF PollHolds
  <2>2. CASE p.at \notin {"read", "granted"} BY <1>1, <2>2 DEF PollHolds
  <2> QED BY <2>1, <2>2
<1>2. Free \in PollType /\ PollHolds(Free, verdict', compared') /\ Free.at = "free"
  BY <1>0 DEF Free, PollType, PollHolds
<1>3. /\ plugin.poll \in Polls \cup {None}
      /\ plugin.poll # None /\ poll[plugin.poll].at # "free" => poll[plugin.poll].q = plugin.q
  BY <1>0, PluginFields DEF PollsHold
<1>4. ~(\E k \in Polls : PluginPolls(k)) /\ plugin'.poll # None =>
         plugin'.poll = plugin.poll /\ plugin'.q = plugin.q
  BY PollOf
<1>5. CASE UNCHANGED poll /\ ~\E k \in Polls : PluginPolls(k)
  BY <1>0, <1>1, <1>3, <1>4, <1>5 DEF PollsHold
<1>6. ASSUME NEW k \in Polls, NEW p \in PollType, poll' = [poll EXCEPT ![k] = p],
             PollHolds(p, verdict', compared'), p.at # "free" => p.q = poll[k].q /\ poll[k].at # "free",
             ~\E j \in Polls : PluginPolls(j)
      PROVE  PollsHold'
  <2>1. poll' \in [Polls -> PollType] /\ poll'[k] = p /\ \A j \in Polls \ {k} : poll'[j] = poll[j]
    BY <1>0, <1>6
  <2>2. \A j \in Polls : PollHolds(poll'[j], verdict', compared') BY <1>0, <1>1, <1>6, <2>1
  <2>3. plugin'.poll # None /\ poll'[plugin'.poll].at # "free" =>
           poll'[plugin'.poll].q = plugin'.q
    BY <1>3, <1>4, <1>6, <2>1
  <2> QED BY <2>1, <2>2, <2>3 DEF PollsHold
<1>7. ASSUME NEW k \in Polls, PluginPolls(k) PROVE PollsHold'
  <2>1. /\ plugin.at = "waiting" /\ plugin' = [plugin EXCEPT !.poll = k]
        /\ poll' = [poll EXCEPT ![k] = [Free EXCEPT !.at = "waiting", !.q = plugin.q]]
        /\ UNCHANGED <<verdict, compared>>
    BY <1>7 DEF PluginPolls, observed
  <2>2. plugin.q \in 0..MaxScans /\ plugin.q # 0 /\ plugin'.poll = k /\ plugin'.q = plugin.q
    BY <1>0, <2>1, PluginFields DEF PluginShape
  <2> DEFINE p == [at |-> "waiting", q |-> plugin.q, verdict |-> None, gens |-> None]
  <2>3. poll' = [poll EXCEPT ![k] = p]
    <3>1. PICK f : f = [Free EXCEPT !.at = "waiting", !.q = plugin.q] OBVIOUS
    <3>2. f = p BY <3>1 DEF Free
    <3> QED BY <2>1, <3>1, <3>2
  <2>4. p \in PollType /\ PollHolds(p, verdict', compared') /\ p.q = plugin.q
    BY <2>2 DEF PollType, PollHolds
  <2> HIDE DEF p
  <2>5. poll' \in [Polls -> PollType] /\ poll'[k] = p /\ \A j \in Polls \ {k} : poll'[j] = poll[j]
    BY <1>0, <2>3, <2>4
  <2>6. \A j \in Polls : PollHolds(poll'[j], verdict', compared') BY <1>0, <1>1, <2>4, <2>5
  <2> QED BY <2>2, <2>4, <2>5, <2>6 DEF PollsHold
<1>8. ASSUME NEW k \in Polls, InitialDecision(k), ~\E j \in Polls : PluginPolls(j) PROVE PollsHold'
  <2>0. poll[k] \in PollType /\ PollHolds(poll[k], verdict, compared) /\ UNCHANGED <<verdict, compared>>
    BY <1>0, <1>8 DEF InitialDecision, observed
  <2>1. CASE poll' = [poll EXCEPT ![k] = Free] BY <1>2, <1>6, <1>8, <2>1
  <2>2. CASE PollReads(k) /\ Asked(poll[k].q)
    <3>1. /\ poll[k].at = "waiting" /\ slot # None /\ slot.q = poll[k].q /\ slot.choice # None
          /\ poll' = [poll EXCEPT ![k].at = "read", ![k].gens = slot.gens,
                         ![k].verdict = [choice |-> slot.choice, paths |-> slot.paths]]
      BY <2>2 DEF PollReads, Asked
    <3> DEFINE v == [choice |-> slot.choice, paths |-> slot.paths]
               p == [at |-> "read", q |-> poll[k].q, verdict |-> v, gens |-> slot.gens]
    <3>2. v = verdict[slot.q] /\ slot.gens = compared[slot.q] /\ slot.q \in Questions
          /\ slot.gens \in GenMaps
      BY <3>1, SlotFields DEF SlotHolds
    <3>3. v # None BY <3>1, SlotFields, ChoiceAssumption DEF Verdicts
    <3>4. v \in Verdict BY <3>2, <3>3 DEF SlotHolds
    <3>5. poll' = [poll EXCEPT ![k] = p]
      <4>1. PICK f : f = [poll[k] EXCEPT !.at = "read", !.gens = slot.gens, !.verdict = v]
        OBVIOUS
      <4>2. f = p BY <2>0, <4>1 DEF PollType
      <4> QED BY <1>0, <3>1, <4>1, <4>2
    <3> HIDE DEF v
    <3>6. p \in PollType /\ PollHolds(p, verdict', compared') /\ p.q = poll[k].q
      BY <2>0, <3>1, <3>2, <3>3, <3>4 DEF PollType, PollHolds
    <3> HIDE DEF p
    <3> QED BY <1>6, <1>8, <3>1, <3>5, <3>6
  <2>3. CASE PollGrants(k)
    <3>1. poll[k].at = "read" /\ poll' = [poll EXCEPT ![k].at = "granted"]
      BY <2>3 DEF PollGrants
    <3> DEFINE p == [at |-> "granted", q |-> poll[k].q, verdict |-> poll[k].verdict,
                     gens |-> poll[k].gens]
    <3>2. poll' = [poll EXCEPT ![k] = p]
      <4>1. [poll[k] EXCEPT !.at = "granted"] = p BY <2>0 DEF PollType
      <4> QED BY <1>0, <3>1, <4>1
    <3>3. p \in PollType /\ PollHolds(p, verdict', compared') /\ p.q = poll[k].q
      BY <2>0, <3>1 DEF PollType, PollHolds
    <3> HIDE DEF p
    <3> QED BY <1>6, <1>8, <3>1, <3>2, <3>3
  <2> QED BY <1>8, <2>1, <2>2, <2>3 DEF InitialDecision, PollReads, PollPending, PollAnswers
<1>9. CASE Crash
  <2>1. poll' = [k \in Polls |-> Free] /\ UNCHANGED plugin BY <1>9 DEF Crash
  <2> QED BY <1>2, <1>3, <2>1 DEF PollsHold
<1> QED BY <1>5, <1>7, <1>8, <1>9, PollTurns

LEMMA GrantsStep ==
    ASSUME DiskHolds, SessionHolds, PluginHolds, QuestionsAreNew, SlotHolds, SlotTurns, PollsHold,
           GrantsHold, DoneHolds, [Next]_vars
    PROVE  GrantsHold'
<1>0. None \notin Verdicts /\ PluginShape BY ChoiceAssumption DEF PluginHolds
<1>1. ASSUME NEW g \in GrantType, GrantHolds(g, verdict, compared)
      PROVE  GrantHolds(g, verdict', compared')
  <2>1. g.q \in Questions /\ verdict[g.q] = g.verdict /\ g.verdict # None
    BY <1>0, <1>1 DEF GrantType, GrantHolds, Verdict
  <2> QED BY <1>1, <2>1, DecidedStays DEF GrantHolds
<1>2. CASE grants' \subseteq grants BY <1>1, <1>2 DEF GrantsHold
<1>3. ASSUME NEW g \in GrantType, GrantHolds(g, verdict, compared), grants' \subseteq grants \cup {g}
      PROVE  GrantsHold'
  BY <1>1, <1>3 DEF GrantsHold
<1>4. ASSUME NEW k \in Polls, PollGrants(k) PROVE GrantsHold'
  <2>1. poll[k] \in PollType /\ PollHolds(poll[k], verdict, compared) /\ poll[k].at = "read"
    BY <1>4 DEF PollsHold, PollGrants
  <2> DEFINE g == [q |-> poll[k].q, verdict |-> poll[k].verdict, gens |-> poll[k].gens]
  <2>2. /\ g.q \in Questions /\ g.verdict \in Verdict /\ g.gens \in GenMaps \cup {None}
        /\ g.verdict = verdict[g.q] /\ g.gens = compared[g.q]
    BY <2>1 DEF PollType, PollHolds, Questions
  <2>3. g \in GrantType BY <2>2 DEF GrantType
  <2>4. CASE NeedsGrant(g.verdict)
    <3>1. GrantHolds(g, verdict, compared) BY <2>2, <2>4 DEF GrantHolds
    <3>2. grants' \subseteq grants \cup {g} BY <1>4 DEF PollGrants
    <3> HIDE DEF g
    <3> QED BY <1>3, <2>3, <3>1, <3>2
  <2>5. CASE ~NeedsGrant(g.verdict) BY <1>2, <1>4, <2>5 DEF PollGrants
  <2> QED BY <2>4, <2>5
<1>5. CASE PluginFails
  <2>1. plugin.at = "transfer" /\ plugin.q \in Questions
    BY <1>0, <1>5, PluginFields DEF PluginFails, PluginShape, Questions
  <2> DEFINE v == done[plugin.q]
             g == [q |-> plugin.q, verdict |-> v, gens |-> None]
  <2>2. v \in Verdict /\ v = verdict[plugin.q] BY <2>1 DEF DoneHolds
  <2>3. CASE UNCHANGED grants BY <1>2, <2>3
  <2>4. CASE v.paths # {} /\ grants' = grants \cup {g}
    <3>1. g \in GrantType /\ g.verdict = v /\ g.q = plugin.q BY <2>1, <2>2 DEF GrantType
    <3>2. v.choice = "disk" /\ NeedsGrant(v) BY <2>2, <2>4 DEF Verdict, NeedsGrant
    <3> HIDE DEF v
    <3>3. GrantHolds(g, verdict, compared) BY <2>2, <3>1, <3>2 DEF GrantHolds
    <3> HIDE DEF g
    <3> QED BY <1>3, <2>4, <3>1, <3>3
  <2> QED BY <1>5, <2>3, <2>4 DEF PluginFails
<1>6. CASE \E k \in Polls : InitialDecision(k)
  BY <1>2, <1>4, <1>6 DEF InitialDecision, PollAnswers
<1>7. CASE Plugin /\ ~PluginFails
  BY <1>2, <1>7 DEF Plugin, PluginScans, PluginCompares, PluginTimesOut, PluginPolls,
     PluginLosesPoll, PluginDecided, PluginStarts, PluginRestarts, daemonVars
<1>8. CASE \E r \in inflight : Receive(r) BY <1>2, <1>8 DEF Receive
<1>9. CASE \/ \E m \in mail : Handle(m)
           \/ \E d \in deciding : Revalidate(d) \/ ChooseStudio(d)
  BY <1>2, <1>9 DEF Handle, Revalidate, ChooseStudio
<1>10. CASE \/ \E s \in Services : Edit(s)
            \/ \E w \in Windows : Window(w)
  BY <1>2, <1>10 DEF Edit, Window, daemonVars
<1>11. CASE PrepareReads \/ Expire \/ Crash \/ Lose \/ UNCHANGED vars
  BY <1>2, <1>11 DEF PrepareReads, Expire, Crash, Lose, vars, daemonVars
<1> QED BY <1>5, <1>6, <1>7, <1>8, <1>9, <1>10, <1>11 DEF Next

-------------------------------------------------------------------------------
(* What the plugin carries out. *)
LEMMA DoneStep ==
    ASSUME DiskHolds, SessionHolds, PluginHolds, QuestionsAreNew, SlotHolds, SlotTurns, PollsHold,
           GrantsHold, DoneHolds, [Next]_vars
    PROVE  DoneHolds'
<1>0. /\ None \notin Verdicts /\ None \notin Calls /\ PluginShape /\ Verdict \subseteq Verdicts
      /\ All("pending") # All("stale") /\ All("pending") \notin Verdicts /\ All("stale") \notin Verdicts
  BY ChoiceAssumption DEF PluginHolds, All, Verdict, Verdicts, Choices
<1>1. /\ plugin'.q >= plugin.q /\ plugin.q \in Nat /\ plugin'.q \in Nat /\ PluginShape'
      /\ plugin.at # "idle" => plugin.q \in Questions
  BY PluginTurns, PluginFields DEF PluginHolds, PluginShape, PluginType, Questions
<1>2. \A q \in Questions : q \in Nat BY DEF Questions
<1>3. \A q \in Questions : verdict[q] # None => verdict'[q] = verdict[q] BY DecidedStays
<1> DEFINE Told == plugin.at = "waiting" =>
                      \/ plugin.answer \in {None, All("pending"), All("stale")}
                      \/ plugin.answer \in Verdict /\ plugin.answer = verdict[plugin.q]
<1>4. Told BY DEF DoneHolds
<1>5. ASSUME UNCHANGED done, plugin'.q = plugin.q,
             plugin'.at \in {"comparing", "waiting", "starting"} =>
                plugin.at \in {"comparing", "waiting", "starting"},
             plugin'.at = "transfer" => plugin.at = "transfer", Told'
      PROVE  DoneHolds'
  <2>1. \A q \in Questions : done'[q] # None => done'[q] = verdict'[q] /\ q <= plugin'.q
    BY <1>0, <1>3, <1>5 DEF DoneHolds
  <2> QED BY <1>5, <2>1 DEF DoneHolds
<1>6. ASSUME NEW v \in Verdict, verdict[plugin.q] = v, plugin.at # "idle", Carries(plugin.q, v)
      PROVE  DoneHolds'
  <2>1. /\ done' = [done EXCEPT ![plugin.q] = v] /\ plugin.q \in Questions /\ v # None
        /\ plugin' = [Away EXCEPT !.at = IF v.choice = "cancel" THEN "stopped" ELSE "transfer"]
    BY <1>0, <1>1, <1>6 DEF Carries
  <2>2. plugin'.at \in {"stopped", "transfer"} /\ plugin'.q = plugin.q
    BY <1>0, <2>1, PluginFields DEF Away
  <2>3. done' \in [Questions -> Verdict \cup {None}] /\ done'[plugin.q] = v
        /\ \A q \in Questions \ {plugin.q} : done'[q] = done[q]
    BY <2>1 DEF DoneHolds
  <2>4. \A q \in Questions : done'[q] # None => done'[q] = verdict'[q] /\ q <= plugin'.q
    BY <1>0, <1>1, <1>3, <1>6, <2>1, <2>2, <2>3 DEF DoneHolds
  <2> QED BY <2>1, <2>2, <2>3, <2>4 DEF DoneHolds
<1>7. ASSUME UNCHANGED <<done, plugin>> PROVE DoneHolds'
  <2>1. Told' BY <1>0, <1>1, <1>3, <1>4, <1>7
  <2> QED BY <1>5, <1>7, <2>1
<1>8. ASSUME NEW at \in {"idle", "synced", "waiting", "starting"}, plugin' = [Away EXCEPT !.at = at],
             UNCHANGED done, at \in {"waiting", "starting"} => plugin.at \in {"comparing", "waiting"}
      PROVE  DoneHolds'
  <2>1. plugin'.at = at /\ plugin'.q = plugin.q /\ plugin'.answer = None
    BY <1>0, <1>8, PluginFields DEF Away
  <2> QED BY <1>5, <1>8, <2>1
<1>9. Away = [Away EXCEPT !.at = "idle"] BY <1>0, PluginFields DEF Away
<1> HIDE DEF Told
<1>10. CASE \E r \in inflight : Receive(r)
  <2>1. PICK r \in inflight : Receive(r) BY <1>10
  <2>2. PICK says \in Says : Answer(r, says) BY <2>1, ReceiveAnswers
  <2>3. UNCHANGED done BY <2>1 DEF Receive
  <2>4. CASE plugin.call = r
    <3>1. plugin.at = "comparing" BY <1>0, <2>1, <2>4 DEF PluginHolds, PluginShape
    <3>2. plugin'.at = "comparing" /\ plugin'.q = plugin.q
      BY <1>0, <2>2, <2>4, <3>1, PluginFields DEF Answer
    <3> QED BY <1>5, <2>3, <3>1, <3>2 DEF Told
  <2> QED BY <1>7, <2>2, <2>3, <2>4 DEF Answer
<1>11. CASE \E k \in Polls : InitialDecision(k)
  <2>1. PICK k \in Polls : InitialDecision(k) BY <1>11
  <2>2. UNCHANGED <<done, verdict>> BY <2>1 DEF InitialDecision, observed
  <2>3. ASSUME NEW a, Tell(k, a),
               \/ a \in {All("pending"), All("stale")}
               \/ plugin.poll = k => a \in Verdict /\ a = verdict[plugin.q]
        PROVE  DoneHolds'
    <3>1. CASE plugin.poll = k
      <4>1. plugin' = [plugin EXCEPT !.answer = a] BY <2>3, <3>1 DEF Tell
      <4>2. plugin'.answer = a /\ plugin'.at = plugin.at /\ plugin'.q = plugin.q
        BY <1>0, <4>1, PluginFields
      <4> QED BY <1>5, <2>2, <2>3, <3>1, <4>2 DEF Told
    <3> QED BY <1>7, <2>2, <2>3, <3>1 DEF Tell
  <2>4. CASE PollReads(k) \/ PollPending(k)
    BY <1>7, <2>2, <2>3, <2>4 DEF PollReads, PollPending
  <2>5. CASE PollGrants(k) BY <1>7, <2>2, <2>5 DEF PollGrants
  <2>6. CASE PollAnswers(k)
    <3>1. poll[k] \in PollType /\ PollHolds(poll[k], verdict, compared) /\ poll[k].at = "granted"
          /\ (plugin.poll = k => k # None /\ poll[k].q = plugin.q)
      BY <2>6, ChoiceAssumption DEF PollAnswers, PollsHold
    <3>2. plugin.poll = k => poll[k].verdict \in Verdict /\ poll[k].verdict = verdict[plugin.q]
      BY <3>1 DEF PollHolds, PollType
    <3> QED BY <2>3, <2>6, <3>2 DEF PollAnswers
  <2> QED BY <2>1, <2>4, <2>5, <2>6 DEF InitialDecision
<1>12. CASE Lose
  <2>1. CASE UNCHANGED plugin BY <1>7, <1>12, <2>1 DEF Lose, observed
  <2>2. CASE plugin' = [plugin EXCEPT !.answer = None]
    <3>1. plugin'.answer = None /\ plugin'.at = plugin.at /\ plugin'.q = plugin.q
      BY <1>0, <2>2, PluginFields
    <3> QED BY <1>5, <1>12, <3>1 DEF Lose, observed, Told
  <2> QED BY <1>12, <2>1, <2>2 DEF Lose
<1>13. CASE PluginScans
  <2>1. UNCHANGED <<done, verdict>> /\ plugin'.at = "comparing" /\ plugin'.q > plugin.q
        /\ plugin'.q \in Questions
    BY <1>13, ScanFacts DEF PluginScans, observed
  <2>2. done'[plugin'.q] = None BY <1>1, <1>2, <2>1 DEF DoneHolds
  <2>3. \A q \in Questions : done'[q] # None => done'[q] = verdict'[q] /\ q <= plugin'.q
    BY <1>1, <1>2, <2>1 DEF DoneHolds
  <2> QED BY <2>1, <2>2, <2>3 DEF DoneHolds
<1>14. CASE PluginCompares \/ PluginTimesOut
  <2>1. plugin.at = "comparing" /\ UNCHANGED done /\ plugin'.q = plugin.q
    <3>1. plugin.at = "comparing" /\ UNCHANGED done
      BY <1>14 DEF PluginCompares, PluginTimesOut, observed
    <3>2. ~PluginScans BY <3>1 DEF PluginScans
    <3> QED BY <3>1, <3>2, PluginStep
  <2>2. CASE \E q, service, phase, try : Sends(q, service, phase, try)
    <3>1. plugin'.at = "comparing" BY <1>0, <2>2, PluginFields DEF Sends
    <3> QED BY <1>5, <2>1, <3>1 DEF Told
  <2>3. CASE \E at \in {"idle", "waiting", "synced"} : plugin' = [Away EXCEPT !.at = at]
    BY <1>8, <2>1, <2>3
  <2>4. \/ \E q, service, phase, try : Sends(q, service, phase, try)
        \/ \E at \in {"idle", "waiting", "synced"} : plugin' = [Away EXCEPT !.at = at]
    <3>1. Retries => \/ \E q, service, phase, try : Sends(q, service, phase, try)
                     \/ plugin' = [Away EXCEPT !.at = "idle"]
      BY <1>9 DEF Retries
    <3>2. CASE PluginTimesOut BY <3>1, <3>2 DEF PluginTimesOut
    <3>3. CASE PluginCompares BY <3>1, <3>3 DEF PluginCompares
    <3> QED BY <1>14, <3>2, <3>3
  <2> QED BY <2>2, <2>3, <2>4
<1>15. CASE (\E k \in Polls : PluginPolls(k)) \/ PluginLosesPoll
  <2>1. UNCHANGED <<done, verdict>> /\ \E k : plugin' = [plugin EXCEPT !.poll = k]
    BY <1>15 DEF PluginPolls, PluginLosesPoll, observed
  <2>2. plugin'.answer = plugin.answer /\ plugin'.at = plugin.at /\ plugin'.q = plugin.q
    BY <1>0, <2>1, PluginFields
  <2>3. Told' BY <1>4, <2>1, <2>2 DEF Told
  <2> QED BY <1>5, <2>1, <2>2, <2>3
<1>16. CASE PluginDecided
  <2>1. plugin.at = "waiting" /\ plugin.answer # None /\ UNCHANGED verdict
    BY <1>16 DEF PluginDecided
  <2>2. CASE plugin.answer = All("pending")
    <3>1. plugin' = [plugin EXCEPT !.poll = None, !.answer = None] /\ UNCHANGED done
      BY <1>0, <1>16, <2>2 DEF PluginDecided
    <3>2. plugin'.answer = None /\ plugin'.at = plugin.at /\ plugin'.q = plugin.q
      BY <1>0, <3>1, PluginFields
    <3> QED BY <1>5, <3>1, <3>2 DEF Told
  <2>3. CASE plugin.answer = All("stale") BY <1>0, <1>8, <1>9, <1>16, <2>3 DEF PluginDecided
  <2>4. CASE plugin.answer \notin {All("pending"), All("stale")}
    <3>1. plugin.answer \in Verdict /\ plugin.answer = verdict[plugin.q]
      BY <1>4, <2>1, <2>4 DEF Told
    <3>2. \/ plugin' = [Away EXCEPT !.at = "starting"] /\ UNCHANGED done
          \/ Carries(plugin.q, plugin.answer)
      BY <1>16, <2>4 DEF PluginDecided
    <3> QED BY <1>6, <1>8, <2>1, <3>1, <3>2
  <2> QED BY <2>2, <2>3, <2>4
<1>17. CASE PluginStarts
  <2>1. CASE plugin' = Away /\ UNCHANGED done BY <1>8, <1>9, <2>1
  <2>2. CASE \E g \in grants : g.q = plugin.q /\ Carries(g.q, g.verdict)
    <3>1. PICK g \in grants : g.q = plugin.q /\ Carries(g.q, g.verdict) BY <2>2
    <3>2. g.verdict \in Verdict /\ g.verdict = verdict[plugin.q] /\ plugin.at # "idle"
      BY <1>17, <3>1 DEF GrantsHold, GrantType, GrantHolds, PluginStarts
    <3> QED BY <1>6, <3>1, <3>2
  <2> QED BY <1>17, <2>1, <2>2 DEF PluginStarts
<1>18. CASE PluginFails \/ PluginRestarts
  BY <1>8, <1>9, <1>18 DEF PluginFails, PluginRestarts, observed
<1>19. CASE \/ \E m \in mail : Handle(m)
            \/ \E d \in deciding : Revalidate(d) \/ ChooseStudio(d)
  BY <1>7, <1>19 DEF Handle, Revalidate, ChooseStudio, observed
<1>20. CASE \/ \E s \in Services : Edit(s)
            \/ \E w \in Windows : Window(w)
  BY <1>7, <1>20 DEF Edit, Window, observed
<1>21. CASE PrepareReads \/ Expire \/ Crash \/ UNCHANGED vars
  BY <1>7, <1>21 DEF PrepareReads, Expire, Crash, vars, observed
<1> QED BY <1>10, <1>11, <1>12, <1>13, <1>14, <1>15, <1>16, <1>17, <1>18, <1>19, <1>20,
   <1>21
  DEF Next, Plugin

-------------------------------------------------------------------------------
(* The windows and their messages. One more message keeps the rule of messages if it is of a
   full choice, goes on with the submission of another one, or begins the next one. *)
Repeats(n, m) == /\ m.kind = "chunk" /\ n.kind \in {"chunk", "abort"}
                 /\ n.sub = m.sub /\ n.q = m.q /\ n.choice = m.choice
LEMMA MailGrows ==
    ASSUME NEW S, NEW b \in Nat, MailHolds(S, b), NEW T, NEW c \in Nat, c >= b, NEW n \in Mail,
           T \subseteq S \cup {n},
           \/ n.kind = "full" \/ n \in S
           \/ \E m \in S : Repeats(n, m)
           \/ n.sub = b + 1 /\ c = b + 1 /\ n.choice = "disk"
    PROVE  MailHolds(T, c)
<1>1. T \subseteq Mail BY DEF MailHolds
<1>2. ASSUME NEW m \in S, m.kind # "full" PROVE m.sub \in 1..b /\ m.sub \in 1..c /\ m.choice = "disk"
  BY <1>2 DEF MailHolds
<1>3. ASSUME n.kind # "full" PROVE n.sub \in 1..c /\ n.choice = "disk"
  <2>1. CASE n \in S BY <1>2, <1>3, <2>1
  <2>2. CASE \E m \in S : Repeats(n, m) BY <1>2, <2>2 DEF Repeats
  <2>3. CASE n.sub = b + 1 /\ c = b + 1 /\ n.choice = "disk" BY <2>3
  <2> QED BY <1>3, <2>1, <2>2, <2>3
<1>4. ASSUME NEW m \in S, m.kind = "chunk", n.kind = "chunk", m.sub = n.sub PROVE m.q = n.q
  <2>1. CASE n \in S BY <1>4, <2>1 DEF MailHolds
  <2>2. CASE \E k \in S : Repeats(n, k) BY <1>4, <2>2 DEF Repeats, MailHolds
  <2>3. CASE n.sub = b + 1 BY <1>2, <1>4, <2>3
  <2> QED BY <1>4, <2>1, <2>2, <2>3
<1> QED BY <1>1, <1>2, <1>3, <1>4 DEF MailHolds

(* A message is sent again, goes on, or takes its submission back. *)
LEMMA MailAgain ==
    ASSUME NEW m \in Mail, m.kind = "chunk", NEW n,
           \/ n = [m EXCEPT !.chunk = @ + 1, !.try = 1] /\ m.chunk = 0
           \/ n = [m EXCEPT !.try = @ + 1] /\ m.try < 3
           \/ n = [m EXCEPT !.kind = "abort", !.chunk = 0, !.try = 1]
    PROVE  n \in Mail /\ Repeats(n, m) /\ n.from = m.from
<1>1. /\ m = [from |-> m.from, kind |-> "chunk", q |-> m.q, choice |-> m.choice, sub |-> m.sub,
              chunk |-> m.chunk, try |-> m.try]
      /\ m.from \in Windows /\ m.q \in Questions /\ m.choice \in Choices /\ m.sub \in 0..MaxSubmits
      /\ m.chunk \in Chunks /\ m.try \in 1..3
  BY MailFacts
<1>2. \E kind \in {"chunk", "abort"}, chunk \in Chunks, try \in 1..3 :
         n = [from |-> m.from, kind |-> kind, q |-> m.q, choice |-> m.choice, sub |-> m.sub,
              chunk |-> chunk, try |-> try]
  <2>1. CASE n = [m EXCEPT !.chunk = @ + 1, !.try = 1] /\ m.chunk = 0
    <3>1. n = [from |-> m.from, kind |-> "chunk", q |-> m.q, choice |-> m.choice, sub |-> m.sub,
               chunk |-> m.chunk + 1, try |-> 1]
      BY <1>1, <2>1
    <3>2. m.chunk + 1 \in Chunks BY <2>1 DEF Chunks
    <3> QED BY <3>1, <3>2
  <2>2. CASE n = [m EXCEPT !.try = @ + 1] /\ m.try < 3
    <3>1. n = [from |-> m.from, kind |-> "chunk", q |-> m.q, choice |-> m.choice, sub |-> m.sub,
               chunk |-> m.chunk, try |-> m.try + 1]
      BY <1>1, <2>2
    <3>2. m.try + 1 \in 1..3 BY <1>1, <2>2
    <3> QED BY <1>1, <3>1, <3>2
  <2>3. CASE n = [m EXCEPT !.kind = "abort", !.chunk = 0, !.try = 1]
    <3>1. n = [from |-> m.from, kind |-> "abort", q |-> m.q, choice |-> m.choice, sub |-> m.sub,
               chunk |-> 0, try |-> 1]
      BY <1>1, <2>3
    <3> QED BY <3>1 DEF Chunks
  <2> QED BY <2>1, <2>2, <2>3
<1>3. PICK kind \in {"chunk", "abort"}, chunk \in Chunks, try \in 1..3 :
         n = [from |-> m.from, kind |-> kind, q |-> m.q, choice |-> m.choice, sub |-> m.sub,
              chunk |-> chunk, try |-> try]
  BY <1>2
<1>4. n \in Mail BY <1>1, <1>3, MailFacts
<1> QED BY <1>1, <1>3, <1>4 DEF Repeats

LEMMA BegunFacts ==
    ASSUME DiskHolds
    PROVE  Begun \in 0..MaxSubmits /\ Begun \in Nat /\ MaxSubmits \in Nat
  BY ChoiceAssumption DEF Begun, DiskHolds, Bound

(* What a busy window waits for is one of the messages. *)
LEMMA CallSent ==
    ASSUME WindowsHold, DiskHolds, NEW w \in Windows, window[w].at = "busy"
    PROVE  LET m == window[w].call IN
           /\ m \in Sent /\ m \in Mail /\ m.from = w /\ m.kind \in {"full", "chunk"} /\ m # None
           /\ m.q \in Questions /\ m.chunk \in Chunks
           /\ m.kind = "chunk" => m.sub \in 1..Begun /\ m.sub \in Submissions /\ m.choice = "disk"
<1>1. window[w].call \in Sent /\ WindowHolds(window[w], w) /\ None \notin Mail
  BY ChoiceAssumption DEF Sent, WindowsHold
<1>2. window[w].call \in Mail BY <1>1 DEF WindowsHold, MailHolds
<1>3. window[w].call.kind \in {"full", "chunk"} BY <1>1, <1>2, MailFacts DEF WindowHolds
<1>4. window[w].call.kind = "chunk" => window[w].call.sub \in 1..Begun /\ window[w].call.choice = "disk"
  BY <1>1 DEF WindowsHold, MailHolds
<1> QED BY <1>1, <1>2, <1>3, <1>4, BegunFacts, MailFacts DEF WindowHolds, Submissions

(* Outside its own steps a window only gets an answer, and "ok" when what it meant was
   decided. *)
Answers1(w, a) ==
    /\ window' = [window EXCEPT ![w].answer = a]
    /\ a = "ok" => /\ window[w].at = "busy"
                   /\ Closes(window[w].call) => verdict'[window[w].call.q] = Meant(window[w].call)
AnswersOnly == UNCHANGED window \/ \E w \in Windows, a \in {"ok", "error", None} : Answers1(w, a)

LEMMA ReplyAnswers ==
    ASSUME WindowsHold, DiskHolds, NEW m \in Mail, NEW says \in {"ok", "error"}, Reply(m, says),
           says = "ok" /\ Closes(m) => verdict'[m.q] = Meant(m)
    PROVE  AnswersOnly
<1>1. m.from \in Windows /\ m # None BY MailFacts, ChoiceAssumption
<1>2. CASE window[m.from].call = m
  <2>1. window' = [window EXCEPT ![m.from].answer = says] /\ window[m.from].at = "busy"
    BY <1>1, <1>2 DEF Reply, WindowsHold, WindowHolds
  <2>2. Answers1(m.from, says) BY <1>2, <2>1 DEF Answers1
  <2> QED BY <1>1, <2>2 DEF AnswersOnly
<1>3. CASE window[m.from].call # m BY <1>3 DEF Reply, AnswersOnly
<1> QED BY <1>2, <1>3

(* A choice that is taken, or was taken before. *)
LEMMA ChooseAnswers ==
    ASSUME WindowsHold, DiskHolds, SlotHolds, NEW m \in Mail, m.kind = "full", Choose(m)
    PROVE  AnswersOnly
<1>1. Meant(m) = All(m.choice) BY DEF Meant, All
<1>2. CASE Refuse(m) BY <1>2, ReplyAnswers DEF Refuse
<1>3. CASE Asked(m.q) /\ slot.choice = None /\ Chosen(m.q, All(m.choice)) /\ Reply(m, "ok")
  <2>1. verdict'[m.q] = Meant(m) BY <1>1, <1>3, SlotFields DEF Chosen, SlotHolds, Asked
  <2> QED BY <1>3, <2>1, ReplyAnswers
<1>4. CASE /\ Asked(m.q) /\ slot.choice # None /\ slot.choice = m.choice /\ slot.paths = {}
           /\ Reply(m, "ok") /\ UNCHANGED verdict
  <2>1. verdict'[m.q] = Meant(m) BY <1>1, <1>4 DEF SlotHolds, Asked, All
  <2> QED BY <1>4, <2>1, ReplyAnswers
<1> QED BY <1>2, <1>3, <1>4 DEF Choose

LEMMA SelectionAnswers ==
    ASSUME WindowsHold, DiskHolds, SlotHolds, ReceiptsHold, NEW m \in mail, Selection(m)
    PROVE  AnswersOnly
<1>1. /\ m \in Mail /\ m \in Sent /\ m.kind = "chunk" /\ m.sub \in Submissions /\ m.chunk \in {0, 1}
      /\ m.choice = "disk" /\ m.q \in Questions /\ None \notin Submissions /\ m.kind # "full"
  BY Messages, ChoiceAssumption DEF Selection, Chunks, Sent
<1>2. Meant(m) = Whole(m.sub) BY <1>1, MeantFacts
<1>3. CASE m.sub \in replays
  <2>1. verdict[m.q] = Meant(m) /\ Reply(m, "ok") /\ UNCHANGED verdict
    BY <1>1, <1>2, <1>3 DEF ReceiptsHold, Selection
  <2> QED BY <1>1, <2>1, ReplyAnswers
<1>4. CASE m.sub \notin replays /\ ~Takes(m)
  BY <1>1, <1>4, ReplyAnswers DEF Selection, Refuse
<1>5. CASE m.sub \notin replays /\ Takes(m)
  <2>1. Reply(m, "ok") /\ slot # None /\ Asked(m.q) BY <1>5 DEF Selection, Takes, Asked
  <2>2. Closes(m) => m.chunk = 1 BY <1>1 DEF Closes, Last
  <2>3. CASE m.chunk = 1
    <3>1. slot.sub = m.sub /\ slot.choice = None BY <1>5, <2>3 DEF Takes
    <3>2. slot.next = 1 BY <1>1, <2>1, <3>1 DEF SlotHolds
    <3>3. UNCHANGED slot => slot.sub = m.sub /\ slot' = slot BY <3>1
    <3>4. Chosen(m.q, [choice |-> "disk", paths |-> slot.got \cup {<<m.sub, m.chunk>>}])
      BY <1>5, <2>3, <3>1, <3>2 DEF Selection, Last
    <3>5. slot.got = {<<m.sub, 0>>} BY <1>1, <2>1, <3>1 DEF SlotHolds
    <3>6. slot.got \cup {<<m.sub, m.chunk>>} = {m.sub} \X Chunks BY <2>3, <3>5 DEF Chunks
    <3>7. verdict'[m.q] = Meant(m) BY <1>1, <1>2, <3>4, <3>6 DEF Chosen, SlotHolds, Whole
    <3> QED BY <1>1, <2>1, <3>7, ReplyAnswers
  <2>4. CASE m.chunk # 1 BY <1>1, <2>1, <2>2, <2>4, ReplyAnswers
  <2> QED BY <2>3, <2>4
<1> QED BY <1>3, <1>4, <1>5

LEMMA BegunGrows ==
    ASSUME DiskHolds, [Next]_vars
    PROVE  Begun \in Nat /\ Begun' \in Nat /\ Begun' >= Begun
<1>1. budget \in Bound /\ budget' \in Bound /\ budget'.submits <= budget.submits
  BY DiskStep DEF DiskHolds
<1>2. budget.submits \in 0..MaxSubmits /\ budget'.submits \in 0..MaxSubmits /\ MaxSubmits \in Nat
  BY <1>1, ChoiceAssumption DEF Bound
<1> QED BY <1>1, <1>2 DEF Begun

LEMMA WindowWaits ==
    ASSUME WindowsHold, DiskHolds, SlotHolds, ReceiptsHold, [Next]_vars, ~\E w \in Windows : Window(w)
    PROVE  /\ mail' \subseteq mail /\ AnswersOnly /\ UNCHANGED told
           /\ Begun' \in Nat /\ Begun' >= Begun
<1>1. Begun' \in Nat /\ Begun' >= Begun BY BegunGrows
<1>2. CASE \E m \in mail : Handle(m)
  <2>1. PICK m \in mail : Handle(m) BY <1>2
  <2>2. m \in Mail BY Messages
  <2>3. mail' \subseteq mail /\ UNCHANGED told BY <2>1 DEF Handle
  <2>4. AnswersOnly
    <3>1. CASE DecideAll(m) BY <2>2, <3>1, ChooseAnswers DEF DecideAll
    <3>2. CASE DecideStudio(m)
      BY <2>2, <3>2, ReplyAnswers DEF DecideStudio, Refuse, AnswersOnly
    <3>3. CASE Selection(m) BY <3>3, SelectionAnswers
    <3>4. CASE Abort(m) BY <3>4 DEF Abort, AnswersOnly
    <3> QED BY <2>1, <3>1, <3>2, <3>3, <3>4 DEF Handle
  <2> QED BY <1>1, <2>3, <2>4
<1>3. CASE \E d \in deciding : Revalidate(d) \/ ChooseStudio(d)
  <2>1. PICK d \in deciding : Revalidate(d) \/ ChooseStudio(d) BY <1>3
  <2>2. d.m \in Mail /\ d.m.kind = "full" BY DEF WindowsHold
  <2>3. CASE Revalidate(d)
    BY <1>1, <2>2, <2>3, ReplyAnswers DEF Revalidate, AnswersOnly, observed
  <2>4. CASE ChooseStudio(d) BY <1>1, <2>2, <2>4, ChooseAnswers DEF ChooseStudio
  <2> QED BY <2>1, <2>3, <2>4
<1>4. CASE \E r \in inflight : Receive(r) BY <1>1, <1>4 DEF Receive, AnswersOnly
<1>5. CASE \E k \in Polls : InitialDecision(k)
  BY <1>1, <1>5 DEF InitialDecision, AnswersOnly, observed
<1>6. CASE Plugin
  BY <1>1, <1>6 DEF Plugin, PluginScans, PluginCompares, PluginTimesOut, PluginPolls,
     PluginLosesPoll, PluginDecided, PluginStarts, PluginFails, PluginRestarts, observed,
     AnswersOnly
<1>7. CASE Lose
  <2>1. mail' \subseteq mail /\ UNCHANGED told BY <1>7 DEF Lose, observed
  <2>2. UNCHANGED window \/ \E w \in Windows : window' = [window EXCEPT ![w].answer = None]
    BY <1>7 DEF Lose
  <2>3. None # "ok" BY ChoiceAssumption
  <2> QED BY <1>1, <2>1, <2>2, <2>3 DEF AnswersOnly, Answers1
<1>8. CASE \/ \E s \in Services : Edit(s)
           \/ PrepareReads \/ Expire \/ Crash \/ UNCHANGED vars
  BY <1>1, <1>8 DEF Edit, PrepareReads, Expire, Crash, vars, observed, AnswersOnly
<1> QED BY <1>2, <1>3, <1>4, <1>5, <1>6, <1>7, <1>8 DEF Next

(* A step of a window moves it, and its new message, if any, keeps the rule of messages. *)
New(n) == \/ n.kind = "full"
          \/ \E m \in Sent : Repeats(n, m)
          \/ n.sub = Begun + 1 /\ Begun' = Begun + 1 /\ n.choice = "disk"
Adds(r) == \/ mail' \subseteq mail /\ r.at # "busy"
           \/ \E n \in Mail : /\ New(n) /\ mail' \subseteq mail \cup {n}
                              /\ r.at = "busy" => r.call = n /\ r.answer = None
WindowMoves(w, r) ==
    /\ r \in WindowType /\ WindowHolds(r, w) /\ Adds(r)
    /\ window' = [v \in Windows |-> window'[v]] /\ window'[w] = r
    /\ \A v \in Windows \ {w} : window'[v] = window[v]

LEMMA WindowFields ==
    ASSUME WindowsHold, NEW w \in Windows
    PROVE  /\ window[w] = [at |-> window[w].at, q |-> window[w].q, call |-> window[w].call,
                           answer |-> window[w].answer]
           /\ window[w].at \in {"closed", "open", "busy"} /\ window[w].q \in 0..MaxScans
           /\ window[w].call \in Mail \cup {None} /\ window[w].answer \in {"ok", "error", None}
           /\ WindowHolds(window[w], w)
<1>1. window[w] \in WindowType /\ WindowHolds(window[w], w) BY DEF WindowsHold
<1> QED BY <1>1 DEF WindowType

LEMMA MovesTo ==
    ASSUME WindowsHold, NEW w \in Windows, NEW at \in {"closed", "open", "busy"}, NEW q \in 0..MaxScans,
           NEW call \in Mail \cup {None}, NEW answer \in {"ok", "error", None},
           \/ /\ window' = [window EXCEPT ![w].at = at, ![w].call = call, ![w].answer = answer]
              /\ q = window[w].q
           \/ /\ window' = [window EXCEPT ![w].at = at, ![w].q = q]
              /\ call = window[w].call /\ answer = window[w].answer
           \/ /\ window' = [window EXCEPT ![w].at = at]
              /\ q = window[w].q /\ call = window[w].call /\ answer = window[w].answer,
           at # "closed" => q # 0,
           at = "busy" => call # None /\ call.from = w /\ call.kind # "abort",
           at # "busy" => call = None,
           Adds([at |-> at, q |-> q, call |-> call, answer |-> answer])
    PROVE  \E r : WindowMoves(w, r)
<1> DEFINE r == [at |-> at, q |-> q, call |-> call, answer |-> answer]
<1>1. r \in WindowType /\ WindowHolds(r, w) BY DEF WindowType, WindowHolds
<1>2. window \in [Windows -> WindowType] BY DEF WindowsHold
<1>3. /\ window' = [v \in Windows |-> window'[v]]
      /\ \A v \in Windows \ {w} : window'[v] = window[v]
  BY <1>2
<1>4. window'[w] = r
  <2>1. window[w] = [at |-> window[w].at, q |-> window[w].q, call |-> window[w].call,
                     answer |-> window[w].answer]
    BY WindowFields
  <2> QED BY <1>2, <2>1
<1> QED BY <1>1, <1>3, <1>4 DEF WindowMoves

LEMMA PostsMoves ==
    ASSUME WindowsHold, NEW w \in Windows, NEW n \in Mail, n.from = w, n.kind # "abort", New(n),
           window[w].at # "closed", Posts(w, n)
    PROVE  \E r : WindowMoves(w, r)
<1>1. /\ window' = [window EXCEPT ![w].at = "busy", ![w].call = n, ![w].answer = None]
      /\ mail' \subseteq mail \cup {n} /\ n # None
  BY ChoiceAssumption DEF Posts
<1>2. window[w].q \in 0..MaxScans /\ window[w].q # 0 BY WindowFields DEF WindowHolds
<1>3. Adds([at |-> "busy", q |-> window[w].q, call |-> n, answer |-> None]) BY <1>1 DEF Adds
<1> QED BY <1>1, <1>2, <1>3, MovesTo

LEMMA GivesInMoves ==
    ASSUME WindowsHold, DiskHolds, NEW w \in Windows, window[w].at = "busy", GivesIn(w)
    PROVE  \E r : WindowMoves(w, r)
<1> DEFINE m == window[w].call
<1>1. /\ m \in Sent /\ m \in Mail /\ m.from = w /\ m.kind \in {"full", "chunk"} /\ m.try \in 1..3
      /\ window[w].q \in 0..MaxScans /\ window[w].q # 0
  BY CallSent, MailFacts, WindowFields DEF WindowHolds
<1>2. CASE m.kind = "chunk" /\ m.try < 3
  <2> DEFINE n == [m EXCEPT !.try = @ + 1]
  <2>1. n \in Mail /\ Repeats(n, m) /\ n.from = w BY <1>1, <1>2, MailAgain
  <2>2. Posts(w, n) /\ n.kind # "abort" BY <1>1, <1>2 DEF GivesIn
  <2>3. New(n) BY <1>1, <2>1 DEF New
  <2> QED BY <2>1, <2>2, <2>3, PostsMoves
<1>3. CASE ~(m.kind = "chunk" /\ m.try < 3)
  <2>1. window' = [window EXCEPT ![w].at = "open", ![w].call = None, ![w].answer = None]
    BY <1>3 DEF GivesIn
  <2>2. Adds([at |-> "open", q |-> window[w].q, call |-> None, answer |-> None])
    <3>1. CASE m.kind = "full" BY <1>3, <3>1 DEF GivesIn, Adds
    <3>2. CASE m.kind = "chunk"
      <4> DEFINE n == [m EXCEPT !.kind = "abort", !.chunk = 0, !.try = 1]
      <4>1. n \in Mail /\ Repeats(n, m) BY <1>1, <3>2, MailAgain
      <4>2. mail' = mail \cup {n} BY <1>3, <3>2 DEF GivesIn
      <4>3. New(n) BY <1>1, <4>1 DEF New
      <4> QED BY SMTT(60), <4>1, <4>2, <4>3 DEF Adds
    <3> QED BY <1>1, <3>1, <3>2
  <2> QED BY <1>1, <2>1, <2>2, MovesTo
<1> QED BY <1>2, <1>3

(* What is said to be done is what the window meant, and it was decided. *)
Tells == \/ UNCHANGED told
         \/ \E m \in Mail : /\ told' = told \cup {<<m.q, Meant(m)>>}
                            /\ Meant(m) \in Verdict /\ verdict[m.q] = Meant(m)

LEMMA AnsweredMoves ==
    ASSUME WindowsHold, DiskHolds, ReceiptsHold, NEW w \in Windows, WindowAnswered(w)
    PROVE  (\E r : WindowMoves(w, r)) /\ Tells
<1> DEFINE m == window[w].call
<1>1. /\ m \in Sent /\ m \in Mail /\ m.from = w /\ m.kind \in {"full", "chunk"} /\ m.chunk \in Chunks
      /\ m.kind = "chunk" => m.sub \in Submissions /\ m.choice = "disk"
      /\ window[w].at = "busy" /\ window[w].answer = "ok"
      /\ window[w].q \in 0..MaxScans /\ window[w].q # 0
  BY CallSent, WindowFields DEF WindowHolds, WindowAnswered
<1>2. CASE Closes(m)
  <2>1. /\ window' = [window EXCEPT ![w].at = "closed", ![w].call = None, ![w].answer = None]
        /\ told' = told \cup {<<m.q, Meant(m)>>} /\ UNCHANGED mail
    BY <1>2 DEF WindowAnswered, Closes
  <2>2. verdict[m.q] = Meant(m) BY <1>1, <1>2 DEF ReceiptsHold, AnswerHolds
  <2>3. Meant(m) \in Verdict BY <1>1, MeantFacts
  <2>4. Adds([at |-> "closed", q |-> window[w].q, call |-> None, answer |-> None])
    BY <2>1 DEF Adds
  <2>5. \E r : WindowMoves(w, r) BY <1>1, <2>1, <2>4, MovesTo
  <2> QED BY <1>1, <2>1, <2>2, <2>3, <2>5 DEF Tells
<1>3. CASE ~Closes(m)
  <2> DEFINE n == [m EXCEPT !.chunk = @ + 1, !.try = 1]
  <2>1. m.kind = "chunk" /\ m.chunk = 0 BY SMTT(60), <1>1, <1>3 DEF Closes, Chunks, Last
  <2>2. n \in Mail /\ Repeats(n, m) /\ n.from = w BY <1>1, <2>1, MailAgain
  <2>3. Posts(w, n) /\ UNCHANGED told BY <1>3 DEF WindowAnswered, Closes
  <2>4. New(n) /\ n.kind # "abort" BY <1>1, <2>1, <2>2 DEF New
  <2>5. \E r : WindowMoves(w, r) BY <1>1, <2>2, <2>3, <2>4, PostsMoves
  <2> QED BY <2>3, <2>5 DEF Tells
<1> QED BY <1>2, <1>3

LEMMA WindowActs ==
    ASSUME WindowsHold, DiskHolds, SlotHolds, ReceiptsHold, NEW w \in Windows, Window(w)
    PROVE  (\E r : WindowMoves(w, r)) /\ Tells
<1>0. /\ window[w].at \in {"closed", "open", "busy"} /\ window[w].q \in 0..MaxScans
      /\ window[w].call \in Mail \cup {None} /\ window[w].answer \in {"ok", "error", None}
      /\ WindowHolds(window[w], w) /\ MaxScans \in Nat /\ budget \in Bound
  BY WindowFields, ChoiceAssumption DEF DiskHolds
<1>1. CASE WindowOpens(w)
  <2>1. /\ window' = [window EXCEPT ![w].at = "open", ![w].q = slot.q] /\ UNCHANGED <<mail, told>>
        /\ slot # None /\ window[w].at = "closed"
    BY <1>1 DEF WindowOpens
  <2>2. slot.q \in Questions /\ slot.q \in 0..MaxScans /\ slot.q # 0
    BY <1>0, <2>1, SlotFields DEF Questions
  <2>3. window[w].call = None BY <1>0, <2>1 DEF WindowHolds
  <2>4. Adds([at |-> "open", q |-> slot.q, call |-> window[w].call, answer |-> window[w].answer])
    BY <2>1 DEF Adds
  <2> QED BY ZenonT(60), <1>0, <2>1, <2>2, <2>3, <2>4, MovesTo DEF Tells
<1>2. CASE WindowCloses(w)
  <2>1. /\ window' = [window EXCEPT ![w].at = "closed"] /\ UNCHANGED <<mail, told>>
        /\ window[w].at = "open"
    BY <1>2 DEF WindowCloses
  <2>2. window[w].call = None BY <1>0, <2>1 DEF WindowHolds
  <2>3. Adds([at |-> "closed", q |-> window[w].q, call |-> window[w].call, answer |-> window[w].answer])
    BY <2>1 DEF Adds
  <2> QED BY <1>0, <2>1, <2>2, <2>3, MovesTo DEF Tells
<1>3. ASSUME NEW choice \in Choices, SubmitFullChoice(w, choice)
      PROVE  (\E r : WindowMoves(w, r)) /\ Tells
  <2>1. window[w].at = "open" /\ Posts(w, Full(w, choice)) /\ UNCHANGED told
    BY <1>3 DEF SubmitFullChoice
  <2>2. window[w].q \in Questions BY <1>0, <2>1 DEF WindowHolds, Questions
  <2>3. /\ Full(w, choice) \in Mail /\ Full(w, choice).from = w
        /\ Full(w, choice).kind = "full"
    BY <2>2, MailFacts, ChoiceAssumption DEF Full, Chunks
  <2>4. New(Full(w, choice)) BY <2>3 DEF New
  <2> QED BY <2>1, <2>3, <2>4, PostsMoves DEF Tells
<1>4. CASE SubmitSelected(w)
  <2> DEFINE n == [from |-> w, kind |-> "chunk", q |-> window[w].q, choice |-> "disk",
                   sub |-> MaxSubmits - budget.submits + 1, chunk |-> 0, try |-> 1]
  <2>0. ASSUME NEW f, f = [Full(w, "disk") EXCEPT !.kind = "chunk",
                                                  !.sub = MaxSubmits - budget.submits + 1]
        PROVE  f = n
    BY <2>0 DEF Full
  <2>1. window[w].at = "open" /\ Posts(w, n) /\ UNCHANGED told /\ Spend("submits")
    BY <1>4, <2>0 DEF SubmitSelected
  <2>2. window[w].q \in Questions /\ "disk" \in Choices
    BY <1>0, <2>1 DEF WindowHolds, Questions, Choices
  <2>3. budget.submits \in 1..MaxSubmits /\ budget'.submits = budget.submits - 1 /\ MaxSubmits \in Nat
    BY <1>0, <2>1, SpendStep, ChoiceAssumption DEF Bound
  <2>4. n.sub = Begun + 1 /\ Begun' = Begun + 1 /\ n.sub \in 0..MaxSubmits BY <2>3 DEF Begun
  <2>5. n \in Mail /\ n.from = w /\ n.kind # "abort" BY <2>2, <2>4, MailFacts DEF Chunks
  <2>6. New(n) BY <2>4 DEF New
  <2> QED BY <2>1, <2>5, <2>6, PostsMoves DEF Tells
<1>5. CASE WindowAnswered(w) BY <1>5, AnsweredMoves
<1>6. CASE WindowRefused(w) BY <1>6, GivesInMoves DEF WindowRefused, Tells
<1> QED BY <1>1, <1>2, <1>3, <1>4, <1>5, <1>6 DEF Window

(* What a window is after an answer. *)
LEMMA AnswerFrame ==
    ASSUME WindowsHold, AnswersOnly
    PROVE  /\ window' \in [Windows -> WindowType]
           /\ \A v \in Windows :
                 /\ window'[v].at = window[v].at /\ window'[v].q = window[v].q
                 /\ window'[v].call = window[v].call
                 /\ window'[v].answer = "ok" =>
                       \/ window[v].answer = "ok"
                       \/ Closes(window[v].call) => verdict'[window[v].call.q] = Meant(window[v].call)
<1>1. window \in [Windows -> WindowType] BY DEF WindowsHold
<1>2. CASE UNCHANGED window BY <1>1, <1>2
<1>3. ASSUME NEW w \in Windows, NEW a \in {"ok", "error", None}, Answers1(w, a)
      PROVE  /\ window' \in [Windows -> WindowType]
             /\ \A v \in Windows \ {w} : window'[v] = window[v]
             /\ window'[w] = [at |-> window[w].at, q |-> window[w].q, call |-> window[w].call, answer |-> a]
  <2>1. window' = [window EXCEPT ![w].answer = a] BY <1>3 DEF Answers1
  <2>2. /\ window[w] = [at |-> window[w].at, q |-> window[w].q, call |-> window[w].call,
                        answer |-> window[w].answer]
        /\ window[w].at \in {"closed", "open", "busy"} /\ window[w].q \in 0..MaxScans
        /\ window[w].call \in Mail \cup {None}
    BY WindowFields
  <2>3. window' = [v \in Windows |-> window'[v]] /\ \A v \in Windows \ {w} : window'[v] = window[v]
    BY <1>1, <2>1
  <2>4. window'[w] = [at |-> window[w].at, q |-> window[w].q, call |-> window[w].call, answer |-> a]
    BY <1>1, <2>1, <2>2
  <2>5. window'[w] \in WindowType BY <2>2, <2>4 DEF WindowType
  <2> QED BY <1>1, <2>3, <2>4, <2>5
<1>4. CASE \E w \in Windows, a \in {"ok", "error", None} : Answers1(w, a)
  <2>1. PICK w \in Windows, a \in {"ok", "error", None} : Answers1(w, a) BY <1>4
  <2>2. a = "ok" => (Closes(window[w].call) => verdict'[window[w].call.q] = Meant(window[w].call))
    BY <2>1 DEF Answers1
  <2>3. /\ window' \in [Windows -> WindowType]
        /\ \A v \in Windows \ {w} : window'[v] = window[v]
        /\ window'[w] = [at |-> window[w].at, q |-> window[w].q, call |-> window[w].call, answer |-> a]
    BY ONLY <1>3, <2>1
  <2>4. /\ window'[w].at = window[w].at /\ window'[w].q = window[w].q
        /\ window'[w].call = window[w].call /\ window'[w].answer = a
    BY <2>3
  <2> QED BY <2>2, <2>3, <2>4
<1> QED BY <1>2, <1>4 DEF AnswersOnly

LEMMA SentAfter ==
    ASSUME WindowsHold, mail' \subseteq mail, AnswersOnly
    PROVE  Sent' \subseteq Sent /\ \A w \in Windows : WindowHolds(window'[w], w)
<1>1. \A v \in Windows : /\ window'[v].at = window[v].at /\ window'[v].q = window[v].q
                         /\ window'[v].call = window[v].call
  BY AnswerFrame
<1>2. \A w \in Windows : WindowHolds(window'[w], w) BY <1>1 DEF WindowsHold, WindowHolds
<1> QED BY <1>1, <1>2 DEF Sent

LEMMA SentMoves ==
    ASSUME WindowsHold, NEW w \in Windows, NEW r, WindowMoves(w, r)
    PROVE  /\ window' \in [Windows -> WindowType]
           /\ \A v \in Windows : WindowHolds(window'[v], v)
           /\ \/ Sent' \subseteq Sent
              \/ \E n \in Mail : New(n) /\ Sent' \subseteq Sent \cup {n}
<1>1. /\ window \in [Windows -> WindowType] /\ \A v \in Windows : WindowHolds(window[v], v)
      /\ r \in WindowType /\ WindowHolds(r, w) /\ Adds(r)
      /\ window' = [v \in Windows |-> window'[v]] /\ window'[w] = r
      /\ \A v \in Windows \ {w} : window'[v] = window[v]
  BY DEF WindowMoves, WindowsHold
<1>2. \A v \in Windows : window'[v] \in WindowType /\ WindowHolds(window'[v], v) BY <1>1
<1>3. window' \in [Windows -> WindowType] BY <1>1, <1>2
<1>4. CASE mail' \subseteq mail /\ r.at # "busy"
  <2>1. Sent' \subseteq Sent BY <1>1, <1>4 DEF Sent
  <2> QED BY <1>2, <1>3, <2>1
<1>5. CASE \E n \in Mail : /\ New(n) /\ mail' \subseteq mail \cup {n}
                           /\ r.at = "busy" => r.call = n /\ r.answer = None
  <2>1. PICK n \in Mail : /\ New(n) /\ mail' \subseteq mail \cup {n}
                          /\ r.at = "busy" => r.call = n /\ r.answer = None
    BY <1>5
  <2>2. Sent' \subseteq Sent \cup {n} BY <1>1, <2>1 DEF Sent
  <2> QED BY <1>2, <1>3, <2>1, <2>2
<1> QED BY <1>1, <1>4, <1>5 DEF Adds

(* The handlers of a Studio choice and the receipts. *)
LEMMA DecidingTurns ==
    ASSUME DiskHolds, SlotHolds, WindowsHold, [Next]_vars
    PROVE  /\ deciding' \subseteq [m : Mail, gens : GenMaps, at : {"read", "fresh"}]
           /\ \A d \in deciding' : d.m.kind = "full" /\ d.gens \in Gens
<1> DEFINE Kept == \A d \in deciding' : /\ d \in [m : Mail, gens : GenMaps, at : {"read", "fresh"}]
                                        /\ d.m.kind = "full" /\ d.gens \in Gens
<1> SUFFICES Kept OBVIOUS
<1> HIDE DEF Kept
<1>1. \A d \in deciding : /\ d \in [m : Mail, gens : GenMaps, at : {"read", "fresh"}]
                          /\ d.m.kind = "full" /\ d.gens \in Gens
  BY DEF WindowsHold
<1>2. CASE deciding' \subseteq deciding BY <1>1, <1>2 DEF Kept
<1>3. ASSUME NEW m \in mail, Handle(m) PROVE Kept
  <2>1. CASE DecideStudio(m)
    <3>1. CASE UNCHANGED deciding BY <1>2, <3>1
    <3>2. CASE Asked(m.q) /\ deciding' = deciding \cup {[m |-> m, gens |-> slot.gens, at |-> "read"]}
      <4>1. m \in Mail /\ slot.gens \in GenMaps /\ slot.gens \in Gens /\ m.kind = "full"
        BY <2>1, <3>2, Messages, SlotFields DEF Asked, SlotHolds, DecideStudio
      <4> QED BY <1>1, <3>2, <4>1 DEF Kept
    <3> QED BY <2>1, <3>1, <3>2 DEF DecideStudio
  <2>2. CASE DecideAll(m) \/ Selection(m) \/ Abort(m)
    BY <1>2, <2>2 DEF DecideAll, Selection, Abort
  <2> QED BY <1>3, <2>1, <2>2 DEF Handle
<1>4. ASSUME NEW d \in deciding, Revalidate(d) PROVE Kept
  <2>1. CASE deciding' = deciding \ {d} BY <1>2, <2>1
  <2>2. CASE deciding' = (deciding \ {d}) \cup {[d EXCEPT !.at = "fresh"]}
    <3>1. [d EXCEPT !.at = "fresh"] \in [m : Mail, gens : GenMaps, at : {"read", "fresh"}]
          /\ [d EXCEPT !.at = "fresh"].m = d.m /\ [d EXCEPT !.at = "fresh"].gens = d.gens
      BY <1>1
    <3> QED BY <1>1, <2>2, <3>1 DEF Kept
  <2> QED BY <1>4, <2>1, <2>2 DEF Revalidate
<1>5. CASE \E d \in deciding : ChooseStudio(d) BY <1>2, <1>5 DEF ChooseStudio
<1>6. CASE \E r \in inflight : Receive(r) BY <1>2, <1>6 DEF Receive
<1>7. CASE \E k \in Polls : InitialDecision(k) BY <1>2, <1>7 DEF InitialDecision
<1>8. CASE Plugin
  BY <1>2, <1>8 DEF Plugin, PluginScans, PluginCompares, PluginTimesOut, PluginPolls,
     PluginLosesPoll, PluginDecided, PluginStarts, PluginFails, PluginRestarts, daemonVars
<1>9. CASE Lose \/ PrepareReads \/ Expire \/ Crash \/ UNCHANGED vars
  BY <1>2, <1>9 DEF Lose, PrepareReads, Expire, Crash, vars, daemonVars
<1>10. CASE \/ \E s \in Services : Edit(s)
            \/ \E w \in Windows : Window(w)
  BY <1>2, <1>10 DEF Edit, Window, daemonVars
<1> QED BY <1>3, <1>4, <1>5, <1>6, <1>7, <1>8, <1>9, <1>10 DEF Next

LEMMA ReplayTurns ==
    ASSUME WindowsHold, DiskHolds, SlotHolds, [Next]_vars
    PROVE  \/ replays' \subseteq replays
           \/ \E m \in mail : /\ m.kind = "chunk" /\ replays' = replays \cup {m.sub}
                              /\ verdict'[m.q] = Whole(m.sub)
<1>1. ASSUME NEW m \in mail, Handle(m)
      PROVE  \/ replays' \subseteq replays
             \/ /\ m.kind = "chunk" /\ replays' = replays \cup {m.sub}
                /\ verdict'[m.q] = Whole(m.sub)
  <2>1. CASE Selection(m)
    <3>1. CASE UNCHANGED replays BY <3>1
    <3>2. CASE ~UNCHANGED replays
      <4>1. m.kind = "chunk" /\ m.sub \notin replays BY <2>1, <3>2 DEF Selection
      <4>2. Takes(m) /\ ~(slot.sub = m.sub /\ m.chunk < slot.next)
        BY <2>1, <3>2, <4>1 DEF Selection
      <4>3. m.chunk = Last BY <2>1, <3>2, <4>1, <4>2 DEF Selection
      <4>4. /\ replays' = replays \cup {m.sub}
            /\ \E p : Chosen(m.q, [choice |-> "disk", paths |-> p])
        BY <2>1, <4>1, <4>2, <4>3 DEF Selection
      <4>5. slot # None /\ slot.choice = None /\ None # "disk"
        BY <4>2, ChoiceAssumption DEF Takes, Asked, Choices
      <4>6. slot'.choice = "disk" BY <4>4, <4>5, SlotFields DEF Chosen
      <4>7. ~Halves /\ ~UNCHANGED slot BY <4>5, <4>6, SlotFields DEF Halves
      <4>8. Chooses(m) BY <2>1, <4>7, SelectionTurns
      <4>9. Meant(m) = Whole(m.sub) /\ m.q \in Questions BY <4>1, Messages, MeantFacts
      <4> QED BY <4>1, <4>4, <4>8, <4>9 DEF Chooses, Chosen, SlotHolds
    <3> QED BY <3>1, <3>2
  <2>2. CASE DecideAll(m) \/ DecideStudio(m) \/ Abort(m)
    BY <2>2 DEF DecideAll, DecideStudio, Abort
  <2> QED BY <1>1, <2>1, <2>2 DEF Handle
<1>2. CASE \/ \E d \in deciding : Revalidate(d) \/ ChooseStudio(d)
           \/ \E r \in inflight : Receive(r)
           \/ \E k \in Polls : InitialDecision(k)
  BY <1>2 DEF Revalidate, ChooseStudio, Receive, InitialDecision
<1>3. CASE Plugin
  BY <1>3 DEF Plugin, PluginScans, PluginCompares, PluginTimesOut, PluginPolls,
     PluginLosesPoll, PluginDecided, PluginStarts, PluginFails, PluginRestarts, daemonVars
<1>4. CASE Lose \/ PrepareReads \/ Expire \/ Crash \/ UNCHANGED vars
  BY <1>4 DEF Lose, PrepareReads, Expire, Crash, vars, daemonVars
<1>5. CASE \/ \E s \in Services : Edit(s)
           \/ \E w \in Windows : Window(w)
  BY <1>5 DEF Edit, Window, daemonVars
<1> QED BY <1>1, <1>2, <1>3, <1>4, <1>5 DEF Next

LEMMA WindowsStep ==
    ASSUME WindowsHold, DiskHolds, SlotHolds, ReceiptsHold, [Next]_vars
    PROVE  WindowsHold'
<1>1. Begun \in Nat /\ Begun' \in Nat /\ Begun' >= Begun BY BegunGrows
<1>2. /\ window' \in [Windows -> WindowType] /\ \A w \in Windows : WindowHolds(window'[w], w)
      /\ MailHolds(Sent', Begun')
  <2>1. CASE \E w \in Windows : Window(w)
    <3>1. PICK w \in Windows : Window(w) BY <2>1
    <3>2. PICK r : WindowMoves(w, r) BY <3>1, WindowActs
    <3>3. MailHolds(Sent, Begun) BY DEF WindowsHold
    <3>4. MailHolds(Sent', Begun')
      <4>1. CASE Sent' \subseteq Sent BY <1>1, <3>3, <4>1 DEF MailHolds
      <4>2. CASE \E n \in Mail : New(n) /\ Sent' \subseteq Sent \cup {n}
        <5>1. PICK n \in Mail : New(n) /\ Sent' \subseteq Sent \cup {n} BY <4>2
        <5>2. \/ n.kind = "full" \/ n \in Sent
              \/ \E m \in Sent : Repeats(n, m)
              \/ n.sub = Begun + 1 /\ Begun' = Begun + 1 /\ n.choice = "disk"
          BY <5>1 DEF New
        <5> QED BY <1>1, <3>3, <5>1, <5>2, MailGrows
      <4> QED BY <3>2, <4>1, <4>2, SentMoves
    <3> QED BY <3>2, <3>4, SentMoves
  <2>2. CASE ~\E w \in Windows : Window(w)
    <3>1. mail' \subseteq mail /\ AnswersOnly BY <2>2, WindowWaits
    <3>2. Sent' \subseteq Sent /\ MailHolds(Sent, Begun) BY <3>1, SentAfter DEF WindowsHold
    <3>3. MailHolds(Sent', Begun') BY <1>1, <3>2 DEF MailHolds
    <3> QED BY <3>1, <3>3, SentAfter, AnswerFrame
  <2> QED BY <2>1, <2>2
<1>3. replays' \subseteq 1..Begun'
  <2>1. replays \subseteq 1..Begun' BY <1>1 DEF WindowsHold
  <2>2. ASSUME NEW m \in mail, m.kind = "chunk" PROVE m.sub \in 1..Begun'
    BY <1>1, <2>2, Messages
  <2> DEFINE B == 1..Begun'
  <2>3. replays \subseteq B /\ \A m \in mail : m.kind = "chunk" => m.sub \in B BY <2>1, <2>2
  <2> HIDE DEF B
  <2>4. replays' \subseteq B BY <2>3, ReplayTurns
  <2> QED BY <2>4 DEF B
<1>4. /\ deciding' \subseteq [m : Mail, gens : GenMaps, at : {"read", "fresh"}]
      /\ \A d \in deciding' : d.m.kind = "full" /\ d.gens \in Gens'
  BY DecidingTurns, GensGrow
<1> QED BY <1>2, <1>3, <1>4 DEF WindowsHold

LEMMA ReceiptsStep ==
    ASSUME WindowsHold, DiskHolds, SessionHolds, QuestionsAreNew, SlotHolds, SlotTurns, ReceiptsHold,
           [Next]_vars
    PROVE  ReceiptsHold'
<1>0. None \notin Verdicts BY ChoiceAssumption
<1>1. ASSUME NEW q \in Questions, NEW v \in Verdict, verdict[q] = v PROVE verdict'[q] = v
  BY <1>0, <1>1, DecidedStays DEF Verdict
<1>2. \A m \in Sent : /\ m \in Mail /\ m.q \in Questions
                      /\ m.kind = "chunk" => m.sub \in 1..Begun /\ Whole(m.sub) \in Verdict
                      /\ m.kind = "chunk" => \A n \in Sent : n.kind = "chunk" /\ m.sub = n.sub => m.q = n.q
  <2>1. ASSUME NEW m \in Sent PROVE m \in Mail /\ m.q \in Questions
    BY MailFacts DEF WindowsHold, MailHolds
  <2>2. ASSUME NEW m \in Sent, m.kind = "chunk"
        PROVE  m.sub \in 1..Begun /\ Whole(m.sub) \in Verdict
    <3>1. m.sub \in 1..Begun /\ m.choice = "disk" /\ m.kind # "full"
      BY <2>2 DEF WindowsHold, MailHolds
    <3>2. m.sub \in Submissions BY <3>1, BegunFacts DEF Submissions
    <3> QED BY <2>1, <2>2, <3>1, <3>2, MeantFacts
  <2> QED BY <2>1, <2>2 DEF WindowsHold, MailHolds
<1>3. ASSUME NEW m \in Sent, m.kind = "chunk", m.sub \in replays'
      PROVE  verdict'[m.q] = Whole(m.sub)
  <2>1. CASE m.sub \in replays BY <1>1, <1>2, <1>3, <2>1 DEF ReceiptsHold
  <2>2. CASE m.sub \notin replays
    <3>1. PICK n \in mail : /\ n.kind = "chunk" /\ replays' = replays \cup {n.sub}
                            /\ verdict'[n.q] = Whole(n.sub)
      BY <1>3, <2>2, ReplayTurns
    <3>2. n \in Sent /\ n.sub = m.sub BY <1>3, <2>2, <3>1 DEF Sent
    <3> QED BY <1>2, <1>3, <3>1, <3>2
  <2> QED BY <2>1, <2>2
<1>4. \A w \in Windows : window[w].at = "busy" =>
         /\ window[w].call.q \in Questions /\ (Closes(window[w].call) => Meant(window[w].call) \in Verdict)
  <2>1. ASSUME NEW w \in Windows, window[w].at = "busy"
        PROVE  /\ window[w].call.q \in Questions
               /\ Meant(window[w].call) \in Verdict
    <3>1. /\ window[w].call \in Mail /\ window[w].call.kind \in {"full", "chunk"}
          /\ window[w].call.q \in Questions
          /\ window[w].call.kind = "chunk" => /\ window[w].call.sub \in Submissions
                                              /\ window[w].call.choice = "disk"
      BY <2>1, CallSent
    <3> QED BY <3>1, MeantFacts
  <2> QED BY <2>1
<1>5. ASSUME NEW w \in Windows, AnswerHolds(window[w], verdict) PROVE AnswerHolds(window[w], verdict')
  BY <1>1, <1>4, <1>5 DEF AnswerHolds
<1>6. /\ \A w \in Windows : AnswerHolds(window[w], verdict)
      /\ \A m \in Sent : m.kind = "chunk" /\ m.sub \in replays => verdict[m.q] = Whole(m.sub)
      /\ told \subseteq Questions \X Verdict /\ \A t \in told : verdict[t[1]] = t[2]
  BY DEF ReceiptsHold, ToldIsTrue
<1>7. \A t \in told : verdict'[t[1]] = t[2] BY <1>1, <1>6
<1>8. CASE \E w \in Windows : Window(w)
  <2>1. PICK w \in Windows : Window(w) BY <1>8
  <2>2. UNCHANGED <<replays, verdict>> BY <2>1 DEF Window, daemonVars
  <2>3. PICK r : WindowMoves(w, r) BY <2>1, WindowActs
  <2>4. \A m \in Sent' : m.kind = "chunk" /\ m.sub \in replays => verdict[m.q] = Whole(m.sub)
    <3>1. CASE Sent' \subseteq Sent BY <1>6, <3>1
    <3>2. CASE \E n \in Mail : New(n) /\ Sent' \subseteq Sent \cup {n}
      <4>1. PICK n \in Mail : New(n) /\ Sent' \subseteq Sent \cup {n} BY <3>2
      <4>2. CASE n.kind = "full" BY <1>6, <4>1, <4>2
      <4>3. CASE \E m \in Sent : Repeats(n, m) BY <1>6, <4>1, <4>3 DEF Repeats
      <4>4. CASE n.sub = Begun + 1
        <5>1. n.sub \notin replays BY <4>4, BegunFacts DEF WindowsHold
        <5> QED BY <1>6, <4>1, <5>1
      <4> QED BY <4>1, <4>2, <4>3, <4>4 DEF New
    <3> QED BY <2>3, <3>1, <3>2, SentMoves
  <2>5. \A v \in Windows : AnswerHolds(window'[v], verdict)
    <3>1. /\ window'[w] = r /\ \A v \in Windows \ {w} : window'[v] = window[v]
          /\ r.at = "busy" => r.answer = None
      BY <2>3 DEF WindowMoves, Adds
    <3>2. None # "ok" BY ChoiceAssumption
    <3> QED BY <1>6, <3>1, <3>2 DEF AnswerHolds
  <2>6. told' \subseteq Questions \X Verdict /\ \A t \in told' : verdict[t[1]] = t[2]
    <3>1. \A m \in Mail : m.q \in Questions BY MailFacts
    <3> QED BY <1>6, <2>1, <3>1, WindowActs DEF Tells
  <2> QED BY <2>2, <2>4, <2>5, <2>6 DEF ReceiptsHold, ToldIsTrue
<1>9. CASE ~\E w \in Windows : Window(w)
  <2>1. mail' \subseteq mail /\ AnswersOnly /\ UNCHANGED told BY <1>9, WindowWaits
  <2>2. Sent' \subseteq Sent BY <2>1, SentAfter
  <2>3. \A m \in Sent' : m.kind = "chunk" /\ m.sub \in replays' => verdict'[m.q] = Whole(m.sub)
    BY <1>3, <2>2
  <2>4. ASSUME NEW w \in Windows PROVE AnswerHolds(window'[w], verdict')
    <3>1. AnswerHolds(window[w], verdict') BY <1>5, <1>6
    <3>2. /\ window'[w].at = window[w].at /\ window'[w].call = window[w].call
          /\ window'[w].answer = "ok" =>
                \/ window[w].answer = "ok"
                \/ Closes(window[w].call) => verdict'[window[w].call.q] = Meant(window[w].call)
      BY <2>1, AnswerFrame
    <3> QED BY <3>1, <3>2 DEF AnswerHolds
  <2> QED BY <1>6, <1>7, <2>1, <2>3, <2>4 DEF ReceiptsHold, ToldIsTrue
<1> QED BY <1>8, <1>9

-------------------------------------------------------------------------------
(* What was decided, and what was done about it. Whatever is done to a question, it is still
   a question. *)
LEMMA SlotRemains ==
    ASSUME SlotHolds, \/ \E m \in Mail : Chooses(m)
                      \/ Halves \/ Drops
    PROVE  slot' # None
<1>0. None \notin Slots /\ {} \in Paths /\ None \in Submissions \cup {None}
  BY ChoiceAssumption DEF Paths
<1> SUFFICES slot' \in Slots BY <1>0
<1>1. CASE \E m \in Mail : Chooses(m)
  <2>1. PICK m \in Mail : Chooses(m) BY <1>1
  <2>2. /\ slot # None /\ Meant(m).choice \in Choices /\ Meant(m).paths \in Paths
    BY <2>1, MeantFacts DEF Chooses, Asked
  <2>3. slot' = [q |-> slot.q, choice |-> Meant(m).choice, paths |-> Meant(m).paths,
                 gens |-> slot.gens, sub |-> None, next |-> slot.next, got |-> {}]
    BY <2>1, <2>2, SlotFields DEF Chooses, Chosen
  <2> QED BY <1>0, <2>2, <2>3, SlotFields DEF Slots
<1>2. CASE Halves
  <2>1. PICK sub \in Submissions :
           slot' = [slot EXCEPT !.sub = sub, !.got = {<<sub, 0>>}, !.next = 1]
    BY <1>2 DEF Halves
  <2>2. slot # None /\ 0 \in Chunks /\ 1 \in Chunks BY <1>2 DEF Halves, Chunks
  <2>4. {<<sub, 0>>} \in Paths BY <2>2 DEF Paths
  <2>3. slot' = [q |-> slot.q, choice |-> slot.choice, paths |-> slot.paths,
                 gens |-> slot.gens, sub |-> sub, next |-> 1, got |-> {<<sub, 0>>}]
    BY <2>1, <2>2, SlotFields
  <2> QED BY <2>2, <2>3, <2>4, SlotFields DEF Slots
<1>3. CASE Drops
  <2>1. slot # None /\ slot' = [slot EXCEPT !.sub = None, !.got = {}] BY <1>3 DEF Drops
  <2>2. slot' = [q |-> slot.q, choice |-> slot.choice, paths |-> slot.paths,
                 gens |-> slot.gens, sub |-> None, next |-> slot.next, got |-> {}]
    BY <2>1, SlotFields
  <2> QED BY <1>0, <2>1, <2>2, SlotFields DEF Slots
<1> QED BY <1>1, <1>2, <1>3

(* A decision about paths is one submission, all of it. *)
LEMMA SelectionStep ==
    ASSUME SlotHolds, SlotTurns, SelectionIsWhole
    PROVE  SelectionIsWhole'
<1>1. CASE UNCHANGED verdict BY <1>1 DEF SelectionIsWhole
<1>2. CASE \E m \in Mail : Chooses(m)
  <2>1. PICK m \in Mail : Chooses(m) BY <1>2
  <2>2. /\ verdict' = [verdict EXCEPT ![m.q] = Meant(m)] /\ verdict \in [Questions -> Verdict \cup {None}]
    BY <2>1 DEF Chooses, Chosen, SlotHolds
  <2>3. Meant(m).paths # {} => m.kind = "chunk" /\ m.sub \in Submissions /\ Meant(m) = Whole(m.sub)
    BY <2>1, MeantFacts DEF Chooses, All
  <2>4. Whole(m.sub).paths = {m.sub} \X Chunks BY DEF Whole
  <2> QED BY <2>2, <2>3, <2>4 DEF SelectionIsWhole
<1> QED BY <1>1, <1>2 DEF SlotTurns

(* The plugin does what was decided, once, and pushes only over the disk that was compared;
   while it does, nothing else happens. *)
Does(q) == /\ verdict[q] # None /\ done[q] = None
           /\ done' = [done EXCEPT ![q] = verdict[q]]
           /\ verdict[q].choice = "studio" => compared[q] = Now
           /\ UNCHANGED <<slot, verdict>>

LEMMA DoneTurns ==
    ASSUME PluginHolds, GrantsHold, DoneHolds, [Next]_vars
    PROVE  UNCHANGED done \/ \E q \in Questions : Does(q)
<1>0. /\ PluginShape /\ None \notin Verdicts /\ Verdict \subseteq Verdicts
      /\ plugin.q \in 0..MaxScans /\ MaxScans \in Nat
      /\ All("pending") \notin Verdicts /\ All("stale") \notin Verdicts
  BY ChoiceAssumption, PluginFields DEF PluginHolds, All, Verdict, Verdicts, Choices
<1>1. ASSUME PluginDecided, ~UNCHANGED done PROVE \E q \in Questions : Does(q)
  <2>1. /\ plugin.at = "waiting" /\ plugin.answer # None
        /\ plugin.answer # All("pending") /\ plugin.answer # All("stale")
        /\ UNCHANGED <<slot, verdict>>
    BY <1>1 DEF PluginDecided, daemonVars
  <2>2. ~NeedsGrant(plugin.answer) /\ done' = [done EXCEPT ![plugin.q] = plugin.answer]
    BY <1>1, <2>1 DEF PluginDecided, Carries
  <2>3. plugin.answer = verdict[plugin.q] /\ done[plugin.q] = None BY <2>1 DEF DoneHolds
  <2>4. plugin.q \in Questions BY <1>0, <2>1 DEF PluginShape, Questions
  <2> QED BY <2>1, <2>2, <2>3, <2>4 DEF Does, NeedsGrant
<1>2. ASSUME PluginStarts, ~UNCHANGED done PROVE \E q \in Questions : Does(q)
  <2>1. plugin.at = "starting" /\ UNCHANGED <<slot, verdict>> BY <1>2 DEF PluginStarts
  <2>2. PICK g \in grants : g.q = plugin.q /\ (g.verdict.choice = "studio" => StillCompared(g.gens))
    BY <1>2 DEF PluginStarts
  <2>3. PICK h \in grants : h.q = plugin.q /\ Carries(h.q, h.verdict)
    BY <1>2 DEF PluginStarts
  <2>4. /\ g.verdict = verdict[plugin.q] /\ h.verdict = verdict[plugin.q] /\ g.verdict \in Verdict
        /\ g.verdict.choice = "studio" => g.gens = compared[plugin.q]
        /\ plugin.q \in Questions
    BY <2>2, <2>3 DEF GrantsHold, GrantHolds, GrantType
  <2>5. done[plugin.q] = None BY <2>1 DEF DoneHolds
  <2> QED BY <1>0, <2>1, <2>2, <2>3, <2>4, <2>5 DEF Does, Carries, StillCompared
<1>3. CASE Plugin
  BY <1>1, <1>2, <1>3 DEF Plugin, PluginScans, PluginCompares, PluginTimesOut, PluginPolls,
     PluginLosesPoll, PluginFails, PluginRestarts, observed
<1>4. CASE \/ \E s \in Services : Edit(s)
           \/ \E r \in inflight : Receive(r)
           \/ \E m \in mail : Handle(m)
           \/ \E d \in deciding : Revalidate(d) \/ ChooseStudio(d)
           \/ \E k \in Polls : InitialDecision(k)
           \/ \E w \in Windows : Window(w)
  BY <1>4 DEF Edit, Receive, Handle, Revalidate, ChooseStudio, InitialDecision, Window,
     observed
<1>5. CASE PrepareReads \/ Expire \/ Crash \/ Lose \/ UNCHANGED vars
  BY <1>5 DEF PrepareReads, Expire, Crash, Lose, vars, observed
<1> QED BY <1>3, <1>4, <1>5 DEF Next

(* Every step of the first synchronisation is one of a decision, or none. *)
LEMMA DecisionStep ==
    ASSUME DiskHolds, SessionHolds, QuestionsAreNew, SlotHolds, SlotTurns, PluginHolds, GrantsHold,
           DoneHolds, [Next]_vars
    PROVE  Abstract!Next \/ UNCHANGED <<IF slot = None THEN None ELSE slot.q, verdict, done>>
<1> DEFINE open == IF slot = None THEN None ELSE slot.q
<1>0. None \notin Questions /\ (slot # None => slot.q \in Questions)
  BY ChoiceAssumption, SlotFields
<1>1. ASSUME NEW q \in Questions, Does(q) PROVE Abstract!Carry(q)
  BY <1>1 DEF Does, Abstract!Carry
<1>2. CASE UNCHANGED done /\ \E m \in Mail : Chooses(m)
  <2>1. PICK m \in Mail : Chooses(m) BY <1>2
  <2>2. /\ slot # None /\ slot' # None /\ slot'.q = slot.q /\ m.q = slot.q
        /\ verdict[slot.q] = None /\ Meant(m) \in Verdict
        /\ verdict' = [verdict EXCEPT ![slot.q] = Meant(m)]
    BY <2>1, SlotRemains, SlotKeeps, MeantFacts DEF Chooses, Chosen, Asked, SlotHolds
  <2>3. Abstract!Decide(Meant(m)) BY <1>0, <1>2, <2>2 DEF Abstract!Decide
  <2> QED BY <2>2, <2>3 DEF Abstract!Next
<1>3. CASE UNCHANGED <<done, verdict>> /\ (Halves \/ Drops) BY <1>3, SlotRemains, SlotKeeps
<1>4. CASE UNCHANGED <<done, verdict, slot>> BY <1>4
<1>5. CASE UNCHANGED <<done, verdict>> /\ slot' = None
  BY <1>5 DEF Abstract!Next, Abstract!Drop
<1>6. CASE UNCHANGED <<done, verdict>> /\ Asks
  <2>1. PICK r \in inflight : Finish(r) /\ slot' = Question(r.q, session.gens)
    BY <1>6 DEF Asks
  <2>2. /\ session # None /\ session.q = r.q /\ ~session.over /\ r.q \in Questions
        /\ session.gens \in GenMaps
    BY <2>1, GensFacts
  <2>3. verdict[r.q] = None /\ (slot # None => slot.q # r.q)
    BY <2>2 DEF QuestionsAreNew, Fresh
  <2>4. slot' \in Slots /\ slot'.q = r.q BY <2>1, <2>2 DEF Question, Slots, Paths, Chunks
  <2>5. slot' # None BY <2>4, ChoiceAssumption
  <2>6. Abstract!Ask(r.q) BY <1>0, <1>6, <2>2, <2>3, <2>4, <2>5 DEF Abstract!Ask
  <2> QED BY <2>2, <2>6 DEF Abstract!Next
<1>7. CASE \E q \in Questions : Does(q) BY <1>1, <1>7 DEF Abstract!Next
<1> QED BY <1>2, <1>3, <1>4, <1>5, <1>6, <1>7, DoneTurns DEF SlotTurns

-------------------------------------------------------------------------------
(* The whole: each part of the invariant needs the ones before it. *)
CompareSide == DiskHolds /\ SessionHolds /\ SyncHolds
QuestionSide == QuestionsAreNew /\ SlotHolds /\ SelectionIsWhole
PluginSide  == PluginHolds /\ PollsHold /\ GrantsHold /\ DoneHolds
WindowSide == WindowsHold /\ ReceiptsHold
IInv == CompareSide /\ QuestionSide /\ PluginSide /\ WindowSide

LEMMA ChoiceBegins == Init => IInv
<1> SUFFICES ASSUME Init PROVE IInv OBVIOUS
<1>0. /\ N \in Nat \ {0} /\ MaxScans \in Nat /\ MaxEdits \in Nat /\ MaxSubmits \in Nat
      /\ None \notin Polls /\ None \notin Questions /\ None \notin Says /\ None \notin Verdicts
      /\ None \notin Calls /\ None \notin Mail /\ None \notin Sessions /\ None \notin Slots
      /\ Budgets \subseteq Bound /\ Services = 1..N
  BY ChoiceAssumption DEF Bound, Services
<1>1. DiskHolds
  <2>1. budget \in Bound /\ budget.edits \in 0..MaxEdits BY <1>0 DEF Init, Bound
  <2>2. /\ <<TRUE>> \in Seq(BOOLEAN) /\ Len(<<TRUE>>) = 1
        /\ <<FALSE>> \in Seq(BOOLEAN) /\ Len(<<FALSE>>) = 1
    OBVIOUS
  <2>3. \A s \in Services : disk[s] = <<TRUE>> \/ disk[s] = <<FALSE>> BY DEF Init
  <2>4. \A s \in Services : disk[s] \in Seq(BOOLEAN) /\ Len(disk[s]) = 1 BY <2>2, <2>3
  <2>5. disk \in [Services -> Seq(BOOLEAN)] BY <2>4 DEF Init
  <2>6. \A s \in Services : Gen(s) = 1 BY <2>4 DEF Gen
  <2>7. \A s \in Services : Gen(s) \in Nat \ {0} /\ Gen(s) + budget.edits <= MaxEdits + 1
    BY <1>0, <2>1, <2>6
  <2> QED BY <2>1, <2>5, <2>7 DEF DiskHolds
<1>2. SessionHolds BY DEF Init, SessionHolds, NoPrep
<1>3. SyncHolds BY DEF Init, SyncHolds
<1>4. SlotHolds BY DEF Init, SlotHolds
<1>5. SelectionIsWhole BY DEF Init, SelectionIsWhole
<1>6. QuestionsAreNew BY DEF Init, QuestionsAreNew, Fresh
<1>7. PluginHolds
  <2>1. plugin = [at |-> "idle", q |-> 0, call |-> None, answer |-> None, poll |-> None]
        /\ inflight = {} /\ session = None
    BY DEF Init
  <2>2. plugin \in PluginType BY <1>0, <2>1 DEF PluginType, PluginStates, Answers
  <2>3. PluginShape BY <2>1, <2>2 DEF PluginShape
  <2>4. budget.scans \in 0..MaxScans BY <1>1 DEF DiskHolds, Bound
  <2>5. plugin.q <= MaxScans - budget.scans BY <1>0, <2>1, <2>4
  <2> QED BY <2>1, <2>3, <2>5 DEF PluginHolds
<1>8. PollsHold
  <2>1. Free \in PollType /\ Free.at = "free" BY <1>0 DEF Free, PollType
  <2>2. \A k \in Polls : poll[k] = Free BY DEF Init
  <2>3. plugin.poll = None /\ poll \in [Polls -> PollType] BY <2>1 DEF Init
  <2> QED BY <2>1, <2>2, <2>3 DEF PollsHold, PollHolds
<1>9. GrantsHold BY DEF Init, GrantsHold
<1>10. DoneHolds BY DEF Init, DoneHolds
<1>11. WindowsHold /\ Sent = {}
  <2>1. \A w \in Windows : window[w] = [at |-> "closed", q |-> 0, call |-> None, answer |-> None]
    BY DEF Init
  <2>2. [at |-> "closed", q |-> 0, call |-> None, answer |-> None] \in WindowType
    BY <1>0 DEF WindowType
  <2>3. window \in [Windows -> WindowType] /\ \A w \in Windows : WindowHolds(window[w], w)
    BY <2>1, <2>2 DEF Init, WindowHolds
  <2>4. Sent = {} BY <2>1 DEF Init, Sent
  <2>5. MailHolds(Sent, Begun) BY <2>4 DEF MailHolds
  <2> QED BY <2>3, <2>4, <2>5 DEF WindowsHold, Init
<1>12. ReceiptsHold
  <2>1. \A w \in Windows : window[w].at = "closed" BY DEF Init
  <2> QED BY <1>11, <2>1 DEF Init, ReceiptsHold, AnswerHolds, ToldIsTrue
<1> QED BY <1>1, <1>2, <1>3, <1>4, <1>5, <1>6, <1>7, <1>8, <1>9, <1>10, <1>11, <1>12
  DEF IInv, CompareSide, QuestionSide, PluginSide, WindowSide

LEMMA ChoiceGoesOn == IInv /\ [Next]_vars => IInv'
<1> SUFFICES ASSUME IInv, [Next]_vars PROVE IInv' OBVIOUS
<1>0. /\ DiskHolds /\ SessionHolds /\ SyncHolds /\ QuestionsAreNew /\ SlotHolds /\ SelectionIsWhole
      /\ PluginHolds /\ PollsHold /\ GrantsHold /\ DoneHolds /\ WindowsHold /\ ReceiptsHold
  BY DEF IInv, CompareSide, QuestionSide, PluginSide, WindowSide
<1>1. SlotTurns BY <1>0, SlotOf
<1>2. CompareSide' BY <1>0, DiskStep, SessionStep, SyncStep DEF CompareSide
<1>3. QuestionSide' BY <1>0, <1>1, QuestionsStep, SlotStep, SelectionStep DEF QuestionSide
<1>4. PluginSide' BY <1>0, <1>1, PluginTurns, PollsStep, GrantsStep, DoneStep DEF PluginSide
<1>5. WindowSide' BY <1>0, <1>1, WindowsStep, ReceiptsStep DEF WindowSide
<1> QED BY <1>2, <1>3, <1>4, <1>5 DEF IInv

(* The types the runs check follow from the invariant. *)
LEMMA ChoiceTypes == IInv => TypeOK
<1> SUFFICES ASSUME IInv PROVE TypeOK OBVIOUS
<1>0. /\ DiskHolds /\ SessionHolds /\ SlotHolds /\ PluginHolds /\ PollsHold /\ GrantsHold /\ WindowsHold
      /\ N \in Nat \ {0} /\ None \notin Sessions /\ None \notin Slots
  BY ChoiceAssumption DEF IInv, CompareSide, QuestionSide, PluginSide, WindowSide
<1>1. \A s \in Services : disk[s] \in Seq(BOOLEAN) /\ Gen(s) \in 1..(MaxEdits + 1)
  BY <1>0, GenFacts DEF DiskHolds
<1>2. session # None =>
         /\ session \in Sessions /\ session.q <= plugin.q
         /\ Len(session.gens) = session.service - (IF session.phase > 2 THEN 0 ELSE 1)
         /\ \A s \in 1..Len(session.gens) : session.gens[s] \in 1..Gen(s)
         /\ session.last # None => session.says \in Says
  BY <1>0 DEF SessionHolds, PluginHolds
<1>3. /\ prep.at \in {"none", "reading", "ok", "failed"}
      /\ prep.at # "none" => session # None /\ session.phase = 2
  BY <1>0 DEF SessionHolds
<1>4. slot # None => slot \in Slots /\ slot.gens \in Gens BY <1>0 DEF SlotHolds
<1>5. \A d \in deciding : d.m \in Mail /\ d.gens \in Gens /\ d.at \in {"read", "fresh"}
  BY <1>0 DEF WindowsHold
<1>6. \A g \in grants : g.q \in Questions /\ g.verdict \in Verdict /\ NeedsGrant(g.verdict)
  BY <1>0 DEF GrantsHold, GrantType, GrantHolds
<1>7. replays \subseteq Submissions BY <1>0, BegunFacts DEF WindowsHold, Submissions
<1>8. \A k \in Polls : poll[k].at \in {"free", "waiting", "read", "granted"}
  BY <1>0 DEF PollsHold, PollType
<1>9. plugin.at \in {"idle", "comparing", "synced", "waiting", "starting", "transfer", "stopped"}
  BY <1>0, PluginFields DEF PluginHolds, PluginStates
<1>10. inflight \subseteq Calls /\ mail \subseteq Mail
  BY <1>0 DEF PluginHolds, WindowsHold, MailHolds, Sent
<1>11. \A w \in Windows : window[w].at \in {"closed", "open", "busy"}
  BY <1>0 DEF WindowsHold, WindowType
<1> QED BY <1>1, <1>2, <1>3, <1>4, <1>5, <1>6, <1>7, <1>8, <1>9, <1>10, <1>11 DEF TypeOK

LEMMA ChoiceHolds == Spec => []IInv
  BY ChoiceBegins, ChoiceGoesOn, PTL DEF Spec

(* Every variable stays within its type: a comparison never captures a tree the disk does
   not have, nor goes on for a later question than the plugin's. *)
THEOREM TypesHold == Spec => []TypeOK
  BY ChoiceHolds, ChoiceTypes, PTL

(* A window that was told that its choice is made made it (initial_choice and
   initial_choice_selection of http.rs, postSelectionChunk of overwrite.js). *)
THEOREM WindowsAreToldTheTruth == Spec => []ToldIsTrue
<1>1. IInv => ToldIsTrue BY DEF IInv, WindowSide, ReceiptsHold
<1> QED BY <1>1, ChoiceHolds, PTL

(* A selection that is acted on is one submission, complete. *)
THEOREM SelectionsAreWhole == Spec => []SelectionIsWhole
<1>1. IInv => SelectionIsWhole BY DEF IInv, QuestionSide
<1> QED BY <1>1, ChoiceHolds, PTL

(* finish_initial_comparison records an agreement only of trees that both sides have. *)
THEOREM AgreementIsReal == Spec => []InSyncIsTrue
<1>1. IInv => InSyncIsTrue BY DEF IInv, CompareSide, SyncHolds, InSyncIsTrue
<1> QED BY <1>1, ChoiceHolds, PTL

(* A push starts only while the disk is the one that was compared
   (consume_studio_transfer_grant). *)
THEOREM PushesAreFenced == Spec => PushIsFenced
<1> DEFINE Fenced == \A q \in Questions :
                        done'[q] # done[q] /\ done'[q].choice = "studio" => compared[q] = Now
<1>1. ASSUME IInv, [Next]_vars PROVE Fenced
  <2>1. CASE UNCHANGED done BY <2>1
  <2>2. CASE \E q \in Questions : Does(q)
    <3>1. PICK q \in Questions : Does(q) BY <2>2
    <3>2. done \in [Questions -> Verdict \cup {None}]
      BY <1>1 DEF IInv, PluginSide, DoneHolds
    <3> QED BY <3>1, <3>2 DEF Does
  <2> QED BY <1>1, <2>1, <2>2, DoneTurns DEF IInv, PluginSide
<1>2. IInv /\ [Next]_vars => [Fenced]_vars BY <1>1
<1> QED BY <1>2, ChoiceHolds, PTL DEF Spec, PushIsFenced

(* The protocol implements Decision: one question at a time, decided once, done once, as it
   was decided. *)
THEOREM ImplementsDecision == Spec => DecisionSpec
<1> DEFINE open == IF slot = None THEN None ELSE slot.q
<1>1. Init => Abstract!Init BY DEF Init, Abstract!Init
<1>2. IInv /\ [Next]_vars => [Abstract!Next]_<<open, verdict, done>>
  <2> SUFFICES ASSUME IInv, [Next]_vars PROVE [Abstract!Next]_<<open, verdict, done>>
    OBVIOUS
  <2>1. /\ DiskHolds /\ SessionHolds /\ QuestionsAreNew /\ SlotHolds /\ WindowsHold
        /\ PluginHolds /\ GrantsHold /\ DoneHolds
    BY DEF IInv, CompareSide, QuestionSide, PluginSide, WindowSide
  <2>2. SlotTurns BY <2>1, SlotOf
  <2> QED BY <2>1, <2>2, DecisionStep
<1> QED BY <1>1, <1>2, ChoiceHolds, PTL DEF Spec, DecisionSpec, Abstract!Spec
================================================================================
