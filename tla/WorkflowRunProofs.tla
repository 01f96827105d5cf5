--------------------------- MODULE WorkflowRunProofs ---------------------------
(***************************************************************************)
(* A workflow under an idempotency key commits whole groups, reports a     *)
(* success only of a committed group, and does nothing more once its       *)
(* record exists: for any number of runs, writes, writes of other          *)
(* commands, timeouts, faults, crashes and disconnects.                    *)
(***************************************************************************)
EXTENDS Parts, Naturals, Sequences, SequenceTheorems, TLAPS

-------------------------------------------------------------------------------
(* Types. *)
Entries    ==
  [run : Runs \cup {None}, op : Workflow!Requests, step : 1..GroupSize, expired : BOOLEAN]
Recordings == {Workflow!Writes(r, k) : r \in Runs, k \in 0..GroupSize}
Steps      ==
  Workflow!Requests \cup Workflow!Over \cup {"replay", "lock", "look", "save", "unlock"}
Outcomes   == {"open", "ok", "failed", "rolled back", "replayed"}

RunsOK ==
    /\ runs \in [Runs -> [pc : Steps, step : 1..GroupSize, outcome : Outcomes]]
    /\ asked \in [Runs -> Workflow!Requests \cup {None}]
    /\ answers \in [Runs -> {"ok", "error", None}]
    /\ lock \in Runs \cup {None} /\ recorded \in BOOLEAN
LaneOK ==
    /\ lane \in Seq(Entries) /\ active \in Entries \cup {None}
    /\ late \in BOOLEAN /\ cleanup \in BOOLEAN
StudioOK == recording \in Recordings \cup {None} /\ committed \in Seq(Recordings)
LeftOK ==
    left \in [timeouts : Nat, faults : Nat, crashes : Nat,
              disconnects : 0..MaxDisconnects, others : 0..MaxOthers]
TypeOK == RunsOK /\ LaneOK /\ StudioOK /\ LeftOK

-------------------------------------------------------------------------------
(* The inductive invariant. *)

(* Whoever is past the lock holds it; a run waits for what it does next, and starts at its
   first write. *)
Inside == {"look", "save", "unlock"} \cup Workflow!Requests
LockHolds == \A r \in Runs : runs[r].pc \in Inside => lock = r
AskHolds(r) ==
    /\ asked[r] # None => asked[r] = runs[r].pc
    /\ answers[r] # None => asked[r] # None
    /\ runs[r].pc \in {"replay", "lock", "look", "begin"} => runs[r].step = 1

(* The lane as a queue: what is active is at place 0. *)
Places == (IF active = None THEN {} ELSE {0}) \cup 1..Len(lane)
At(k)  == IF k = 0 THEN active ELSE lane[k]
Ranks  == {"write", "commit"}
Idle   == \A k \in Places : At(k).run = None

(* The run has its answer, and the lane has done all it was asked to. *)
Heard(r)   == asked[r] # None /\ answers[r] = "ok"
Between(r) ==
    \/ runs[r].pc \in Ranks /\ (asked[r] = None \/ Heard(r))
    \/ runs[r].pc = "begin" /\ Heard(r)
    \/ runs[r].pc = "save"

(* What a run is to find in the lane: nothing of its own before it begins, nothing of any
   run between two requests, and else its request alone; its begin has nothing of a run
   behind it. *)
Before(r) ==
    runs[r].pc \in {"replay", "lock", "look"} \/ (runs[r].pc = "begin" /\ asked[r] = None)
Alike(k, r) == At(k).run = r /\ At(k).op = asked[r] /\ At(k).step = runs[r].step
LaneHolds(r) ==
    /\ Before(r) => \A k \in Places : At(k).run # r
    /\ Between(r) => Idle
    /\ asked[r] \in Ranks => \A k \in Places : At(k).run # None => Alike(k, r)
    /\ asked[r] = "begin" =>
          \A j, k \in Places : At(j).run = r /\ j < k => At(k).run = None

(* A write or a commit of a run is the first of all that runs have in the lane, and the
   recording is as it was when it was asked for, or is gone. *)
Kept(r, n) == recording \in {None, Workflow!Writes(r, n)}
ItemHolds(k) ==
    /\ At(k).run = None => At(k).op = "write"
    /\ At(k).run # None /\ At(k).op \in Ranks =>
          \A j \in Places : j < k => At(j).run = None
    /\ At(k).run # None /\ At(k).op = "write"  => Kept(At(k).run, At(k).step - 1)
    /\ At(k).run # None /\ At(k).op = "commit" => Kept(At(k).run, GroupSize)
KeptHolds(r) ==
    /\ runs[r].pc = "begin" /\ Heard(r) => Kept(r, 0)
    /\ runs[r].pc = "write" /\ asked[r] = None => Kept(r, runs[r].step - 1)
    /\ runs[r].pc = "write" /\ Heard(r) => Kept(r, runs[r].step)
    /\ runs[r].pc = "commit" /\ asked[r] = None => Kept(r, GroupSize)

(* What is committed, and who knows of it. *)
Done(r) == \E k \in 1..Len(committed) : committed[k] = Workflow!Group(r)
DoneHolds(r) ==
    /\ runs[r].pc = "commit" /\ Heard(r) => Done(r)
    /\ runs[r].pc = "save" \/ runs[r].outcome = "ok" => Done(r)
    /\ runs[r].outcome = "replayed" => committed # <<>>
CommitHolds ==
    /\ \A k \in 1..Len(committed) : \E r \in Runs : committed[k] = Workflow!Group(r)
    /\ recorded => committed # <<>>

(* Once the record exists the lane is done with the workflow. *)
FinalHolds ==
    recorded => Idle /\ \A r \in Runs : runs[r].pc \notin Workflow!Requests \cup {"save"}

(* A run that is alone with a plugin that stays keeps its recording. *)
Steady == Workflow!Connected /\ Workflow!Alone
Keeps(r) ==
    \/ runs[r].pc = "write" /\ (asked[r] = None \/ Heard(r))
    \/ runs[r].pc = "begin" /\ Heard(r)
Live(k) == At(k).op = "write" /\ (k = 0 \/ ~At(k).expired)
SteadyHolds ==
    Steady =>
        /\ ~cleanup
        /\ \A k \in Places : At(k).run # None /\ (Live(k) => recording # None)
        /\ \A r \in Runs : Keeps(r) => recording # None
        /\ \A w \in outside : ~Workflow!OfRuns(w)

RunHolds(r) == AskHolds(r) /\ LaneHolds(r) /\ KeptHolds(r) /\ DoneHolds(r)
Holds ==
    /\ LockHolds /\ \A r \in Runs : RunHolds(r)
    /\ \A k \in Places : ItemHolds(k)
    /\ CommitHolds /\ FinalHolds /\ SteadyHolds
Typed == Workflow!WorkflowAssumption /\ TypeOK
-------------------------------------------------------------------------------
(* The places of the lane hold items. *)
LEMMA PlacesHoldItems ==
    ASSUME Typed
    PROVE  /\ Places \subseteq Nat
           /\ \A k \in Places : At(k) \in Entries
           /\ DOMAIN lane = 1..Len(lane) /\ Len(lane) \in Nat
           /\ None \notin Runs \cup Workflow!Requests \cup {"ok", "error"}
<1>1. lane \in Seq(Entries) /\ active \in Entries \cup {None} BY DEF Typed, TypeOK, LaneOK
<1>2. Len(lane) \in Nat /\ DOMAIN lane = 1..Len(lane)
        /\ \A k \in 1..Len(lane) : lane[k] \in Entries
  BY <1>1, LenProperties, ElementOfSeq
<1> QED BY <1>1, <1>2 DEF Places, At, Typed, Workflow!WorkflowAssumption

LEMMA PlacesHoldItemsNext ==
    ASSUME Workflow!WorkflowAssumption, TypeOK'
    PROVE  /\ Places' \subseteq Nat
           /\ \A k \in Places' : At(k)' \in Entries
           /\ DOMAIN lane' = 1..Len(lane') /\ Len(lane') \in Nat
<1>1. lane' \in Seq(Entries) /\ active' \in Entries \cup {None} BY DEF TypeOK, LaneOK
<1>2. Len(lane') \in Nat /\ DOMAIN lane' = 1..Len(lane')
        /\ \A k \in 1..Len(lane') : lane'[k] \in Entries
  BY <1>1, LenProperties, ElementOfSeq
<1> QED BY <1>1, <1>2 DEF Places, At

(* A step that leaves the queue alone leaves its places alone. *)
LEMMA SamePlaces ==
    ASSUME UNCHANGED <<lane, active>>
    PROVE  Places' = Places /\ Idle' = Idle /\ \A k : At(k)' = At(k)
BY DEF Places, At, Idle

(* What holds of a run is kept by the steps of others. *)
LEMMA OthersKeepRun ==
    ASSUME NEW q \in Runs, RunHolds(q),
           runs'[q] = runs[q], asked'[q] = asked[q], answers'[q] = answers[q],
           UNCHANGED <<lane, active, recording, committed>>
    PROVE  RunHolds(q)' /\ Keeps(q)' = Keeps(q)
<1>1. Places' = Places /\ Idle' = Idle /\ \A k : At(k)' = At(k) BY SamePlaces
<1>2. AskHolds(q)' /\ Heard(q)' = Heard(q) /\ Before(q)' = Before(q)
  BY DEF RunHolds, AskHolds, Heard, Before
<1>3. Between(q)' = Between(q) /\ Keeps(q)' = Keeps(q) BY <1>2 DEF Between, Keeps
<1>4. \A k : Alike(k, q)' = Alike(k, q) BY <1>1 DEF Alike
<1>5. LaneHolds(q)' BY <1>1, <1>2, <1>3, <1>4 DEF RunHolds, LaneHolds
<1>6. KeptHolds(q)' BY <1>2 DEF RunHolds, KeptHolds, Kept
<1>7. DoneHolds(q)' BY <1>2 DEF RunHolds, DoneHolds, Done
<1> QED BY <1>2, <1>3, <1>5, <1>6, <1>7 DEF RunHolds

(* A step of one process that leaves the lane and Studio alone. *)
Moves(r) ==
    \A q \in Runs \ {r} :
        runs'[q] = runs[q] /\ asked'[q] = asked[q] /\ answers'[q] = answers[q]

LEMMA ProcessStep ==
    ASSUME Holds, NEW r \in Runs, Moves(r), UNCHANGED <<Workflow!queue, Workflow!studio>>,
           RunHolds(r)', LockHolds', recorded' => committed # <<>>, FinalHolds',
           Steady' => Steady, Keeps(r)' => Keeps(r)
    PROVE  Holds'
<1> USE DEF Workflow!queue, Workflow!studio
<1>1. Places' = Places /\ Idle' = Idle /\ \A k : At(k)' = At(k) BY SamePlaces
<1>2. \A q \in Runs \ {r} : RunHolds(q)' /\ Keeps(q)' = Keeps(q)
  BY OthersKeepRun DEF Moves, Holds
<1>3. \A k \in Places' : ItemHolds(k)' BY <1>1 DEF Holds, ItemHolds, Kept
<1>4. CommitHolds' BY DEF Holds, CommitHolds
<1>5. SteadyHolds' BY <1>1, <1>2 DEF Holds, SteadyHolds, Live
<1> QED BY <1>2, <1>3, <1>4, <1>5 DEF Holds


-------------------------------------------------------------------------------
(* The initial state. *)
LEMMA InitHolds ==
    ASSUME Workflow!WorkflowAssumption, Workflow!Init
    PROVE  TypeOK /\ Holds
<1>1. RunsOK
  <2>1. "replay" \in Steps /\ 1 \in 1..GroupSize /\ "open" \in Outcomes
    BY DEF Workflow!WorkflowAssumption, Steps, Outcomes
  <2>2. runs \in [Runs -> [pc : Steps, step : 1..GroupSize, outcome : Outcomes]]
    BY <2>1 DEF Workflow!Init
  <2> QED BY <2>2 DEF Workflow!Init, RunsOK
<1>2. LaneOK /\ Len(lane) = 0 BY EmptySeq DEF Workflow!Init, LaneOK
<1>3. StudioOK /\ Len(committed) = 0 BY EmptySeq DEF Workflow!Init, StudioOK
<1>4. LeftOK BY DEF Workflow!Init, Workflow!WorkflowAssumption, LeftOK
<1>5. Places = {} BY <1>2 DEF Workflow!Init, Places
<1>6. ASSUME NEW r \in Runs
      PROVE  RunHolds(r) /\ ~Keeps(r)
  <2>1. runs[r].pc = "replay" /\ runs[r].step = 1 /\ runs[r].outcome = "open" /\ asked[r] = None
        /\ answers[r] = None
    BY DEF Workflow!Init
  <2>2. ~Between(r) /\ ~Keeps(r) BY <2>1 DEF Between, Keeps, Ranks
  <2>3. LaneHolds(r) BY <1>5, <2>1, <2>2 DEF LaneHolds
  <2> QED BY <2>1, <2>2, <2>3 DEF RunHolds, AskHolds, KeptHolds, DoneHolds
<1>7. LockHolds BY DEF Workflow!Init, LockHolds, Inside, Workflow!Requests
<1>8. CommitHolds /\ FinalHolds BY <1>3 DEF Workflow!Init, CommitHolds, FinalHolds
<1>9. SteadyHolds BY <1>5, <1>6 DEF Workflow!Init, SteadyHolds
<1> QED BY <1>1, <1>2, <1>3, <1>4, <1>5, <1>6, <1>7, <1>8, <1>9 DEF TypeOK, Holds

-------------------------------------------------------------------------------
(* The steps of a process. *)
LEMMA GoMoves ==
    ASSUME RunsOK, NEW r \in Runs, NEW pc \in Steps, Workflow!Go(r, pc)
    PROVE  /\ runs' \in [Runs -> [pc : Steps, step : 1..GroupSize, outcome : Outcomes]]
           /\ runs'[r].pc = pc /\ runs'[r].step = runs[r].step
                /\ runs'[r].outcome = runs[r].outcome
           /\ \A q \in Runs \ {r} : runs'[q] = runs[q]
BY DEF Workflow!Go, RunsOK

LEMMA EndMoves ==
    ASSUME RunsOK, NEW r \in Runs, NEW pc \in Steps, NEW outcome \in Outcomes,
           Workflow!End(r, pc, outcome)
    PROVE  /\ runs' \in [Runs -> [pc : Steps, step : 1..GroupSize, outcome : Outcomes]]
           /\ runs'[r].pc = pc /\ runs'[r].step = runs[r].step /\ runs'[r].outcome = outcome
           /\ \A q \in Runs \ {r} : runs'[q] = runs[q]
BY DEF Workflow!End, RunsOK

(* The bounds only shrink. *)
LEMMA SpendShrinks ==
    ASSUME LeftOK, Workflow!WorkflowAssumption,
           NEW b \in {"timeouts", "faults", "crashes", "disconnects", "others"},
           Workflow!Spend(b)
    PROVE  LeftOK' /\ (Steady' => Steady /\ b \notin {"disconnects", "others"})
<1>1. left' = [left EXCEPT ![b] = left[b] - 1] /\ left[b] > 0 BY DEF Workflow!Spend
<1>2. /\ left.timeouts \in Nat /\ left.faults \in Nat /\ left.crashes \in Nat
      /\ left.disconnects \in 0..MaxDisconnects /\ left.others \in 0..MaxOthers
  BY DEF LeftOK
<1>3. MaxDisconnects \in Nat /\ MaxOthers \in Nat BY DEF Workflow!WorkflowAssumption
<1>4. CASE b = "timeouts"
  BY <1>1, <1>2, <1>3, <1>4 DEF LeftOK, Steady, Workflow!Connected, Workflow!Alone
<1>5. CASE b = "faults"
  BY <1>1, <1>2, <1>3, <1>5 DEF LeftOK, Steady, Workflow!Connected, Workflow!Alone
<1>6. CASE b = "crashes"
  BY <1>1, <1>2, <1>3, <1>6 DEF LeftOK, Steady, Workflow!Connected, Workflow!Alone
<1>7. CASE b = "disconnects"
  BY <1>1, <1>2, <1>3, <1>7 DEF LeftOK, Steady, Workflow!Connected, Workflow!Alone
<1>8. CASE b = "others"
  BY <1>1, <1>2, <1>3, <1>8 DEF LeftOK, Steady, Workflow!Connected, Workflow!Alone
<1> QED BY <1>4, <1>5, <1>6, <1>7, <1>8

LEMMA SteadyStays ==
    ASSUME UNCHANGED left
    PROVE  Steady' = Steady /\ (LeftOK => LeftOK')
BY DEF Steady, Workflow!Connected, Workflow!Alone, LeftOK


(* What a process is to do on its own, before and after its requests. *)
LEMMA QuietRun ==
    ASSUME Typed, Holds, NEW r \in Runs, UNCHANGED <<Workflow!queue, Workflow!studio>>,
           asked'[r] = None, runs'[r].pc \notin Ranks \cup {"save"},
           Before(r)' => Before(r), AskHolds(r)',
           runs'[r].outcome = "ok" => Done(r), runs'[r].outcome = "replayed" => committed # <<>>
    PROVE  RunHolds(r)' /\ ~Keeps(r)'
<1> USE DEF Workflow!queue, Workflow!studio
<1>1. Places' = Places /\ Idle' = Idle /\ \A k : At(k)' = At(k) BY SamePlaces
<1>2. ~Heard(r)' /\ ~Between(r)' /\ ~Keeps(r)' BY DEF Heard, Between, Keeps, Ranks
<1>3. None \notin Ranks \cup {"begin"}
  BY DEF Typed, Workflow!WorkflowAssumption, Ranks, Workflow!Requests
<1>4. LaneHolds(r)'
  <2>1. Before(r)' => \A k \in Places : At(k).run # r BY DEF Holds, RunHolds, LaneHolds
  <2> QED BY <1>1, <1>2, <1>3, <2>1 DEF LaneHolds
<1>5. KeptHolds(r)' BY <1>2 DEF KeptHolds, Ranks
<1>6. DoneHolds(r)' BY <1>2 DEF DoneHolds, Done
<1> QED BY <1>2, <1>4, <1>5, <1>6 DEF RunHolds

(* Only the run that holds the lock is past it. *)
LEMMA OnlyHolder ==
    ASSUME Typed, Holds, NEW r \in Runs, runs[r].pc \in Inside
    PROVE  /\ lock = r
           /\ \A q \in Runs \ {r} : runs[q].pc \notin Inside /\ asked[q] = None
<1>1. lock = r /\ \A q \in Runs \ {r} : runs[q].pc \notin Inside BY DEF Holds, LockHolds
<1>2. \A q \in Runs : asked[q] # None => asked[q] = runs[q].pc /\ asked[q] \in Workflow!Requests
  BY DEF Typed, TypeOK, RunsOK, Holds, RunHolds, AskHolds
<1> QED BY <1>1, <1>2 DEF Inside

LEMMA FirstLookStep ==
    ASSUME Typed, Holds, NEW r \in Runs, Workflow!FirstLook(r)
    PROVE  TypeOK' /\ Holds'
<1> USE DEF Workflow!files, Workflow!calls, Workflow!queue, Workflow!studio
<1>1. /\ runs[r].pc = "replay" /\ UNCHANGED <<Workflow!files, Workflow!calls, Workflow!queue, Workflow!studio, left>>
      /\ RunsOK /\ LaneOK /\ StudioOK /\ LeftOK /\ AskHolds(r) /\ DoneHolds(r)
  BY DEF Workflow!FirstLook, Typed, TypeOK, Holds, RunHolds
<1>2. /\ runs' \in [Runs -> [pc : Steps, step : 1..GroupSize, outcome : Outcomes]]
      /\ runs'[r].step = runs[r].step /\ \A q \in Runs \ {r} : runs'[q] = runs[q]
      /\ \/ runs'[r].pc = "lock" /\ runs'[r].outcome = runs[r].outcome
         \/ recorded /\ runs'[r].pc = "done" /\ runs'[r].outcome = "replayed"
  <2>1. {"done", "lock"} \subseteq Steps /\ "replayed" \in Outcomes
    BY DEF Steps, Workflow!Over, Outcomes
  <2> QED BY <1>1, <2>1, GoMoves, EndMoves DEF Workflow!FirstLook
<1>3. TypeOK' BY <1>1, <1>2 DEF TypeOK, RunsOK, LaneOK, StudioOK, LeftOK
<1>4. asked[r] = None /\ runs[r].step = 1 BY <1>1 DEF AskHolds, RunsOK, Workflow!Requests
<1>5. RunHolds(r)' /\ ~Keeps(r)'
  <2>1. AskHolds(r)' /\ Before(r) BY <1>1, <1>2, <1>4 DEF AskHolds, Before
  <2>2. runs'[r].outcome = "ok" => Done(r) BY <1>1, <1>2 DEF DoneHolds
  <2>3. runs'[r].outcome = "replayed" => committed # <<>>
    BY <1>1, <1>2 DEF DoneHolds, Holds, CommitHolds
  <2>4. runs'[r].pc \notin Ranks \cup {"save"} BY <1>2 DEF Ranks
  <2> QED BY <1>1, <1>4, <2>1, <2>2, <2>3, <2>4, QuietRun
<1>6. runs'[r].pc \notin Inside \cup Workflow!Requests \cup {"save"}
  BY <1>2 DEF Inside, Workflow!Requests
<1>7. LockHolds' /\ FinalHolds'
  BY <1>1, <1>2, <1>6, SamePlaces DEF Holds, LockHolds, FinalHolds
<1>8. (recorded' => committed # <<>>) /\ (Steady' => Steady) /\ Moves(r)
  BY <1>1, <1>2, SteadyStays DEF Holds, CommitHolds, Moves
<1> QED BY <1>1, <1>3, <1>5, <1>7, <1>8, ProcessStep

LEMMA TakeLockStep ==
    ASSUME Typed, Holds, NEW r \in Runs, Workflow!TakeLock(r)
    PROVE  TypeOK' /\ Holds'
<1> USE DEF Workflow!calls, Workflow!queue, Workflow!studio
<1>1. /\ runs[r].pc = "lock" /\ UNCHANGED <<recorded, Workflow!calls, Workflow!queue, Workflow!studio, left>>
      /\ RunsOK /\ LaneOK /\ StudioOK /\ LeftOK /\ AskHolds(r) /\ DoneHolds(r)
  BY DEF Workflow!TakeLock, Typed, TypeOK, Holds, RunHolds
<1>2. /\ runs' \in [Runs -> [pc : Steps, step : 1..GroupSize, outcome : Outcomes]]
      /\ runs'[r].step = runs[r].step /\ \A q \in Runs \ {r} : runs'[q] = runs[q]
      /\ \/ lock = None /\ lock' = r /\ runs'[r].pc = "look" /\ runs'[r].outcome = runs[r].outcome
         \/ lock' = lock /\ runs'[r].pc = "done" /\ runs'[r].outcome = "failed"
  <2>1. {"done", "look"} \subseteq Steps /\ "failed" \in Outcomes
    BY DEF Steps, Workflow!Over, Outcomes
  <2> QED BY <1>1, <2>1, GoMoves, EndMoves DEF Workflow!TakeLock
<1>3. TypeOK' BY <1>1, <1>2 DEF TypeOK, RunsOK, LaneOK, StudioOK, LeftOK
<1>4. asked[r] = None /\ runs[r].step = 1 BY <1>1 DEF AskHolds, RunsOK, Workflow!Requests
<1>5. RunHolds(r)' /\ ~Keeps(r)'
  <2>1. AskHolds(r)' /\ Before(r) BY <1>1, <1>2, <1>4 DEF AskHolds, Before
  <2>2. runs'[r].outcome = "ok" => Done(r) BY <1>1, <1>2 DEF DoneHolds
  <2>3. runs'[r].outcome = "replayed" => committed # <<>> BY <1>1, <1>2 DEF DoneHolds
  <2>4. runs'[r].pc \notin Ranks \cup {"save"} BY <1>2 DEF Ranks
  <2> QED BY <1>1, <1>4, <2>1, <2>2, <2>3, <2>4, QuietRun
<1>6. runs'[r].pc \notin Workflow!Requests \cup {"save"}
        /\ (runs'[r].pc \in Inside => lock = None /\ lock' = r)
  BY <1>2 DEF Inside, Workflow!Requests
<1>7. LockHolds' /\ FinalHolds'
  <2>1. None \notin Runs BY DEF Typed, Workflow!WorkflowAssumption
  <2>2. lock = None => \A q \in Runs : runs[q].pc \notin Inside BY <2>1 DEF Holds, LockHolds
  <2>3. LockHolds' BY <1>2, <1>6, <2>2 DEF Holds, LockHolds
  <2> QED BY <1>1, <1>2, <1>6, <2>3, SamePlaces DEF Holds, FinalHolds
<1>8. (recorded' => committed # <<>>) /\ (Steady' => Steady) /\ Moves(r)
  BY <1>1, <1>2, SteadyStays DEF Holds, CommitHolds, Moves
<1> QED BY <1>1, <1>3, <1>5, <1>7, <1>8, ProcessStep


LEMMA SecondLookStep ==
    ASSUME Typed, Holds, NEW r \in Runs, Workflow!SecondLook(r)
    PROVE  TypeOK' /\ Holds'
<1> USE DEF Workflow!files, Workflow!calls, Workflow!queue, Workflow!studio
<1>1. /\ runs[r].pc = "look" /\ UNCHANGED <<Workflow!files, Workflow!calls, Workflow!queue, Workflow!studio, left>>
      /\ RunsOK /\ LaneOK /\ StudioOK /\ LeftOK /\ AskHolds(r) /\ DoneHolds(r)
  BY DEF Workflow!SecondLook, Typed, TypeOK, Holds, RunHolds
<1>2. /\ runs' \in [Runs -> [pc : Steps, step : 1..GroupSize, outcome : Outcomes]]
      /\ runs'[r].step = runs[r].step /\ \A q \in Runs \ {r} : runs'[q] = runs[q]
      /\ \/ ~recorded /\ runs'[r].pc = "begin" /\ runs'[r].outcome = runs[r].outcome
         \/ recorded /\ runs'[r].pc = "unlock" /\ runs'[r].outcome = "replayed"
  <2>1. {"begin", "unlock"} \subseteq Steps /\ "replayed" \in Outcomes
    BY DEF Steps, Workflow!Requests, Outcomes
  <2> QED BY <1>1, <2>1, GoMoves, EndMoves DEF Workflow!SecondLook
<1>3. TypeOK' BY <1>1, <1>2 DEF TypeOK, RunsOK, LaneOK, StudioOK, LeftOK
<1>4. asked[r] = None /\ runs[r].step = 1 BY <1>1 DEF AskHolds, RunsOK, Workflow!Requests
<1>5. RunHolds(r)' /\ ~Keeps(r)'
  <2>1. AskHolds(r)' /\ Before(r) BY <1>1, <1>2, <1>4 DEF AskHolds, Before
  <2>2. runs'[r].outcome = "ok" => Done(r) BY <1>1, <1>2 DEF DoneHolds
  <2>3. runs'[r].outcome = "replayed" => committed # <<>>
    BY <1>1, <1>2 DEF DoneHolds, Holds, CommitHolds
  <2>4. runs'[r].pc \notin Ranks \cup {"save"} BY <1>2 DEF Ranks
  <2> QED BY <1>1, <1>4, <2>1, <2>2, <2>3, <2>4, QuietRun
<1>6. LockHolds' /\ FinalHolds'
  <2>1. lock = r BY <1>1, OnlyHolder DEF Inside
  <2>2. recorded => runs'[r].pc \notin Workflow!Requests \cup {"save"}
    BY <1>2 DEF Workflow!Requests
  <2>3. LockHolds' BY <1>1, <1>2, <2>1 DEF Holds, LockHolds
  <2> QED BY <1>1, <1>2, <2>2, <2>3, SamePlaces DEF Holds, FinalHolds
<1>7. (recorded' => committed # <<>>) /\ (Steady' => Steady) /\ Moves(r)
  BY <1>1, <1>2, SteadyStays DEF Holds, CommitHolds, Moves
<1> QED BY <1>1, <1>3, <1>5, <1>6, <1>7, ProcessStep

(* The record is written by the run that committed, and holds the lock. *)
LEMMA SaveStep ==
    ASSUME Typed, Holds, NEW r \in Runs, Workflow!Save(r)
    PROVE  TypeOK' /\ Holds'
<1> USE DEF Workflow!calls, Workflow!queue, Workflow!studio
<1>1. /\ runs[r].pc = "save" /\ UNCHANGED <<lock, Workflow!calls, Workflow!queue, Workflow!studio>>
      /\ RunsOK /\ LaneOK /\ StudioOK /\ LeftOK /\ AskHolds(r) /\ DoneHolds(r)
  BY DEF Workflow!Save, Typed, TypeOK, Holds, RunHolds
<1>2. LeftOK' /\ (Steady' => Steady)
  BY <1>1, SpendShrinks, SteadyStays DEF Workflow!Save, Typed
<1>3. /\ runs' \in [Runs -> [pc : Steps, step : 1..GroupSize, outcome : Outcomes]]
      /\ runs'[r].pc = "unlock" /\ runs'[r].outcome \in {"ok", "failed"}
           /\ recorded' \in BOOLEAN
      /\ runs'[r].step = runs[r].step /\ \A q \in Runs \ {r} : runs'[q] = runs[q]
  <2>1. "unlock" \in Steps /\ {"ok", "failed"} \subseteq Outcomes BY DEF Steps, Outcomes
  <2>2. \E o \in {"ok", "failed"} : Workflow!End(r, "unlock", o) BY DEF Workflow!Save
  <2>3. PICK o \in {"ok", "failed"} : Workflow!End(r, "unlock", o) BY <2>2
  <2>4. recorded' \in BOOLEAN BY <1>1 DEF Workflow!Save, RunsOK
  <2> QED BY <1>1, <2>1, <2>3, <2>4, EndMoves
<1>4. TypeOK' BY <1>1, <1>2, <1>3 DEF TypeOK, RunsOK, LaneOK, StudioOK
<1>5. asked[r] = None /\ Done(r) /\ Idle /\ committed # <<>>
  <2>1. asked[r] = None /\ Between(r) /\ Done(r)
    BY <1>1 DEF AskHolds, RunsOK, Workflow!Requests, Between, DoneHolds
  <2>2. Idle BY <2>1 DEF Holds, RunHolds, LaneHolds
  <2>3. \E k \in 1..Len(committed) : TRUE BY <2>1 DEF Done
  <2> QED BY <2>1, <2>2, <2>3, EmptySeq DEF Typed
<1>6. RunHolds(r)' /\ ~Keeps(r)'
  <2>1. AskHolds(r)' /\ ~Before(r)' BY <1>1, <1>3, <1>5 DEF AskHolds, Before
  <2>2. runs'[r].outcome # "replayed" /\ runs'[r].pc \notin Ranks \cup {"save"}
    BY <1>3 DEF Ranks
  <2> QED BY <1>1, <1>5, <2>1, <2>2, QuietRun
<1>7. LockHolds' /\ FinalHolds'
  <2>1. lock = r /\ \A q \in Runs \ {r} : runs[q].pc \notin Inside
    BY <1>1, OnlyHolder DEF Inside
  <2>2. \A q \in Runs : runs'[q].pc \notin Workflow!Requests \cup {"save"}
    BY <1>3, <2>1 DEF Inside, Workflow!Requests
  <2>3. LockHolds' BY <1>1, <1>3, <2>1 DEF LockHolds
  <2> QED BY <1>1, <1>5, <2>2, <2>3, SamePlaces DEF FinalHolds
<1> QED BY <1>1, <1>2, <1>3, <1>4, <1>5, <1>6, <1>7, ProcessStep DEF Moves


LEMMA UnlockStep ==
    ASSUME Typed, Holds, NEW r \in Runs, Workflow!Unlock(r)
    PROVE  TypeOK' /\ Holds'
<1> USE DEF Workflow!calls, Workflow!queue, Workflow!studio
<1>1. /\ runs[r].pc = "unlock" /\ lock' = None /\ UNCHANGED <<recorded, Workflow!calls, Workflow!queue, Workflow!studio, left>>
      /\ RunsOK /\ LaneOK /\ StudioOK /\ LeftOK /\ AskHolds(r) /\ DoneHolds(r)
  BY DEF Workflow!Unlock, Typed, TypeOK, Holds, RunHolds
<1>2. /\ runs' \in [Runs -> [pc : Steps, step : 1..GroupSize, outcome : Outcomes]]
      /\ runs'[r].pc = "done" /\ runs'[r].outcome = runs[r].outcome
      /\ runs'[r].step = runs[r].step /\ \A q \in Runs \ {r} : runs'[q] = runs[q]
  <2>1. "done" \in Steps BY DEF Steps, Workflow!Over
  <2> QED BY <1>1, <2>1, GoMoves DEF Workflow!Unlock
<1>3. TypeOK' BY <1>1, <1>2 DEF TypeOK, RunsOK, LaneOK, StudioOK, LeftOK
<1>4. asked[r] = None BY <1>1 DEF AskHolds, RunsOK, Workflow!Requests
<1>5. RunHolds(r)' /\ ~Keeps(r)'
  <2>1. AskHolds(r)' /\ ~Before(r)' BY <1>1, <1>2, <1>4 DEF AskHolds, Before
  <2>2. /\ runs'[r].outcome = "ok" => Done(r)
        /\ runs'[r].outcome = "replayed" => committed # <<>>
    BY <1>1, <1>2 DEF DoneHolds
  <2>3. runs'[r].pc \notin Ranks \cup {"save"} BY <1>2 DEF Ranks
  <2> QED BY <1>1, <1>4, <2>1, <2>2, <2>3, QuietRun
<1>6. LockHolds' /\ FinalHolds'
  <2>1. \A q \in Runs \ {r} : runs[q].pc \notin Inside BY <1>1, OnlyHolder DEF Inside
  <2>2. LockHolds' BY <1>2, <2>1 DEF LockHolds, Inside, Workflow!Requests
  <2>3. runs'[r].pc \notin Workflow!Requests \cup {"save"} BY <1>2 DEF Workflow!Requests
  <2> QED BY <1>1, <1>2, <2>2, <2>3, SamePlaces DEF Holds, FinalHolds
<1>7. (recorded' => committed # <<>>) /\ (Steady' => Steady) /\ Moves(r)
  BY <1>1, <1>2, SteadyStays DEF Holds, CommitHolds, Moves
<1> QED BY <1>1, <1>3, <1>5, <1>6, <1>7, ProcessStep

LEMMA CrashStep ==
    ASSUME Typed, Holds, NEW r \in Runs, Workflow!Crash(r)
    PROVE  TypeOK' /\ Holds'
<1> USE DEF Workflow!files, Workflow!queue, Workflow!studio
<1>1. /\ UNCHANGED <<Workflow!files, Workflow!queue, Workflow!studio>>
      /\ asked' = [asked EXCEPT ![r] = None] /\ answers' = [answers EXCEPT ![r] = None]
      /\ RunsOK /\ LaneOK /\ StudioOK /\ LeftOK /\ AskHolds(r) /\ DoneHolds(r)
  BY DEF Workflow!Crash, Typed, TypeOK, Holds, RunHolds
<1>2. /\ runs' \in [Runs -> [pc : Steps, step : 1..GroupSize, outcome : Outcomes]]
      /\ runs'[r].pc = "dead" /\ runs'[r].outcome = runs[r].outcome
      /\ runs'[r].step = runs[r].step /\ \A q \in Runs \ {r} : runs'[q] = runs[q]
  <2>1. "dead" \in Steps BY DEF Steps, Workflow!Over
  <2> QED BY <1>1, <2>1, GoMoves DEF Workflow!Crash
<1>3. LeftOK' /\ (Steady' => Steady) BY <1>1, SpendShrinks DEF Workflow!Crash, Typed
<1>4. /\ asked' \in [Runs -> Workflow!Requests \cup {None}] /\ answers' \in [Runs -> {"ok", "error", None}]
      /\ asked'[r] = None /\ answers'[r] = None
      /\ \A q \in Runs \ {r} : asked'[q] = asked[q] /\ answers'[q] = answers[q]
  BY <1>1 DEF RunsOK
<1>5. TypeOK' BY <1>1, <1>2, <1>3, <1>4 DEF TypeOK, RunsOK, LaneOK, StudioOK
<1>6. RunHolds(r)' /\ ~Keeps(r)'
  <2>1. AskHolds(r)' /\ ~Before(r)' BY <1>2, <1>4 DEF AskHolds, Before
  <2>2. /\ runs'[r].outcome = "ok" => Done(r)
        /\ runs'[r].outcome = "replayed" => committed # <<>>
    BY <1>1, <1>2 DEF DoneHolds
  <2>3. runs'[r].pc \notin Ranks \cup {"save"} BY <1>2 DEF Ranks
  <2> QED BY <1>1, <1>4, <2>1, <2>2, <2>3, QuietRun
<1>7. runs'[r].pc \notin Inside \cup Workflow!Requests \cup {"save"}
  BY <1>2 DEF Inside, Workflow!Requests
<1>8. LockHolds' /\ FinalHolds'
  BY <1>1, <1>2, <1>7, SamePlaces DEF Holds, LockHolds, FinalHolds
<1>9. (recorded' => committed # <<>>) /\ Moves(r)
  BY <1>1, <1>2, <1>4 DEF Holds, CommitHolds, Moves
<1> QED BY <1>1, <1>3, <1>5, <1>6, <1>8, <1>9, ProcessStep

(* The lock file is removed by hand only when no run is past it. *)
LEMMA RemoveLockStep ==
    ASSUME Typed, Holds, Workflow!RemoveLock
    PROVE  TypeOK' /\ Holds'
<1> USE DEF Workflow!calls, Workflow!queue, Workflow!studio
<1>1. /\ UNCHANGED <<runs, recorded, Workflow!calls, Workflow!queue, Workflow!studio, left>> /\ lock' = None /\ lock \in Runs
      /\ RunsOK /\ LaneOK /\ StudioOK /\ LeftOK
  BY DEF Workflow!RemoveLock, Typed, TypeOK, RunsOK
<1>2. TypeOK' BY <1>1 DEF TypeOK, RunsOK, LaneOK, StudioOK, LeftOK
<1>3. LockHolds'
  BY <1>1 DEF Workflow!RemoveLock, LockHolds, Inside, Workflow!Requests, Workflow!Over
<1>4. Moves(lock) /\ (recorded' => committed # <<>>) /\ (Steady' => Steady)
  BY <1>1, SteadyStays DEF Moves, Holds, CommitHolds
<1>5. FinalHolds' BY <1>1, SamePlaces DEF Holds, FinalHolds
<1>6. \A q \in Runs : RunHolds(q)' /\ (Keeps(q)' => Keeps(q))
  BY <1>1, OthersKeepRun DEF Holds
<1>7. PICK q \in Runs : q = lock BY <1>1
<1> QED BY <1>1, <1>2, <1>3, <1>4, <1>5, <1>6, <1>7, ProcessStep


(* An answer moves a run on: to a next request, which the lane is free for, or out of its
   group. *)
LEMMA ReceiveStep ==
    ASSUME Typed, Holds, NEW r \in Runs, Workflow!Receive(r)
    PROVE  TypeOK' /\ Holds'
<1> USE DEF Workflow!files, Workflow!queue, Workflow!studio
<1>1. /\ asked[r] # None /\ UNCHANGED <<Workflow!files, Workflow!queue, Workflow!studio>>
      /\ asked' = [asked EXCEPT ![r] = None] /\ answers' = [answers EXCEPT ![r] = None]
      /\ RunsOK /\ LaneOK /\ StudioOK /\ LeftOK
      /\ AskHolds(r) /\ LaneHolds(r) /\ KeptHolds(r) /\ DoneHolds(r)
  BY DEF Workflow!Receive, Typed, TypeOK, Holds, RunHolds
<1>2. asked[r] = runs[r].pc /\ runs[r].pc \in Workflow!Requests /\ runs[r].step \in 1..GroupSize
  BY <1>1 DEF AskHolds, RunsOK
<1>3. LeftOK' /\ (Steady' => Steady)
  <2>1. Workflow!Spend("timeouts") \/ UNCHANGED left BY DEF Workflow!Receive
  <2> QED BY <1>1, <2>1, SpendShrinks, SteadyStays DEF Typed
<1>4. /\ asked' \in [Runs -> Workflow!Requests \cup {None}] /\ answers' \in [Runs -> {"ok", "error", None}]
      /\ asked'[r] = None /\ answers'[r] = None
      /\ \A q \in Runs \ {r} : asked'[q] = asked[q] /\ answers'[q] = answers[q]
  BY <1>1 DEF RunsOK
<1>5. PICK ok \in BOOLEAN : Workflow!After(r, ok) /\ (ok => Heard(r))
  BY <1>1 DEF Workflow!Receive, Heard
<1>6. lock = r /\ ~recorded
  <2>1. runs[r].pc \in Inside BY <1>2 DEF Inside
  <2> QED BY <1>2, <2>1, OnlyHolder DEF Holds, FinalHolds
<1>7. Done(r) => committed # <<>> BY EmptySeq DEF Done
<1> DEFINE RunType == [pc : Steps, step : 1..GroupSize, outcome : Outcomes]
           Moved(pc, step, outcome) ==
               /\ runs' \in [Runs -> RunType] /\ \A q \in Runs \ {r} : runs'[q] = runs[q]
               /\ runs'[r].pc = pc /\ runs'[r].step = step /\ runs'[r].outcome = outcome
           Begun     == ok /\ runs[r].pc = "begin" /\ Moved("write", 1, runs[r].outcome)
           Written   == ok /\ runs[r].pc = "write" /\ runs[r].step < GroupSize
                        /\ Moved("write", runs[r].step + 1, runs[r].outcome)
           Grouped   == ok /\ runs[r].pc = "write" /\ runs[r].step = GroupSize
                        /\ Moved("commit", GroupSize, runs[r].outcome)
           Committed == ok /\ runs[r].pc = "commit"
                        /\ Moved("save", runs[r].step, runs[r].outcome)
           Ended     == \E pc \in {"unlock", "cancel"},
                           o \in {runs[r].outcome, "failed", "rolled back"} :
                              Moved(pc, runs[r].step, o)
<1>8. Begun \/ Written \/ Grouped \/ Committed \/ Ended
  <2>1. {"write", "commit", "save", "unlock", "cancel"} \subseteq Steps
        /\ {"failed", "rolled back"} \subseteq Outcomes /\ runs[r].outcome \in Outcomes
    BY <1>1 DEF Steps, Workflow!Requests, Outcomes, RunsOK
  <2>2. CASE runs[r].pc = "begin"
    <3>1. runs[r].step = 1 BY <1>1, <2>2 DEF AskHolds
    <3>2. CASE ok
      <4>1. Workflow!Go(r, "write") BY <1>5, <2>2, <3>2 DEF Workflow!After
      <4> QED BY <1>1, <2>1, <2>2, <3>1, <3>2, <4>1, GoMoves
    <3>3. CASE ~ok
      <4>1. Workflow!End(r, "unlock", "failed") BY <1>5, <2>2, <3>3 DEF Workflow!After
      <4>2. Moved("unlock", runs[r].step, "failed") BY <1>1, <2>1, <4>1, EndMoves
      <4> QED BY <4>2
    <3> QED BY <3>2, <3>3
  <2>3. CASE runs[r].pc = "write"
    <3>1. CASE ~ok
      <4>1. Workflow!Go(r, "cancel") BY <1>5, <2>3, <3>1 DEF Workflow!After
      <4>2. Moved("cancel", runs[r].step, runs[r].outcome) BY <1>1, <2>1, <4>1, GoMoves
      <4> QED BY <4>2
    <3>2. CASE ok /\ runs[r].step = GroupSize
      <4>1. Workflow!Go(r, "commit") BY <1>5, <2>3, <3>2 DEF Workflow!After
      <4> QED BY <1>1, <2>1, <2>3, <3>2, <4>1, GoMoves
    <3>3. CASE ok /\ runs[r].step # GroupSize
      <4>1. runs' = [runs EXCEPT ![r].step = runs[r].step + 1]
        BY <1>5, <2>3, <3>3 DEF Workflow!After
      <4>2. runs[r].step + 1 \in 1..GroupSize /\ runs[r].step < GroupSize
        BY <1>2, <3>3 DEF Typed, Workflow!WorkflowAssumption
      <4>3. Moved("write", runs[r].step + 1, runs[r].outcome)
        BY <1>1, <2>3, <4>1, <4>2 DEF RunsOK
      <4> QED BY <2>3, <3>3, <4>2, <4>3
    <3> QED BY <3>1, <3>2, <3>3
  <2>4. CASE runs[r].pc = "commit"
    <3>1. CASE ok
      <4>1. Workflow!Go(r, "save") BY <1>5, <2>4, <3>1 DEF Workflow!After
      <4> QED BY <1>1, <2>1, <2>4, <3>1, <4>1, GoMoves
    <3>2. CASE ~ok
      <4>1. Workflow!Go(r, "cancel") BY <1>5, <2>4, <3>2 DEF Workflow!After
      <4>2. Moved("cancel", runs[r].step, runs[r].outcome) BY <1>1, <2>1, <4>1, GoMoves
      <4> QED BY <4>2
    <3> QED BY <3>1, <3>2
  <2>5. CASE runs[r].pc = "cancel"
    <3>1. \E o \in {"failed", "rolled back"} : Workflow!End(r, "unlock", o)
      BY <1>5, <2>5 DEF Workflow!After
    <3>2. PICK o \in {"failed", "rolled back"} : Workflow!End(r, "unlock", o) BY <3>1
    <3>3. Moved("unlock", runs[r].step, o) BY <1>1, <2>1, <3>2, EndMoves
    <3> QED BY <3>3
  <2> QED BY <1>2, <2>2, <2>3, <2>4, <2>5 DEF Workflow!Requests
<1>9. /\ runs' \in [Runs -> RunType] /\ \A q \in Runs \ {r} : runs'[q] = runs[q]
      /\ runs'[r].pc \notin {"replay", "lock", "look", "begin"}
  BY <1>8
<1> HIDE DEF RunType
<1>10. TypeOK' BY <1>1, <1>3, <1>4, <1>6, <1>9 DEF TypeOK, RunsOK, LaneOK, StudioOK, RunType
<1>11. AskHolds(r)' /\ ~Before(r)' /\ ~Heard(r)' BY <1>4, <1>9 DEF AskHolds, Before, Heard
<1>12. RunHolds(r)' /\ (Keeps(r)' => Keeps(r))
  <2>1. CASE Ended
    <3>1. PICK pc \in {"unlock", "cancel"}, o \in {runs[r].outcome, "failed", "rolled back"} :
             Moved(pc, runs[r].step, o)
      BY <2>1
    <3>2. runs'[r].pc \notin Ranks \cup {"save"} BY <3>1 DEF Ranks
    <3>3. /\ runs'[r].outcome = "ok" => Done(r)
          /\ runs'[r].outcome = "replayed" => committed # <<>>
      BY <1>1, <3>1 DEF DoneHolds
    <3> QED BY <1>1, <1>4, <1>11, <3>2, <3>3, QuietRun
  <2>2. CASE Begun \/ Written \/ Grouped \/ Committed
    <3>1. Heard(r) /\ runs[r].pc \in {"begin", "write", "commit"}
          /\ runs'[r].outcome = runs[r].outcome
      BY <1>5, <2>2
    <3>2. Idle'
      <4>1. Between(r) BY <3>1 DEF Between, Ranks
      <4> QED BY <1>1, <4>1, SamePlaces DEF LaneHolds
    <3>3. None \notin Ranks \cup {"begin"}
      BY DEF Typed, Workflow!WorkflowAssumption, Ranks, Workflow!Requests
    <3>4. LaneHolds(r)' BY <1>4, <1>11, <3>2, <3>3 DEF LaneHolds
    <3>5. KeptHolds(r)'
      <4>1. CASE Begun BY <1>1, <1>5, <1>11, <4>1 DEF KeptHolds, Kept
      <4>2. CASE Written BY <1>1, <1>2, <1>5, <1>11, <4>2 DEF KeptHolds, Kept
      <4>3. CASE Grouped BY <1>1, <1>5, <1>11, <4>3 DEF KeptHolds, Kept
      <4>4. CASE Committed BY <4>4 DEF KeptHolds
      <4> QED BY <2>2, <4>1, <4>2, <4>3, <4>4
    <3>6. DoneHolds(r)'
      <4>1. runs'[r].pc = "save" => Done(r) BY <1>1, <1>5, <2>2 DEF DoneHolds
      <4> QED BY <1>1, <1>11, <3>1, <4>1 DEF DoneHolds, Done
    <3>7. Keeps(r)' => Keeps(r) BY <1>5, <1>11, <2>2 DEF Keeps
    <3> QED BY <1>11, <3>4, <3>5, <3>6, <3>7 DEF RunHolds
  <2> QED BY <1>8, <2>1, <2>2
<1>13. LockHolds' /\ FinalHolds' BY <1>1, <1>6, <1>9 DEF Holds, LockHolds, FinalHolds
<1>14. Moves(r) /\ (recorded' => committed # <<>>) BY <1>1, <1>4, <1>6, <1>9 DEF Moves
<1> QED BY <1>1, <1>3, <1>10, <1>12, <1>13, <1>14, ProcessStep


-------------------------------------------------------------------------------
(* The steps of the lane: an item stays where it was, or moves up by one from the place d
   on; a write that can still run could run before. *)
Was(d, k) == IF k < d THEN k ELSE k + 1
Old(d, k) ==
    /\ Was(d, k) \in Places
    /\ At(k)'.run = At(Was(d, k)).run
    /\ At(k)'.op = At(Was(d, k)).op
    /\ At(k)'.step = At(Was(d, k)).step
    /\ Live(k)' => Live(Was(d, k))
Strange(k) == At(k).run = None /\ At(k).op = "write"
Told ==
    \A r \in Runs : answers'[r] = answers[r] \/ (asked[r] # None /\ answers'[r] = "error")

LEMMA WasIncreases ==
    ASSUME NEW d \in Nat, NEW j \in Nat, NEW k \in Nat, j < k
    PROVE  Was(d, j) < Was(d, k)
BY DEF Was

(* A run that is told of nothing but errors knows no more than it did. *)
LEMMA ToldKnowsLess ==
    ASSUME Typed, Told, UNCHANGED <<Workflow!process, asked>>, NEW r \in Runs, AskHolds(r)
    PROVE  /\ AskHolds(r)' /\ Before(r)' = Before(r)
           /\ Heard(r)' => Heard(r)
           /\ Between(r)' => Between(r)
           /\ Keeps(r)' => Keeps(r)
<1> USE DEF Workflow!process
<1>1. answers'[r] = answers[r] \/ (asked[r] # None /\ answers'[r] = "error") BY DEF Told
<1>2. (Heard(r)' => Heard(r)) /\ AskHolds(r)' /\ Before(r)' = Before(r)
  BY <1>1 DEF Heard, AskHolds, Before
<1> QED BY <1>2 DEF Between, Keeps

(* The lane goes on without a run hearing of a success, and the recording stays or ends. *)
LEMMA LaneStep ==
    ASSUME Typed, Holds, TypeOK', NEW d \in Nat,
           UNCHANGED <<Workflow!process, asked, committed>>, Told,
           recording' \in {recording, None},
           \A k \in Places' : Old(d, k) \/ Strange(k)',
           \A w \in outside' \ outside : ~Workflow!OfRuns(w),
           Steady' => /\ Steady /\ recording' = recording /\ ~cleanup'
                      /\ \A k \in Places' : Old(d, k)
    PROVE  Holds'
<1> USE DEF Workflow!process, Workflow!files
<1>1. /\ Places' \subseteq Nat /\ Workflow!WorkflowAssumption
      /\ None \notin Runs /\ None \notin Ranks \cup {"begin"}
  BY PlacesHoldItemsNext DEF Typed, Workflow!WorkflowAssumption, Ranks, Workflow!Requests
<1>2. \A j, k \in Places' : j < k => Was(d, j) < Was(d, k) BY <1>1, WasIncreases
<1>3. \A r \in Runs : /\ AskHolds(r)' /\ Before(r)' = Before(r)
                      /\ Heard(r)' => Heard(r)
                      /\ Between(r)' => Between(r)
                      /\ Keeps(r)' => Keeps(r)
  BY ToldKnowsLess DEF Holds, RunHolds
<1>4. \A k \in Places' : \/ Strange(k)'
                         \/ /\ Was(d, k) \in Places
                            /\ At(k)'.run = At(Was(d, k)).run
                            /\ At(k)'.op = At(Was(d, k)).op
                            /\ At(k)'.step = At(Was(d, k)).step
  BY DEF Old
<1>5. Idle => Idle' BY <1>4 DEF Idle, Strange
<1>6. ASSUME NEW r \in Runs
      PROVE  RunHolds(r)'
  <2>1. LaneHolds(r) /\ KeptHolds(r) /\ DoneHolds(r) BY DEF Holds, RunHolds
  <2>2. Before(r)' => \A k \in Places' : At(k)'.run # r
    BY <1>1, <1>3, <1>4, <2>1 DEF LaneHolds, Strange
  <2>3. Between(r)' => Idle' BY <1>3, <1>5, <2>1 DEF LaneHolds
  <2>4. asked[r] \in Ranks => \A k \in Places' : At(k)'.run # None => Alike(k, r)'
    BY <1>4, <2>1 DEF LaneHolds, Alike, Strange
  <2>5. ASSUME asked[r] = "begin", NEW j \in Places', NEW k \in Places', At(j)'.run = r, j < k
        PROVE  At(k)'.run = None
    <3>1. CASE Strange(k)' BY <3>1 DEF Strange
    <3>2. CASE ~Strange(k)'
      <4>1. Was(d, j) \in Places /\ At(Was(d, j)).run = r BY <1>1, <1>4, <2>5 DEF Strange
      <4>2. Was(d, k) \in Places /\ At(k)'.run = At(Was(d, k)).run BY <1>4, <3>2
      <4> QED BY <1>2, <2>1, <2>5, <4>1, <4>2 DEF LaneHolds
    <3> QED BY <3>1, <3>2
  <2>6. LaneHolds(r)' BY <2>2, <2>3, <2>4, <2>5 DEF LaneHolds
  <2>7. KeptHolds(r)' BY <1>3, <2>1 DEF KeptHolds, Kept
  <2>8. DoneHolds(r)' BY <1>3, <2>1 DEF DoneHolds, Done
  <2> QED BY <1>3, <2>6, <2>7, <2>8 DEF RunHolds
<1>7. ASSUME NEW k \in Places'
      PROVE  ItemHolds(k)'
  <2>1. CASE Strange(k)' BY <2>1 DEF Strange, ItemHolds
  <2>2. CASE ~Strange(k)'
    <3> DEFINE o == Was(d, k)
    <3>1. /\ o \in Places /\ ItemHolds(o)
          /\ At(k)'.run = At(o).run /\ At(k)'.op = At(o).op /\ At(k)'.step = At(o).step
      BY <1>4, <2>2 DEF Holds
    <3>2. \A j \in Places' : j < k => Was(d, j) < o BY <1>2
    <3> HIDE DEF o
    <3>3. ASSUME At(k)'.run # None, At(k)'.op \in Ranks, NEW j \in Places', j < k
          PROVE  At(j)'.run = None
      BY <1>4, <3>1, <3>2, <3>3 DEF ItemHolds, Strange
    <3> QED BY <3>1, <3>3 DEF ItemHolds, Kept
  <2> QED BY <2>1, <2>2
<1>8. LockHolds' /\ CommitHolds' /\ FinalHolds'
  BY <1>5 DEF Holds, LockHolds, CommitHolds, FinalHolds
<1>9. SteadyHolds' BY <1>3 DEF Holds, SteadyHolds, Old
<1> QED BY <1>6, <1>7, <1>8, <1>9 DEF Holds


(* Whoever waits for a dropped item is told of an error. *)
LEMMA AnswerTells ==
    ASSUME Typed, NEW items \in SUBSET Entries,
           answers' = Workflow!Answer(answers, items, "error")
    PROVE  Told /\ answers' \in [Runs -> {"ok", "error", None}]
<1>1. RunsOK /\ None \notin Workflow!Requests
  BY DEF Typed, TypeOK, Workflow!WorkflowAssumption
<1>2. \A i \in items : i.op \in Workflow!Requests BY DEF Entries
<1>3. ASSUME NEW r \in Runs
      PROVE  \/ answers'[r] = answers[r]
             \/ (\E i \in items : i.op = asked[r]) /\ answers'[r] = "error"
  BY DEF Workflow!Answer
<1>4. answers' \in [Runs -> {"ok", "error", None}] BY <1>1 DEF RunsOK, Workflow!Answer
<1> QED BY <1>1, <1>2, <1>3, <1>4 DEF Told

(* Items that stay where they are. *)
LEMMA StaysIsOld ==
    ASSUME Typed, NEW k \in Places,
           At(k)'.run = At(k).run, At(k)'.op = At(k).op, At(k)'.step = At(k).step,
           Live(k)' => Live(k)
    PROVE  Len(lane) + 1 \in Nat /\ Old(Len(lane) + 1, k)
<1>1. Len(lane) \in Nat /\ Places \subseteq 0..Len(lane) BY PlacesHoldItems DEF Places
<1>2. k < Len(lane) + 1 BY <1>1
<1>3. Was(Len(lane) + 1, k) = k BY <1>2 DEF Was
<1> QED BY <1>1, <1>3 DEF Old

LEMMA TakeStep ==
    ASSUME Typed, Holds, Workflow!Take
    PROVE  TypeOK' /\ Holds'
<1> USE DEF Workflow!process, Workflow!calls, Workflow!studio
<1>1. /\ active = None /\ lane # <<>> /\ lane' = Tail(lane)
      /\ UNCHANGED <<Workflow!process, Workflow!calls, late, cleanup, Workflow!studio, left>>
      /\ active' \in {None, Head(lane)}
      /\ active' # None => active' = Head(lane)
           /\ ~(Head(lane).expired /\ ~Workflow!Must(Head(lane)))
      /\ RunsOK /\ LaneOK /\ StudioOK /\ LeftOK
  BY DEF Workflow!Take, Typed, TypeOK
<1>2. /\ Head(lane) \in Entries /\ Tail(lane) \in Seq(Entries) /\ Head(lane) = lane[1]
      /\ Len(lane) \in Nat \ {0} /\ Len(Tail(lane)) = Len(lane) - 1
      /\ \A k \in 1..Len(Tail(lane)) : Tail(lane)[k] = lane[k + 1]
  BY <1>1, HeadTailProperties, EmptySeq DEF LaneOK
<1>3. TypeOK' BY <1>1, <1>2 DEF TypeOK, RunsOK, LaneOK, StudioOK, LeftOK, Workflow!files
<1>4. ASSUME NEW k \in Places'
      PROVE  Old(0, k)
  <2>1. CASE k = 0
    <3>1. active' # None BY <1>1, <2>1 DEF Places
    <3>2. At(k)' = lane[1] /\ At(1) = lane[1] /\ 1 \in Places /\ Was(0, k) = 1
      BY <1>1, <1>2, <2>1, <3>1 DEF At, Places, Was
    <3>3. Live(k)' => Live(1) BY <1>1, <1>2, <3>1, <3>2 DEF Live, Workflow!Must
    <3> QED BY <3>2, <3>3 DEF Old
  <2>2. CASE k # 0
    <3>1. k \in 1..(Len(lane) - 1) BY <1>1, <1>2, <2>2 DEF Places
    <3>2. At(k)' = lane[k + 1] /\ At(k + 1) = lane[k + 1] /\ k + 1 \in Places
            /\ Was(0, k) = k + 1
      BY <1>1, <1>2, <2>2, <3>1 DEF At, Places, Was
    <3>3. Live(k)' => Live(k + 1) BY <2>2, <3>2 DEF Live
    <3> QED BY <3>2, <3>3 DEF Old
  <2> QED BY <2>1, <2>2
<1>5. Told /\ UNCHANGED <<Workflow!process, asked, committed, recording>> /\ outside' = outside
  BY <1>1 DEF Told
<1>6. Steady' => Steady /\ ~cleanup' BY <1>1, SteadyStays DEF Holds, SteadyHolds
<1> QED BY <1>3, <1>4, <1>5, <1>6, LaneStep

LEMMA WaitTimesOutStep ==
    ASSUME Typed, Holds, NEW n \in DOMAIN lane, Workflow!WaitTimesOut(n)
    PROVE  TypeOK' /\ Holds'
<1> USE DEF Workflow!process, Workflow!studio
<1>1. /\ answers' = Workflow!Answer(answers, {lane[n]}, "error")
      /\ lane' = [lane EXCEPT ![n].expired = ~ Workflow!Must(lane[n])]
      /\ UNCHANGED <<Workflow!process, asked, active, late, cleanup, Workflow!studio>>
           /\ Workflow!Spend("timeouts")
      /\ RunsOK /\ LaneOK /\ StudioOK /\ LeftOK /\ Workflow!WorkflowAssumption
  BY DEF Workflow!WaitTimesOut, Typed, TypeOK
<1>2. n \in 1..Len(lane) /\ Len(lane) \in Nat /\ lane[n] \in Entries
  BY <1>1, PlacesHoldItems, ElementOfSeq DEF LaneOK
<1>3. PICK i \in Entries : i = [lane[n] EXCEPT !.expired = ~ Workflow!Must(lane[n])]
  BY <1>2 DEF Entries, Workflow!Must
<1>4. /\ i.run = lane[n].run /\ i.op = lane[n].op /\ i.step = lane[n].step
      /\ i.expired = ~ Workflow!Must(lane[n])
  BY <1>2, <1>3 DEF Entries
<1>5. /\ lane' = [lane EXCEPT ![n] = i] /\ lane' \in Seq(Entries) /\ Len(lane') = Len(lane)
      /\ \A k \in 1..Len(lane) : lane'[k] = IF k = n THEN i ELSE lane[k]
  <2>1. lane' = [lane EXCEPT ![n] = i] BY <1>1, <1>3
  <2> QED BY <1>1, <1>2, <1>3, <2>1, ExceptSeq DEF LaneOK
<1>6. Told /\ answers' \in [Runs -> {"ok", "error", None}]
  BY ZenonT(60), <1>1, <1>2, AnswerTells
<1>7. LeftOK' /\ (Steady' => Steady) BY <1>1, SpendShrinks
<1>8. TypeOK' BY <1>1, <1>5, <1>6, <1>7 DEF TypeOK, RunsOK, LaneOK, StudioOK, Workflow!files
<1>9. Places' = Places BY <1>1, <1>5 DEF Places
<1>10. ASSUME NEW k \in Places
       PROVE  Len(lane) + 1 \in Nat /\ Old(Len(lane) + 1, k)
  <2>1. CASE k = n
    <3>1. At(k)' = i /\ At(k) = lane[n] /\ k # 0 BY <1>2, <1>5, <2>1 DEF At
    <3>2. Live(k)' => Live(k) BY <1>4, <3>1 DEF Live, Workflow!Must
    <3> QED BY <1>4, <3>1, <3>2, StaysIsOld
  <2>2. CASE k # n
    <3>1. At(k)' = At(k) BY <1>1, <1>2, <1>5, <2>2 DEF At, Places
    <3>2. Live(k)' => Live(k) BY <3>1 DEF Live
    <3> QED BY <3>1, <3>2, StaysIsOld
  <2> QED BY <2>1, <2>2
<1>11. Steady' => Steady /\ ~cleanup' BY <1>1, <1>7 DEF Holds, SteadyHolds
<1>12. Len(lane) + 1 \in Nat BY <1>2
<1> HIDE DEF Workflow!process
<1> QED BY <1>1, <1>6, <1>8, <1>9, <1>10, <1>11, <1>12, LaneStep

LEMMA HandlerTimesOutStep ==
    ASSUME Typed, Holds, Workflow!HandlerTimesOut
    PROVE  TypeOK' /\ Holds'
<1> USE DEF Workflow!process, Workflow!studio
<1>1. /\ answers' = Workflow!Answer(answers, {active}, "error") /\ active # None
      /\ late' = TRUE
           /\ UNCHANGED <<Workflow!process, asked, lane, active, cleanup, Workflow!studio>>
      /\ Workflow!Spend("timeouts") /\ RunsOK /\ LaneOK /\ StudioOK /\ LeftOK
           /\ Workflow!WorkflowAssumption
  BY DEF Workflow!HandlerTimesOut, Typed, TypeOK
<1>2. Told /\ answers' \in [Runs -> {"ok", "error", None}] BY <1>1, AnswerTells DEF LaneOK
<1>3. LeftOK' /\ (Steady' => Steady) BY <1>1, SpendShrinks
<1>4. TypeOK' BY <1>1, <1>2, <1>3 DEF TypeOK, RunsOK, LaneOK, StudioOK, Workflow!files
<1>5. Places' = Places /\ \A k : At(k)' = At(k) BY <1>1, SamePlaces
<1>6. Len(lane) + 1 \in Nat /\ \A k \in Places : Old(Len(lane) + 1, k)
  <2>1. Len(lane) + 1 \in Nat BY PlacesHoldItems
  <2>2. ASSUME NEW k \in Places
        PROVE  Old(Len(lane) + 1, k)
    <3>1. At(k)' = At(k) /\ (Live(k)' => Live(k)) BY <1>5 DEF Live
    <3> QED BY <3>1, StaysIsOld
  <2> QED BY <2>1, <2>2
<1>7. Steady' => Steady /\ ~cleanup' BY <1>1, <1>3 DEF Holds, SteadyHolds
<1> HIDE DEF Workflow!process
<1> QED BY <1>1, <1>2, <1>4, <1>5, <1>6, <1>7, LaneStep


(* What other commands ask for goes behind all that waits. *)
LEMMA OtherStep ==
    ASSUME Typed, Holds, Workflow!Other
    PROVE  TypeOK' /\ Holds'
<1> USE DEF Workflow!process, Workflow!calls, Workflow!studio
<1>1. /\ lane' = Append(lane, Workflow!Item(None, "write", 1)) /\ Workflow!Spend("others")
      /\ UNCHANGED <<Workflow!process, Workflow!calls, active, late, cleanup, Workflow!studio>>
      /\ RunsOK /\ LaneOK /\ StudioOK /\ LeftOK /\ Workflow!WorkflowAssumption
  BY DEF Workflow!Other, Typed, TypeOK
<1>2. PICK i \in Entries : i = Workflow!Item(None, "write", 1)
  <2>1. 1 \in 1..GroupSize /\ "write" \in Workflow!Requests
    BY <1>1 DEF Workflow!Requests, Workflow!WorkflowAssumption
  <2> QED BY <2>1 DEF Workflow!Item, Entries
<1>3. /\ lane' = Append(lane, i) /\ lane' \in Seq(Entries) /\ Len(lane') = Len(lane) + 1
      /\ \A k \in 1..Len(lane) : lane'[k] = lane[k]
      /\ lane'[Len(lane) + 1] = i /\ Len(lane) \in Nat
  <2>1. lane' = Append(lane, i) BY <1>1, <1>2
  <2> QED BY <1>1, <1>2, <2>1, AppendProperties, PlacesHoldItems DEF LaneOK
<1>4. LeftOK' /\ ~Steady' BY <1>1, SpendShrinks
<1>5. TypeOK' BY <1>1, <1>3, <1>4 DEF TypeOK, RunsOK, LaneOK, StudioOK, Workflow!files
<1>6. ASSUME NEW k \in Places'
      PROVE  Old(Len(lane) + 1, k) \/ Strange(k)'
  <2>1. CASE k = Len(lane) + 1
    <3>1. At(k)' = i BY <1>3, <2>1 DEF At
    <3> QED BY <1>2, <3>1 DEF Strange, Workflow!Item
  <2>2. CASE k # Len(lane) + 1
    <3>1. k \in Places /\ At(k)' = At(k) BY <1>1, <1>3, <2>2 DEF At, Places
    <3>2. Live(k)' => Live(k) BY <3>1 DEF Live
    <3> QED BY <3>1, <3>2, StaysIsOld
  <2> QED BY <2>1, <2>2
<1>7. Told /\ UNCHANGED <<Workflow!process, asked, committed, recording>> /\ outside' = outside
  BY <1>1 DEF Told
<1>8. Len(lane) + 1 \in Nat BY <1>3
<1> HIDE DEF Workflow!process
<1> QED BY <1>4, <1>5, <1>6, <1>7, <1>8, LaneStep

LEMMA ExpiredItems ==
    ASSUME Typed
    PROVE  /\ Workflow!Expired(lane) \in Seq(Entries) /\ Len(Workflow!Expired(lane)) = Len(lane)
           /\ \A k \in 1..Len(lane) :
                 /\ Workflow!Expired(lane)[k].run = lane[k].run
                      /\ Workflow!Expired(lane)[k].op = lane[k].op
                 /\ Workflow!Expired(lane)[k].step = lane[k].step
                      /\ Workflow!Expired(lane)[k].expired
<1>1. /\ DOMAIN lane = 1..Len(lane) /\ Len(lane) \in Nat
      /\ \A k \in 1..Len(lane) : lane[k] \in Entries
  BY PlacesHoldItems, ElementOfSeq DEF Typed, TypeOK, LaneOK
<1>2. \A k \in 1..Len(lane) : Workflow!Expired(lane)[k] = [lane[k] EXCEPT !.expired = TRUE]
  BY <1>1 DEF Workflow!Expired
<1>3. Workflow!Expired(lane) \in [1..Len(lane) -> Entries]
  BY <1>1 DEF Workflow!Expired, Entries
<1>4. Workflow!Expired(lane) \in Seq(Entries) BY <1>1, <1>3, SeqDef
<1>5. Len(Workflow!Expired(lane)) = Len(lane)
  <2>1. 1..Len(Workflow!Expired(lane)) = 1..Len(lane) /\ Len(Workflow!Expired(lane)) \in Nat
    BY <1>3, <1>4, LenProperties
  <2> QED BY <1>1, <2>1
<1> QED BY <1>1, <1>2, <1>4, <1>5 DEF Entries

(* The router answers for the plugin with errors. *)
LEMMA UnroutedTells ==
    ASSUME Typed, answers' = Workflow!Unrouted
    PROVE  Told /\ answers' \in [Runs -> {"ok", "error", None}]
BY DEF Typed, TypeOK, RunsOK, Told, Workflow!Unrouted

LEMMA DisconnectStep ==
    ASSUME Typed, Holds, Workflow!Disconnect
    PROVE  TypeOK' /\ Holds'
<1> USE DEF Workflow!process
<1>1. /\ answers' = Workflow!Unrouted /\ lane' = Workflow!Expired(lane) /\ cleanup' \in BOOLEAN
      /\ recording' \in {recording, None} /\ Workflow!Spend("disconnects")
      /\ UNCHANGED <<Workflow!process, asked, active, late, committed, outside>>
      /\ RunsOK /\ LaneOK /\ StudioOK /\ LeftOK /\ Workflow!WorkflowAssumption
  BY DEF Workflow!Disconnect, Typed, TypeOK
<1>2. Told /\ answers' \in [Runs -> {"ok", "error", None}] BY <1>1, UnroutedTells
<1>3. LeftOK' /\ ~Steady' BY <1>1, SpendShrinks
<1>4. /\ lane' \in Seq(Entries) /\ Len(lane') = Len(lane)
      /\ \A k \in 1..Len(lane) :
            /\ lane'[k].run = lane[k].run /\ lane'[k].op = lane[k].op
            /\ lane'[k].step = lane[k].step /\ lane'[k].expired
  BY <1>1, ExpiredItems
<1>5. TypeOK' BY <1>1, <1>2, <1>3, <1>4 DEF TypeOK, RunsOK, LaneOK, StudioOK, Workflow!files
<1>6. Places' = Places /\ Len(lane) + 1 \in Nat BY <1>1, <1>4, PlacesHoldItems DEF Places
<1>7. ASSUME NEW k \in Places
      PROVE  Old(Len(lane) + 1, k)
  <2>1. At(k)'.run = At(k).run /\ At(k)'.op = At(k).op /\ At(k)'.step = At(k).step
    BY <1>1, <1>4 DEF At, Places
  <2>2. Live(k)' => Live(k) BY <1>1, <1>4 DEF Live, At, Places
  <2> QED BY <2>1, <2>2, StaysIsOld
<1> HIDE DEF Workflow!process
<1> QED BY <1>1, <1>2, <1>3, <1>5, <1>6, <1>7, LaneStep

LEMMA ReloadStep ==
    ASSUME Typed, Holds, Workflow!Reload
    PROVE  TypeOK' /\ Holds'
<1>1. /\ answers' = Workflow!Unrouted /\ lane' = <<>> /\ active' = None /\ late' = FALSE /\ cleanup' = FALSE
      /\ recording' = None /\ Workflow!Spend("disconnects")
           /\ UNCHANGED <<Workflow!process, asked, committed, outside>>
      /\ RunsOK /\ LaneOK /\ StudioOK /\ LeftOK /\ Workflow!WorkflowAssumption
  BY DEF Workflow!Reload, Typed, TypeOK
<1>2. Told /\ answers' \in [Runs -> {"ok", "error", None}] BY <1>1, UnroutedTells
<1>3. LeftOK' /\ ~Steady' BY <1>1, SpendShrinks
<1>4. lane' \in Seq(Entries) /\ Len(lane') = 0 BY <1>1, EmptySeq
<1>5. TypeOK'
  BY <1>1, <1>2, <1>3, <1>4 DEF TypeOK, RunsOK, LaneOK, StudioOK, Workflow!process,
     Workflow!files
<1>6. Places' = {} BY <1>1, <1>4 DEF Places
<1> QED BY <1>1, <1>2, <1>3, <1>5, <1>6, LaneStep

LEMMA StillStep ==
    ASSUME Typed, Holds,
           UNCHANGED <<Workflow!process, Workflow!calls, Workflow!queue, Workflow!studio, left>>
    PROVE  TypeOK' /\ Holds'
<1>1. /\ UNCHANGED <<Workflow!process, asked, answers, lane, active, late, cleanup>>
      /\ UNCHANGED <<committed, recording, outside, left>>
      /\ RunsOK /\ LaneOK /\ StudioOK /\ LeftOK
  BY DEF Workflow!calls, Workflow!queue, Workflow!studio, Typed, TypeOK
<1>2. TypeOK'
  BY <1>1 DEF TypeOK, RunsOK, LaneOK, StudioOK, LeftOK, Workflow!process, Workflow!files
<1>3. Places' = Places /\ \A k : At(k)' = At(k) BY <1>1, SamePlaces
<1>4. Len(lane) + 1 \in Nat BY PlacesHoldItems
<1>5. ASSUME NEW k \in Places
      PROVE  Old(Len(lane) + 1, k)
  <2>1. At(k)' = At(k) /\ (Live(k)' => Live(k)) BY <1>3 DEF Live
  <2> QED BY <2>1, StaysIsOld
<1>6. Told /\ (Steady' => Steady /\ ~cleanup')
  BY <1>1, SteadyStays DEF Told, Holds, SteadyHolds
<1> QED BY <1>1, <1>2, <1>3, <1>4, <1>5, <1>6, LaneStep


(* The lane without one of its items. *)
LEMMA WithoutItem ==
    ASSUME Typed, NEW n \in 1..Len(lane)
    PROVE  /\ Workflow!Without(n) \in Seq(Entries) /\ Len(Workflow!Without(n)) = Len(lane) - 1
           /\ \A k \in 1..(Len(lane) - 1) : Workflow!Without(n)[k] = lane[Was(n, k)]
<1>1. lane \in Seq(Entries) /\ Len(lane) \in Nat /\ n \in Nat
      /\ \A k \in 1..Len(lane) : lane[k] \in Entries
  BY PlacesHoldItems, ElementOfSeq DEF Typed, TypeOK, LaneOK
<1> DEFINE front == SubSeq(lane, 1, n - 1)
           back  == SubSeq(lane, n + 1, Len(lane))
<1>2. /\ front \in Seq(Entries) /\ Len(front) = n - 1
      /\ \A k \in 1..(n - 1) : front[k] = lane[k]
  <2>1. /\ front \in Seq(Entries) /\ Len(front) = (IF 1 <= n - 1 THEN (n - 1) - 1 + 1 ELSE 0)
        /\ \A k \in 1..((n - 1) - 1 + 1) : front[k] = lane[1 + k - 1]
    BY <1>1, SubSeqProperties
  <2> QED BY <1>1, <2>1
<1>3. /\ back \in Seq(Entries) /\ Len(back) = Len(lane) - n
      /\ \A k \in 1..(Len(lane) - n) : back[k] = lane[n + k]
  <2>1. /\ back \in Seq(Entries)
        /\ Len(back) = (IF n + 1 <= Len(lane) THEN Len(lane) - (n + 1) + 1 ELSE 0)
        /\ \A k \in 1..(Len(lane) - (n + 1) + 1) : back[k] = lane[(n + 1) + k - 1]
    BY <1>1, SubSeqProperties
  <2> QED BY <1>1, <2>1
<1>4. Workflow!Without(n) = front \o back BY DEF Workflow!Without
<1> HIDE DEF front, back
<1>5. /\ Workflow!Without(n) \in Seq(Entries) /\ Len(Workflow!Without(n)) = Len(lane) - 1
      /\ \A k \in 1..(Len(lane) - 1) :
            Workflow!Without(n)[k] = IF k <= n - 1 THEN front[k] ELSE back[k - (n - 1)]
  <2>1. /\ front \o back \in Seq(Entries) /\ Len(front \o back) = Len(front) + Len(back)
        /\ \A k \in 1..(Len(front) + Len(back)) :
              (front \o back)[k] = IF k <= Len(front) THEN front[k] ELSE back[k - Len(front)]
    BY <1>2, <1>3, ConcatProperties
  <2>2. Len(front) + Len(back) = Len(lane) - 1 BY <1>1, <1>2, <1>3
  <2> QED BY <1>2, <1>4, <2>1, <2>2
<1>6. ASSUME NEW k \in 1..(Len(lane) - 1)
      PROVE  Workflow!Without(n)[k] = lane[Was(n, k)]
  <2>1. CASE k < n BY <1>1, <1>2, <1>5, <2>1 DEF Was
  <2>2. CASE ~(k < n)
    <3>1. k - (n - 1) \in 1..(Len(lane) - n) /\ ~(k <= n - 1) /\ n + (k - (n - 1)) = k + 1
      BY <1>1, <2>2
    <3> QED BY <1>3, <1>5, <2>2, <3>1 DEF Was
  <2> QED BY <2>1, <2>2
<1> QED BY <1>5, <1>6

(* A request joins the lane behind all that waits, or is refused. *)
LEMMA AskJoins ==
    ASSUME Typed, Holds, NEW r \in Runs, Workflow!Ask(r)
    PROVE  LET i == Workflow!Item(r, runs[r].pc, runs[r].step)
           IN  /\ lane' \in Seq(Entries)
               /\ \E d \in Nat : \A k \in Places' : Old(d, k) \/ (At(k)' = i /\ k = Len(lane'))
               /\ \A q \in Runs \ {r} : answers'[q] = answers[q]
               /\ answers' \in [Runs -> {"ok", "error", None}] /\ answers'[r] # "ok"
<1> DEFINE i == Workflow!Item(r, runs[r].pc, runs[r].step)
<1>1. /\ runs[r].pc \in Workflow!Requests /\ asked[r] = None /\ active' = active
      /\ RunsOK /\ LaneOK /\ AskHolds(r) /\ None \notin Workflow!Requests \cup {"ok", "error"}
  BY DEF Workflow!Ask, Typed, TypeOK, Workflow!WorkflowAssumption, Holds, RunHolds
<1>2. i \in Entries /\ i.run = r BY <1>1 DEF RunsOK, Workflow!Item, Entries
<1>3. /\ Len(lane) \in Nat /\ Len(lane) + 1 \in Nat /\ DOMAIN lane = 1..Len(lane)
      /\ answers[r] = None
  BY <1>1, PlacesHoldItems DEF AskHolds
<1> HIDE DEF i
<1>4. ASSUME NEW k \in Places, At(k)' = At(k)
      PROVE  Old(Len(lane) + 1, k)
  <2>1. Live(k)' => Live(k) BY <1>4 DEF Live
  <2> QED BY <1>4, <2>1, StaysIsOld
<1>5. CASE lane' = lane /\ answers' = [answers EXCEPT ![r] = "error"]
  <2>1. Places' = Places /\ \A k : At(k)' = At(k) BY <1>1, <1>5, SamePlaces
  <2>2. \A k \in Places' : Old(Len(lane) + 1, k) BY <1>4, <2>1
  <2>3. lane' \in Seq(Entries) /\ answers' \in [Runs -> {"ok", "error", None}]
        /\ answers'[r] # "ok" /\ \A q \in Runs \ {r} : answers'[q] = answers[q]
    BY <1>1, <1>5 DEF LaneOK, RunsOK
  <2> QED BY <1>3, <2>2, <2>3
<1>6. CASE lane' = Append(lane, i) /\ UNCHANGED answers
  <2>1. /\ lane' \in Seq(Entries) /\ Len(lane') = Len(lane) + 1
        /\ \A k \in 1..Len(lane) : lane'[k] = lane[k]
        /\ lane'[Len(lane) + 1] = i
    BY <1>1, <1>2, <1>6, AppendProperties DEF LaneOK
  <2>2. ASSUME NEW k \in Places'
        PROVE  Old(Len(lane) + 1, k) \/ (At(k)' = i /\ k = Len(lane'))
    <3>1. CASE k = Len(lane) + 1 BY <1>3, <2>1, <3>1 DEF At
    <3>2. CASE k # Len(lane) + 1
      <4>1. k \in Places /\ At(k)' = At(k) BY <1>1, <1>3, <2>1, <3>2 DEF At, Places
      <4> QED BY <1>4, <4>1
    <3> QED BY <3>1, <3>2
  <2>3. answers' \in [Runs -> {"ok", "error", None}] /\ answers'[r] # "ok"
    BY <1>1, <1>3, <1>6 DEF RunsOK
  <2> QED BY <1>3, <1>6, <2>1, <2>2, <2>3 DEF i
<1>7. ASSUME NEW n \in Workflow!Ordinary, lane' = Append(Workflow!Without(n), i),
             answers' = Workflow!Answer(answers, {lane[n]}, "error")
      PROVE  /\ lane' \in Seq(Entries)
             /\ \E d \in Nat : \A k \in Places' : Old(d, k) \/ (At(k)' = i /\ k = Len(lane'))
             /\ \A q \in Runs \ {r} : answers'[q] = answers[q]
             /\ answers' \in [Runs -> {"ok", "error", None}] /\ answers'[r] # "ok"
  <2>1. n \in 1..Len(lane) /\ n \in Nat /\ lane[n] \in Entries
    BY <1>1, <1>3, ElementOfSeq DEF Workflow!Ordinary, LaneOK
  <2>2. /\ Workflow!Without(n) \in Seq(Entries) /\ Len(Workflow!Without(n)) = Len(lane) - 1
        /\ \A k \in 1..(Len(lane) - 1) : Workflow!Without(n)[k] = lane[Was(n, k)]
    BY <2>1, WithoutItem
  <2>3. /\ lane' \in Seq(Entries) /\ Len(lane') = Len(lane)
        /\ \A k \in 1..(Len(lane) - 1) : lane'[k] = lane[Was(n, k)]
        /\ lane'[Len(lane)] = i
    <3>1. /\ lane' \in Seq(Entries) /\ Len(lane') = Len(Workflow!Without(n)) + 1
          /\ \A k \in 1..Len(Workflow!Without(n)) : lane'[k] = Workflow!Without(n)[k]
          /\ lane'[Len(Workflow!Without(n)) + 1] = i
      BY <1>2, <1>7, <2>2, AppendProperties
    <3> QED BY <1>3, <2>2, <3>1
  <2>4. ASSUME NEW k \in Places'
        PROVE  Old(n, k) \/ (At(k)' = i /\ k = Len(lane'))
    <3>1. CASE k = Len(lane) BY <1>3, <2>1, <2>3, <3>1 DEF At
    <3>2. CASE k = 0 /\ k # Len(lane)
      <4>1. k \in Places /\ At(k)' = At(k) /\ Was(n, k) = k
        BY <1>1, <2>1, <3>2 DEF At, Places, Was
      <4> QED BY <4>1 DEF Old, Live
    <3>3. CASE k # 0 /\ k # Len(lane)
      <4>1. k \in 1..(Len(lane) - 1) BY <1>3, <2>3, <3>3 DEF Places
      <4>2. Was(n, k) \in 1..Len(lane) BY <1>3, <2>1, <4>1 DEF Was
      <4>3. Was(n, k) \in Places /\ At(k)' = At(Was(n, k)) /\ Was(n, k) # 0
        BY <2>3, <3>3, <4>1, <4>2 DEF At, Places
      <4> QED BY <3>3, <4>3 DEF Old, Live
    <3> QED BY <3>1, <3>2, <3>3
  <2>5. answers' \in [Runs -> {"ok", "error", None}]
        /\ \A q \in Runs : answers'[q] \in {answers[q], "error"}
    BY <1>1, <1>7 DEF Workflow!Answer, RunsOK
  <2>6. ASSUME NEW q \in Runs \ {r}
        PROVE  answers'[q] = answers[q]
    <3>1. asked[q] = None
      <4>1. runs[r].pc \in Inside BY <1>1 DEF Inside
      <4> QED BY <4>1, OnlyHolder
    <3>2. lane[n].op # None BY <1>1, <2>1 DEF Entries
    <3> QED BY <1>7, <3>1, <3>2 DEF Workflow!Answer
  <2>7. answers'[r] # "ok" BY <1>1, <1>3, <2>5
  <2> QED BY <2>1, <2>3, <2>4, <2>5, <2>6, <2>7
<1>8. \/ lane' = lane /\ answers' = [answers EXCEPT ![r] = "error"]
      \/ lane' = Append(lane, i) /\ UNCHANGED answers
      \/ \E n \in Workflow!Ordinary : lane' = Append(Workflow!Without(n), i)
           /\ answers' = Workflow!Answer(answers, {lane[n]}, "error")
  BY <1>2 DEF Workflow!Ask, Workflow!Enqueue, i
<1> QED BY <1>5, <1>6, <1>7, <1>8 DEF i


(* A request of a run: nothing of a run is before it in the lane, if it is a write or a
   commit, and nothing of its own, if it is its begin. *)
LEMMA AskStep ==
    ASSUME Typed, Holds, NEW r \in Runs, Workflow!Ask(r)
    PROVE  TypeOK' /\ Holds'
<1> USE DEF Workflow!process, Workflow!studio
<1> DEFINE i == Workflow!Item(r, runs[r].pc, runs[r].step)
<1>1. /\ runs[r].pc \in Workflow!Requests /\ asked[r] = None
      /\ asked' = [asked EXCEPT ![r] = runs[r].pc]
      /\ UNCHANGED <<Workflow!process, active, late, cleanup, Workflow!studio, left>>
      /\ RunsOK /\ LaneOK /\ StudioOK /\ LeftOK /\ Workflow!WorkflowAssumption
      /\ None \notin Workflow!Requests /\ None \notin Runs
  BY DEF Workflow!Ask, Typed, TypeOK, Workflow!WorkflowAssumption
<1>2. /\ lane' \in Seq(Entries)
      /\ \E d \in Nat : \A k \in Places' : Old(d, k) \/ (At(k)' = i /\ k = Len(lane'))
      /\ \A q \in Runs \ {r} : answers'[q] = answers[q]
      /\ answers' \in [Runs -> {"ok", "error", None}] /\ answers'[r] # "ok"
  BY AskJoins
<1>3. PICK d \in Nat : \A k \in Places' : Old(d, k) \/ (At(k)' = i /\ k = Len(lane'))
  BY <1>2
<1>4. /\ asked' \in [Runs -> Workflow!Requests \cup {None}] /\ asked'[r] = runs[r].pc
      /\ \A q \in Runs \ {r} : asked'[q] = asked[q]
  BY <1>1 DEF RunsOK
<1>5. TypeOK'
  BY <1>1, <1>2, <1>4 DEF TypeOK, RunsOK, LaneOK, StudioOK, LeftOK, Workflow!files
<1>6. i.run = r /\ i.op = runs[r].pc /\ i.step = runs[r].step BY DEF Workflow!Item
<1> HIDE DEF i
<1>7. Places' \subseteq Nat /\ Places' \subseteq 0..Len(lane') /\ Len(lane') \in Nat
  BY <1>1, <1>5, PlacesHoldItemsNext DEF Places
<1>8. ASSUME NEW k \in Places'
      PROVE  \/ At(k)' = i /\ k = Len(lane')
             \/ /\ Was(d, k) \in Places /\ At(k)'.run = At(Was(d, k)).run
                /\ At(k)'.op = At(Was(d, k)).op /\ At(k)'.step = At(Was(d, k)).step
                /\ Live(k)' => Live(Was(d, k))
  BY <1>3 DEF Old
<1>9. /\ lock = r /\ ~recorded
      /\ \A q \in Runs \ {r} : runs[q].pc \notin Inside /\ asked[q] = None
  <2>1. runs[r].pc \in Inside BY <1>1 DEF Inside
  <2> QED BY <1>1, <2>1, OnlyHolder DEF Holds, FinalHolds
<1>10. runs[r].pc \in Ranks => Between(r) /\ Idle
  <2>1. runs[r].pc \in Ranks => Between(r) BY <1>1 DEF Between
  <2> QED BY <2>1 DEF Holds, RunHolds, LaneHolds
<1>11. ~Heard(r)' /\ ~Before(r)' /\ ~Between(r)'
  BY <1>1, <1>2, <1>4 DEF Heard, Before, Between, Workflow!Requests
<1>12. RunHolds(r)'
  <2>1. AskHolds(r)' BY <1>1, <1>4 DEF Holds, RunHolds, AskHolds
  <2>2. asked'[r] \in Ranks => \A k \in Places' : At(k)'.run # None => Alike(k, r)'
    BY <1>1, <1>4, <1>6, <1>8, <1>10 DEF Alike, Idle
  <2>3. ASSUME asked'[r] = "begin", NEW j \in Places', NEW k \in Places', At(j)'.run = r, j < k
        PROVE  FALSE
    <3>1. Before(r) BY <1>1, <1>4, <2>3 DEF Before
    <3>2. \A l \in Places : At(l).run # r BY <3>1 DEF Holds, RunHolds, LaneHolds
    <3>3. j = Len(lane') BY <1>8, <2>3, <3>2
    <3> QED BY <1>7, <2>3, <3>3
  <2>4. LaneHolds(r)' BY <1>11, <2>2, <2>3 DEF LaneHolds
  <2>5. KeptHolds(r)' BY <1>1, <1>4, <1>11 DEF KeptHolds, Workflow!Requests
  <2>6. DoneHolds(r)' BY <1>1, <1>11 DEF Holds, RunHolds, DoneHolds, Done
  <2> QED BY <2>1, <2>4, <2>5, <2>6 DEF RunHolds
<1>13. ASSUME NEW q \in Runs \ {r}
       PROVE  RunHolds(q)' /\ ~Keeps(q)'
  <2>1. runs[q].pc \notin Inside /\ asked'[q] = None /\ answers'[q] = answers[q]
          /\ asked[q] = None
    BY <1>2, <1>4, <1>9
  <2>2. ~Between(q)' /\ ~Keeps(q)' /\ ~Heard(q)' /\ (Before(q)' => Before(q))
    BY <1>1, <2>1 DEF Between, Keeps, Heard, Before, Inside, Workflow!Requests, Ranks
  <2>3. AskHolds(q)' BY <1>1, <2>1 DEF Holds, RunHolds, AskHolds
  <2>4. LaneHolds(q)'
    <3>1. Before(q) => \A k \in Places' : At(k)'.run # q
      BY <1>6, <1>8 DEF Holds, RunHolds, LaneHolds
    <3> QED BY <1>1, <2>1, <2>2, <3>1 DEF LaneHolds, Ranks, Workflow!Requests
  <2>5. KeptHolds(q)' BY <1>1, <2>1, <2>2 DEF KeptHolds, Inside, Workflow!Requests
  <2>6. DoneHolds(q)' BY <1>1, <2>2 DEF Holds, RunHolds, DoneHolds, Done
  <2> QED BY <2>2, <2>3, <2>4, <2>5, <2>6 DEF RunHolds
<1>14. KeptHolds(r) BY DEF Holds, RunHolds
<1>15. ASSUME NEW k \in Places'
       PROVE  ItemHolds(k)'
  <2>1. CASE At(k)' = i /\ k = Len(lane')
    <3>1. ASSUME i.op \in Ranks, NEW j \in Places', j < k
          PROVE  At(j)'.run = None
      <4>1. j # Len(lane') BY <1>7, <2>1, <3>1
      <4> QED BY <1>6, <1>8, <1>10, <3>1, <4>1 DEF Idle
    <3>2. i.op = "write" => recording' \in {None, Workflow!Writes(r, i.step - 1)}
      BY <1>1, <1>6, <1>14 DEF KeptHolds, Kept
    <3>3. i.op = "commit" => recording' \in {None, Workflow!Writes(r, GroupSize)}
      BY <1>1, <1>6, <1>14 DEF KeptHolds, Kept
    <3>4. At(k)'.run = r /\ At(k)'.op = i.op /\ At(k)'.step = i.step BY <1>6, <2>1
    <3> QED BY <1>1, <3>1, <3>2, <3>3, <3>4 DEF ItemHolds, Kept
  <2>2. CASE ~(At(k)' = i /\ k = Len(lane'))
    <3> DEFINE o == Was(d, k)
    <3>1. /\ o \in Places /\ ItemHolds(o)
          /\ At(k)'.run = At(o).run /\ At(k)'.op = At(o).op /\ At(k)'.step = At(o).step
      BY <1>8, <2>2 DEF Holds
    <3>2. ASSUME NEW j \in Places', j < k
          PROVE  Was(d, j) < o /\ Was(d, j) \in Places /\ At(j)'.run = At(Was(d, j)).run
      <4>1. j # Len(lane') /\ Was(d, j) < Was(d, k) BY <1>7, <3>2, WasIncreases
      <4> QED BY <1>8, <4>1
    <3> HIDE DEF o
    <3>3. ASSUME At(k)'.run # None, At(k)'.op \in Ranks, NEW j \in Places', j < k
          PROVE  At(j)'.run = None
      BY <3>1, <3>2, <3>3 DEF ItemHolds
    <3> QED BY <1>1, <3>1, <3>3 DEF ItemHolds, Kept
  <2> QED BY <2>1, <2>2
<1>16. LockHolds' /\ CommitHolds' /\ FinalHolds'
  BY <1>1, <1>9 DEF Holds, LockHolds, CommitHolds, FinalHolds, Workflow!files
<1>17. SteadyHolds'
  <2>1. Steady' = Steady BY <1>1, SteadyStays
  <2>2. Keeps(r)' => Keeps(r) BY <1>1, <1>11 DEF Keeps
  <2>3. ASSUME Steady, NEW k \in Places'
        PROVE  At(k)'.run # None /\ (Live(k)' => recording # None)
    <3>1. CASE At(k)' = i /\ k = Len(lane')
      <4>1. Live(k)' => runs[r].pc = "write" BY <1>6, <3>1 DEF Live
      <4>2. runs[r].pc = "write" => Keeps(r) BY <1>1 DEF Keeps
      <4> QED BY <1>1, <1>6, <2>3, <3>1, <4>1, <4>2 DEF Holds, SteadyHolds
    <3>2. CASE ~(At(k)' = i /\ k = Len(lane')) BY <1>8, <2>3, <3>2 DEF Holds, SteadyHolds
    <3> QED BY <3>1, <3>2
  <2> QED BY <1>1, <1>13, <2>1, <2>2, <2>3 DEF Holds, SteadyHolds
<1> QED BY <1>5, <1>12, <1>13, <1>15, <1>16, <1>17 DEF Holds


-------------------------------------------------------------------------------
(* A recording grows by one write at a time. *)
LEMMA WritesAreSeq ==
    ASSUME NEW r \in Runs, NEW n \in Nat
    PROVE  Workflow!Writes(r, n) \in Seq(Runs \X Nat) /\ Len(Workflow!Writes(r, n)) = n
<1>1. Workflow!Writes(r, n) \in [1..n -> Runs \X Nat] BY DEF Workflow!Writes
<1>2. Workflow!Writes(r, n) \in Seq(Runs \X Nat) BY <1>1, SeqDef
<1>3. 1..Len(Workflow!Writes(r, n)) = 1..n /\ Len(Workflow!Writes(r, n)) \in Nat
  BY <1>1, <1>2, LenProperties
<1> QED BY <1>2, <1>3

LEMMA WritesGrow ==
    ASSUME NEW r \in Runs
    PROVE  /\ Workflow!Writes(r, 0) = <<>>
           /\ \A n \in Nat \ {0} :
                Append(Workflow!Writes(r, n - 1), <<r, n>>) = Workflow!Writes(r, n)
<1>1. Workflow!Writes(r, 0) = <<>>
  <2>1. Workflow!Writes(r, 0) \in Seq(Runs \X Nat) /\ Len(Workflow!Writes(r, 0)) = 0
    BY WritesAreSeq
  <2> QED BY <2>1, EmptySeq
<1>2. ASSUME NEW n \in Nat \ {0}
      PROVE  Append(Workflow!Writes(r, n - 1), <<r, n>>) = Workflow!Writes(r, n)
  <2> DEFINE s == Workflow!Writes(r, n - 1)
             t == Append(s, <<r, n>>)
             u == Workflow!Writes(r, n)
  <2>1. s \in Seq(Runs \X Nat) /\ Len(s) = n - 1 /\ u \in Seq(Runs \X Nat) /\ Len(u) = n
    <3>1. n - 1 \in Nat /\ n \in Nat OBVIOUS
    <3> QED BY <3>1, WritesAreSeq
  <2>2. \A k \in 1..(n - 1) : s[k] = <<r, k>> BY DEF Workflow!Writes
  <2>3. \A k \in 1..n : u[k] = <<r, k>> BY DEF Workflow!Writes
  <2>4. /\ t \in Seq(Runs \X Nat) /\ Len(t) = Len(s) + 1
        /\ \A k \in 1..Len(s) : t[k] = s[k]
        /\ t[Len(s) + 1] = <<r, n>>
    <3>1. <<r, n>> \in Runs \X Nat OBVIOUS
    <3> HIDE DEF s
    <3> QED BY <2>1, <3>1, AppendProperties
  <2> HIDE DEF s, t, u
  <2>5. ASSUME NEW k \in 1..n
        PROVE  t[k] = u[k]
    <3>1. CASE k = n
      <4>1. t[k] = <<r, n>> BY <2>1, <2>4, <3>1
      <4> QED BY <2>3, <3>1, <4>1
    <3>2. CASE k # n
      <4>1. k \in 1..(n - 1) BY <3>2
      <4> QED BY <2>1, <2>2, <2>3, <2>4, <4>1
    <3> QED BY <3>1, <3>2
  <2>6. t = u BY SMTT(60), <2>1, <2>4, <2>5, SeqEqual
  <2> QED BY <2>6 DEF s, t, u
<1> QED BY <1>1, <1>2

(* A handler returns: what it leaves of the lane, and who hears of it. *)
Hears(q, ok) ==
    /\ ok /\ ~late /\ asked[q] = active.op /\ active.run = q /\ active.step = runs[q].step
    /\ answers'[q] = "ok"

LEMMA ReturnAnswers ==
    ASSUME Typed, active # None, NEW ok \in BOOLEAN,
           answers' \in {Workflow!Answered(ok),
                         Workflow!Answer(Workflow!Answered(ok), Workflow!Items(lane), "error")}
    PROVE  /\ answers' \in [Runs -> {"ok", "error", None}]
           /\ \A q \in Runs :
                 \/ answers'[q] = answers[q]
                 \/ asked[q] # None /\ answers'[q] = "error"
                 \/ Hears(q, ok)
<1>1. RunsOK /\ None \notin Workflow!Requests /\ active \in Entries
        /\ active.op \in Workflow!Requests
  BY DEF Typed, TypeOK, LaneOK, Workflow!WorkflowAssumption, Entries
<1>2. \A j \in Workflow!Items(lane) : j.op # None
  <2>1. \A k \in DOMAIN lane : lane[k] \in Entries
    BY PlacesHoldItems, ElementOfSeq DEF Typed, TypeOK, LaneOK
  <2> QED BY <1>1, <2>1 DEF Workflow!Items, Entries
<1> DEFINE b == Workflow!Answered(ok)
<1>3. /\ b \in [Runs -> {"ok", "error", None}]
      /\ \A q \in Runs :
            \/ b[q] = answers[q]
            \/ /\ ~late /\ asked[q] = active.op /\ active.run = q /\ active.step = runs[q].step
               /\ b[q] = IF ok THEN "ok" ELSE "error"
  BY <1>1 DEF Workflow!Answered, Workflow!Answer, RunsOK
<1> HIDE DEF b
<1>4. CASE answers' = b BY <1>1, <1>3, <1>4 DEF Hears
<1>5. CASE answers' = Workflow!Answer(b, Workflow!Items(lane), "error")
  <2>1. \A q \in Runs : \/ answers'[q] = b[q]
                        \/ asked[q] # None /\ answers'[q] = "error"
    BY <1>2, <1>5 DEF Workflow!Answer
  <2>2. answers' \in [Runs -> {"ok", "error", None}] BY <1>3, <1>5 DEF Workflow!Answer
  <2> QED BY <1>1, <1>3, <2>1, <2>2 DEF Hears
<1> QED BY <1>4, <1>5 DEF b

LEMMA ReturnLane ==
    ASSUME Typed, active # None, active' = None, lane' \in {lane, Workflow!Expired(lane)}
    PROVE  /\ lane' \in Seq(Entries) /\ Len(lane') = Len(lane)
           /\ Places' \subseteq Places \ {0} /\ 0 \in Places /\ Len(lane) + 1 \in Nat
           /\ \A k \in Places' :
                 /\ k \in 1..Len(lane) /\ Old(Len(lane) + 1, k)
                 /\ At(k)'.run = At(k).run /\ At(k)'.op = At(k).op /\ At(k)'.step = At(k).step
                 /\ lane' = Workflow!Expired(lane) => ~Live(k)'
<1>1. lane \in Seq(Entries) /\ Len(lane) \in Nat
  BY PlacesHoldItems DEF Typed, TypeOK, LaneOK
<1>2. /\ lane' \in Seq(Entries) /\ Len(lane') = Len(lane)
      /\ \A k \in 1..Len(lane) :
            /\ lane'[k].run = lane[k].run /\ lane'[k].op = lane[k].op
                 /\ lane'[k].step = lane[k].step
            /\ lane' = Workflow!Expired(lane) => lane'[k].expired
            /\ lane' = lane \/ lane'[k].expired
  BY <1>1, ExpiredItems
<1>3. Places' = 1..Len(lane) /\ Places = 0..Len(lane) BY <1>1, <1>2 DEF Places
<1>4. ASSUME NEW k \in 1..Len(lane)
      PROVE  /\ Old(Len(lane) + 1, k)
             /\ At(k)'.run = At(k).run /\ At(k)'.op = At(k).op /\ At(k)'.step = At(k).step
             /\ lane' = Workflow!Expired(lane) => ~Live(k)'
  <2>1. /\ k # 0 /\ k \in Places
        /\ At(k)'.run = At(k).run /\ At(k)'.op = At(k).op /\ At(k)'.step = At(k).step
    BY <1>2, <1>3 DEF At
  <2>2. lane' = Workflow!Expired(lane) => ~Live(k)' BY <1>2, <2>1 DEF Live, At
  <2>3. Live(k)' => Live(k) BY <1>2, <2>1 DEF Live, At
  <2> QED BY <2>1, <2>2, <2>3, StaysIsOld
<1> QED BY <1>1, <1>2, <1>3, <1>4


(* The handler of another command: runs hear of nothing but errors, and they are not
   alone. *)
LEMMA ReturnStrange ==
    ASSUME Typed, Holds, Workflow!Return, active.run = None
    PROVE  TypeOK' /\ Holds'
<1> USE DEF Workflow!process
<1>1. /\ active # None /\ active' = None /\ late' = FALSE /\ cleanup' = FALSE
      /\ UNCHANGED <<Workflow!process, asked>> /\ Workflow!WorkflowAssumption
           /\ None \notin Runs
      /\ RunsOK /\ LaneOK /\ StudioOK /\ LeftOK
  BY DEF Workflow!Return, Typed, TypeOK, Workflow!WorkflowAssumption
<1>2. PICK ok \in BOOLEAN :
          /\ Workflow!Handled(ok) /\ lane' \in {lane, Workflow!Expired(lane)}
               /\ recording' \in {Workflow!Recorded(ok), None}
          /\ answers' \in {Workflow!Answered(ok),
                           Workflow!Answer(Workflow!Answered(ok), Workflow!Items(lane),
                                           "error")}
  BY DEF Workflow!Return
<1>3. /\ lane' \in Seq(Entries) /\ 0 \in Places /\ Len(lane) + 1 \in Nat
      /\ \A k \in Places' : Old(Len(lane) + 1, k)
  BY <1>1, <1>2, ReturnLane
<1>4. active.op = "write" /\ ~Steady BY <1>3 DEF Holds, ItemHolds, SteadyHolds, At
<1>5. answers' \in [Runs -> {"ok", "error", None}] /\ Told
  BY <1>1, <1>2, ReturnAnswers DEF Told, Hears
<1>6. /\ recording' \in {recording, None} /\ committed' = committed
      /\ \A w \in outside' \ outside : ~Workflow!OfRuns(w)
  BY <1>1, <1>2, <1>4 DEF Workflow!Recorded, Workflow!Handled, Workflow!Change,
     Workflow!OfRuns
<1>7. LeftOK' /\ ~Steady'
  <2>1. Workflow!Spend("faults") \/ UNCHANGED left BY <1>2 DEF Workflow!Handled
  <2> QED BY <1>1, <1>4, <2>1, SpendShrinks, SteadyStays
<1>8. TypeOK'
  BY <1>1, <1>3, <1>5, <1>6, <1>7 DEF TypeOK, RunsOK, LaneOK, StudioOK, Workflow!files
<1> HIDE DEF Workflow!process
<1> QED BY <1>1, <1>3, <1>5, <1>6, <1>7, <1>8, LaneStep


(* The handler of a run: what it does to the recording. *)
LEMMA ReturnRecording ==
    ASSUME Typed, Holds, active # None, NEW r \in Runs, active.run = r, NEW ok \in BOOLEAN,
           Workflow!Handled(ok), recording' \in {Workflow!Recorded(ok), None}
    PROVE  /\ recording' \in Recordings \cup {None}
           /\ ok /\ active.op = "begin" => recording' \in {None, Workflow!Writes(r, 0)}
           /\ ok /\ active.op = "write" =>
                recording' \in {None, Workflow!Writes(r, active.step)}
           /\ \/ committed' = committed /\ ~(ok /\ active.op = "commit")
              \/ committed' = Append(committed, Workflow!Group(r))
           /\ Steady => /\ outside' = outside
                        /\ ok /\ active.op \in {"begin", "write"} =>
                             Workflow!Recorded(ok) # None
<1>1. /\ Workflow!WorkflowAssumption /\ StudioOK /\ active \in Entries /\ r # None
      /\ GroupSize \in Nat \ {0}
           /\ \A q \in Runs, k \in 0..GroupSize : None # Workflow!Writes(q, k)
  BY DEF Typed, TypeOK, LaneOK, Workflow!WorkflowAssumption
<1>2. active.op \in Workflow!Requests /\ active.step \in 1..GroupSize BY <1>1 DEF Entries
<1>3. ItemHolds(0) /\ At(0) = active /\ (Steady /\ active.op = "write" => recording # None)
  BY DEF Holds, SteadyHolds, Live, Places, At
<1>4. /\ active.op = "write" => recording \in {None, Workflow!Writes(r, active.step - 1)}
      /\ active.op = "commit" => recording \in {None, Workflow!Writes(r, GroupSize)}
  BY <1>1, <1>3 DEF ItemHolds, Kept
<1>5. \A k \in 0..GroupSize : Workflow!Writes(r, k) \in Recordings BY DEF Recordings
<1>6. CASE active.op = "begin"
  <2>1. Workflow!Recorded(ok) \in {recording, Workflow!Writes(r, 0)}
          /\ (ok => Workflow!Recorded(ok) = Workflow!Writes(r, 0))
    BY <1>6, WritesGrow DEF Workflow!Recorded, Workflow!Handled, Workflow!Can
  <2>2. committed' = committed /\ outside' = outside BY <1>6 DEF Workflow!Handled
  <2> QED BY <1>1, <1>5, <1>6, <2>1, <2>2 DEF StudioOK
<1>7. CASE active.op = "write"
  <2>1. committed' = committed /\ (recording # None => outside' = outside)
    BY <1>7 DEF Workflow!Handled
  <2>2. CASE recording = None BY <1>3, <1>7, <2>1, <2>2 DEF Workflow!Recorded
  <2>3. CASE recording # None
    <3>1. Append(recording, Workflow!Change) = Workflow!Writes(r, active.step)
      <4>1. active.step \in Nat \ {0} /\ Workflow!Change = <<r, active.step>>
        BY <1>2 DEF Workflow!Change
      <4> QED BY <1>4, <1>7, <2>3, <4>1, WritesGrow
    <3>2. Workflow!Recorded(ok) = IF ok THEN Workflow!Writes(r, active.step) ELSE recording
      BY <1>1, <1>7, <2>3, <3>1 DEF Workflow!Recorded
    <3>3. active.step \in 0..GroupSize BY <1>2
    <3> QED BY <1>1, <1>5, <1>7, <2>1, <2>3, <3>2, <3>3 DEF StudioOK
  <2> QED BY <2>2, <2>3
<1>8. CASE active.op = "commit"
  <2>1. Workflow!Recorded(ok) \in {recording, None} /\ outside' = outside
          /\ (ok => recording # None)
    BY <1>8 DEF Workflow!Recorded, Workflow!Handled, Workflow!Can
  <2>2. committed' = IF ok THEN Append(committed, recording) ELSE committed
    BY <1>8 DEF Workflow!Handled
  <2>3. ok => recording = Workflow!Group(r) BY <1>4, <1>8, <2>1 DEF Workflow!Group
  <2>4. recording' \in Recordings \cup {None} BY <1>1, <2>1 DEF StudioOK
  <2> QED BY <1>8, <2>1, <2>2, <2>3, <2>4
<1>9. CASE active.op = "cancel"
  <2>1. Workflow!Recorded(ok) \in {recording, None} /\ outside' = outside
          /\ committed' = committed
    BY <1>9 DEF Workflow!Recorded, Workflow!Handled
  <2>2. recording' \in Recordings \cup {None} BY <1>1, <2>1 DEF StudioOK
  <2> QED BY <1>9, <2>1, <2>2
<1> QED BY <1>2, <1>6, <1>7, <1>8, <1>9 DEF Workflow!Requests


(* The handler of a run: no other run is between two requests, no write or commit of a run
   waits, and whoever hears of it finds the lane free. *)
LEMMA ReturnRun ==
    ASSUME Typed, Holds, Workflow!Return, NEW r \in Runs, active.run = r
    PROVE  TypeOK' /\ Holds'
<1> USE DEF Workflow!process, Workflow!files
<1>1. /\ active # None /\ active' = None /\ late' = FALSE /\ cleanup' = FALSE
      /\ UNCHANGED <<Workflow!process, asked>> /\ Workflow!WorkflowAssumption
      /\ RunsOK /\ LaneOK /\ StudioOK /\ LeftOK
      /\ None \notin Workflow!Requests /\ None \notin Runs
  BY DEF Workflow!Return, Typed, TypeOK, Workflow!WorkflowAssumption
<1>2. PICK ok \in BOOLEAN :
          /\ Workflow!Handled(ok) /\ lane' \in {lane, Workflow!Expired(lane)}
               /\ recording' \in {Workflow!Recorded(ok), None}
          /\ answers' \in {Workflow!Answered(ok),
                           Workflow!Answer(Workflow!Answered(ok), Workflow!Items(lane),
                                           "error")}
          /\ ~(late \/ cleanup) => recording' = Workflow!Recorded(ok)
  BY DEF Workflow!Return
<1>3. /\ lane' \in Seq(Entries) /\ Places' \subseteq Places \ {0} /\ 0 \in Places /\ At(0) = active
      /\ \A k \in Places' : /\ k > 0 /\ At(k)'.run = At(k).run
                            /\ At(k)'.op = At(k).op /\ At(k)'.step = At(k).step
  <2>1. At(0) = active BY DEF At
  <2> QED BY <1>1, <1>2, <2>1, ReturnLane
<1>4. /\ answers' \in [Runs -> {"ok", "error", None}]
      /\ \A q \in Runs : \/ answers'[q] = answers[q]
                         \/ asked[q] # None /\ answers'[q] = "error"
                         \/ Hears(q, ok)
  BY <1>1, <1>2, ReturnAnswers
<1>5. /\ recording' \in Recordings \cup {None}
      /\ ok /\ active.op = "begin" => recording' \in {None, Workflow!Writes(r, 0)}
      /\ ok /\ active.op = "write" => recording' \in {None, Workflow!Writes(r, active.step)}
      /\ \/ committed' = committed /\ ~(ok /\ active.op = "commit")
         \/ committed' = Append(committed, Workflow!Group(r))
      /\ Steady => /\ outside' = outside
                   /\ ok /\ active.op \in {"begin", "write"} => Workflow!Recorded(ok) # None
  BY <1>1, <1>2, ReturnRecording
<1>6. LeftOK' /\ (Steady' => Steady)
  <2>1. Workflow!Spend("faults") \/ UNCHANGED left BY <1>2 DEF Workflow!Handled
  <2> QED BY <1>1, <2>1, SpendShrinks, SteadyStays
<1>7. /\ committed' \in Seq(Recordings) /\ Len(committed') >= Len(committed)
      /\ Len(committed) \in Nat /\ Len(committed') \in Nat
      /\ \A k \in 1..Len(committed) : committed'[k] = committed[k]
      /\ \A k \in 1..Len(committed') : k \in 1..Len(committed)
           \/ committed'[k] = Workflow!Group(r)
      /\ ok /\ active.op = "commit" => Done(r)'
      /\ committed # <<>> => committed' # <<>>
  <2>1. Workflow!Group(r) \in Recordings /\ committed \in Seq(Recordings)
          /\ Len(committed) \in Nat
    BY <1>1, LenProperties DEF Workflow!Group, Recordings, Workflow!WorkflowAssumption,
       StudioOK
  <2>2. CASE committed' = committed /\ ~(ok /\ active.op = "commit") BY <2>1, <2>2
  <2>3. CASE committed' = Append(committed, Workflow!Group(r))
    <3>1. /\ committed' \in Seq(Recordings) /\ Len(committed') = Len(committed) + 1
          /\ \A k \in 1..Len(committed) : committed'[k] = committed[k]
          /\ committed'[Len(committed) + 1] = Workflow!Group(r) /\ committed' # <<>>
      BY <2>1, <2>3, AppendProperties
    <3>2. Done(r)' BY <2>1, <3>1 DEF Done
    <3> QED BY <2>1, <3>1, <3>2
  <2> QED BY <1>5, <2>2, <2>3
<1>8. TypeOK' BY <1>1, <1>3, <1>4, <1>5, <1>6, <1>7 DEF TypeOK, RunsOK, LaneOK, StudioOK
<1>9. ~Idle /\ ~recorded /\ \A q \in Runs : ~Between(q)
  <2>1. ~Idle BY <1>1, <1>3 DEF Idle
  <2> QED BY <2>1 DEF Holds, FinalHolds, RunHolds, LaneHolds
<1>10. \A k \in Places' : At(k).run # None => At(k).op \notin Ranks
  <2>1. \A k \in Places' : k \in Places /\ 0 < k /\ ItemHolds(k) BY <1>3 DEF Holds
  <2> QED BY <1>1, <1>3, <2>1 DEF ItemHolds
<1>11. ASSUME NEW q \in Runs, Heard(q)', runs[q].pc \in Ranks \cup {"begin"}
       PROVE  Hears(q, ok)
  <2>1. ~Heard(q) BY <1>9, <1>11 DEF Between
  <2> QED BY <1>1, <1>4, <1>11, <2>1 DEF Heard
<1>12. ASSUME NEW q \in Runs, Hears(q, ok), active.op \in Ranks \cup {"begin"}
       PROVE  Idle'
  <2>1. asked[q] = active.op /\ q = r /\ LaneHolds(q) BY <1>12 DEF Hears, Holds, RunHolds
  <2>2. CASE active.op \in Ranks BY <1>3, <1>10, <2>1, <2>2 DEF LaneHolds, Alike, Idle
  <2>3. CASE active.op = "begin" BY <1>3, <2>1, <2>3 DEF LaneHolds, Idle
  <2> QED BY <1>12, <2>2, <2>3
<1>13. ASSUME NEW q \in Runs
       PROVE  RunHolds(q)'
  <2>1. /\ AskHolds(q) /\ LaneHolds(q) /\ DoneHolds(q) /\ ~Between(q)
        /\ active.op \in Workflow!Requests
    BY <1>1, <1>9 DEF Holds, RunHolds, LaneOK, Entries
  <2>2. AskHolds(q)' BY <1>1, <1>4, <2>1 DEF AskHolds, Hears
  <2>3. Before(q)' = Before(q) BY <1>1 DEF Before
  <2>4. Between(q)' => Idle'
    <3>1. Between(q)' => Heard(q)' /\ runs[q].pc \in Ranks \cup {"begin"}
      BY <1>1, <2>1 DEF Between
    <3>2. Hears(q, ok) => active.op = runs[q].pc BY <1>1, <2>1 DEF Hears, AskHolds
    <3> QED BY <1>11, <1>12, <3>1, <3>2
  <2>5. LaneHolds(q)' BY <1>1, <1>3, <2>1, <2>3, <2>4 DEF LaneHolds, Alike
  <2>6. KeptHolds(q)'
    <3>1. CASE runs[q].pc \in Ranks \cup {"begin"} /\ Heard(q)'
      <4>1. Hears(q, ok) /\ q = r /\ active.op = runs[q].pc /\ ok /\ asked[q] # None
            /\ active.step = runs[q].step
        BY <1>1, <1>11, <2>1, <3>1 DEF Hears, AskHolds
      <4> QED BY <1>1, <1>5, <4>1 DEF KeptHolds, Kept
    <3>2. CASE ~(runs[q].pc \in Ranks \cup {"begin"} /\ Heard(q)')
      BY <1>1, <2>1, <3>2 DEF KeptHolds, Between, Ranks
    <3> QED BY <3>1, <3>2
  <2>7. DoneHolds(q)'
    <3>1. Done(q) => Done(q)' BY <1>7 DEF Done
    <3>2. runs[q].pc = "commit" /\ Heard(q)' => Done(q)'
      <4>1. runs[q].pc = "commit" /\ Heard(q)' => Hears(q, ok) BY <1>11 DEF Ranks
      <4> QED BY <1>1, <1>7, <2>1, <4>1 DEF Hears, AskHolds
    <3> QED BY <1>1, <1>7, <2>1, <3>1, <3>2 DEF DoneHolds
  <2> QED BY <2>2, <2>5, <2>6, <2>7 DEF RunHolds
<1>14. ASSUME NEW k \in Places'
       PROVE  ItemHolds(k)'
  <2>1. ItemHolds(k) BY <1>3 DEF Holds
  <2> QED BY <1>3, <1>10, <2>1 DEF ItemHolds, Ranks
<1>15. LockHolds' /\ CommitHolds' /\ FinalHolds'
  <2>1. CommitHolds' BY <1>1, <1>7, <1>9 DEF Holds, CommitHolds
  <2> QED BY <1>1, <1>9, <2>1 DEF Holds, LockHolds, FinalHolds
<1>16. SteadyHolds'
  <2>1. ASSUME Steady, NEW k \in Places'
        PROVE  At(k)'.run # None /\ ~Live(k)'
    <3>1. At(k).run # None BY <1>3, <2>1 DEF Holds, SteadyHolds
    <3> QED BY <1>3, <1>10, <3>1 DEF Live, Ranks
  <2>2. ASSUME Steady, NEW q \in Runs, Keeps(q)'
        PROVE  recording' # None
    <3>1. Heard(q)' /\ runs[q].pc \in {"write", "begin"}
      BY <1>1, <1>9, <2>2 DEF Keeps, Between, Ranks
    <3>2. Hears(q, ok) /\ AskHolds(q) BY <1>11, <3>1 DEF Ranks, Holds, RunHolds
    <3>3. ok /\ ~late /\ active.op \in {"begin", "write"}
      BY <1>1, <3>1, <3>2 DEF Hears, AskHolds, LaneOK, Entries
    <3>4. ~cleanup BY <2>2 DEF Holds, SteadyHolds
    <3> QED BY <1>2, <1>5, <2>2, <3>3, <3>4
  <2> QED BY <1>1, <1>5, <1>6, <2>1, <2>2 DEF Holds, SteadyHolds
<1> QED BY <1>8, <1>13, <1>14, <1>15, <1>16 DEF Holds


-------------------------------------------------------------------------------
(* Every step keeps the types and the invariant. *)
LEMMA NextHolds ==
    ASSUME Workflow!WorkflowAssumption, TypeOK, Holds, [Workflow!Next]_Workflow!vars
    PROVE  TypeOK' /\ Holds'
<1>1. Typed BY DEF Typed
<1>2. ASSUME NEW r \in Runs, Workflow!FirstLook(r) \/ Workflow!TakeLock(r) \/ Workflow!SecondLook(r) \/ Workflow!Save(r)
             \/ Workflow!Unlock(r) \/ Workflow!Crash(r) \/ Workflow!Ask(r)
                  \/ Workflow!Receive(r)
      PROVE  TypeOK' /\ Holds'
  BY <1>1, <1>2, FirstLookStep, TakeLockStep, SecondLookStep, SaveStep, UnlockStep,
     CrashStep, AskStep, ReceiveStep
<1>3. ASSUME NEW k \in DOMAIN lane, Workflow!WaitTimesOut(k)
      PROVE  TypeOK' /\ Holds'
  BY <1>1, <1>3, WaitTimesOutStep
<1>4. CASE Workflow!Other \/ Workflow!RemoveLock \/ Workflow!Take \/ Workflow!HandlerTimesOut
  BY <1>1, <1>4, OtherStep, RemoveLockStep, TakeStep, HandlerTimesOutStep
<1>5. CASE Workflow!Return
  <2>1. active.run \in Runs \cup {None} BY <1>5 DEF Workflow!Return, TypeOK, LaneOK, Entries
  <2>2. CASE active.run = None BY <1>1, <1>5, <2>2, ReturnStrange
  <2>3. ASSUME NEW r \in Runs, active.run = r
        PROVE  TypeOK' /\ Holds'
    BY <1>1, <1>5, <2>3, ReturnRun
  <2> QED BY <2>1, <2>2, <2>3
<1>6. CASE Workflow!Disconnect \/ Workflow!Reload BY <1>1, <1>6, DisconnectStep, ReloadStep
<1>7. CASE Workflow!Connect \/ UNCHANGED Workflow!vars
  <2>1. UNCHANGED <<Workflow!process, Workflow!calls, Workflow!queue, Workflow!studio, left>>
    BY <1>7 DEF Workflow!Connect, Workflow!vars
  <2> QED BY <1>1, <2>1, StillStep
<1> QED BY <1>2, <1>3, <1>4, <1>5, <1>6, <1>7 DEF Workflow!Next

(* The types and the inductive invariant hold in every state. *)
THEOREM RunsHold == Workflow!WorkflowAssumption => (Workflow!Spec => [](TypeOK /\ Holds))
<1> SUFFICES ASSUME Workflow!WorkflowAssumption
             PROVE  Workflow!Spec => [](TypeOK /\ Holds)
  OBVIOUS
<1>1. Workflow!Init => TypeOK /\ Holds BY InitHolds
<1>2. TypeOK /\ Holds /\ [Workflow!Next]_Workflow!vars => (TypeOK /\ Holds)' BY NextHolds
<1> QED BY <1>1, <1>2, PTL DEF Workflow!Spec

(* Whatever times out, fails, is killed or loses its connection, what is committed is the
   whole group of one run (transaction_finish commits a recording, and a run asks for it
   after its last write only); and while the plugin stays and no other command shares its
   lane no write of a run is made outside of its recording. *)
THEOREM GroupsAreAtomic ==
  Workflow!WorkflowAssumption => (Workflow!Spec => []Workflow!AtomicGroup)
<1> SUFFICES ASSUME Workflow!WorkflowAssumption
             PROVE  Workflow!Spec => []Workflow!AtomicGroup
  OBVIOUS
<1>1. TypeOK /\ Holds => Workflow!AtomicGroup
  <2> SUFFICES ASSUME TypeOK, Holds
               PROVE  Workflow!AtomicGroup
    OBVIOUS
  <2>1. DOMAIN committed = 1..Len(committed) BY LenProperties DEF TypeOK, StudioOK
  <2> QED BY <2>1 DEF Holds, CommitHolds, SteadyHolds, Steady, Workflow!AtomicGroup
<1> QED BY <1>1, RunsHold, PTL

(* A run that reports a success has committed its group, and one that ends on the record of
   another finds a group committed. *)
THEOREM SuccessesAreWhole ==
  Workflow!WorkflowAssumption => (Workflow!Spec => []Workflow!SuccessIsWhole)
<1> SUFFICES ASSUME Workflow!WorkflowAssumption
             PROVE  Workflow!Spec => []Workflow!SuccessIsWhole
  OBVIOUS
<1>1. TypeOK /\ Holds => Workflow!SuccessIsWhole
  <2> SUFFICES ASSUME TypeOK, Holds
               PROVE  Workflow!SuccessIsWhole
    OBVIOUS
  <2>1. DOMAIN committed = 1..Len(committed) BY LenProperties DEF TypeOK, StudioOK
  <2> QED BY <2>1 DEF Holds, RunHolds, DoneHolds, Done, Workflow!SuccessIsWhole
<1> QED BY <1>1, RunsHold, PTL

(* Once write_json_atomic has made the record, no handler that runs later commits a group or
   makes a write of the workflow: not even those of the runs that were killed or gave up,
   which the lane may still have had. *)
THEOREM RecordsAreFinal ==
  Workflow!WorkflowAssumption => (Workflow!Spec => Workflow!RecordedIsFinal)
<1> SUFFICES ASSUME Workflow!WorkflowAssumption
             PROVE  Workflow!Spec => Workflow!RecordedIsFinal
  OBVIOUS
<1> DEFINE Final == recorded => /\ UNCHANGED committed
                                /\ \A w \in outside' \ outside : ~ Workflow!OfRuns(w)
<1>1. TypeOK /\ Holds /\ [Workflow!Next]_Workflow!vars => [Final]_Workflow!vars
  <2> SUFFICES ASSUME TypeOK, Holds, [Workflow!Next]_Workflow!vars
               PROVE  [Final]_Workflow!vars
    OBVIOUS
  <2>1. CASE Workflow!Return /\ recorded
    <3>1. 0 \in Places /\ At(0) = active BY <2>1 DEF Workflow!Return, Places, At
    <3>2. active.run = None /\ active.op = "write"
      BY <2>1, <3>1 DEF Holds, FinalHolds, Idle, ItemHolds
    <3>3. PICK ok \in BOOLEAN : Workflow!Handled(ok) BY <2>1 DEF Workflow!Return
    <3> QED BY <3>2, <3>3 DEF Workflow!Handled, Workflow!Change, Workflow!OfRuns
  <2>2. CASE ~Workflow!Return
    <3>1. UNCHANGED <<committed, outside>>
      BY <2>2 DEF Workflow!Next, Workflow!vars, Workflow!studio, Workflow!FirstLook,
         Workflow!TakeLock, Workflow!SecondLook, Workflow!Save, Workflow!Unlock,
         Workflow!Crash, Workflow!Ask, Workflow!Receive, Workflow!WaitTimesOut,
         Workflow!Other, Workflow!RemoveLock, Workflow!Take, Workflow!HandlerTimesOut,
         Workflow!Disconnect, Workflow!Reload, Workflow!Connect
    <3> QED BY <3>1
  <2> QED BY <2>1, <2>2
<1> QED BY <1>1, RunsHold, PTL DEF Workflow!Spec, Workflow!RecordedIsFinal

(* What is committed, what a run reports and what its record ends: the three together
   (GroupIsWhole). *)
THEOREM GroupsAreWhole == Workflow!WorkflowAssumption => (Workflow!Spec => GroupIsWhole)
BY GroupsAreAtomic, SuccessesAreWhole, RecordsAreFinal, PTL DEF GroupIsWhole
===============================================================================
