----------------------------- MODULE DaemonProofs -----------------------------
(***************************************************************************)
(* What the daemon keeps for itself.                                       *)
(*                                                                         *)
(* DaemonLifecycle for any number of managers, daemons, ports, commands and *)
(* crashes: one daemon per project, and a record that is not deleted under *)
(* it.                                                                     *)
(*                                                                         *)
(* ArtifactStore for any uploads, limits, lifetimes, faults and restarts:  *)
(* what is published is what was acknowledged, what is evicted is what was *)
(* used least recently, and the accounts are exact.                        *)
(*                                                                         *)
(* PlaytestRun, the command that starts a playtest through the daemon, for *)
(* any attempts, limits, losses and faults: it leaves none behind, and it  *)
(* prints or counts every frame.  Three parts carry the proof: the shape   *)
(* (one request is awaited, one decision is taken, Studio runs while the   *)
(* job is active), what is over, and where each frame is.                  *)
(***************************************************************************)
EXTENDS Parts, OwnedPlaytest, Integers, Sequences, FiniteSetTheorems,
        SequenceTheorems, TLAPS


-------------------------------------------------------------------------------
(* One daemon. *)


(* Its listener is closed, or it will not serve: it drains, drops its guard or is dead. *)
Gone(b) == daemons[b].phase \in {"draining", "guard", "unlink", "dead"}

(* A daemon listens from its bind until it drains or dies, and no port has two that
   listen. *)
PortsAreOwned ==
    /\ \A b \in Daemon!Boots :
          /\ daemons[b].phase \in {"bound", "recorded", "serving", "closing"} =>
               Daemon!Listens(b)
          /\ daemons[b].phase \in {"unborn", "spawned", "draining", "dead"} =>
               ~Daemon!Listens(b)
    /\ \A b, c \in Daemon!Boots : Daemon!Listens(b) /\ Daemon!Listens(c)
         /\ Daemon!PortOf(b) = Daemon!PortOf(c) => b = c

(* Only a daemon that has bound its port is ever recorded. *)
Recorded(b) == daemons[b].phase \notin {"unborn", "spawned", "bound"}
RecordIsReal == record # None => Recorded(record)

(* A manager looks at, posts to or cleans up the boot of a record it has read, and it cleans
   only what is over. *)
SeenIsReal ==
    \A m \in Managers :
        /\ managers[m].pc \in {"probe", "post", "poll", "clean", "unlink"} =>
              managers[m].seen # None /\ Recorded(managers[m].seen)
        /\ managers[m].pc \in {"clean", "unlink"} => Gone(managers[m].seen)
        /\ managers[m].pc = "wait" => managers[m].seen # None
             /\ daemons[managers[m].seen].phase # "unborn"

(* Where the record is deleted through its handle nothing is unlinked later. *)
NoUnlink ==
    windows => /\ \A m \in Managers : managers[m].pc # "unlink"
               /\ \A b \in Daemon!Boots : daemons[b].phase # "unlink"

(* A start holds the start lock from its first step to its last. *)
StartIsLocked ==
    \A m \in Managers :
        /\ managers[m].pc \in {"port", "spawn", "wait"} => managers[m].command = "start"
        /\ managers[m].pc \in {"post", "poll"} => managers[m].command # "start"
        /\ managers[m].pc # "idle" /\ managers[m].command = "start" => startLock = m

(* A daemon that is up is waited for until it serves, and is in the record from there on. *)
UpIsKnown ==
    \A b \in Daemon!Boots :
        /\ daemons[b].phase \in {"spawned", "bound"} =>
              \E m \in Managers : managers[m].pc = "wait" /\ managers[m].seen = b
        /\ daemons[b].phase \in {"recorded", "serving", "closing"} => record = b

(* A start that goes on has seen that no other daemon is up. *)
StartIsAlone ==
    \A m \in Managers : managers[m].command = "start" =>
        /\ managers[m].pc \in {"probe", "clean", "wait"} =>
              \A b \in Daemon!Boots : Daemon!Running(b) => b = managers[m].seen
        /\ managers[m].pc \in {"scan", "port", "spawn"} =>
             \A b \in Daemon!Boots : ~Daemon!Running(b)

Typed == Daemon!DaemonAssumption /\ Daemon!TypeOK
Shape == PortsAreOwned /\ RecordIsReal /\ SeenIsReal /\ NoUnlink /\ StartIsLocked
Alone == UpIsKnown /\ StartIsAlone /\ Daemon!OneDaemon
Unkilled == windows /\ kills = MaxKills => Alone

-------------------------------------------------------------------------------
(* Types. *)

LEMMA InitType == Daemon!DaemonAssumption /\ Daemon!Init => Typed
BY DEF Daemon!DaemonAssumption, Daemon!Init, Typed, Daemon!TypeOK, Daemon!Unborn,
   Daemon!Idle, Daemon!Boots, Daemon!Ports

Phases == {"unborn", "spawned", "bound", "recorded", "serving", "closing", "draining",
           "guard", "unlink", "dead"}
DaemonsTyped == daemons \in [Daemon!Boots -> [phase : Phases, port : Daemon!Ports,
                                              open : BOOLEAN]]

LEMMA KilledType == ASSUME DaemonsTyped, NEW b, Daemon!Killed(b) PROVE DaemonsTyped'
BY ZenonT(60) DEF DaemonsTyped, Daemon!Killed, Phases

LEMMA PhaseType ==
    ASSUME DaemonsTyped, NEW b, NEW p \in Phases, Daemon!Phase(b, p)
    PROVE  DaemonsTyped'
BY DEF DaemonsTyped, Daemon!Phase

LEMMA TypeStep == Typed /\ [Daemon!Next]_Daemon!vars => Typed'
<1> SUFFICES ASSUME Typed, [Daemon!Next]_Daemon!vars PROVE Typed' OBVIOUS
<1> USE DEF Typed, Daemon!TypeOK, Daemon!DaemonAssumption
<1>0. DaemonsTyped /\ (DaemonsTyped' <=> (daemons \in [Daemon!Boots ->
          [phase : {"unborn", "spawned", "bound", "recorded", "serving",
                    "closing", "draining", "guard", "unlink", "dead"},
           port : Daemon!Ports, open : BOOLEAN]])')
  BY DEF DaemonsTyped, Phases
<1>1. CASE Daemon!Next
  <2>1. ASSUME NEW m \in Managers, Daemon!BeginStart(m) PROVE Typed'
    BY <2>1 DEF Daemon!BeginStart
  <2>2. ASSUME NEW m \in Managers, Daemon!BeginOther(m) PROVE Typed'
    <3>1. record # None => Daemon!PortOf(record) \in 0 .. MaxPort
      BY DEF Daemon!PortOf, Daemon!Ports
    <3>2. PICK c \in {"status", "stop", "restart"} :
             managers' = [managers EXCEPT ![m] =
                 [pc |-> "read", command |-> c, seen |-> None,
                  port |-> IF c = "restart" /\ record # None THEN Daemon!PortOf(record) ELSE 0]]
      BY <2>2 DEF Daemon!BeginOther
    <3>3. managers'[m] = [pc |-> "read", command |-> c, seen |-> None,
                          port |-> IF c = "restart"
                            /\ record # None THEN Daemon!PortOf(record) ELSE 0]
          /\ \A x \in Managers : x # m => managers'[x] = managers[x]
      BY <3>2
    <3> QED BY <2>2, <3>1, <3>2, <3>3 DEF Daemon!BeginOther
  <2>3. ASSUME NEW m \in Managers, Daemon!ReadRecord(m) PROVE Typed'
    <3>1. PICK pc \in {"scan", "probe"} :
             managers' = [managers EXCEPT ![m].pc = pc, ![m].seen = record]
      BY <2>3 DEF Daemon!ReadRecord, Daemon!See
    <3>2. managers' = [managers EXCEPT ![m] = [managers[m] EXCEPT !.pc = pc, !.seen = record]]
      BY <3>1
    <3> QED BY ZenonT(60), <2>3, <3>2 DEF Daemon!ReadRecord
  <2>4. ASSUME NEW m \in Managers, Daemon!ProbeRecord(m) PROVE Typed'
    BY <2>4 DEF Daemon!ProbeRecord, Daemon!Go, Daemon!Release, Daemon!Drop, Daemon!Idle
  <2>5. ASSUME NEW m \in Managers, Daemon!Clean(m) PROVE Typed'
    BY <2>5 DEF Daemon!Clean, Daemon!Go, Daemon!AfterClean
  <2>6. ASSUME NEW m \in Managers, Daemon!Unlink(m) PROVE Typed'
    BY <2>6 DEF Daemon!Unlink, Daemon!Go, Daemon!AfterClean
  <2>7. ASSUME NEW m \in Managers, Daemon!Scan(m) PROVE Typed'
    BY SMTT(60), <2>7 DEF Daemon!Scan, Daemon!Go, Daemon!Release, Daemon!Drop, Daemon!Idle
  <2>8. ASSUME NEW m \in Managers, Daemon!StartAgain(m) PROVE Typed'
    BY <2>8 DEF Daemon!StartAgain, Daemon!Release, Daemon!Drop, Daemon!Idle
  <2>9. ASSUME NEW m \in Managers, Daemon!LockPort(m) PROVE Typed'
    BY <2>9 DEF Daemon!LockPort, Daemon!Go, Daemon!Release, Daemon!Drop, Daemon!Idle
  <2>10. ASSUME NEW m \in Managers, Daemon!Spawn(m) PROVE Typed'
    <3>1. PICK b \in Daemon!Boots, p \in Daemon!Ports :
             \/ /\ daemons' = [daemons EXCEPT ![b] = [phase |-> "spawned", port |-> p, open |-> FALSE]]
                /\ Daemon!See(m, "wait", b) /\ UNCHANGED <<startLock, portLock>>
             \/ Daemon!Release(m) /\ UNCHANGED daemons
      BY <2>10 DEF Daemon!Spawn
    <3>2. UNCHANGED <<windows, record, commands, kills, crashes>> BY <2>10 DEF Daemon!Spawn
    <3>3. CASE Daemon!Release(m) /\ UNCHANGED daemons
      BY <3>2, <3>3 DEF Daemon!Release, Daemon!Drop, Daemon!Idle
    <3>4. CASE ~(Daemon!Release(m) /\ UNCHANGED daemons)
      <4>1. managers' = [managers EXCEPT ![m] = [managers[m] EXCEPT !.pc = "wait", !.seen = b]]
        BY <3>1, <3>4 DEF Daemon!See
      <4>2. daemons' = [daemons EXCEPT ![b] = [phase |-> "spawned", port |-> p, open |-> FALSE]]
        BY <3>1, <3>4
      <4>3. managers' \in [Managers ->
               [pc : {"idle", "read", "probe", "clean", "unlink", "scan", "lock",
                      "port", "spawn", "wait", "post", "poll", "done"},
                command : {"start", "status", "stop", "restart", "adopt", "failed"},
                port : 0 .. MaxPort, seen : Daemon!Boots \cup {None}]]
        BY ZenonT(60), <4>1
      <4>4. daemons' \in [Daemon!Boots ->
               [phase : {"unborn", "spawned", "bound", "recorded", "serving",
                         "closing", "draining", "guard", "unlink", "dead"},
                port : Daemon!Ports, open : BOOLEAN]]
        BY <4>2
      <4> QED BY <3>1, <3>2, <3>4, <4>3, <4>4
    <3> QED BY <3>3, <3>4
  <2>11. ASSUME NEW m \in Managers, Daemon!AwaitHello(m) PROVE Typed'
    <3>1. DaemonsTyped' BY <1>0, <2>11, KilledType DEF Daemon!AwaitHello, DaemonsTyped
    <3>2. managers' = [managers EXCEPT ![m] = Daemon!Idle]
          \/ managers' = [managers EXCEPT ![m] =
                 [managers[m] EXCEPT !.pc = "clean", !.command = "failed"]]
      BY <2>11 DEF Daemon!AwaitHello, Daemon!Release, Daemon!Fail
    <3>3. startLock' \in {startLock, None} /\ portLock' \in {portLock, None}
      BY <2>11 DEF Daemon!AwaitHello, Daemon!Release, Daemon!Drop
    <3>4. UNCHANGED <<windows, record, commands, kills, crashes>>
      BY <2>11 DEF Daemon!AwaitHello
    <3>6. managers' \in [Managers ->
             [pc : {"idle", "read", "probe", "clean", "unlink", "scan", "lock",
                    "port", "spawn", "wait", "post", "poll", "done"},
              command : {"start", "status", "stop", "restart", "adopt", "failed"},
              port : 0 .. MaxPort, seen : Daemon!Boots \cup {None}]]
      <4>1. managers[m] \in
              [pc : {"idle", "read", "probe", "clean", "unlink", "scan", "lock",
                      "port", "spawn", "wait", "post", "poll", "done"},
                command : {"start", "status", "stop", "restart", "adopt", "failed"},
                port : 0 .. MaxPort, seen : Daemon!Boots \cup {None}]
        OBVIOUS
      <4>2. CASE managers' = [managers EXCEPT ![m] = Daemon!Idle] BY <4>2 DEF Daemon!Idle
      <4>3. CASE managers' = [managers EXCEPT ![m] =
                   [managers[m] EXCEPT !.pc = "clean", !.command = "failed"]]
        BY <4>1, <4>3
      <4> QED BY <3>2, <4>2, <4>3
    <3> QED BY <1>0, <3>1, <3>3, <3>4, <3>6
  <2>12. ASSUME NEW m \in Managers, Daemon!Post(m) PROVE Typed'
    <3>1. UNCHANGED daemons \/ \E b \in Daemon!Boots : Daemon!Phase(b, "closing")
      BY <2>12 DEF Daemon!Post
    <3>2. DaemonsTyped' BY <1>0, <3>1, PhaseType DEF DaemonsTyped, Phases
    <3>3. managers' = [managers EXCEPT ![m] = Daemon!Idle]
          \/ managers' = [managers EXCEPT ![m] = [managers[m] EXCEPT !.pc = "poll"]]
      BY <2>12 DEF Daemon!Post, Daemon!Release, Daemon!Go
    <3>4. startLock' \in {startLock, None} /\ portLock' \in {portLock, None}
      BY <2>12 DEF Daemon!Post, Daemon!Release, Daemon!Drop
    <3>5. UNCHANGED <<windows, record, commands, kills, crashes>>
      BY <2>12 DEF Daemon!Post
    <3>6. managers' \in [Managers ->
             [pc : {"idle", "read", "probe", "clean", "unlink", "scan", "lock",
                    "port", "spawn", "wait", "post", "poll", "done"},
              command : {"start", "status", "stop", "restart", "adopt", "failed"},
              port : 0 .. MaxPort, seen : Daemon!Boots \cup {None}]]
      BY SMTT(60), <3>3 DEF Daemon!Idle
    <3> QED BY <1>0, <3>2, <3>4, <3>5, <3>6
  <2>13. ASSUME NEW m \in Managers, Daemon!Poll(m) PROVE Typed'
    BY <2>13 DEF Daemon!Poll, Daemon!Go, Daemon!Release, Daemon!Drop, Daemon!Idle
  <2>14. ASSUME NEW m \in Managers, Daemon!Done(m) PROVE Typed'
    BY <2>14 DEF Daemon!Done, Daemon!Release, Daemon!Drop, Daemon!Idle
  <2>15. ASSUME NEW m \in Managers, Daemon!Kill(m) PROVE Typed'
    BY <2>15 DEF Daemon!Kill, Daemon!Release, Daemon!Drop, Daemon!Idle
  <2>16. ASSUME NEW b \in Daemon!Boots, Daemon!Bind(b) PROVE Typed'
    BY <2>16 DEF Daemon!Bind, Daemon!Killed
  <2>17. ASSUME NEW b \in Daemon!Boots, Daemon!WriteRecord(b) PROVE Typed'
    <3>1. DaemonsTyped' BY <1>0, <2>17, PhaseType, KilledType DEF Daemon!WriteRecord, Phases
    <3> QED BY <1>0, <2>17, <3>1 DEF Daemon!WriteRecord
  <2>18. ASSUME NEW b \in Daemon!Boots, Daemon!Serve(b) PROVE Typed'
    <3>1. DaemonsTyped' BY <1>0, <2>18, PhaseType, KilledType DEF Daemon!Serve, Phases
    <3> QED BY <1>0, <2>18, <3>1 DEF Daemon!Serve
  <2>19. ASSUME NEW b \in Daemon!Boots, Daemon!CloseListener(b) PROVE Typed'
    BY ZenonT(60), <2>19 DEF Daemon!CloseListener
  <2>23. ASSUME NEW b \in Daemon!Boots, Daemon!Drained(b) PROVE Typed'
    <3>1. DaemonsTyped' BY <1>0, <2>23, PhaseType, KilledType DEF Daemon!Drained, Phases
    <3> QED BY <1>0, <2>23, <3>1 DEF Daemon!Drained
  <2>20. ASSUME NEW b \in Daemon!Boots, Daemon!DropGuard(b) PROVE Typed'
    <3>1. DaemonsTyped' BY <1>0, <2>20, PhaseType, KilledType DEF Daemon!DropGuard, Phases
    <3> QED BY <1>0, <2>20, <3>1 DEF Daemon!DropGuard
  <2>21. ASSUME NEW b \in Daemon!Boots, Daemon!DropUnlink(b) PROVE Typed'
    <3>1. DaemonsTyped' BY <1>0, <2>21, PhaseType, KilledType DEF Daemon!DropUnlink, Phases
    <3> QED BY <1>0, <2>21, <3>1 DEF Daemon!DropUnlink
  <2>22. ASSUME NEW b \in Daemon!Boots, Daemon!End(b) PROVE Typed'
    <3>1. DaemonsTyped' BY <1>0, <2>22, PhaseType, KilledType DEF Daemon!End, Phases
    <3> QED BY <1>0, <2>22, <3>1 DEF Daemon!End
  <2> QED BY <1>1, <2>1, <2>2, <2>3, <2>4, <2>5, <2>6, <2>7, <2>8, <2>9, <2>10, <2>11,
     <2>12, <2>13, <2>14, <2>15, <2>16, <2>17, <2>18, <2>19, <2>20, <2>21, <2>22, <2>23
     DEF Daemon!Next
<1>2. CASE UNCHANGED Daemon!vars BY <1>2 DEF Daemon!vars
<1> QED BY <1>1, <1>2

-------------------------------------------------------------------------------
(* What a step may do to a daemon. *)
Turns(b) ==
    /\ \A c \in Daemon!Boots \ {b} : daemons'[c] = daemons[c]
    /\ \/ daemons[b].phase = "unborn" /\ daemons'[b].phase = "spawned" /\ ~daemons'[b].open
       \/ /\ Daemon!PortOf(b)' = Daemon!PortOf(b)
          /\ \/ daemons[b].phase # "unborn" /\ daemons'[b].phase = "dead" /\ ~Daemon!Listens(b)'
             \/ daemons[b].phase = "serving" /\ daemons'[b].phase = "closing"
                  /\ UNCHANGED Daemon!Listens(b)
             \/ daemons[b].phase = "spawned" /\ daemons'[b].phase = "bound" /\ Daemon!Listens(b)'
                /\ Daemon!Free(Daemon!PortOf(b))
             \/ daemons[b].phase = "bound" /\ daemons'[b].phase = "recorded"
                  /\ UNCHANGED Daemon!Listens(b)
                /\ record' = b
             \/ daemons[b].phase = "recorded" /\ daemons'[b].phase \in {"serving", "guard"}
                /\ UNCHANGED Daemon!Listens(b)
             \/ daemons[b].phase = "closing" /\ daemons'[b].phase = "draining"
                  /\ ~Daemon!Listens(b)'
             \/ daemons[b].phase = "draining" /\ daemons'[b].phase = "guard"
                  /\ UNCHANGED Daemon!Listens(b)
             \/ daemons[b].phase = "guard" /\ daemons'[b].phase = "unlink"
                  /\ UNCHANGED Daemon!Listens(b)
                /\ ~windows

LEMMA KilledTurns ==
    ASSUME Typed, NEW b \in Daemon!Boots, Daemon!Killed(b), daemons[b].phase # "unborn"
    PROVE  Turns(b)
BY DEF Typed, Daemon!TypeOK, Daemon!Killed, Turns, Daemon!PortOf, Daemon!Listens

LEMMA PhaseTurns ==
    ASSUME Typed, NEW b \in Daemon!Boots, NEW p, Daemon!Phase(b, p)
    PROVE  /\ daemons'[b].phase = p /\ UNCHANGED <<Daemon!Listens(b), Daemon!PortOf(b)>>
           /\ \A c \in Daemon!Boots \ {b} : daemons'[c] = daemons[c]
BY DEF Typed, Daemon!TypeOK, Daemon!Phase, Daemon!PortOf, Daemon!Listens

LEMMA DaemonTurns ==
    ASSUME Typed, SeenIsReal, [Daemon!Next]_Daemon!vars
    PROVE  UNCHANGED daemons \/ \E b \in Daemon!Boots : Turns(b)
<1>1. CASE UNCHANGED daemons BY <1>1
<1>2. ASSUME NEW m \in Managers, Daemon!Spawn(m)
      PROVE UNCHANGED daemons \/ \E b \in Daemon!Boots : Turns(b)
  <2>1. CASE UNCHANGED daemons BY <2>1
  <2>2. CASE ~UNCHANGED daemons
    <3>1. PICK b \in Daemon!Boots, p \in Daemon!Ports : daemons[b] = Daemon!Unborn
             /\ daemons' = [daemons EXCEPT ![b] = [phase |-> "spawned", port |-> p,
                                                   open |-> FALSE]]
      BY <1>2, <2>2 DEF Daemon!Spawn
    <3>2. Turns(b) BY <3>1 DEF Turns, Daemon!Unborn, Typed, Daemon!TypeOK
    <3> QED BY <3>2
  <2> QED BY <2>1, <2>2
<1>3. ASSUME NEW m \in Managers, Daemon!AwaitHello(m)
      PROVE UNCHANGED daemons \/ \E b \in Daemon!Boots : Turns(b)
  <2>1. managers[m].seen \in Daemon!Boots /\ daemons[managers[m].seen].phase # "unborn"
    BY <1>3 DEF Daemon!AwaitHello, SeenIsReal, Typed, Daemon!TypeOK
  <2>2. UNCHANGED daemons \/ Daemon!Killed(managers[m].seen) BY <1>3 DEF Daemon!AwaitHello
  <2> QED BY <2>1, <2>2, KilledTurns
<1>4. ASSUME NEW m \in Managers, Daemon!Post(m)
      PROVE UNCHANGED daemons \/ \E b \in Daemon!Boots : Turns(b)
  <2>1. CASE UNCHANGED daemons BY <2>1
  <2>2. CASE ~UNCHANGED daemons
    <3>1. PICK b \in Daemon!Boots : Daemon!Answers(b) /\ Daemon!Phase(b, "closing")
      BY <1>4, <2>2 DEF Daemon!Post
    <3>2. CASE daemons[b].phase = "serving" BY <3>1, <3>2, PhaseTurns DEF Turns
    <3>3. CASE daemons[b].phase = "closing"
      BY <3>1, <2>2, <3>3 DEF Daemon!Phase, Typed, Daemon!TypeOK
    <3> QED BY <3>1, <3>2, <3>3 DEF Daemon!Answers
  <2> QED BY <2>1, <2>2
<1> USE DEF Turns
<1>5. ASSUME NEW b \in Daemon!Boots,
             \/ Daemon!Bind(b) \/ Daemon!WriteRecord(b) \/ Daemon!Serve(b)
             \/ Daemon!CloseListener(b) \/ Daemon!Drained(b) \/ Daemon!DropGuard(b)
             \/ Daemon!DropUnlink(b) \/ Daemon!End(b)
      PROVE  Turns(b)
  <2> USE KilledTurns, PhaseTurns
  <2>1. CASE Daemon!Bind(b)
    BY <2>1 DEF Daemon!Bind, Typed, Daemon!TypeOK, Daemon!PortOf, Daemon!Listens
  <2>2. CASE Daemon!WriteRecord(b) BY <2>2 DEF Daemon!WriteRecord
  <2>3. CASE Daemon!Serve(b) BY <2>3 DEF Daemon!Serve
  <2>4. CASE Daemon!CloseListener(b)
    BY <2>4 DEF Daemon!CloseListener, Typed, Daemon!TypeOK, Daemon!PortOf, Daemon!Listens
  <2>8. CASE Daemon!Drained(b) BY <2>8 DEF Daemon!Drained
  <2>5. CASE Daemon!DropGuard(b) BY <2>5 DEF Daemon!DropGuard
  <2>6. CASE Daemon!DropUnlink(b) BY <2>6 DEF Daemon!DropUnlink
  <2>7. CASE Daemon!End(b) BY <2>7 DEF Daemon!End
  <2> QED BY <1>5, <2>1, <2>2, <2>3, <2>4, <2>5, <2>6, <2>7, <2>8
<1>6. CASE \E m \in Managers :
              \/ Daemon!BeginStart(m) \/ Daemon!BeginOther(m) \/ Daemon!ReadRecord(m)
              \/ Daemon!ProbeRecord(m)
              \/ Daemon!Clean(m) \/ Daemon!Unlink(m) \/ Daemon!Scan(m)
              \/ Daemon!StartAgain(m) \/ Daemon!LockPort(m)
              \/ Daemon!Poll(m) \/ Daemon!Done(m) \/ Daemon!Kill(m)
  BY <1>6 DEF Daemon!BeginStart, Daemon!BeginOther, Daemon!ReadRecord, Daemon!ProbeRecord,
     Daemon!Clean, Daemon!Unlink, Daemon!Scan, Daemon!StartAgain, Daemon!LockPort,
     Daemon!Poll, Daemon!Done, Daemon!Kill
<1>7. CASE UNCHANGED Daemon!vars BY <1>7 DEF Daemon!vars
<1> QED BY <1>2, <1>3, <1>4, <1>5, <1>6, <1>7 DEF Daemon!Next

LEMMA PortsStep ==
    ASSUME Typed, PortsAreOwned, UNCHANGED daemons \/ \E b \in Daemon!Boots : Turns(b)
    PROVE  PortsAreOwned'
<1> USE DEF PortsAreOwned, Daemon!Listens
<1>1. CASE UNCHANGED daemons BY <1>1 DEF Daemon!PortOf
<1>2. ASSUME NEW b \in Daemon!Boots, Turns(b) PROVE PortsAreOwned'
  <2>1. \A c \in Daemon!Boots \ {b} :
          UNCHANGED <<daemons[c].phase, Daemon!Listens(c), Daemon!PortOf(c)>>
    BY <1>2 DEF Turns, Daemon!PortOf
  <2>2. /\ daemons'[b].phase \in {"bound", "recorded", "serving", "closing"} => Daemon!Listens(b)'
        /\ daemons'[b].phase \in {"unborn", "spawned", "draining", "dead"} =>
              ~Daemon!Listens(b)'
    BY <1>2 DEF Turns
  <2>3. Daemon!Listens(b)' => /\ Daemon!PortOf(b)' = Daemon!PortOf(b)
                              /\ Daemon!Listens(b) \/ Daemon!Free(Daemon!PortOf(b))
    BY <1>2 DEF Turns
  <2>4. ASSUME NEW c \in Daemon!Boots \ {b}, Daemon!Listens(b)', Daemon!Listens(c)',
        Daemon!PortOf(b)' = Daemon!PortOf(c)' PROVE FALSE
    BY <2>1, <2>3, <2>4 DEF Daemon!Free, Daemon!PortOf
  <2> QED BY <2>1, <2>2, <2>4
<1> QED BY <1>1, <1>2

(* What has happened to a daemon does not unhappen. *)
LEMMA DaemonsAge ==
    ASSUME Typed, UNCHANGED daemons
           \/ \E b \in Daemon!Boots : Turns(b), NEW c \in Daemon!Boots
    PROVE  /\ Recorded(c) => Recorded(c)'
           /\ Gone(c) => Gone(c)'
           /\ daemons[c].phase # "unborn" => daemons'[c].phase # "unborn"
BY DEF Typed, Daemon!TypeOK, Turns, Recorded, Gone

(* The record only goes, or comes to be of a daemon that has just bound. *)
LEMMA RecordStep ==
    ASSUME Typed, RecordIsReal, [Daemon!Next]_Daemon!vars, UNCHANGED daemons
             \/ \E b \in Daemon!Boots : Turns(b)
    PROVE  RecordIsReal'
<1>1. CASE record' \in {record, None}
  <2>1. record \in Daemon!Boots \cup {None} BY DEF Typed, Daemon!TypeOK
  <2> QED BY <1>1, <2>1, DaemonsAge DEF RecordIsReal, Recorded
<1>2. ASSUME NEW b \in Daemon!Boots, Daemon!WriteRecord(b) PROVE RecordIsReal'
  <2>1. record' = b /\ daemons'[b].phase = "recorded"
    BY <1>2, PhaseTurns DEF Daemon!WriteRecord
  <2> QED BY <2>1 DEF RecordIsReal, Recorded
<1>3. CASE ~\E b \in Daemon!Boots : Daemon!WriteRecord(b)
  <2>1. record' \in {record, None}
    BY <1>3 DEF Daemon!Next, Daemon!vars, Daemon!BeginStart, Daemon!BeginOther,
       Daemon!ReadRecord, Daemon!ProbeRecord, Daemon!Clean, Daemon!Unlink, Daemon!Scan,
       Daemon!StartAgain, Daemon!LockPort, Daemon!Spawn, Daemon!AwaitHello, Daemon!Post,
       Daemon!Poll, Daemon!Done, Daemon!Kill, Daemon!Bind, Daemon!Serve,
       Daemon!CloseListener, Daemon!Drained,
       Daemon!DropGuard, Daemon!DropUnlink, Daemon!End
  <2> QED BY <1>1, <2>1
<1> QED BY <1>2, <1>3

(* A probe that finds a free port, or another daemon on it, is of a daemon that is over. *)
LEMMA ProbeTells ==
    ASSUME Typed, PortsAreOwned, NEW b \in Daemon!Boots, Recorded(b),
           Daemon!Probe(b) \cap {"stale", "different"} # {}
    PROVE  Gone(b)
<1>1. Daemon!Free(Daemon!PortOf(b)) \/ \E c \in Daemon!Boots \ {b} : Daemon!Answers(c)
        /\ Daemon!PortOf(c) = Daemon!PortOf(b)
  BY DEF Daemon!Probe
<1>2. ~Daemon!Listens(b)
  BY <1>1 DEF Daemon!Free, Daemon!PortOf, Daemon!Listens, Daemon!Answers, PortsAreOwned
<1> QED BY <1>2 DEF PortsAreOwned, Recorded, Gone, Typed, Daemon!TypeOK

(* A manager's step is its own. *)
LEMMA OthersStay ==
    ASSUME Typed, NEW m \in Managers,
           \/ Daemon!BeginStart(m) \/ Daemon!BeginOther(m) \/ Daemon!ReadRecord(m)
           \/ Daemon!ProbeRecord(m)
           \/ Daemon!Clean(m) \/ Daemon!Unlink(m) \/ Daemon!Scan(m)
           \/ Daemon!StartAgain(m) \/ Daemon!LockPort(m) \/ Daemon!Spawn(m)
           \/ Daemon!AwaitHello(m) \/ Daemon!Post(m) \/ Daemon!Poll(m) \/ Daemon!Done(m)
           \/ Daemon!Kill(m)
    PROVE  \A x \in Managers \ {m} : managers'[x] = managers[x]
BY DEF Typed, Daemon!TypeOK, Daemon!BeginStart, Daemon!BeginOther, Daemon!ReadRecord,
   Daemon!ProbeRecord, Daemon!Clean, Daemon!Unlink, Daemon!Scan, Daemon!StartAgain,
   Daemon!LockPort, Daemon!Spawn, Daemon!AwaitHello, Daemon!Post, Daemon!Poll, Daemon!Done,
   Daemon!Kill, Daemon!Go, Daemon!See, Daemon!Release, Daemon!Fail

LEMMA DaemonsAct ==
    ASSUME NEW b \in Daemon!Boots,
           \/ Daemon!Bind(b) \/ Daemon!WriteRecord(b) \/ Daemon!Serve(b)
           \/ Daemon!CloseListener(b) \/ Daemon!Drained(b) \/ Daemon!DropGuard(b)
           \/ Daemon!DropUnlink(b) \/ Daemon!End(b)
    PROVE  UNCHANGED <<windows, managers, startLock, portLock, kills>>
BY DEF Daemon!Bind, Daemon!WriteRecord, Daemon!Serve,
   Daemon!CloseListener, Daemon!Drained, Daemon!DropGuard,
   Daemon!DropUnlink, Daemon!End

SeenWell(m) ==
    /\ managers[m].pc \in {"probe", "post", "poll", "clean", "unlink"} =>
          managers[m].seen # None /\ Recorded(managers[m].seen)
    /\ managers[m].pc \in {"clean", "unlink"} => Gone(managers[m].seen)
    /\ managers[m].pc = "wait" =>
          managers[m].seen # None /\ daemons[managers[m].seen].phase # "unborn"

LEMMA SeenStays ==
    ASSUME Typed, SeenIsReal, UNCHANGED daemons \/ \E b \in Daemon!Boots : Turns(b),
           NEW m \in Managers, managers'[m].seen = managers[m].seen,
           \/ managers'[m].pc = managers[m].pc
           \/ managers'[m].pc \notin {"probe", "post", "poll", "clean", "unlink", "wait"}
           \/ managers[m].pc = "clean" /\ managers'[m].pc = "unlink"
           \/ managers[m].pc \in {"probe", "post"} /\ managers'[m].pc \in {"post", "poll"}
    PROVE  SeenWell(m)'
<1>1. SeenWell(m) /\ (managers[m].seen # None => managers[m].seen \in Daemon!Boots)
  BY DEF SeenIsReal, SeenWell, Typed, Daemon!TypeOK
<1> QED BY <1>1, DaemonsAge DEF SeenWell

LEMMA SeenStep ==
    ASSUME Typed, PortsAreOwned, RecordIsReal, SeenIsReal, [Daemon!Next]_Daemon!vars
    PROVE  SeenIsReal'
<1>1. UNCHANGED daemons \/ \E b \in Daemon!Boots : Turns(b) BY DaemonTurns
<1>2. (\A m \in Managers : SeenWell(m)') => SeenIsReal' BY DEF SeenIsReal, SeenWell
<1>3. CASE UNCHANGED managers BY <1>1, <1>2, <1>3, SeenStays
<1> USE DEF Typed
<1>4. ASSUME NEW m \in Managers,
             \/ Daemon!BeginStart(m) \/ Daemon!BeginOther(m) \/ Daemon!ReadRecord(m)
             \/ Daemon!ProbeRecord(m)
             \/ Daemon!Clean(m) \/ Daemon!Unlink(m) \/ Daemon!Scan(m)
             \/ Daemon!StartAgain(m) \/ Daemon!LockPort(m) \/ Daemon!Spawn(m)
             \/ Daemon!AwaitHello(m) \/ Daemon!Post(m) \/ Daemon!Poll(m) \/ Daemon!Done(m)
             \/ Daemon!Kill(m)
      PROVE  SeenIsReal'
  <2>1. \A x \in Managers \ {m} : SeenWell(x)' BY <1>1, <1>4, OthersStay, SeenStays
  <2>2. managers'[m].pc \notin {"probe", "post", "poll", "clean", "unlink", "wait"} =>
          SeenWell(m)'
    BY DEF SeenWell
  <2>3. CASE Daemon!ReadRecord(m)
    <3>1. record = None \/ (managers'[m].pc = "probe" /\ managers'[m].seen = record)
      BY <2>3 DEF Daemon!ReadRecord, Daemon!See, Daemon!TypeOK
    <3>2. ASSUME NEW b \in Daemon!Boots, record = b PROVE Recorded(b)'
      BY <1>1, <3>2, DaemonsAge DEF RecordIsReal, Daemon!DaemonAssumption
    <3>4. record \in Daemon!Boots \cup {None} BY DEF Daemon!TypeOK
    <3>5. ASSUME NEW b \in Daemon!Boots, record = b PROVE SeenWell(m)'
      <4>1. b # None /\ Recorded(b)' BY <3>2, <3>5 DEF Daemon!DaemonAssumption
      <4>2. managers'[m].pc = "probe" /\ managers'[m].seen = b BY <3>1, <3>5, <4>1
      <4> QED BY <4>1, <4>2 DEF SeenWell, Recorded
    <3>3. record = None => managers'[m].pc = "scan"
      BY <2>3 DEF Daemon!ReadRecord, Daemon!See, Daemon!TypeOK
    <3> QED BY <1>2, <2>1, <2>2, <3>3, <3>4, <3>5
  <2>4. CASE Daemon!ProbeRecord(m) \/ Daemon!Poll(m)
    <3>1. managers[m].seen \in Daemon!Boots /\ Recorded(managers[m].seen)
      BY <2>4 DEF Daemon!ProbeRecord, Daemon!Poll, SeenIsReal, Daemon!TypeOK
    <3>2. CASE managers'[m].pc = "clean"
      <4>1. Daemon!Probe(managers[m].seen) \cap {"stale", "different"} # {}
        BY <2>4, <3>2 DEF Daemon!ProbeRecord, Daemon!Poll, Daemon!Go, Daemon!Release,
           Daemon!Idle, Daemon!TypeOK
      <4>2. managers'[m].seen = managers[m].seen
        BY <2>4, <3>2 DEF Daemon!ProbeRecord, Daemon!Poll, Daemon!Go, Daemon!Release,
           Daemon!Idle, Daemon!TypeOK
      <4>3. Gone(managers[m].seen) BY <3>1, <4>1, ProbeTells
      <4>4. PICK b \in Daemon!Boots : b = managers[m].seen BY <3>1
      <4>5. Recorded(b)' /\ Gone(b)' /\ b # None
        BY <1>1, <3>1, <4>3, <4>4, DaemonsAge DEF Daemon!DaemonAssumption
      <4>6. SeenWell(m)' BY <3>2, <4>2, <4>4, <4>5 DEF SeenWell, Recorded, Gone
      <4> QED BY <1>2, <2>1, <4>6
    <3>3. CASE managers'[m].pc # "clean"
      <4>1. managers'[m].pc = "idle"
            \/ (managers[m].pc = "probe" /\ managers'[m].pc = "post"
                /\ managers'[m].seen = managers[m].seen)
        BY <2>4, <3>3 DEF Daemon!ProbeRecord, Daemon!Poll, Daemon!Go, Daemon!Release,
           Daemon!Idle, Daemon!TypeOK
      <4> QED BY <1>1, <1>2, <2>1, <2>2, <4>1, SeenStays
    <3> QED BY <3>2, <3>3
  <2>5. CASE Daemon!Spawn(m)
    <3>1. managers'[m].pc = "idle" \/ \E b \in Daemon!Boots : /\ managers'[m].pc = "wait"
                                                             /\ managers'[m].seen = b
                                                             /\ daemons'[b].phase = "spawned"
      BY <2>5 DEF Daemon!Spawn, Daemon!See, Daemon!Release, Daemon!Idle, Daemon!TypeOK
    <3>2. \A b \in Daemon!Boots : b # None BY DEF Daemon!DaemonAssumption
    <3> QED BY <1>2, <2>1, <2>2, <3>1, <3>2 DEF SeenWell
  <2> USE DEF Daemon!TypeOK
  <2>6. CASE Daemon!AwaitHello(m)
    <3>1. managers[m].seen \in Daemon!Boots BY <2>6 DEF Daemon!AwaitHello, SeenIsReal
    <3>2. managers'[m].pc = "idle"
          \/ /\ managers'[m].pc = "clean" /\ managers'[m].seen = managers[m].seen
             /\ daemons'[managers[m].seen].phase = "dead"
      BY <2>6, <3>1 DEF Daemon!AwaitHello, Daemon!Release, Daemon!Idle, Daemon!Fail,
         Daemon!Killed
    <3> QED BY <1>2, <2>1, <2>2, <3>1, <3>2 DEF SeenWell, Recorded, Gone,
       Daemon!DaemonAssumption
  <2>7. CASE Daemon!Clean(m) \/ Daemon!Post(m)
    <3>1. /\ managers'[m].pc = "idle" \/ managers'[m].seen = managers[m].seen
          /\ \/ managers'[m].pc \notin {"probe", "post", "poll", "clean", "unlink", "wait"}
             \/ managers[m].pc = "clean" /\ managers'[m].pc = "unlink"
             \/ managers[m].pc = "post" /\ managers'[m].pc = "poll"
      BY <2>7 DEF Daemon!Clean, Daemon!Post, Daemon!Go, Daemon!AfterClean, Daemon!Release,
         Daemon!Idle
    <3> QED BY <1>1, <1>2, <2>1, <2>2, <3>1, SeenStays
  <2>8. CASE \/ Daemon!BeginStart(m) \/ Daemon!BeginOther(m) \/ Daemon!Unlink(m)
             \/ Daemon!Scan(m) \/ Daemon!StartAgain(m)
             \/ Daemon!LockPort(m) \/ Daemon!Done(m) \/ Daemon!Kill(m)
    <3>1. managers'[m].pc \notin {"probe", "post", "poll", "clean", "unlink", "wait"}
      BY <2>8 DEF Daemon!BeginStart, Daemon!BeginOther, Daemon!Unlink, Daemon!Scan,
         Daemon!StartAgain, Daemon!LockPort, Daemon!Done, Daemon!Kill, Daemon!Go,
         Daemon!AfterClean, Daemon!Release, Daemon!Idle
    <3> QED BY <1>2, <2>1, <2>2, <3>1
  <2> QED BY <1>4, <2>3, <2>4, <2>5, <2>6, <2>7, <2>8
<1>5. CASE UNCHANGED Daemon!vars BY <1>3, <1>5 DEF Daemon!vars
<1> QED BY <1>3, <1>4, <1>5, DaemonsAct DEF Daemon!Next

-------------------------------------------------------------------------------
(* Where the record is deleted through its handle nobody comes to unlink. *)
LEMMA NoUnlinkStep ==
    ASSUME Typed, SeenIsReal, NoUnlink, [Daemon!Next]_Daemon!vars
    PROVE  NoUnlink'
<1> SUFFICES ASSUME windows' PROVE NoUnlink' BY DEF NoUnlink
<1>1. windows
  BY DEF Daemon!Next, Daemon!vars, Daemon!BeginStart, Daemon!BeginOther, Daemon!ReadRecord,
     Daemon!ProbeRecord, Daemon!Clean, Daemon!Unlink, Daemon!Scan, Daemon!StartAgain,
     Daemon!LockPort, Daemon!Spawn, Daemon!AwaitHello, Daemon!Post, Daemon!Poll,
     Daemon!Done, Daemon!Kill, Daemon!Bind, Daemon!WriteRecord, Daemon!Serve,
     Daemon!CloseListener, Daemon!Drained,
     Daemon!DropGuard, Daemon!DropUnlink, Daemon!End
<1>2. \A b \in Daemon!Boots : daemons'[b].phase # "unlink"
  BY <1>1, DaemonTurns DEF NoUnlink, Turns
<1>3. \A m \in Managers : managers'[m].pc # "unlink"
  <2>1. CASE UNCHANGED managers BY <1>1, <2>1 DEF NoUnlink
  <2>2. ASSUME NEW m \in Managers,
               \/ Daemon!BeginStart(m) \/ Daemon!BeginOther(m) \/ Daemon!ReadRecord(m)
               \/ Daemon!ProbeRecord(m)
               \/ Daemon!Clean(m) \/ Daemon!Unlink(m) \/ Daemon!Scan(m)
               \/ Daemon!StartAgain(m) \/ Daemon!LockPort(m) \/ Daemon!Spawn(m)
               \/ Daemon!AwaitHello(m) \/ Daemon!Post(m) \/ Daemon!Poll(m)
               \/ Daemon!Done(m) \/ Daemon!Kill(m)
        PROVE  \A x \in Managers : managers'[x].pc # "unlink"
    <3>1. managers'[m].pc # "unlink"
      BY <1>1, <2>2 DEF Typed, Daemon!TypeOK, Daemon!BeginStart, Daemon!BeginOther,
         Daemon!ReadRecord, Daemon!ProbeRecord, Daemon!Clean, Daemon!Unlink, Daemon!Scan,
         Daemon!StartAgain, Daemon!LockPort, Daemon!Spawn, Daemon!AwaitHello, Daemon!Post,
         Daemon!Poll, Daemon!Done, Daemon!Kill, Daemon!Go, Daemon!See, Daemon!Release,
         Daemon!Idle, Daemon!Fail, Daemon!AfterClean
    <3> QED BY <1>1, <2>2, <3>1, OthersStay DEF NoUnlink
  <2> QED BY <2>1, <2>2, DaemonsAct DEF Daemon!Next, Daemon!vars
<1> QED BY <1>2, <1>3 DEF NoUnlink

(* Only BeginStart and StartAgain take the start lock, when it is free, and only its holder
   gives it up. *)
LEMMA LockTurns ==
    ASSUME Typed, NEW m \in Managers,
           \/ Daemon!BeginStart(m) \/ Daemon!BeginOther(m) \/ Daemon!ReadRecord(m)
           \/ Daemon!ProbeRecord(m)
           \/ Daemon!Clean(m) \/ Daemon!Unlink(m) \/ Daemon!Scan(m)
           \/ Daemon!StartAgain(m) \/ Daemon!LockPort(m) \/ Daemon!Spawn(m)
           \/ Daemon!AwaitHello(m) \/ Daemon!Post(m) \/ Daemon!Poll(m) \/ Daemon!Done(m)
           \/ Daemon!Kill(m)
    PROVE  /\ \A x \in Managers \ {m} : startLock = x => startLock' = x
           /\ \/ managers'[m].pc = "idle" \/ managers'[m].command # "start"
              \/ startLock' = m
              \/ /\ managers[m].pc # "idle" /\ managers[m].command = "start"
                 /\ startLock' = startLock
           /\ managers'[m].pc \in {"port", "spawn", "wait"} =>
                 \/ managers'[m].command = "start"
                 \/ /\ managers[m].pc \in {"port", "spawn", "wait"}
                    /\ managers'[m].command = managers[m].command
           /\ managers'[m].pc \in {"post", "poll"} =>
                 \/ managers'[m].command # "start"
                 \/ /\ managers[m].pc \in {"post", "poll"}
                    /\ managers'[m].command = managers[m].command
<1> USE DEF Typed, Daemon!TypeOK, Daemon!DaemonAssumption, Daemon!Go, Daemon!See,
    Daemon!Release, Daemon!Drop, Daemon!Idle
<1>1. CASE \/ Daemon!BeginStart(m) \/ Daemon!BeginOther(m) \/ Daemon!ReadRecord(m)
           \/ Daemon!Clean(m) \/ Daemon!Unlink(m)
  BY <1>1 DEF Daemon!BeginStart, Daemon!BeginOther, Daemon!ReadRecord, Daemon!Clean,
     Daemon!Unlink, Daemon!AfterClean
<1>2. CASE Daemon!ProbeRecord(m) BY <1>2 DEF Daemon!ProbeRecord
<1>3. CASE Daemon!Scan(m) \/ Daemon!StartAgain(m) \/ Daemon!LockPort(m)
  BY <1>3 DEF Daemon!Scan, Daemon!StartAgain, Daemon!LockPort
<1>4. CASE Daemon!Spawn(m) BY <1>4 DEF Daemon!Spawn
<1>5. CASE Daemon!AwaitHello(m) BY <1>5 DEF Daemon!AwaitHello, Daemon!Fail
<1>6. CASE Daemon!Post(m) \/ Daemon!Poll(m) \/ Daemon!Done(m) \/ Daemon!Kill(m)
  BY <1>6 DEF Daemon!Post, Daemon!Poll, Daemon!Done, Daemon!Kill
<1> QED BY <1>1, <1>2, <1>3, <1>4, <1>5, <1>6

LEMMA LockedStep ==
    ASSUME Typed, StartIsLocked, [Daemon!Next]_Daemon!vars
    PROVE  StartIsLocked'
<1>1. CASE UNCHANGED <<managers, startLock>> BY <1>1 DEF StartIsLocked
<1>2. ASSUME NEW m \in Managers,
             \/ Daemon!BeginStart(m) \/ Daemon!BeginOther(m) \/ Daemon!ReadRecord(m)
             \/ Daemon!ProbeRecord(m)
             \/ Daemon!Clean(m) \/ Daemon!Unlink(m) \/ Daemon!Scan(m)
             \/ Daemon!StartAgain(m) \/ Daemon!LockPort(m) \/ Daemon!Spawn(m)
             \/ Daemon!AwaitHello(m) \/ Daemon!Post(m) \/ Daemon!Poll(m) \/ Daemon!Done(m)
             \/ Daemon!Kill(m)
      PROVE  StartIsLocked'
  <2>1. \A x \in Managers \ {m} : managers'[x] = managers[x] BY <1>2, OthersStay
  <2> QED BY <1>2, <2>1, LockTurns DEF StartIsLocked
<1> QED BY <1>1, <1>2, DaemonsAct DEF Daemon!Next, Daemon!vars

(* Two starts never run side by side. *)
LEMMA OneStart ==
    ASSUME StartIsLocked, NEW x \in Managers, NEW y \in Managers,
           managers[x].pc # "idle", managers[x].command = "start",
           managers[y].pc # "idle", managers[y].command = "start"
    PROVE  x = y
BY DEF StartIsLocked

LEMMA InitShape == Daemon!DaemonAssumption /\ Daemon!Init => Shape /\ Unkilled
BY DEF Daemon!DaemonAssumption, Daemon!Init, Shape, PortsAreOwned, RecordIsReal, SeenIsReal,
   NoUnlink, StartIsLocked, Unkilled, Alone, UpIsKnown, StartIsAlone, Daemon!OneDaemon,
   Daemon!Running, Daemon!Unborn, Daemon!Idle, Daemon!Listens, Daemon!PortOf, Daemon!Boots

-------------------------------------------------------------------------------
(* Only Spawn brings a daemon up, and the manager that spawns it waits. *)
LEMMA RunningStep ==
    ASSUME Typed, [Daemon!Next]_Daemon!vars, ~\E m \in Managers : Daemon!Spawn(m),
           NEW b \in Daemon!Boots, Daemon!Running(b)'
    PROVE  Daemon!Running(b)
<1> USE DEF Typed, Daemon!TypeOK, Daemon!Running
<1>1. CASE UNCHANGED daemons BY <1>1
<1>2. ASSUME NEW c \in Daemon!Boots \cup {None}, Daemon!Killed(c) PROVE Daemon!Running(b)
  BY <1>2 DEF Daemon!Killed
<1>3. ASSUME NEW m \in Managers, Daemon!AwaitHello(m) PROVE Daemon!Running(b)
  BY <1>1, <1>2, <1>3 DEF Daemon!AwaitHello
<1>4. ASSUME NEW m \in Managers, Daemon!Post(m) PROVE Daemon!Running(b)
  BY <1>1, <1>4 DEF Daemon!Post, Daemon!Phase, Daemon!Answers
<1>5. ASSUME NEW c \in Daemon!Boots,
             \/ Daemon!Bind(c) \/ Daemon!WriteRecord(c) \/ Daemon!Serve(c)
             \/ Daemon!CloseListener(c) \/ Daemon!Drained(c) \/ Daemon!DropGuard(c)
             \/ Daemon!DropUnlink(c) \/ Daemon!End(c)
      PROVE  Daemon!Running(b)
  BY <1>2, <1>5 DEF Daemon!Bind, Daemon!WriteRecord, Daemon!Serve,
     Daemon!CloseListener, Daemon!Drained,
     Daemon!DropGuard, Daemon!DropUnlink, Daemon!End, Daemon!Phase
<1>6. CASE \E m \in Managers :
              \/ Daemon!BeginStart(m) \/ Daemon!BeginOther(m) \/ Daemon!ReadRecord(m)
              \/ Daemon!ProbeRecord(m)
              \/ Daemon!Clean(m) \/ Daemon!Unlink(m) \/ Daemon!Scan(m)
              \/ Daemon!StartAgain(m) \/ Daemon!LockPort(m)
              \/ Daemon!Poll(m) \/ Daemon!Done(m) \/ Daemon!Kill(m)
  BY <1>1, <1>6 DEF Daemon!BeginStart, Daemon!BeginOther, Daemon!ReadRecord,
     Daemon!ProbeRecord, Daemon!Clean, Daemon!Unlink, Daemon!Scan, Daemon!StartAgain,
     Daemon!LockPort, Daemon!Poll, Daemon!Done, Daemon!Kill
<1> QED BY <1>1, <1>3, <1>4, <1>5, <1>6 DEF Daemon!Next, Daemon!vars

(* A daemon that has bound and is up was up, in an earlier phase or this. *)
LEMMA UpStep ==
    ASSUME Typed, SeenIsReal, [Daemon!Next]_Daemon!vars, NEW b \in Daemon!Boots,
           daemons'[b].phase \in {"recorded", "serving", "closing"}
    PROVE  daemons[b].phase \in {"recorded", "serving", "closing"} \/ record' = b
BY DaemonTurns DEF Turns, Typed, Daemon!TypeOK

(* The record of a daemon that is up stays, where it is deleted through its handle. *)
LEMMA RecordKept ==
    ASSUME Typed, SeenIsReal, NoUnlink, windows, [Daemon!Next]_Daemon!vars,
           NEW b \in Daemon!Boots, record = b, record' # b
    PROVE  Gone(b)' \/ \E c \in Daemon!Boots : record' = c /\ daemons[c].phase = "bound"
<1>1. ASSUME NEW m \in Managers, Daemon!Clean(m) PROVE Gone(b)'
  <2>1. b = managers[m].seen /\ UNCHANGED daemons BY <1>1 DEF Daemon!Clean
  <2>2. Gone(b) BY <1>1, <2>1 DEF Daemon!Clean, SeenIsReal
  <2> QED BY <2>1, <2>2 DEF Gone
<1>2. ASSUME NEW c \in Daemon!Boots, Daemon!DropGuard(c) PROVE Gone(b)'
  BY <1>2 DEF Daemon!DropGuard, Daemon!Killed, Gone, Typed, Daemon!TypeOK
<1>3. ASSUME NEW c \in Daemon!Boots, Daemon!WriteRecord(c)
      PROVE  record' = c /\ daemons[c].phase = "bound"
  BY <1>3 DEF Daemon!WriteRecord
<1>4. \A m \in Managers : ~Daemon!Unlink(m) BY DEF Daemon!Unlink, NoUnlink
<1>5. \A c \in Daemon!Boots : ~Daemon!DropUnlink(c) BY DEF Daemon!DropUnlink, NoUnlink
<1>6. CASE UNCHANGED record BY <1>6
<1>7. CASE \E m \in Managers :
              \/ Daemon!BeginStart(m) \/ Daemon!BeginOther(m) \/ Daemon!ReadRecord(m)
              \/ Daemon!ProbeRecord(m)
              \/ Daemon!Scan(m) \/ Daemon!StartAgain(m) \/ Daemon!LockPort(m) \/ Daemon!Spawn(m)
              \/ Daemon!AwaitHello(m) \/ Daemon!Post(m) \/ Daemon!Poll(m)
              \/ Daemon!Done(m) \/ Daemon!Kill(m)
  BY <1>6, <1>7 DEF Daemon!BeginStart, Daemon!BeginOther, Daemon!ReadRecord,
     Daemon!ProbeRecord, Daemon!Scan, Daemon!StartAgain, Daemon!LockPort, Daemon!Spawn,
     Daemon!AwaitHello, Daemon!Post, Daemon!Poll, Daemon!Done, Daemon!Kill
<1>8. CASE \E c \in Daemon!Boots : Daemon!Bind(c) \/ Daemon!Serve(c)
        \/ Daemon!CloseListener(c) \/ Daemon!Drained(c) \/ Daemon!End(c)
  BY <1>6, <1>8 DEF Daemon!Bind, Daemon!Serve, Daemon!CloseListener, Daemon!Drained, Daemon!End
<1> QED BY <1>1, <1>2, <1>3, <1>4, <1>5, <1>6, <1>7, <1>8 DEF Daemon!Next, Daemon!vars

(* A manager waits for its child until the child answers or is dead. *)
LEMMA WaitStep ==
    ASSUME Typed, NEW m \in Managers, managers[m].pc = "wait",
           managers[m].seen \in Daemon!Boots,
           [Daemon!Next]_Daemon!vars, ~Daemon!Kill(m), managers'[m] # managers[m]
    PROVE  daemons'[managers[m].seen].phase \notin {"spawned", "bound"}
<1>1. Daemon!AwaitHello(m)
  <2>1. ASSUME NEW x \in Managers \ {m},
               \/ Daemon!BeginStart(x) \/ Daemon!BeginOther(x) \/ Daemon!ReadRecord(x)
               \/ Daemon!ProbeRecord(x)
               \/ Daemon!Clean(x) \/ Daemon!Unlink(x) \/ Daemon!Scan(x)
               \/ Daemon!StartAgain(x) \/ Daemon!LockPort(x) \/ Daemon!Spawn(x)
               \/ Daemon!AwaitHello(x) \/ Daemon!Post(x) \/ Daemon!Poll(x)
               \/ Daemon!Done(x) \/ Daemon!Kill(x)
        PROVE  FALSE
    BY <2>1, OthersStay
  <2>2. ASSUME \/ Daemon!BeginStart(m) \/ Daemon!BeginOther(m) \/ Daemon!ReadRecord(m)
               \/ Daemon!ProbeRecord(m)
               \/ Daemon!Clean(m) \/ Daemon!Unlink(m) \/ Daemon!Scan(m)
               \/ Daemon!StartAgain(m) \/ Daemon!LockPort(m) \/ Daemon!Spawn(m)
               \/ Daemon!Post(m) \/ Daemon!Poll(m) \/ Daemon!Done(m)
        PROVE  FALSE
    BY <2>2 DEF Daemon!BeginStart, Daemon!BeginOther, Daemon!ReadRecord, Daemon!ProbeRecord,
       Daemon!Clean, Daemon!Unlink, Daemon!Scan, Daemon!StartAgain, Daemon!LockPort,
       Daemon!Spawn, Daemon!Post, Daemon!Poll, Daemon!Done
  <2> QED BY <2>1, <2>2, DaemonsAct DEF Daemon!Next, Daemon!vars
<1>2. CASE Daemon!Answers(managers[m].seen) /\ UNCHANGED daemons BY <1>2 DEF Daemon!Answers
<1>3. CASE Daemon!Killed(managers[m].seen) BY <1>3 DEF Daemon!Killed, Typed, Daemon!TypeOK
<1>4. CASE daemons[managers[m].seen].phase = "dead" /\ UNCHANGED daemons BY <1>4
<1> QED BY <1>1, <1>2, <1>3, <1>4 DEF Daemon!AwaitHello

-------------------------------------------------------------------------------
(* One daemon, as long as no manager is killed. *)
Whole == Typed /\ Shape /\ windows /\ Alone
Safely == [Daemon!Next]_Daemon!vars /\ ~\E m \in Managers : Daemon!Kill(m)

(* Whoever has read the record under the start lock knows what is up. *)
LEMMA ReaderKnows ==
    ASSUME Whole, NEW m \in Managers, managers[m].pc = "read", managers[m].command = "start",
           NEW b \in Daemon!Boots, Daemon!Running(b)
    PROVE  record = b
<1>1. daemons[b].phase \notin {"spawned", "bound"}
  <2>1. SUFFICES ASSUME daemons[b].phase \in {"spawned", "bound"} PROVE FALSE OBVIOUS
  <2>2. PICK x \in Managers : managers[x].pc = "wait" BY <2>1 DEF Whole, Alone, UpIsKnown
  <2>3. managers[x].command = "start" BY <2>2 DEF Whole, Shape, StartIsLocked
  <2>4. x = m BY <2>2, <2>3, OneStart DEF Whole, Shape
  <2> QED BY <2>2, <2>4
<1> QED BY <1>1 DEF Whole, Alone, UpIsKnown, Daemon!Running

LEMMA OneStep ==
    ASSUME Whole, Safely
    PROVE  Daemon!OneDaemon'
<1>1. ASSUME NEW m \in Managers, Daemon!Spawn(m) PROVE Daemon!OneDaemon'
  <2>1. \A b \in Daemon!Boots : ~Daemon!Running(b)
    BY <1>1 DEF Daemon!Spawn, Whole, Alone, StartIsAlone, Shape, StartIsLocked
  <2>2. CASE UNCHANGED daemons BY <2>1, <2>2 DEF Daemon!OneDaemon, Daemon!Running
  <2>3. CASE ~UNCHANGED daemons
    <3>1. PICK b \in Daemon!Boots, p \in Daemon!Ports :
             daemons' = [daemons EXCEPT ![b] = [phase |-> "spawned", port |-> p,
                                                open |-> FALSE]]
      BY <1>1, <2>3 DEF Daemon!Spawn
    <3>2. \A c \in Daemon!Boots \ {b} : daemons'[c] = daemons[c]
      BY <3>1 DEF Whole, Typed, Daemon!TypeOK
    <3> QED BY <2>1, <3>2 DEF Daemon!OneDaemon, Daemon!Running
  <2> QED BY <2>2, <2>3
<1>2. CASE ~\E m \in Managers : Daemon!Spawn(m)
  <2>1. ASSUME kills' = MaxKills PROVE kills = MaxKills
    BY ZenonT(60), <2>1
    DEF Safely, Daemon!Next, Daemon!vars, Daemon!BeginStart, Daemon!BeginOther,
       Daemon!ReadRecord, Daemon!ProbeRecord, Daemon!Clean, Daemon!Unlink, Daemon!Scan,
       Daemon!StartAgain, Daemon!LockPort, Daemon!Spawn, Daemon!AwaitHello, Daemon!Post,
       Daemon!Poll, Daemon!Done, Daemon!Bind, Daemon!WriteRecord, Daemon!Serve,
       Daemon!CloseListener, Daemon!Drained, Daemon!DropGuard, Daemon!DropUnlink, Daemon!End
  <2>2. \A b \in Daemon!Boots : Daemon!Running(b)' => Daemon!Running(b)
    BY <1>2, RunningStep DEF Whole, Safely
  <2> QED BY <2>1, <2>2 DEF Whole, Alone, Daemon!OneDaemon
<1> QED BY <1>1, <1>2

LEMMA KnownStep ==
    ASSUME Whole, Safely, kills = MaxKills
    PROVE  UpIsKnown'
<1> USE DEF Whole, Shape, Alone
<1>1. ASSUME NEW b \in Daemon!Boots, daemons'[b].phase \in {"spawned", "bound"}
      PROVE  \E m \in Managers : managers'[m].pc = "wait" /\ managers'[m].seen = b
  <2>1. CASE Daemon!Running(b)
    <3>1. daemons[b].phase \in {"spawned", "bound"}
      BY <1>1, <2>1, DaemonTurns DEF Safely, Daemon!Running, Turns
    <3>2. PICK m \in Managers : managers[m].pc = "wait" /\ managers[m].seen = b
      BY <3>1 DEF UpIsKnown
    <3>3. managers'[m] = managers[m] BY <1>1, <3>2, WaitStep DEF Safely
    <3> QED BY <3>2, <3>3
  <2>2. CASE ~Daemon!Running(b)
    <3>1. PICK m \in Managers : Daemon!Spawn(m)
      BY <1>1, <2>2, RunningStep DEF Safely, Daemon!Running
    <3>2. PICK c \in Daemon!Boots, p \in Daemon!Ports :
             /\ daemons' = [daemons EXCEPT ![c] = [phase |-> "spawned", port |-> p,
                                                   open |-> FALSE]]
             /\ Daemon!See(m, "wait", c)
      BY <1>1, <2>2, <3>1 DEF Daemon!Spawn, Daemon!Running
    <3>3. c = b BY <1>1, <2>2, <3>2 DEF Daemon!Running, Typed, Daemon!TypeOK
    <3> QED BY <3>2, <3>3 DEF Daemon!See, Typed, Daemon!TypeOK
  <2> QED BY <2>1, <2>2
<1>2. ASSUME NEW b \in Daemon!Boots, daemons'[b].phase \in {"recorded", "serving", "closing"}
      PROVE  record' = b
  <2>1. SUFFICES ASSUME record' # b PROVE FALSE OBVIOUS
  <2>2. daemons[b].phase \in {"recorded", "serving", "closing"}
    BY <1>2, <2>1, UpStep DEF Safely
  <2>3. record = b BY <2>2 DEF UpIsKnown
  <2>4. ~Gone(b)' BY <1>2 DEF Gone
  <2>5. PICK c \in Daemon!Boots : record' = c /\ daemons[c].phase = "bound"
    BY <2>1, <2>3, <2>4, RecordKept DEF Safely
  <2> QED BY <1>2, <2>1, <2>2, <2>5 DEF Daemon!OneDaemon, Daemon!Running
<1> QED BY <1>1, <1>2 DEF UpIsKnown

(* What a step makes of the start of another manager, or of a daemon's. *)
LEMMA BystanderAlone ==
    ASSUME Whole, Safely, NEW x \in Managers, managers'[x] = managers[x],
           managers[x].command = "start",
           ~\E m \in Managers : Daemon!Spawn(m)
    PROVE  /\ managers'[x].pc \in {"probe", "clean", "wait"} =>
                 \A b \in Daemon!Boots : Daemon!Running(b)' => b = managers'[x].seen
           /\ managers'[x].pc \in {"scan", "port", "spawn"} =>
                \A b \in Daemon!Boots : ~Daemon!Running(b)'
BY RunningStep DEF Whole, Alone, StartIsAlone, Safely

LEMMA AloneStep ==
    ASSUME Whole, Safely
    PROVE  StartIsAlone'
<1> USE DEF Whole, Shape, Alone
<1> DEFINE AloneIs(x) ==
      managers'[x].command = "start" =>
        /\ managers'[x].pc \in {"probe", "clean", "wait"} =>
              \A b \in Daemon!Boots : Daemon!Running(b)' => b = managers'[x].seen
        /\ managers'[x].pc \in {"scan", "port", "spawn"} =>
             \A b \in Daemon!Boots : ~Daemon!Running(b)'
<1>0. (\A x \in Managers : AloneIs(x)) => StartIsAlone' BY DEF StartIsAlone
<1>1. ASSUME NEW m \in Managers, Daemon!Spawn(m) PROVE StartIsAlone'
  <2>1. managers[m].command = "start" /\ managers[m].pc = "spawn"
    BY <1>1 DEF Daemon!Spawn, StartIsLocked
  <2>2. ASSUME NEW x \in Managers \ {m} PROVE AloneIs(x)
    <3>1. managers'[x] = managers[x] BY <1>1, OthersStay
    <3>2. managers[x].pc = "idle" \/ managers[x].command # "start" BY <2>1, OneStart
    <3> QED BY <3>1, <3>2
  <2>3. AloneIs(m)
    <3> USE DEF Typed, Daemon!TypeOK
    <3>1. \A b \in Daemon!Boots : ~Daemon!Running(b) BY <2>1 DEF StartIsAlone
    <3>2. CASE managers'[m].pc = "wait"
      <4>1. PICK b \in Daemon!Boots, p \in Daemon!Ports :
              /\ daemons' = [daemons EXCEPT ![b] = [phase |-> "spawned", port |-> p,
                                                    open |-> FALSE]]
              /\ Daemon!See(m, "wait", b)
        BY <1>1, <3>2 DEF Daemon!Spawn, Daemon!Release, Daemon!Idle
      <4>2. managers'[m].seen = b /\ \A c \in Daemon!Boots \ {b} : daemons'[c] = daemons[c]
        BY <4>1 DEF Daemon!See
      <4> QED BY <3>1, <3>2, <4>2 DEF Daemon!Running
    <3>3. CASE managers'[m].pc # "wait"
      BY <1>1, <3>3 DEF Daemon!Spawn, Daemon!Release, Daemon!Idle, Daemon!See
    <3> QED BY <3>2, <3>3
  <2> QED BY <1>0, <2>2, <2>3
<1>2. ASSUME ~\E m \in Managers : Daemon!Spawn(m), UNCHANGED managers PROVE StartIsAlone'
  <2>1. \A x \in Managers : AloneIs(x) BY <1>2, BystanderAlone
  <2> QED BY <1>0, <2>1
<1>3. ASSUME ~\E m \in Managers : Daemon!Spawn(m), NEW m \in Managers,
             \/ Daemon!BeginStart(m) \/ Daemon!BeginOther(m) \/ Daemon!ReadRecord(m)
             \/ Daemon!ProbeRecord(m)
             \/ Daemon!Clean(m) \/ Daemon!Unlink(m) \/ Daemon!Scan(m)
             \/ Daemon!StartAgain(m) \/ Daemon!LockPort(m)
             \/ Daemon!AwaitHello(m) \/ Daemon!Post(m) \/ Daemon!Poll(m) \/ Daemon!Done(m)
      PROVE  StartIsAlone'
  <2>1. ASSUME NEW x \in Managers \ {m} PROVE AloneIs(x) BY <1>3, OthersStay, BystanderAlone
  <2>2. \A b \in Daemon!Boots : Daemon!Running(b)' => Daemon!Running(b)
    BY <1>3, RunningStep DEF Safely
  <2>3. AloneIs(m)
    <3>1. CASE Daemon!ReadRecord(m)
      <4>1. /\ managers'[m].command = managers[m].command
            /\ managers'[m].seen = record
            /\ managers'[m].pc = IF record = None THEN "scan" ELSE "probe"
        BY <3>1 DEF Daemon!ReadRecord, Daemon!See, Typed, Daemon!TypeOK
      <4>2. ASSUME managers[m].command = "start", NEW b \in Daemon!Boots,
            Daemon!Running(b)' PROVE record = b
        BY <2>2, <3>1, <4>2, ReaderKnows DEF Daemon!ReadRecord
      <4>3. \A b \in Daemon!Boots : b # None BY DEF Typed, Daemon!DaemonAssumption
      <4> QED BY <4>1, <4>2, <4>3
    <3> USE DEF Typed, Daemon!TypeOK
    <3>2. CASE Daemon!Clean(m)
      <4> USE <3>2 DEF Daemon!Clean
      <4>1. /\ managers[m].command = "start" => managers'[m].pc \in {"scan", "unlink"}
            /\ managers'[m].command = managers[m].command
        BY DEF Daemon!Go, Daemon!AfterClean
      <4>2. Gone(managers[m].seen) BY DEF SeenIsReal
      <4>3. managers[m].command = "start" => \A b \in Daemon!Boots : ~Daemon!Running(b)
        BY <4>2 DEF StartIsAlone, Daemon!Running, Gone
      <4> QED BY <2>2, <4>1, <4>3
    <3>3. CASE Daemon!Unlink(m) BY <3>3 DEF Daemon!Unlink, NoUnlink
    <3>4. CASE Daemon!ProbeRecord(m)
      <4>1. \/ managers'[m].pc = "idle" \/ managers'[m].pc = "post"
            \/ managers'[m].command = "adopt"
            \/ /\ managers'[m].pc = "clean" /\ managers[m].pc = "probe"
               /\ managers'[m].command = managers[m].command
               /\ managers'[m].seen = managers[m].seen
        BY <3>4 DEF Daemon!ProbeRecord, Daemon!Go, Daemon!Release, Daemon!Idle
      <4> QED BY <2>2, <4>1 DEF StartIsAlone
    <3>5. CASE Daemon!Scan(m) \/ Daemon!LockPort(m)
      <4>1. \/ managers'[m].pc = "idle" \/ managers'[m].command # "start"
            \/ /\ managers[m].pc \in {"scan", "port"} /\ managers[m].command = "start"
               /\ managers'[m].pc \in {"port", "spawn"}
        <5>1. CASE Daemon!Scan(m)
          BY <5>1 DEF Daemon!Scan, Daemon!Go, Daemon!Release, Daemon!Idle
        <5>2. CASE Daemon!LockPort(m)
          BY <5>2 DEF Daemon!LockPort, StartIsLocked, Daemon!Go, Daemon!Release, Daemon!Idle
        <5> QED BY <3>5, <5>1, <5>2
      <4> QED BY <2>2, <4>1 DEF StartIsAlone
    <3>6. CASE Daemon!AwaitHello(m)
      BY <3>6 DEF Daemon!AwaitHello, Daemon!Fail, Daemon!Release, Daemon!Idle
    <3>7. CASE \/ Daemon!BeginStart(m) \/ Daemon!BeginOther(m) \/ Daemon!StartAgain(m)
               \/ Daemon!Post(m) \/ Daemon!Done(m)
      <4>1. managers'[m].pc \in {"idle", "read", "poll"}
        <5> USE DEF Daemon!Release, Daemon!Idle
        <5>1. CASE Daemon!BeginStart(m) BY <5>1 DEF Daemon!BeginStart
        <5>4. CASE Daemon!BeginOther(m) BY <5>4 DEF Daemon!BeginOther
        <5>5. CASE Daemon!Done(m) BY <5>5 DEF Daemon!Done
        <5>2. CASE Daemon!StartAgain(m) BY <5>2 DEF Daemon!StartAgain
        <5>3. CASE Daemon!Post(m) BY <5>3 DEF Daemon!Post, Daemon!Go
        <5> QED BY <3>7, <5>1, <5>2, <5>3, <5>4, <5>5
      <4> QED BY <4>1
    <3>8. CASE Daemon!Poll(m)
      <4>1. managers'[m].pc = "idle" \/ managers'[m].command # "start"
        BY <3>8 DEF Daemon!Poll, StartIsLocked, Daemon!Go, Daemon!Release, Daemon!Idle
      <4> QED BY <4>1, <2>2
    <3> QED BY <1>3, <3>1, <3>2, <3>3, <3>4, <3>5, <3>6, <3>7, <3>8
  <2> QED BY <1>0, <2>1, <2>3
<1> QED BY <1>1, <1>2, <1>3, DaemonsAct DEF Safely, Daemon!Next, Daemon!vars

-------------------------------------------------------------------------------
(* The invariants, and what follows from them. *)
LEMMA UnkilledStep ==
    ASSUME Typed, Shape, Unkilled, [Daemon!Next]_Daemon!vars
    PROVE  Unkilled'
<1> SUFFICES ASSUME windows', kills' = MaxKills PROVE Alone' BY DEF Unkilled
<1>1. ASSUME NEW m \in Managers, Daemon!Kill(m) PROVE FALSE
  <2>1. kills' = kills - 1 /\ kills \in 0 .. MaxKills /\ MaxKills \in Nat
    BY <1>1 DEF Daemon!Kill, Typed, Daemon!TypeOK, Daemon!DaemonAssumption
  <2> QED BY <2>1
<1>2. windows /\ kills = MaxKills
  BY ZenonT(60), <1>1 DEF Daemon!Next, Daemon!vars, Daemon!BeginStart, Daemon!BeginOther,
     Daemon!ReadRecord, Daemon!ProbeRecord, Daemon!Clean, Daemon!Unlink, Daemon!Scan,
     Daemon!StartAgain, Daemon!LockPort, Daemon!Spawn, Daemon!AwaitHello, Daemon!Post,
     Daemon!Poll, Daemon!Done, Daemon!Bind, Daemon!WriteRecord, Daemon!Serve,
     Daemon!CloseListener, Daemon!Drained,
     Daemon!DropGuard, Daemon!DropUnlink, Daemon!End
<1>3. Whole /\ Safely BY <1>1, <1>2 DEF Whole, Safely, Unkilled
<1> QED BY <1>2, <1>3, OneStep, KnownStep, AloneStep DEF Alone

LEMMA Inductive ==
    ASSUME Typed, Shape, Unkilled, [Daemon!Next]_Daemon!vars
    PROVE  Typed' /\ Shape' /\ Unkilled'
<1>1. Typed' /\ Unkilled' BY TypeStep, UnkilledStep
<1>2. PortsAreOwned' /\ RecordIsReal' BY DaemonTurns, PortsStep, RecordStep DEF Shape
<1>3. SeenIsReal' /\ NoUnlink' /\ StartIsLocked'
  BY SeenStep, NoUnlinkStep, LockedStep DEF Shape
<1> QED BY <1>1, <1>2, <1>3 DEF Shape

(* The record that goes is of a daemon that is over. *)
LEMMA KeptStep ==
    ASSUME Typed, Shape, [Daemon!Next]_Daemon!vars, windows, record # None, record' = None
    PROVE  daemons'[record].phase \in {"draining", "guard", "unlink", "dead"}
<1>1. PICK b \in Daemon!Boots : record = b BY DEF Typed, Daemon!TypeOK
<1>2. b # None /\ \A c \in Daemon!Boots : record' # c BY DEF Typed, Daemon!DaemonAssumption
<1> QED BY <1>1, <1>2, RecordKept DEF Shape, Gone

(* Every variable keeps the values it is meant for, a daemon that listens has its port to
   itself, the record and whatever a manager has read of it name a daemon that has bound,
   and one start runs at a time (the locks of daemon_manager.rs:630 and the bind of
   main.rs). *)
THEOREM LifecycleHolds == Daemon!DaemonAssumption => (Daemon!Spec => [](Daemon!TypeOK /\ Shape))
<1> SUFFICES ASSUME Daemon!DaemonAssumption PROVE Daemon!Spec => [](Daemon!TypeOK /\ Shape)
  OBVIOUS
<1>1. Daemon!Init => Typed /\ Shape /\ Unkilled BY InitType, InitShape
<1>2. (Typed /\ Shape /\ Unkilled) /\ [Daemon!Next]_Daemon!vars => (Typed /\ Shape /\ Unkilled)'
  BY Inductive
<1>3. Typed /\ Shape /\ Unkilled => Daemon!TypeOK /\ Shape BY DEF Typed
<1> QED BY <1>1, <1>2, <1>3, PTL DEF Daemon!Spec

(* As long as no manager is killed a project never has two daemons that take connections or
   will, and its record is never deleted under the one that does, however many managers
   start, stop and restart it at once and whatever daemons crash, drain or are slow
   (daemon_manager.rs:494, 630 and 640; the drain of main.rs:1174). *)
THEOREM OneDaemonIsKnown == Daemon!DaemonAssumption => (Daemon!Spec => DaemonIsKnown)
<1> SUFFICES ASSUME Daemon!DaemonAssumption PROVE Daemon!Spec => DaemonIsKnown OBVIOUS
<1> DEFINE Inv == Typed /\ Shape /\ Unkilled
           Kept == windows /\ record # None /\ record' = None =>
                      daemons'[record].phase \in {"draining", "guard", "unlink", "dead"}
<1>1. Daemon!Init => Inv BY InitType, InitShape
<1>2. Inv /\ [Daemon!Next]_Daemon!vars => Inv' BY Inductive
<1>3. Inv => Daemon!OneDaemon BY DEF Unkilled, Alone, Daemon!OneDaemon
<1>4. Inv /\ [Daemon!Next]_Daemon!vars => [Kept]_Daemon!vars BY KeptStep
<1>5. Daemon!Spec => []Daemon!OneDaemon /\ [][Kept]_Daemon!vars
  <2> HIDE DEF Inv, Kept
  <2> QED BY <1>1, <1>2, <1>3, <1>4, PTL DEF Daemon!Spec
<1> QED BY <1>5 DEF DaemonIsKnown, Daemon!LiveRecordKept

-------------------------------------------------------------------------------
(* The store of artifacts. *)

Leases   == Store!Leases
Entries  == Store!Entries
Contents == Store!Contents

(* An id is drawn once, and is never of a lease and of an artifact. *)
DrawnOnce ==
    \A i \in Ids : /\ leases[i] # None => i \in used /\ artifacts[i] = None
                   /\ artifacts[i] # None => i \in used

(* A staging file begins with what its lease has acknowledged. *)
Begins(content, hash) ==
    /\ Len(hash) <= Len(content)
    /\ \A k \in 1 .. Len(hash) : content[k] = hash[k]

StagedIsAcknowledged ==
    \A i \in Ids : leases[i] # None /\ staging[i] # None =>
        Begins(staging[i].content, leases[i].hash)

(* Every number that was given out is below the next one. *)
NumbersAreOver == \A i \in Store!Registered : artifacts[i].access < nextAccess

StoreInv ==
    /\ Store!StoreAssumption /\ Store!TypeOK
    /\ DrawnOnce /\ StagedIsAcknowledged /\ NumbersAreOver
    /\ Store!PublishedIsWhole /\ Store!UsesAreOrdered

LEMMA SizesAreSizes ==
    /\ \A S : Store!IsFiniteSet(S) = IsFiniteSet(S)
    /\ \A S : Store!Cardinality(S) = Cardinality(S)
<1>1. \A S : Store!IsFiniteSet(S) = IsFiniteSet(S) BY DEF Store!IsFiniteSet, IsFiniteSet
<1>2. \A S : Store!Cardinality(S) = Cardinality(S)
  BY <1>1, Zenon DEF Store!Cardinality, Cardinality
<1> QED BY <1>1, <1>2

(* Whether or not they are renumbered, the uses keep their order, and the next number is
   above all of them. *)
LEMMA AllocateKeepsOrder ==
    ASSUME NEW f \in [Ids -> Entries \cup {None}], None \notin Entries,
           IsFiniteSet(Store!Order(f)), nextAccess \in Nat,
           \A i \in Store!Order(f) : f[i].access < nextAccess,
           NEW alloc, alloc = Store!Allocate(f)
    PROVE  /\ alloc[1] \in [Ids -> Entries \cup {None}] /\ alloc[2] \in Nat
           /\ Store!Order(alloc[1]) = Store!Order(f)
           /\ \A i \in Store!Order(f) : /\ alloc[1][i].hash = f[i].hash
                                        /\ alloc[1][i].access < alloc[2]
           /\ \A i, j \in Store!Order(f) :
                 f[i].access < f[j].access => alloc[1][i].access < alloc[1][j].access
<1> DEFINE O == Store!Order(f)
           Below(i) == {j \in O : f[j].access < f[i].access}
<1>1. O = {i \in Ids : f[i] # None} /\ \A i \in O : i \in Ids /\ f[i] \in Entries
  BY DEF Store!Order
<1>2. CASE nextAccess # MaxSequence
  <2>1. alloc = <<f, nextAccess>> BY <1>2 DEF Store!Allocate
  <2> QED BY <2>1, <1>1
<1>3. CASE nextAccess = MaxSequence
  <2> DEFINE g == [i \in Ids |-> IF f[i] = None THEN None ELSE
                      [f[i] EXCEPT !.access = Cardinality(Below(i))]]
  <2>1. alloc = <<g, Cardinality(O)>>
    BY <1>3, SizesAreSizes DEF Store!Allocate, Store!Renumbered, Store!Order
  <2>2. \A i \in O : IsFiniteSet(Below(i)) /\ Cardinality(Below(i)) \in Nat
    BY FS_Subset, FS_CardinalityType
  <2>3. Cardinality(O) \in Nat BY FS_CardinalityType
  <2>4. \A i \in O : Cardinality(Below(i)) < Cardinality(O)
    <3> TAKE i \in O
    <3>1. i \notin Below(i) BY <1>1 DEF Store!Entries, Entries
    <3>2. Below(i) \subseteq O /\ Below(i) # O BY <3>1
    <3>3. Cardinality(Below(i)) <= Cardinality(O) /\ Cardinality(Below(i)) # Cardinality(O)
      BY <3>2, FS_Subset
    <3> HIDE DEF Below, O
    <3> QED BY <3>3, <2>2, <2>3
  <2>5. \A i, j \in O : f[i].access < f[j].access =>
          Cardinality(Below(i)) < Cardinality(Below(j))
    <3> TAKE i, j \in O
    <3> HAVE f[i].access < f[j].access
    <3>1. \A k \in O : f[k].access \in Nat BY <1>1 DEF Store!Entries, Entries
    <3>2. Below(i) \subseteq Below(j) BY <3>1
    <3>3. i \in Below(j) /\ i \notin Below(i) BY <3>1
    <3>4. Cardinality(Below(i)) <= Cardinality(Below(j))
            /\ Cardinality(Below(i)) # Cardinality(Below(j))
      BY <3>2, <3>3, <2>2, FS_Subset
    <3> QED BY SMTT(60), <3>4, <2>2
  <2>6. \A i \in O : g[i] = [f[i] EXCEPT !.access = Cardinality(Below(i))] BY <1>1
  <2>7. \A i \in O : g[i] \in Entries /\ g[i].hash = f[i].hash
          /\ g[i].access = Cardinality(Below(i))
    <3> HIDE DEF g, Below, O
    <3> QED BY ZenonT(60), <1>1, <2>2, <2>6 DEF Entries, Store!Entries
  <2>8. \A i \in Ids \ O : g[i] = None BY <1>1
  <2>9. g \in [Ids -> Entries \cup {None}] /\ Store!Order(g) = O
    <3>1. \A i \in Ids : g[i] \in Entries \cup {None} BY <2>7, <2>8
    <3>2. \A i \in Ids : g[i] # None <=> i \in O BY <2>7, <2>8
    <3> QED BY <1>1, <3>1, <3>2 DEF Store!Order
  <2> HIDE DEF g, Below
  <2> QED BY <2>1, <2>3, <2>4, <2>5, <2>7, <2>9
<1> QED BY <1>2, <1>3

-------------------------------------------------------------------------------
(* Sums. *)

(* A sum over a set takes one element after the other: h has the sums over the subsets of
   S. *)
Any(s) == CHOOSE x \in s : TRUE
First(f, h, s) == IF s = {} THEN 0 ELSE f[Any(s)] + h[s \ {Any(s)}]
Sums(f, S, h) == h = [s \in SUBSET S |-> First(f, h, s)]
Table(f, S) == CHOOSE h : Sums(f, S, h)
Sum(f, S)   == Table(f, S)[S]

(* What does not hold of every finite set fails for a smallest one. *)
LEMMA SmallestSet ==
    ASSUME NEW S, NEW T, T \subseteq FiniteSubsetsOf(S), T # {}
    PROVE  \E m \in T : \A n \in T : n \subseteq m => n = m
<1>1. PICK m \in T : \A n \in T : <<n, m>> \notin StrictSubsetOrdering(S)
  BY FS_StrictSubsetOrderingWellFounded, WFMin
<1>2. \A n \in T : n \subseteq S BY DEF FiniteSubsetsOf
<1> QED BY <1>1, <1>2 DEF StrictSubsetOrdering

LEMMA AnyIsIn == \A s : s # {} => Any(s) \in s
BY DEF Any

LEMMA SumsUnfold ==
    \A f, S, h, s : Sums(f, S, h) /\ s \in SUBSET S => h[s] = First(f, h, s)
BY DEF Sums

LEMMA TablesAgree ==
    ASSUME NEW f, NEW S, NEW U, NEW g, NEW h, Sums(f, S, g), Sums(f, U, h),
           NEW s, IsFiniteSet(s), s \subseteq S, s \subseteq U
    PROVE  g[s] = h[s]
<1> SUFFICES ASSUME g[s] # h[s] PROVE FALSE OBVIOUS
<1> DEFINE T == {t \in FiniteSubsetsOf(s) : g[t] # h[t]}
<1>1. s \in T BY DEF FiniteSubsetsOf
<1>2. PICK m \in T : \A n \in T : n \subseteq m => n = m
  <2> HIDE DEF T
  <2>1. T \subseteq FiniteSubsetsOf(s) BY DEF T
  <2> QED BY <1>1, <2>1, SmallestSet
<1>3. /\ m \in SUBSET s /\ IsFiniteSet(m)
      /\ g[m] = IF m = {} THEN 0 ELSE f[Any(m)] + g[m \ {Any(m)}]
      /\ h[m] = IF m = {} THEN 0 ELSE f[Any(m)] + h[m \ {Any(m)}]
  <2>1. m \in SUBSET s /\ IsFiniteSet(m) BY DEF FiniteSubsetsOf
  <2>2. m \in SUBSET S /\ m \in SUBSET U BY <2>1
  <2> HIDE DEF T
  <2>3. Sums(f, S, g) /\ Sums(f, U, h) OBVIOUS
  <2>4. g[m] = First(f, g, m) /\ h[m] = First(f, h, m) BY <2>2, <2>3, SumsUnfold
  <2> QED BY <2>1, <2>4 DEF First
<1>4. m # {} /\ Any(m) \in m BY <1>3, AnyIsIn
<1>5. m \ {Any(m)} \in FiniteSubsetsOf(s) BY <1>3, FS_Subset DEF FiniteSubsetsOf
<1> QED BY <1>2, <1>3, <1>4, <1>5

LEMMA TablesExist ==
    ASSUME NEW f, NEW S, IsFiniteSet(S)
    PROVE  Sums(f, S, Table(f, S))
<1> SUFFICES ASSUME ~ Sums(f, S, Table(f, S)) PROVE FALSE OBVIOUS
<1> DEFINE T == {t \in FiniteSubsetsOf(S) : ~ Sums(f, t, Table(f, t))}
<1>1. S \in T BY DEF FiniteSubsetsOf
<1>2. PICK m \in T : \A n \in T : n \subseteq m => n = m
  <2> HIDE DEF T
  <2>1. T \subseteq FiniteSubsetsOf(S) BY DEF T
  <2> QED BY <1>1, <2>1, SmallestSet
<1>3. m \subseteq S /\ IsFiniteSet(m) BY DEF FiniteSubsetsOf
<1>4. \A n \in SUBSET m : IsFiniteSet(n) /\ (n # m => Sums(f, n, Table(f, n)))
  BY <1>2, <1>3, FS_Subset DEF FiniteSubsetsOf
<1> DEFINE v(s) == IF s = {} THEN 0 ELSE f[Any(s)] + Sum(f, s \ {Any(s)})
           h == [s \in SUBSET m |-> v(s)]
<1>5. \A n \in SUBSET m : n # m => h[n] = Sum(f, n)
  <2> TAKE n \in SUBSET m
  <2> HAVE n # m
  <2>1. Sums(f, n, Table(f, n)) BY <1>4
  <2>2. Sum(f, n) = IF n = {} THEN 0 ELSE f[Any(n)] + Table(f, n)[n \ {Any(n)}]
    BY <2>1, SumsUnfold DEF Sum, First
  <2>3. n # {} => Table(f, n)[n \ {Any(n)}] = Sum(f, n \ {Any(n)})
    <3> HAVE n # {}
    <3> DEFINE k == n \ {Any(n)}
    <3>1. k \subseteq n /\ k # m /\ k \in SUBSET m OBVIOUS
    <3>2. Sums(f, k, Table(f, k)) /\ IsFiniteSet(k) BY <3>1, <1>4
    <3> HIDE DEF k
    <3>3. Table(f, n)[k] = Table(f, k)[k] BY <2>1, <3>1, <3>2, TablesAgree
    <3> QED BY <3>3 DEF k, Sum
  <2>4. h[n] = v(n) OBVIOUS
  <2> QED BY <2>2, <2>3, <2>4
<1>6. \A s \in SUBSET m :
         s # {} => s \ {Any(s)} \in SUBSET m /\ s \ {Any(s)} # m
  BY AnyIsIn
<1>7. \A s \in SUBSET m : v(s) = IF s = {} THEN 0 ELSE f[Any(s)] + h[s \ {Any(s)}]
  <2> HIDE DEF h
  <2> QED BY <1>5, <1>6
<1>8. h = [s \in SUBSET m |-> IF s = {} THEN 0 ELSE f[Any(s)] + h[s \ {Any(s)}]]
  <2> HIDE DEF v
  <2>1. h = [s \in SUBSET m |-> v(s)] OBVIOUS
  <2> HIDE DEF h
  <2> QED BY <1>7, <2>1
<1>9. Sums(f, m, h)
  <2> HIDE DEF h
  <2> QED BY <1>8 DEF Sums, First
<1>10. Sums(f, m, Table(f, m))
  <2> HIDE DEF h
  <2> QED BY <1>9, Zenon DEF Table
<1> QED BY <1>10

LEMMA SumOfNothing == \A f : Sum(f, {}) = 0
<1> SUFFICES ASSUME NEW f PROVE Sum(f, {}) = 0 OBVIOUS
<1>1. Sums(f, {}, Table(f, {})) BY TablesExist, FS_EmptySet
<1> QED BY <1>1, SumsUnfold DEF Sum, First

LEMMA SumUnfolds ==
    ASSUME NEW f, NEW S, IsFiniteSet(S), S # {}
    PROVE  Any(S) \in S /\ Sum(f, S) = f[Any(S)] + Sum(f, S \ {Any(S)})
<1> DEFINE R == S \ {Any(S)}
<1>1. Any(S) \in S BY AnyIsIn
<1>2. IsFiniteSet(R) BY FS_Subset
<1>3. Sums(f, S, Table(f, S)) /\ Sums(f, R, Table(f, R)) BY <1>2, TablesExist
<1>4. Sum(f, S) = f[Any(S)] + Table(f, S)[R]
  <2>1. Sum(f, S) = First(f, Table(f, S), S) BY <1>3, SumsUnfold DEF Sum
  <2> QED BY <2>1, Zenon DEF First
<1>5. Table(f, S)[R] = Table(f, R)[R]
  <2>1. R \subseteq S OBVIOUS
  <2> HIDE DEF R
  <2> QED BY <1>2, <1>3, <2>1, TablesAgree
<1> QED BY <1>1, <1>4, <1>5 DEF Sum

LEMMA SumIsNat ==
    ASSUME NEW f, NEW S, IsFiniteSet(S), \A x \in S : f[x] \in Nat
    PROVE  Sum(f, S) \in Nat
<1> SUFFICES ASSUME Sum(f, S) \notin Nat PROVE FALSE OBVIOUS
<1> DEFINE T == {t \in FiniteSubsetsOf(S) : Sum(f, t) \notin Nat}
<1>1. S \in T /\ T \subseteq FiniteSubsetsOf(S) BY DEF FiniteSubsetsOf
<1>2. PICK m \in T : \A n \in T : n \subseteq m => n = m
  <2> HIDE DEF T
  <2> QED BY <1>1, SmallestSet
<1>3. m \subseteq S /\ IsFiniteSet(m) /\ m # {} BY SumOfNothing DEF FiniteSubsetsOf
<1>4. Any(m) \in m /\ Sum(f, m) = f[Any(m)] + Sum(f, m \ {Any(m)}) BY <1>3, SumUnfolds
<1>5. m \ {Any(m)} \in FiniteSubsetsOf(S) BY <1>3, FS_Subset DEF FiniteSubsetsOf
<1>6. Sum(f, m \ {Any(m)}) \in Nat BY <1>2, <1>4, <1>5
<1> QED BY <1>3, <1>4, <1>6

LEMMA SumsAreEqual ==
    ASSUME NEW f, NEW g, NEW S, IsFiniteSet(S), \A x \in S : f[x] = g[x]
    PROVE  Sum(f, S) = Sum(g, S)
<1> SUFFICES ASSUME Sum(f, S) # Sum(g, S) PROVE FALSE OBVIOUS
<1> DEFINE T == {t \in FiniteSubsetsOf(S) : Sum(f, t) # Sum(g, t)}
<1>1. S \in T /\ T \subseteq FiniteSubsetsOf(S) BY DEF FiniteSubsetsOf
<1>2. PICK m \in T : \A n \in T : n \subseteq m => n = m
  <2> HIDE DEF T
  <2> QED BY <1>1, SmallestSet
<1>3. m \subseteq S /\ IsFiniteSet(m) /\ m # {} BY SumOfNothing DEF FiniteSubsetsOf
<1>4. /\ Any(m) \in m /\ Sum(f, m) = f[Any(m)] + Sum(f, m \ {Any(m)})
      /\ Sum(g, m) = g[Any(m)] + Sum(g, m \ {Any(m)})
  BY <1>3, SumUnfolds
<1>5. m \ {Any(m)} \in FiniteSubsetsOf(S) BY <1>3, FS_Subset DEF FiniteSubsetsOf
<1>6. Sum(f, m \ {Any(m)}) = Sum(g, m \ {Any(m)}) BY <1>2, <1>4, <1>5
<1> QED BY <1>3, <1>4, <1>6

(* Whichever element is taken out first, the sum is the same. *)
LEMMA SumWithout ==
    ASSUME NEW f, NEW S, IsFiniteSet(S), \A x \in S : f[x] \in Nat, NEW x \in S
    PROVE  Sum(f, S) = f[x] + Sum(f, S \ {x})
<1> SUFFICES ASSUME Sum(f, S) # f[x] + Sum(f, S \ {x}) PROVE FALSE OBVIOUS
<1> DEFINE T == {t \in FiniteSubsetsOf(S) : \E y \in t : Sum(f, t) # f[y] + Sum(f, t \ {y})}
<1>1. S \in T /\ T \subseteq FiniteSubsetsOf(S) BY DEF FiniteSubsetsOf
<1>2. PICK m \in T : \A n \in T : n \subseteq m => n = m
  <2> HIDE DEF T
  <2> QED BY <1>1, SmallestSet
<1>3. PICK y \in m : Sum(f, m) # f[y] + Sum(f, m \ {y}) OBVIOUS
<1>4. m \subseteq S /\ IsFiniteSet(m) /\ m # {} BY <1>3 DEF FiniteSubsetsOf
<1> DEFINE a == Any(m)
<1>5. a \in m /\ Sum(f, m) = f[a] + Sum(f, m \ {a}) BY <1>4, SumUnfolds
<1> HIDE DEF a
<1>6. a # y BY <1>3, <1>5
<1>7. \A z \in m : m \ {z} \in FiniteSubsetsOf(S) /\ m \ {z} # m /\ IsFiniteSet(m \ {z})
  BY <1>4, FS_Subset DEF FiniteSubsetsOf
<1>8. \A z \in m : m \ {z} \notin T BY <1>2, <1>7
<1>9. /\ Sum(f, m \ {a}) = f[y] + Sum(f, (m \ {a}) \ {y})
      /\ Sum(f, m \ {y}) = f[a] + Sum(f, (m \ {y}) \ {a})
  BY <1>3, <1>5, <1>6, <1>7, <1>8
<1>10. (m \ {a}) \ {y} = (m \ {y}) \ {a} OBVIOUS
<1>11. f[a] \in Nat /\ f[y] \in Nat BY <1>3, <1>4, <1>5
<1>12. Sum(f, (m \ {a}) \ {y}) \in Nat
  <2>1. IsFiniteSet((m \ {a}) \ {y}) /\ (m \ {a}) \ {y} \subseteq S BY <1>4, FS_Subset
  <2> QED BY <2>1, SumIsNat
<1>13. \A j, k, n \in Nat : j + (k + n) = k + (j + n) OBVIOUS
<1>14. Sum(f, m) = f[a] + (f[y] + Sum(f, (m \ {a}) \ {y})) BY <1>5, <1>9, Zenon
<1>15. f[y] + Sum(f, m \ {y}) = f[y] + (f[a] + Sum(f, (m \ {a}) \ {y}))
  BY <1>9, <1>10, Zenon
<1> QED BY <1>3, <1>11, <1>12, <1>13, <1>14, <1>15, Zenon

LEMMA SumSplits ==
    ASSUME NEW f, NEW S, IsFiniteSet(S), \A x \in S : f[x] \in Nat, NEW U \in SUBSET S
    PROVE  Sum(f, S) = Sum(f, U) + Sum(f, S \ U)
<1> SUFFICES ASSUME Sum(f, S) # Sum(f, U) + Sum(f, S \ U) PROVE FALSE OBVIOUS
<1> DEFINE T == {t \in FiniteSubsetsOf(S) : Sum(f, S) # Sum(f, t) + Sum(f, S \ t)}
<1>1. U \in T /\ T \subseteq FiniteSubsetsOf(S) BY FS_Subset DEF FiniteSubsetsOf
<1>2. PICK m \in T : \A n \in T : n \subseteq m => n = m
  <2> HIDE DEF T
  <2> QED BY <1>1, SmallestSet
<1>3. m \subseteq S /\ IsFiniteSet(m) /\ Sum(f, S) # Sum(f, m) + Sum(f, S \ m)
  BY DEF FiniteSubsetsOf
<1>4. m # {}
  <2>1. S \ {} = S /\ Sum(f, S) \in Nat BY SumIsNat
  <2> QED BY <2>1, <1>3, SumOfNothing
<1> DEFINE a == Any(m)
           r == m \ {a}
<1>5. a \in m /\ Sum(f, m) = f[a] + Sum(f, r) BY <1>3, <1>4, SumUnfolds
<1> HIDE DEF a
<1>6. r \in FiniteSubsetsOf(S) /\ r # m /\ r \subseteq m
  BY <1>3, <1>5, FS_Subset DEF FiniteSubsetsOf
<1>7. Sum(f, S) = Sum(f, r) + Sum(f, S \ r) BY <1>2, <1>6
<1>8. Sum(f, S \ r) = f[a] + Sum(f, (S \ r) \ {a})
  <2>1. IsFiniteSet(S \ r) /\ a \in S \ r BY <1>3, <1>5, FS_Subset
  <2> HIDE DEF r
  <2> QED BY <2>1, SumWithout
<1>9. (S \ r) \ {a} = S \ m BY <1>3, <1>5
<1>10. f[a] \in Nat /\ Sum(f, r) \in Nat /\ Sum(f, S \ m) \in Nat
  <2>1. IsFiniteSet(r) /\ r \subseteq S /\ IsFiniteSet(S \ m) /\ S \ m \subseteq S /\ a \in S
    BY <1>3, <1>5, FS_Subset
  <2> HIDE DEF r
  <2> QED BY <2>1, SumIsNat
<1> HIDE DEF r
<1>11. \A j, k, n \in Nat : k + (j + n) = (j + k) + n OBVIOUS
<1>12. Sum(f, S) = Sum(f, r) + (f[a] + Sum(f, S \ m)) BY <1>7, <1>8, <1>9, Zenon
<1>13. Sum(f, m) + Sum(f, S \ m) = (f[a] + Sum(f, r)) + Sum(f, S \ m) BY <1>5, Zenon
<1> QED BY <1>3, <1>10, <1>11, <1>12, <1>13, Zenon

-------------------------------------------------------------------------------
(* How the registry changes. *)

Loses(S) ==
    /\ artifacts' = Store!Forget(artifacts, S) /\ later' = Store!Without(S)
    /\ nextAccess' = nextAccess

(* What is gone goes, and the artifact i becomes the one used last. *)
Gains(i, gone, e) ==
    LET alloc == Store!Allocate(Store!Forget(artifacts, gone))
    IN /\ artifacts' = [alloc[1] EXCEPT ![i] = e]
       /\ e \in Entries /\ e.access = alloc[2]
       /\ later' = Store!Used(i, gone)
       /\ nextAccess' = alloc[2] + 1

RegistryOK ==
    /\ artifacts \in [Ids -> Entries \cup {None}]
    /\ nextAccess \in Nat /\ later \subseteq Ids \X Ids
    /\ IsFiniteSet(Store!Registered)
    /\ NumbersAreOver /\ Store!UsesAreOrdered

LEMMA RegistryLoses ==
    ASSUME RegistryOK, None \notin Entries, NEW S, Loses(S)
    PROVE  /\ RegistryOK'
           /\ \A j \in Ids : artifacts'[j] = IF j \in S THEN None ELSE artifacts[j]
<1> USE DEF Loses, RegistryOK
<1>1. \A j \in Ids : artifacts'[j] = IF j \in S THEN None ELSE artifacts[j]
  BY DEF Store!Forget
<1>2. artifacts' \in [Ids -> Entries \cup {None}] BY <1>1 DEF Store!Forget
<1>3. Store!Registered' = Store!Registered \ S BY <1>1 DEF Store!Registered
<1>4. IsFiniteSet(Store!Registered') BY <1>3, FS_Subset
<1>5. NumbersAreOver' BY <1>1, <1>3 DEF NumbersAreOver, Store!Registered
<1>6. \A u \in later' : u \in later /\ u[1] \notin S /\ u[2] \notin S BY DEF Store!Without
<1>7. \A i, j \in Store!Registered' :
          i # j => <<i, j>> \in later' \/ <<j, i>> \in later'
  BY <1>3 DEF Store!Without, Store!UsesAreOrdered
<1>8. ASSUME NEW u \in later'
      PROVE  /\ {u[1], u[2]} \subseteq Store!Registered'
             /\ artifacts'[u[1]].access < artifacts'[u[2]].access
  <2>1. /\ {u[1], u[2]} \subseteq Store!Registered
        /\ artifacts[u[1]].access < artifacts[u[2]].access
    BY <1>6, <1>8 DEF Store!UsesAreOrdered
  <2>2. artifacts'[u[1]] = artifacts[u[1]] /\ artifacts'[u[2]] = artifacts[u[2]]
    BY <2>1, <1>1, <1>6, <1>8 DEF Store!Registered
  <2> QED BY <2>1, <2>2, <1>3, <1>6, <1>8
<1>9. Store!UsesAreOrdered' BY <1>7, <1>8 DEF Store!UsesAreOrdered
<1> QED BY <1>1, <1>2, <1>4, <1>5, <1>6, <1>9

LEMMA RegistryGains ==
    ASSUME RegistryOK, None \notin Entries, NEW i \in Ids, NEW gone, NEW e,
           Gains(i, gone, e)
    PROVE  /\ RegistryOK'
           /\ artifacts'[i] = e
           /\ \A j \in Ids : j # i =>
                 /\ artifacts'[j] # None <=> artifacts[j] # None /\ j \notin gone
                 /\ artifacts'[j] # None => artifacts'[j].hash = artifacts[j].hash
<1> DEFINE f     == Store!Forget(artifacts, gone)
           alloc == Store!Allocate(f)
<1>1. f \in [Ids -> Entries \cup {None}]
      /\ \A j \in Ids : f[j] = IF j \in gone THEN None ELSE artifacts[j]
  BY DEF Store!Forget, RegistryOK
<1>2. Store!Order(f) = Store!Registered \ gone BY <1>1 DEF Store!Order, Store!Registered
<1>3. IsFiniteSet(Store!Order(f)) BY <1>2, FS_Subset DEF RegistryOK
<1>4. \A j \in Store!Order(f) : f[j].access < nextAccess
  BY <1>1, <1>2 DEF RegistryOK, NumbersAreOver, Store!Registered
<1>5. /\ alloc[1] \in [Ids -> Entries \cup {None}] /\ alloc[2] \in Nat
      /\ Store!Order(alloc[1]) = Store!Order(f)
      /\ \A j \in Store!Order(f) : /\ alloc[1][j].hash = f[j].hash
                                   /\ alloc[1][j].access < alloc[2]
      /\ \A j, k \in Store!Order(f) :
            f[j].access < f[k].access => alloc[1][j].access < alloc[1][k].access
  <2> HIDE DEF f
  <2> QED BY <1>1, <1>3, <1>4, AllocateKeepsOrder DEF RegistryOK
<1> HIDE DEF f
<1>6. PICK g \in [Ids -> Entries \cup {None}], n \in Nat :
         /\ g = alloc[1] /\ n = alloc[2]
         /\ Store!Order(g) = Store!Order(f)
         /\ \A j \in Store!Order(f) : g[j].hash = f[j].hash /\ g[j].access < n
         /\ \A j, k \in Store!Order(f) :
               f[j].access < f[k].access => g[j].access < g[k].access
  <2> HIDE DEF alloc
  <2> QED BY <1>5, Zenon
<1>7. /\ artifacts' = [g EXCEPT ![i] = e] /\ e \in Entries /\ e.access = n
      /\ later' = Store!Used(i, gone) /\ nextAccess' = n + 1
  BY <1>6, Zenon DEF Gains, f
<1> HIDE DEF alloc
<1>8. /\ artifacts' \in [Ids -> Entries \cup {None}] /\ artifacts'[i] = e
      /\ \A j \in Ids : j # i => artifacts'[j] = g[j]
  BY <1>6, <1>7
<1>9. Store!Registered' = Store!Order(f) \cup {i}
  <2>1. \A j \in Ids : artifacts'[j] # None <=> j \in Store!Order(f) \cup {i}
    BY <1>6, <1>7, <1>8 DEF Store!Order
  <2>2. Store!Order(f) \subseteq Ids BY DEF Store!Order
  <2> QED BY <2>1, <2>2 DEF Store!Registered
<1>10. IsFiniteSet(Store!Registered') BY <1>3, <1>9, FS_AddElement
<1>11. \A j \in Store!Order(f) : j \in Ids /\ j \notin gone /\ artifacts[j] # None
         /\ f[j] = artifacts[j]
  BY <1>1, <1>2 DEF Store!Registered
<1>12. NumbersAreOver'
  <2>1. \A j \in Store!Order(f) : j \in Ids /\ g[j] \in Entries
    BY <1>6, <1>11 DEF Store!Order
  <2>2. \A j \in Entries : j.access \in Nat BY DEF Entries, Store!Entries
  <2>3. \A j \in Store!Registered' : artifacts'[j].access < nextAccess'
    <3> TAKE j \in Store!Registered'
    <3>1. CASE j = i BY <3>1, <1>6, <1>7, <1>8
    <3>2. CASE j # i
      <4>1. j \in Store!Order(f) /\ artifacts'[j] = g[j] BY <3>2, <1>8, <1>9, <2>1
      <4> QED BY <4>1, <2>1, <2>2, <1>6, <1>7
    <3> QED BY <3>1, <3>2
  <2> QED BY <2>3 DEF NumbersAreOver
<1>13. later' = {u \in later : u[1] \notin gone \cup {i} /\ u[2] \notin gone \cup {i}}
               \cup ((Store!Order(f) \ {i}) \X {i})
  <2>1. Store!Registered \ (gone \cup {i}) = Store!Order(f) \ {i} BY <1>2
  <2> QED BY <2>1, <1>7 DEF Store!Used, Store!Without
<1>14. later' \subseteq Ids \X Ids BY <1>11, <1>13 DEF RegistryOK
<1>15. \A j, k \in Store!Registered' :
          j # k => <<j, k>> \in later' \/ <<k, j>> \in later'
  BY <1>2, <1>9, <1>13 DEF RegistryOK, Store!UsesAreOrdered
<1>16. ASSUME NEW u \in later'
       PROVE  /\ {u[1], u[2]} \subseteq Store!Registered'
              /\ artifacts'[u[1]].access < artifacts'[u[2]].access
  <2>1. CASE u \in later /\ u[1] \notin gone \cup {i} /\ u[2] \notin gone \cup {i}
    <3>1. /\ {u[1], u[2]} \subseteq Store!Registered
          /\ artifacts[u[1]].access < artifacts[u[2]].access
      BY <2>1 DEF RegistryOK, Store!UsesAreOrdered
    <3>2. u[1] \in Store!Order(f) \ {i} /\ u[2] \in Store!Order(f) \ {i} BY <3>1, <2>1, <1>2
    <3> QED BY <3>1, <3>2, <1>6, <1>8, <1>9, <1>11
  <2>2. CASE u \in (Store!Order(f) \ {i}) \X {i}
    <3>1. u[1] \in Store!Order(f) \ {i} /\ u[2] = i BY <2>2
    <3> QED BY <3>1, <1>6, <1>7, <1>8, <1>9, <1>11
  <2> QED BY <1>13, <1>16, <2>1, <2>2
<1>17. Store!UsesAreOrdered' BY <1>15, <1>16 DEF Store!UsesAreOrdered
<1>18. \A j \in Ids : j # i =>
          /\ artifacts'[j] # None <=> artifacts[j] # None /\ j \notin gone
          /\ artifacts'[j] # None => artifacts'[j].hash = artifacts[j].hash
  <2> TAKE j \in Ids
  <2> HAVE j # i
  <2>1. artifacts'[j] # None <=> j \in Store!Order(f) BY <1>6, <1>8 DEF Store!Order
  <2> QED BY <2>1, <1>2, <1>6, <1>8, <1>11 DEF Store!Registered
<1> QED
  <2>1. nextAccess' \in Nat
    <3>1. n \in Nat BY <1>6
    <3>2. nextAccess' = n + 1 BY <1>7
    <3> QED BY <3>1, <3>2
  <2> QED BY <2>1, <1>8, <1>10, <1>12, <1>14, <1>17, <1>18 DEF RegistryOK

(* What the numbering leaves of an artifact that is not gone. *)
LEMMA AllocateKeepsHash ==
    ASSUME RegistryOK, None \notin Entries, NEW gone,
           NEW alloc, alloc = Store!Allocate(Store!Forget(artifacts, gone))
    PROVE  /\ alloc[1] \in [Ids -> Entries \cup {None}] /\ alloc[2] \in Nat
           /\ \A j \in Store!Registered \ gone :
                 alloc[1][j] \in Entries /\ alloc[1][j].hash = artifacts[j].hash
<1> DEFINE f == Store!Forget(artifacts, gone)
<1>1. f \in [Ids -> Entries \cup {None}]
      /\ \A j \in Ids : f[j] = IF j \in gone THEN None ELSE artifacts[j]
  BY DEF Store!Forget, RegistryOK
<1>2. Store!Order(f) = Store!Registered \ gone BY <1>1 DEF Store!Order, Store!Registered
<1>3. IsFiniteSet(Store!Order(f)) BY <1>2, FS_Subset DEF RegistryOK
<1>4. \A j \in Store!Order(f) : f[j].access < nextAccess
  BY <1>1, <1>2 DEF RegistryOK, NumbersAreOver, Store!Registered
<1>5. alloc = Store!Allocate(f) OBVIOUS
<1> HIDE DEF f
<1>6. /\ alloc[1] \in [Ids -> Entries \cup {None}] /\ alloc[2] \in Nat
      /\ Store!Order(alloc[1]) = Store!Order(f)
      /\ \A j \in Store!Order(f) : alloc[1][j].hash = f[j].hash
  BY <1>1, <1>3, <1>4, <1>5, AllocateKeepsOrder DEF RegistryOK
<1>7. \A j \in Store!Order(f) :
         alloc[1][j] \in Entries /\ j \in Ids /\ j \notin gone /\ alloc[1][j].hash = f[j].hash
  BY <1>2, <1>6 DEF Store!Order
<1>8. \A j \in Store!Registered \ gone :
         alloc[1][j] \in Entries /\ alloc[1][j].hash = artifacts[j].hash
  BY <1>1, <1>2, <1>7
<1> QED BY <1>6, <1>8

LEMMA RegistryIsOK ==
    /\ StoreInv => RegistryOK /\ None \notin Entries /\ None \notin Leases
         /\ None \notin Contents
    /\ StoreInv' => RegistryOK'
BY SizesAreSizes DEF StoreInv, RegistryOK, Store!TypeOK, Store!StoreAssumption, Entries,
   Leases, Contents

LEMMA NothingIsLost ==
    ASSUME StoreInv, UNCHANGED <<artifacts, later, nextAccess>> PROVE Loses({})
<1>1. artifacts = Store!Forget(artifacts, {}) BY DEF StoreInv, Store!TypeOK, Store!Forget
<1>2. later = Store!Without({}) BY DEF Store!Without
<1> QED BY <1>1, <1>2 DEF Loses

FilesTyped ==
    /\ leases \in [Ids -> Leases \cup {None}]
    /\ staging \in [Ids -> Contents \cup {None}]
    /\ final \in [Ids -> Contents \cup {None}]
    /\ used \subseteq Ids /\ now \in Nat

(* A step that takes nothing into the registry keeps the invariant if it writes no file that
   is listed, and makes leases of new ids only. *)
LEMMA LosingStep ==
    ASSUME StoreInv, NEW S, Loses(S), FilesTyped', StagedIsAcknowledged',
           used \subseteq used',
           \A j \in Ids : leases'[j] # None =>
               j \in used' /\ (leases[j] # None \/ j \notin used),
           \A j \in Ids : artifacts[j] # None /\ final'[j] # None => final'[j] = final[j]
    PROVE  StoreInv'
<1>1. RegistryOK' /\ \A j \in Ids : artifacts'[j] = IF j \in S THEN None ELSE artifacts[j]
  BY RegistryIsOK, RegistryLoses
<1>2. Store!TypeOK'
  BY <1>1, SizesAreSizes DEF RegistryOK, FilesTyped, Store!TypeOK, Entries, Leases, Contents
<1>3. DrawnOnce' BY <1>1 DEF StoreInv, DrawnOnce
<1>4. Store!PublishedIsWhole' BY <1>1 DEF StoreInv, Store!PublishedIsWhole, Store!Registered
<1> QED BY <1>1, <1>2, <1>3, <1>4 DEF StoreInv, RegistryOK, Store!StoreAssumption

-------------------------------------------------------------------------------
(* The actions. *)

LEMMA CreateLeaseKeeps ==
    ASSUME StoreInv, NEW i \in Ids, Store!CreateLease(i) PROVE StoreInv'
<1>1. PICK n \in 1 .. MaxBytes \cup {None}, c \in Store!Cleanups, made \in BOOLEAN :
         /\ used' = IF made THEN used \cup {i} ELSE used
         /\ leases' = [Store!Forget(leases, c.l) EXCEPT
                           ![i] = IF made THEN Store!Lease(n) ELSE @]
         /\ staging' = [Store!Forget(staging, c.l \cup c.s) EXCEPT
                           ![i] = IF made THEN [content |-> <<>>, modified |-> now] ELSE @]
         /\ artifacts' = Store!Forget(artifacts, c.a)
         /\ final' = Store!Forget(final, c.a \cup c.f)
         /\ later' = Store!Without(c.a)
         /\ nextAccess' = nextAccess /\ now' = now
  BY DEF Store!CreateLease
<1>2. i \notin used /\ leases[i] = None BY DEF Store!CreateLease, StoreInv, DrawnOnce
<1>3. Loses(c.a) BY <1>1 DEF Loses
<1>4. \A j \in Ids :
         /\ leases'[j] = IF j = i /\ made THEN Store!Lease(n)
                         ELSE IF j \in c.l THEN None ELSE leases[j]
         /\ staging'[j] = IF j = i /\ made THEN [content |-> <<>>, modified |-> now]
                          ELSE IF j \in c.l \cup c.s THEN None ELSE staging[j]
         /\ final'[j] = IF j \in c.a \cup c.f THEN None ELSE final[j]
  BY <1>1 DEF Store!Forget
<1>5. Store!Lease(n) \in Leases /\ [content |-> <<>>, modified |-> now] \in Contents
  BY DEF Store!Lease, Leases, Store!Leases, Contents, Store!Contents, StoreInv,
     Store!StoreAssumption, Store!TypeOK
<1>6. FilesTyped'
  <2>1. DOMAIN leases' = Ids /\ DOMAIN staging' = Ids /\ DOMAIN final' = Ids
    BY <1>1 DEF Store!Forget
  <2>2. /\ leases' = [j \in Ids |-> leases'[j]] /\ staging' = [j \in Ids |-> staging'[j]]
        /\ final' = [j \in Ids |-> final'[j]]
    BY <1>1 DEF Store!Forget
  <2>3. \A j \in Ids : /\ leases'[j] \in Leases \cup {None}
                       /\ staging'[j] \in Contents \cup {None}
                       /\ final'[j] \in Contents \cup {None}
    BY <1>4, <1>5 DEF StoreInv, Store!TypeOK, Leases, Contents
  <2> QED BY <1>1, <2>2, <2>3 DEF FilesTyped, StoreInv, Store!TypeOK
<1>7. StagedIsAcknowledged'
  <2> SUFFICES ASSUME NEW j \in Ids, leases'[j] # None, staging'[j] # None
               PROVE  Begins(staging'[j].content, leases'[j].hash)
    BY DEF StagedIsAcknowledged
  <2>1. CASE j = i /\ made
    <3>1. leases'[j].hash = <<>> /\ staging'[j].content = <<>> BY <2>1, <1>4 DEF Store!Lease
    <3> QED BY <3>1 DEF Begins
  <2>2. CASE ~(j = i /\ made) BY <2>2, <1>4 DEF StoreInv, StagedIsAcknowledged
  <2> QED BY <2>1, <2>2
<1>8. \A j \in Ids : leases'[j] # None =>
         j \in used' /\ (leases[j] # None \/ j \notin used)
  BY <1>1, <1>2, <1>4 DEF StoreInv, DrawnOnce
<1>9. \A j \in Ids : artifacts[j] # None /\ final'[j] # None => final'[j] = final[j] BY <1>4
<1>10. used \subseteq used' BY <1>1
<1> QED BY <1>3, <1>6, <1>7, <1>8, <1>9, <1>10, LosingStep

LEMMA DropLeaseKeeps ==
    ASSUME StoreInv, NEW i \in Ids, Store!DropLease(i) PROVE StoreInv'
<1>1. /\ leases' = Store!Forget(leases, {i}) /\ staging' = Store!Forget(staging, {i})
      /\ UNCHANGED <<artifacts, final, nextAccess, used, later, now>>
  BY DEF Store!DropLease
<1>2. \A j \in Ids : /\ leases'[j] = IF j = i THEN None ELSE leases[j]
                     /\ staging'[j] = IF j = i THEN None ELSE staging[j]
  BY <1>1 DEF Store!Forget
<1>3. FilesTyped'
  BY <1>1, <1>2 DEF FilesTyped, StoreInv, Store!TypeOK, Leases, Contents, Store!Forget
<1>4. StagedIsAcknowledged' BY <1>2 DEF StagedIsAcknowledged, StoreInv
<1>5. \A j \in Ids : leases'[j] # None =>
         j \in used' /\ (leases[j] # None \/ j \notin used)
  BY <1>1, <1>2 DEF StoreInv, DrawnOnce
<1>6. Loses({}) BY <1>1, NothingIsLost
<1> QED BY <1>1, <1>3, <1>4, <1>5, <1>6, LosingStep

LEMMA AppendChunkKeeps ==
    ASSUME StoreInv, NEW i \in Ids, Store!AppendChunk(i) PROVE StoreInv'
<1> DEFINE l == leases[i]
           more == Store!Minus(Len(l.hash) + 1, l.reserved)
<1>1. l \in Leases /\ staging[i] \in Contents /\ Len(staging[i].content) = Len(l.hash)
  BY DEF Store!AppendChunk, Store!Live, Store!Leased, Store!Agrees, StoreInv, Store!TypeOK,
     Leases, Contents
<1>2. PICK c \in Chunks :
         /\ \/ /\ leases' = [leases EXCEPT ![i].hash = Append(@, c), ![i].reserved = @ + more]
               /\ staging' = [staging EXCEPT ![i] = [content |-> Append(staging[i].content, c),
                                                     modified |-> now]]
            \/ /\ staging' = [staging EXCEPT ![i] = [content |-> Append(staging[i].content, c),
                                                     modified |-> now]]
               /\ leases' = leases
            \/ staging' = [staging EXCEPT ![i].modified = now] /\ leases' = leases
         /\ UNCHANGED <<artifacts, final, nextAccess, used, later, now>>
  BY DEF Store!AppendChunk
<1>3. more \in Nat BY <1>1 DEF Store!Minus, Leases, Store!Leases
<1>4. \A d : d \in Chunks => /\ Append(l.hash, d) \in Seq(Chunks)
                             /\ Append(staging[i].content, d) \in Seq(Chunks)
  BY <1>1 DEF Leases, Store!Leases, Contents, Store!Contents
<1>5. /\ leases'[i] \in Leases
      /\ \/ leases'[i].hash = Append(l.hash, c) /\ staging'[i].content = Append(staging[i].content, c)
         \/ leases'[i].hash = l.hash /\ staging'[i].content = Append(staging[i].content, c)
         \/ leases'[i].hash = l.hash /\ staging'[i].content = staging[i].content
  <2>1. /\ leases'[i] = leases[i] \/ leases'[i] = [l EXCEPT !.hash = Append(@, c), !.reserved = @ + more]
        /\ \/ leases'[i] = leases[i]
           \/ staging'[i] = [content |-> Append(staging[i].content, c), modified |-> now]
        /\ \/ staging'[i] = [content |-> Append(staging[i].content, c), modified |-> now]
           \/ staging'[i] = [staging[i] EXCEPT !.modified = now]
    <3> HIDE DEF more
    <3>1. leases \in [Ids -> Leases \cup {None}] /\ staging \in [Ids -> Contents \cup {None}]
      BY DEF StoreInv, Store!TypeOK, Leases, Contents
    <3> QED BY <1>2, <3>1
  <2> DEFINE longer == [l EXCEPT !.hash = Append(l.hash, c), !.reserved = l.reserved + more]
             stained == [staging[i] EXCEPT !.modified = now]
  <2>2. longer \in Leases /\ longer.hash = Append(l.hash, c)
    <3>1. l.reserved + more \in Nat BY <1>1, <1>3 DEF Leases, Store!Leases
    <3>2. \A x \in Leases, h \in Seq(Chunks), r \in Nat :
              /\ [x EXCEPT !.hash = h, !.reserved = r] \in Leases
              /\ [x EXCEPT !.hash = h, !.reserved = r].hash = h
      BY DEF Leases, Store!Leases
    <3> QED BY <1>1, <1>4, <3>1, <3>2, Zenon
  <2>3. stained.content = staging[i].content BY <1>1 DEF Contents, Store!Contents
  <2>4. leases'[i] = leases[i] \/ leases'[i] = longer BY <1>1, <2>1 DEF Leases, Store!Leases
  <2> HIDE DEF longer, stained
  <2>5. staging'[i] = stained \/ staging'[i].content = Append(staging[i].content, c)
    BY <2>1 DEF stained
  <2>6. leases'[i] = leases[i] \/ staging'[i].content = Append(staging[i].content, c)
    BY <2>1
  <2> QED BY <1>1, <2>2, <2>3, <2>4, <2>5, <2>6
<1>6. \A j \in Ids : j # i => leases'[j] = leases[j] /\ staging'[j] = staging[j]
  BY <1>2 DEF StoreInv, Store!TypeOK
<1>7. staging'[i] \in Contents
  <2>1. \/ staging'[i] = [content |-> Append(staging[i].content, c), modified |-> now]
        \/ staging'[i] = [staging[i] EXCEPT !.modified = now]
    BY <1>2 DEF StoreInv, Store!TypeOK
  <2>2. now \in Nat BY DEF StoreInv, Store!TypeOK
  <2>3. [content |-> Append(staging[i].content, c), modified |-> now] \in Contents
    BY <1>4, <2>2 DEF Contents, Store!Contents
  <2>4. [staging[i] EXCEPT !.modified = now] \in Contents
    BY <1>1, <2>2 DEF Contents, Store!Contents
  <2> QED BY <2>1, <2>3, <2>4
<1>8. leases' \in [Ids -> Leases \cup {None}] /\ staging' \in [Ids -> Contents \cup {None}]
  <2>1. leases' = [j \in Ids |-> leases'[j]] /\ staging' = [j \in Ids |-> staging'[j]]
    BY <1>2 DEF StoreInv, Store!TypeOK
  <2>2. \A j \in Ids : leases'[j] \in Leases \cup {None} /\ staging'[j] \in Contents \cup {None}
    BY <1>5, <1>6, <1>7 DEF StoreInv, Store!TypeOK, Leases, Contents
  <2> QED BY <2>1, <2>2
<1>9. FilesTyped' BY <1>2, <1>8 DEF FilesTyped, StoreInv, Store!TypeOK, Contents
<1>10. Begins(staging[i].content, l.hash)
  BY <1>1, RegistryIsOK DEF StoreInv, StagedIsAcknowledged
<1>11. Begins(staging'[i].content, leases'[i].hash)
  <2>1. l.hash \in Seq(Chunks) /\ staging[i].content \in Seq(Chunks)
    BY <1>1 DEF Leases, Store!Leases, Contents, Store!Contents
  <2> DEFINE h == l.hash
             s == staging[i].content
  <2>2. Begins(Append(s, c), Append(h, c)) /\ Begins(Append(s, c), h) /\ Begins(s, h)
    <3>1. h \in Seq(Chunks) /\ s \in Seq(Chunks) /\ Len(s) = Len(h) /\ Begins(s, h)
      BY <2>1, <1>1, <1>10
    <3> HIDE DEF h, s
    <3>2. Len(h) \in Nat /\ Len(Append(s, c)) = Len(h) + 1 /\ Len(Append(h, c)) = Len(h) + 1
      BY <3>1
    <3>3. \A k \in 1 .. Len(h) : Append(s, c)[k] = s[k] /\ Append(h, c)[k] = h[k] BY <3>1
    <3>4. Append(s, c)[Len(h) + 1] = c /\ Append(h, c)[Len(h) + 1] = c BY <3>1
    <3>5. \A k \in 1 .. Len(h) + 1 : k \in 1 .. Len(h) \/ k = Len(h) + 1 BY <3>2
    <3>6. \A k \in 1 .. Len(h) : s[k] = h[k] BY <3>1 DEF Begins
    <3>7. Begins(Append(s, c), Append(h, c)) BY <3>2, <3>3, <3>4, <3>5, <3>6 DEF Begins
    <3> QED BY <3>1, <3>2, <3>3, <3>6, <3>7 DEF Begins
  <2> QED BY <2>2, <1>5
<1>12. StagedIsAcknowledged' BY <1>6, <1>11 DEF StoreInv, StagedIsAcknowledged
<1>13. \A j \in Ids : leases'[j] # None =>
         j \in used' /\ (leases[j] # None \/ j \notin used)
  BY <1>1, <1>2, <1>6, RegistryIsOK DEF StoreInv, DrawnOnce
<1>14. Loses({}) BY <1>2, NothingIsLost
<1> QED BY <1>2, <1>9, <1>12, <1>13, <1>14, LosingStep

(* Both of Lookup and Consume, and a Finalize that fails. *)
LEMMA RemovingKeeps ==
    ASSUME StoreInv, NEW S, Loses(S),
           UNCHANGED <<leases, staging, used, now>>,
           final' \in [Ids -> Contents \cup {None}],
           \A j \in Ids : artifacts[j] # None /\ final'[j] # None => final'[j] = final[j]
    PROVE  StoreInv'
<1>1. FilesTyped' BY DEF FilesTyped, StoreInv, Store!TypeOK, Leases, Contents
<1>2. StagedIsAcknowledged' BY DEF StagedIsAcknowledged, StoreInv
<1>3. \A j \in Ids : leases'[j] # None =>
         j \in used' /\ (leases[j] # None \/ j \notin used)
  BY DEF StoreInv, DrawnOnce
<1> QED BY <1>1, <1>2, <1>3, LosingStep

LEMMA ForgottenFiles ==
    ASSUME StoreInv, NEW S, final' = Store!Forget(final, S)
    PROVE  /\ final' \in [Ids -> Contents \cup {None}]
           /\ \A j \in Ids : final'[j] # None => final'[j] = final[j]
BY DEF StoreInv, Store!TypeOK, Store!Forget, Contents

LEMMA FinalizeKeeps ==
    ASSUME StoreInv, NEW i \in Ids, Store!Finalize(i) PROVE StoreInv'
<1>1. /\ leases[i] \in Leases /\ staging[i] \in Contents /\ artifacts[i] = None
      /\ Len(staging[i].content) = Len(leases[i].hash)
  BY DEF Store!Finalize, Store!Live, Store!Leased, Store!Agrees, StoreInv, DrawnOnce,
     Store!TypeOK, Leases, Contents
<1>2. UNCHANGED <<used, now>> BY DEF Store!Finalize
<1>3. \/ \E gone : LET alloc == Store!Allocate(Store!Forget(artifacts, gone)) IN
            /\ final' = [Store!Forget(final, gone) EXCEPT ![i] = staging[i]]
            /\ artifacts' = [alloc[1] EXCEPT
                  ![i] = [hash |-> leases[i].hash, access |-> alloc[2],
                          expires |-> now + FinalTtl]]
            /\ nextAccess' = alloc[2] + 1 /\ later' = Store!Used(i, gone)
            /\ leases' = Store!Forget(leases, {i}) /\ staging' = Store!Forget(staging, {i})
      \/ \E gone, f : /\ f \in {None, staging[i], final[i]} /\ Loses(gone)
                      /\ final' = [Store!Forget(final, gone) EXCEPT ![i] = f]
                      /\ UNCHANGED <<leases, staging>>
      \/ \E S : /\ Loses(S) /\ final' = Store!Forget(final, S)
                /\ UNCHANGED <<leases, staging>>
  BY DEF Store!Finalize, Loses, Store!Remove
<1>4. CASE \E gone : LET alloc == Store!Allocate(Store!Forget(artifacts, gone)) IN
            /\ final' = [Store!Forget(final, gone) EXCEPT ![i] = staging[i]]
            /\ artifacts' = [alloc[1] EXCEPT
                  ![i] = [hash |-> leases[i].hash, access |-> alloc[2],
                          expires |-> now + FinalTtl]]
            /\ nextAccess' = alloc[2] + 1 /\ later' = Store!Used(i, gone)
            /\ leases' = Store!Forget(leases, {i}) /\ staging' = Store!Forget(staging, {i})
  <2> USE DEF StoreInv
  <2>1. PICK gone, alloc :
            /\ alloc = Store!Allocate(Store!Forget(artifacts, gone))
            /\ final' = [Store!Forget(final, gone) EXCEPT ![i] = staging[i]]
            /\ artifacts' = [alloc[1] EXCEPT
                  ![i] = [hash |-> leases[i].hash, access |-> alloc[2],
                          expires |-> now + FinalTtl]]
            /\ nextAccess' = alloc[2] + 1 /\ later' = Store!Used(i, gone)
            /\ leases' = Store!Forget(leases, {i}) /\ staging' = Store!Forget(staging, {i})
    BY <1>4, Zenon
  <2> DEFINE e == [hash |-> leases[i].hash, access |-> alloc[2], expires |-> now + FinalTtl]
  <2>2. alloc[2] \in Nat BY <2>1, RegistryIsOK, AllocateKeepsHash
  <2>3. e \in Entries /\ e.access = alloc[2] /\ e.hash = leases[i].hash
    BY <1>1, <2>2 DEF Leases, Store!Leases, Entries, Store!Entries, Store!StoreAssumption,
       Store!TypeOK
  <2> HIDE DEF e
  <2>4. Gains(i, gone, e) BY <2>1, <2>3, Zenon DEF Gains, e
  <2>5. /\ RegistryOK' /\ artifacts'[i] = e
        /\ \A j \in Ids : j # i =>
              /\ artifacts'[j] # None <=> artifacts[j] # None /\ j \notin gone
              /\ artifacts'[j] # None => artifacts'[j].hash = artifacts[j].hash
    BY <2>4, RegistryIsOK, RegistryGains
  <2>6. \A j \in Ids : /\ leases'[j] = IF j = i THEN None ELSE leases[j]
                       /\ staging'[j] = IF j = i THEN None ELSE staging[j]
                       /\ final'[j] = IF j = i THEN staging[i]
                                      ELSE IF j \in gone THEN None ELSE final[j]
    BY <2>1 DEF Store!Forget
  <2>7. FilesTyped'
    <3>1. /\ leases' = [j \in Ids |-> leases'[j]] /\ staging' = [j \in Ids |-> staging'[j]]
          /\ final' = [j \in Ids |-> final'[j]]
      BY <2>1 DEF Store!Forget
    <3>2. \A j \in Ids : /\ leases'[j] \in Leases \cup {None}
                         /\ staging'[j] \in Contents \cup {None}
                         /\ final'[j] \in Contents \cup {None}
      BY <1>1, <2>6 DEF Store!TypeOK, Leases, Contents
    <3> QED BY <1>2, <3>1, <3>2 DEF FilesTyped, Store!TypeOK
  <2>8. Store!TypeOK'
    BY <2>5, <2>7, SizesAreSizes DEF RegistryOK, FilesTyped, Store!TypeOK, Entries, Leases,
       Contents
  <2>9. DrawnOnce'
    <3>1. i \in used' BY <1>1, <1>2, RegistryIsOK DEF DrawnOnce
    <3> QED BY <3>1, <1>2, <2>5, <2>6 DEF DrawnOnce
  <2>10. StagedIsAcknowledged' BY <2>6 DEF StagedIsAcknowledged
  <2>11. staging[i].content = leases[i].hash
    <3>1. Begins(staging[i].content, leases[i].hash)
      BY <1>1, RegistryIsOK DEF StagedIsAcknowledged
    <3>2. leases[i].hash \in Seq(Chunks) /\ staging[i].content \in Seq(Chunks)
      BY <1>1 DEF Leases, Store!Leases, Contents, Store!Contents
    <3> QED BY <1>1, <3>1, <3>2 DEF Begins
  <2>12. Store!PublishedIsWhole'
    BY <2>3, <2>5, <2>6, <2>11 DEF Store!PublishedIsWhole, Store!Registered
  <2> QED BY <2>5, <2>8, <2>9, <2>10, <2>12 DEF RegistryOK, Store!StoreAssumption
<1>5. ASSUME NEW gone, NEW f, f \in {None, staging[i], final[i]}, Loses(gone),
             final' = [Store!Forget(final, gone) EXCEPT ![i] = f],
             UNCHANGED <<leases, staging>>
      PROVE  StoreInv'
  <2>1. f \in Contents \cup {None} BY <1>1, <1>5 DEF StoreInv, Store!TypeOK, Contents
  <2>2. final' \in [Ids -> Contents \cup {None}]
        /\ \A j \in Ids : j # i /\ final'[j] # None => final'[j] = final[j]
    BY <1>5, <2>1 DEF StoreInv, Store!TypeOK, Store!Forget, Contents
  <2> QED BY <1>1, <1>2, <1>5, <2>2, RemovingKeeps
<1>6. ASSUME NEW S, Loses(S), final' = Store!Forget(final, S), UNCHANGED <<leases, staging>>
      PROVE  StoreInv'
  BY <1>2, <1>6, ForgottenFiles, RemovingKeeps
<1> QED BY <1>3, <1>4, <1>5, <1>6

(* What is looked up becomes the artifact used last, and keeps its digest. *)
LEMMA TouchedGains ==
    ASSUME StoreInv, NEW gone, NEW i \in Store!Registered \ gone, NEW alloc,
           alloc = Store!Allocate(Store!Forget(artifacts, gone)),
           artifacts' = [alloc[1] EXCEPT ![i].access = alloc[2]],
           nextAccess' = alloc[2] + 1, later' = Store!Used(i, gone)
    PROVE  \E e : Gains(i, gone, e) /\ e.hash = artifacts[i].hash
<1>1. /\ alloc[1] \in [Ids -> Entries \cup {None}] /\ alloc[2] \in Nat
      /\ alloc[1][i] \in Entries /\ alloc[1][i].hash = artifacts[i].hash
  BY RegistryIsOK, AllocateKeepsHash
<1> DEFINE e == [alloc[1][i] EXCEPT !.access = alloc[2]]
<1>2. e \in Entries /\ e.access = alloc[2] /\ e.hash = artifacts[i].hash
  <2>1. \A x \in Entries, n \in Nat :
            /\ [x EXCEPT !.access = n] \in Entries
            /\ [x EXCEPT !.access = n].access = n /\ [x EXCEPT !.access = n].hash = x.hash
    BY DEF Entries, Store!Entries
  <2> QED BY <1>1, <2>1, Zenon
<1>3. artifacts' = [alloc[1] EXCEPT ![i] = e] OBVIOUS
<1> HIDE DEF e
<1> QED BY <1>2, <1>3, Zenon DEF Gains

LEMMA LookupKeeps ==
    ASSUME StoreInv, NEW i \in Ids, Store!Lookup(i) PROVE StoreInv'
<1>1. UNCHANGED <<leases, staging, used, now>> BY DEF Store!Lookup
<1>2. \/ \E S : Loses(S) /\ final' = Store!Forget(final, S)
      \/ /\ i \in Store!Registered \ Store!Stale
         /\ final' = Store!Forget(final, Store!Stale)
         /\ LET alloc == Store!Allocate(Store!Forget(artifacts, Store!Stale)) IN
            /\ artifacts' = [alloc[1] EXCEPT ![i].access = alloc[2]]
            /\ nextAccess' = alloc[2] + 1 /\ later' = Store!Used(i, Store!Stale)
  BY DEF Store!Lookup, Loses, Store!Remove
<1>3. ASSUME NEW S, Loses(S), final' = Store!Forget(final, S) PROVE StoreInv'
  BY <1>1, <1>3, ForgottenFiles, RemovingKeeps
<1>4. CASE /\ i \in Store!Registered \ Store!Stale
           /\ final' = Store!Forget(final, Store!Stale)
           /\ LET alloc == Store!Allocate(Store!Forget(artifacts, Store!Stale)) IN
              /\ artifacts' = [alloc[1] EXCEPT ![i].access = alloc[2]]
              /\ nextAccess' = alloc[2] + 1 /\ later' = Store!Used(i, Store!Stale)
  <2>1. PICK gone, alloc :
            /\ gone = Store!Stale /\ alloc = Store!Allocate(Store!Forget(artifacts, gone))
            /\ final' = Store!Forget(final, gone)
            /\ artifacts' = [alloc[1] EXCEPT ![i].access = alloc[2]]
            /\ nextAccess' = alloc[2] + 1 /\ later' = Store!Used(i, gone)
    BY <1>4, Zenon
  <2>5. PICK e : Gains(i, gone, e) /\ e.hash = artifacts[i].hash BY <1>4, <2>1, TouchedGains
  <2>3. e.hash = artifacts[i].hash BY <2>5
  <2>6. /\ RegistryOK' /\ artifacts'[i] = e
        /\ \A j \in Ids : j # i =>
              /\ artifacts'[j] # None <=> artifacts[j] # None /\ j \notin gone
              /\ artifacts'[j] # None => artifacts'[j].hash = artifacts[j].hash
    BY <2>5, RegistryIsOK, RegistryGains
  <2>7. /\ final' \in [Ids -> Contents \cup {None}]
        /\ \A j \in Ids : final'[j] # None => final'[j] = final[j]
    BY <2>1, ForgottenFiles
  <2> USE <1>1, <2>6 DEF StoreInv
  <2>8. Store!TypeOK'
    BY <2>7, SizesAreSizes DEF RegistryOK, Store!TypeOK, Entries, Leases, Contents
  <2>9. artifacts[i] # None BY <1>4 DEF Store!Registered
  <2>10. DrawnOnce' BY <2>9 DEF DrawnOnce
  <2>11. StagedIsAcknowledged' BY DEF StagedIsAcknowledged
  <2>12. Store!PublishedIsWhole'
    BY <2>3, <2>7, <2>9 DEF Store!PublishedIsWhole, Store!Registered
  <2> QED BY <2>8, <2>10, <2>11, <2>12 DEF RegistryOK, Store!StoreAssumption
<1> QED BY <1>2, <1>3, <1>4

LEMMA ConsumeKeeps ==
    ASSUME StoreInv, NEW i \in Ids, Store!Consume(i) PROVE StoreInv'
<1>1. PICK S : /\ Loses(S) /\ final' = Store!Forget(final, S)
               /\ UNCHANGED <<leases, staging, used, now>>
  BY DEF Store!Consume, Loses, Store!Remove
<1> QED BY <1>1, ForgottenFiles, RemovingKeeps

LEMMA TickKeeps ==
    ASSUME StoreInv, Store!Tick \/ UNCHANGED Store!vars PROVE StoreInv'
<1>1. UNCHANGED <<leases, artifacts, staging, final, used, later, nextAccess>>
      /\ now' \in Nat
  BY DEF Store!Tick, Store!vars, StoreInv, Store!TypeOK
<1>2. FilesTyped' /\ StagedIsAcknowledged'
  BY <1>1 DEF FilesTyped, StoreInv, Store!TypeOK, Leases, Contents, StagedIsAcknowledged
<1>3. \A j \in Ids : leases'[j] # None =>
         j \in used' /\ (leases[j] # None \/ j \notin used)
  BY <1>1 DEF StoreInv, DrawnOnce
<1> QED BY <1>1, <1>2, <1>3, NothingIsLost, LosingStep

LEMMA RestartKeeps == StoreInv /\ Store!Restart => StoreInv'
<1> SUFFICES ASSUME StoreInv, Store!Restart PROVE StoreInv' OBVIOUS
<1>1. /\ leases' = Store!Nobody /\ artifacts' = Store!Nobody /\ nextAccess' = 0
      /\ later' = {} /\ UNCHANGED <<used, now>>
      /\ staging' = Store!Forget(staging, Store!Old(staging))
      /\ final' = Store!Forget(final, Store!Old(final))
  BY DEF Store!Restart
<1>2. \A j \in Ids : leases'[j] = None /\ artifacts'[j] = None BY <1>1 DEF Store!Nobody
<1>3. Store!Registered' = {} BY <1>2 DEF Store!Registered
<1>4. IsFiniteSet(Store!Registered') BY <1>3, FS_EmptySet
<1>5. staging' \in [Ids -> Contents \cup {None}] /\ final' \in [Ids -> Contents \cup {None}]
  BY <1>1 DEF StoreInv, Store!TypeOK, Store!Forget, Contents
<1>6. leases' \in [Ids -> Leases \cup {None}] /\ artifacts' \in [Ids -> Entries \cup {None}]
  BY <1>1 DEF Store!Nobody
<1>7. Store!TypeOK'
  BY <1>1, <1>4, <1>5, <1>6, SizesAreSizes DEF StoreInv, Store!TypeOK, Leases, Entries,
     Contents
<1>8. DrawnOnce' /\ StagedIsAcknowledged' BY <1>2 DEF DrawnOnce, StagedIsAcknowledged
<1>9. NumbersAreOver' /\ Store!PublishedIsWhole' /\ Store!UsesAreOrdered'
  BY <1>1, <1>3 DEF NumbersAreOver, Store!PublishedIsWhole, Store!UsesAreOrdered
<1> QED BY <1>7, <1>8, <1>9 DEF StoreInv, Store!StoreAssumption

LEMMA StoreInit == Store!StoreAssumption /\ Store!Init => StoreInv
<1> SUFFICES ASSUME Store!StoreAssumption, Store!Init PROVE StoreInv OBVIOUS
<1>1. \A j \in Ids : leases[j] = None /\ artifacts[j] = None BY DEF Store!Init, Store!Nobody
<1>2. Store!Registered = {} BY <1>1 DEF Store!Registered
<1>3. Store!IsFiniteSet(Store!Registered) BY <1>2, FS_EmptySet, SizesAreSizes
<1>4. Store!TypeOK BY <1>3 DEF Store!TypeOK, Store!Init, Store!Nobody
<1>5. DrawnOnce /\ StagedIsAcknowledged BY <1>1 DEF DrawnOnce, StagedIsAcknowledged
<1>6. NumbersAreOver /\ Store!PublishedIsWhole /\ Store!UsesAreOrdered
  BY <1>2 DEF NumbersAreOver, Store!PublishedIsWhole, Store!UsesAreOrdered, Store!Init
<1> QED BY <1>4, <1>5, <1>6 DEF StoreInv

LEMMA StoreStep == StoreInv /\ [Store!Next]_Store!vars => StoreInv'
<1> SUFFICES ASSUME StoreInv, [Store!Next]_Store!vars PROVE StoreInv' OBVIOUS
<1>1. ASSUME NEW i \in Ids, Store!CreateLease(i) PROVE StoreInv' BY <1>1, CreateLeaseKeeps
<1>2. ASSUME NEW i \in Ids, Store!Expire(i) \/ Store!Abort(i) PROVE StoreInv'
  BY <1>2, DropLeaseKeeps DEF Store!Expire, Store!Abort
<1>3. ASSUME NEW i \in Ids, Store!AppendChunk(i) PROVE StoreInv' BY <1>3, AppendChunkKeeps
<1>4. ASSUME NEW i \in Ids, Store!Finalize(i) PROVE StoreInv' BY <1>4, FinalizeKeeps
<1>5. ASSUME NEW i \in Ids, Store!Lookup(i) PROVE StoreInv' BY <1>5, LookupKeeps
<1>6. ASSUME NEW i \in Ids, Store!Consume(i) PROVE StoreInv' BY <1>6, ConsumeKeeps
<1>7. CASE Store!Tick \/ UNCHANGED Store!vars BY <1>7, TickKeeps
<1>8. CASE Store!Restart BY <1>8, RestartKeeps
<1> QED BY <1>1, <1>2, <1>3, <1>4, <1>5, <1>6, <1>7, <1>8 DEF Store!Next

-------------------------------------------------------------------------------
(* The accounts. *)

Reservations(l) == [i \in Ids |-> IF l[i] = None THEN 0 ELSE l[i].reserved]
Sizes(a) == [i \in Ids |-> IF a[i] = None THEN 0 ELSE Len(a[i].hash)]

FoldReserved(l, S) ==
    (CHOOSE h : h = [s \in SUBSET S |->
        IF s = {} THEN 0
        ELSE l[CHOOSE x \in s : TRUE].reserved + h[s \ {CHOOSE x \in s : TRUE}]])[S]
FoldSizes(a, S) ==
    (CHOOSE h : h = [s \in SUBSET S |->
        IF s = {} THEN 0
        ELSE Len(a[CHOOSE x \in s : TRUE].hash) + h[s \ {CHOOSE x \in s : TRUE}]])[S]

LEMMA AccountsAreFolds ==
    /\ \A S : Store!Reserved(S) = FoldReserved(leases, S)
    /\ \A S : Store!Finalized(S) = FoldSizes(artifacts, S)
    /\ Store!Reserved(Store!Leased)' = FoldReserved(leases', Store!Leased')
    /\ Store!Finalized(Store!Registered)' = FoldSizes(artifacts', Store!Registered')
<1>1. \A S : Store!Reserved(S) = FoldReserved(leases, S)
  BY DEF Store!Reserved, Store!MapThenSumSet, Store!MapThenFoldSet, FoldReserved
<1>2. \A S : Store!Finalized(S) = FoldSizes(artifacts, S)
  BY DEF Store!Finalized, Store!MapThenSumSet, Store!MapThenFoldSet, FoldSizes
<1>3. Store!Reserved(Store!Leased)' = FoldReserved(leases', Store!Leased')
  BY DEF Store!Reserved, Store!MapThenSumSet, Store!MapThenFoldSet, FoldReserved
<1>4. Store!Finalized(Store!Registered)' = FoldSizes(artifacts', Store!Registered')
  BY DEF Store!Finalized, Store!MapThenSumSet, Store!MapThenFoldSet, FoldSizes
<1> QED BY <1>1, <1>2, <1>3, <1>4

LEMMA FoldsAreSums ==
    ASSUME NEW l, NEW S \in SUBSET Ids, IsFiniteSet(S), \A i \in S : l[i] # None
    PROVE  /\ FoldReserved(l, S) = Sum(Reservations(l), S)
           /\ FoldSizes(l, S) = Sum(Sizes(l), S)
<1>1. FoldReserved(l, S) = Sum(Reservations(l), S)
  <2> DEFINE f == Reservations(l)
             P(h) == h = [s \in SUBSET S |->
                 IF s = {} THEN 0
                   ELSE l[CHOOSE x \in s : TRUE].reserved + h[s \ {CHOOSE x \in s : TRUE}]]
             c == CHOOSE h : P(h)
  <2>1. \A s \in SUBSET S : s # {} =>
           Any(s) \in S /\ Any(s) \in Ids /\ f[Any(s)] = l[CHOOSE x \in s : TRUE].reserved
    BY AnyIsIn DEF Any, Reservations
  <2>2. \A h : P(h) <=> Sums(f, S, h)
    <3> HIDE DEF f
    <3> TAKE h
    <3>1. \A s \in SUBSET S :
            First(f, h, s) = IF s = {} THEN 0 ELSE
                l[CHOOSE x \in s : TRUE].reserved + h[s \ {CHOOSE x \in s : TRUE}]
      BY <2>1 DEF First, Any
    <3>2. [s \in SUBSET S |-> First(f, h, s)] = [s \in SUBSET S |-> IF s = {} THEN 0 ELSE
                l[CHOOSE x \in s : TRUE].reserved + h[s \ {CHOOSE x \in s : TRUE}]]
      BY <3>1
    <3> QED BY <3>2, Zenon DEF Sums
  <2> HIDE DEF P, f
  <2>3. Sums(f, S, Table(f, S)) BY TablesExist
  <2>4. P(c) BY <2>2, <2>3, Zenon
  <2>5. Sums(f, S, c) BY <2>2, <2>4
  <2>6. c[S] = Table(f, S)[S] BY <2>3, <2>5, TablesAgree
  <2>7. FoldReserved(l, S) = c[S] BY Zenon DEF FoldReserved, P
  <2> QED BY <2>6, <2>7 DEF Sum, f
<1>2. FoldSizes(l, S) = Sum(Sizes(l), S)
  <2> DEFINE f == Sizes(l)
             P(h) == h = [s \in SUBSET S |->
                 IF s = {} THEN 0
                   ELSE Len(l[CHOOSE x \in s : TRUE].hash) + h[s \ {CHOOSE x \in s : TRUE}]]
             c == CHOOSE h : P(h)
  <2>1. \A s \in SUBSET S : s # {} =>
           Any(s) \in S /\ Any(s) \in Ids /\ f[Any(s)] = Len(l[CHOOSE x \in s : TRUE].hash)
    BY AnyIsIn DEF Any, Sizes
  <2>2. \A h : P(h) <=> Sums(f, S, h)
    <3> HIDE DEF f
    <3> TAKE h
    <3>1. \A s \in SUBSET S :
            First(f, h, s) = IF s = {} THEN 0 ELSE
                Len(l[CHOOSE x \in s : TRUE].hash) + h[s \ {CHOOSE x \in s : TRUE}]
      BY <2>1 DEF First, Any
    <3>2. [s \in SUBSET S |-> First(f, h, s)] = [s \in SUBSET S |-> IF s = {} THEN 0 ELSE
                Len(l[CHOOSE x \in s : TRUE].hash) + h[s \ {CHOOSE x \in s : TRUE}]]
      BY <3>1
    <3> QED BY <3>2, Zenon DEF Sums
  <2> HIDE DEF P, f
  <2>3. Sums(f, S, Table(f, S)) BY TablesExist
  <2>4. P(c) BY <2>2, <2>3, Zenon
  <2>5. Sums(f, S, c) BY <2>2, <2>4
  <2>6. c[S] = Table(f, S)[S] BY <2>3, <2>5, TablesAgree
  <2>7. FoldSizes(l, S) = c[S] BY Zenon DEF FoldSizes, P
  <2> QED BY <2>6, <2>7 DEF Sum, f
<1> QED BY <1>1, <1>2

LEMMA SumOfOne ==
    ASSUME NEW f, NEW x, f[x] \in Nat PROVE Sum(f, {x}) = f[x]
<1>1. IsFiniteSet({x}) /\ \A y \in {x} : f[y] \in Nat BY FS_Singleton
<1>2. Sum(f, {x}) = f[x] + Sum(f, {x} \ {x}) BY <1>1, SumWithout
<1>3. {x} \ {x} = {} OBVIOUS
<1> QED BY <1>2, <1>3, SumOfNothing

LEMMA SumOfLess ==
    ASSUME NEW f, NEW g, NEW S, IsFiniteSet(S), \A x \in S : f[x] \in Nat,
           NEW U \in SUBSET S, \A x \in S \ U : g[x] = f[x]
    PROVE  /\ IsFiniteSet(S \ U) /\ Sum(g, S \ U) \in Nat
           /\ Sum(g, S \ U) = Store!Minus(Sum(f, S), Sum(f, U))
           /\ Sum(g, S \ U) <= Sum(f, S)
<1>1. IsFiniteSet(U) /\ IsFiniteSet(S \ U) BY FS_Subset
<1>2. Sum(f, S) = Sum(f, U) + Sum(f, S \ U) BY SumSplits
<1>3. Sum(g, S \ U) = Sum(f, S \ U) BY <1>1, SumsAreEqual
<1>4. Sum(f, U) \in Nat /\ Sum(f, S \ U) \in Nat /\ Sum(f, S) \in Nat BY <1>1, SumIsNat
<1>5. \A j, k, n \in Nat : n = j + k => k = Store!Minus(n, j) /\ k <= n BY DEF Store!Minus
<1> QED BY <1>1, <1>2, <1>3, <1>4, <1>5

LEMMA SumOfMore ==
    ASSUME NEW f, NEW g, NEW S, IsFiniteSet(S), \A y \in S : f[y] \in Nat,
           NEW x, x \notin S, g[x] \in Nat, \A y \in S : g[y] = f[y]
    PROVE  IsFiniteSet(S \cup {x}) /\ Sum(g, S \cup {x}) = Sum(f, S) + g[x]
<1> DEFINE M == S \cup {x}
<1>1. IsFiniteSet(M) /\ x \in M /\ M \ {x} = S /\ \A y \in M : g[y] \in Nat BY FS_AddElement
<1>2. Sum(g, M) = g[x] + Sum(g, M \ {x})
  <2> HIDE DEF M
  <2> QED BY <1>1, SumWithout
<1>3. Sum(g, S) = Sum(f, S) /\ Sum(f, S) \in Nat BY SumsAreEqual, SumIsNat
<1> QED BY <1>1, <1>2, <1>3

PendingExact ==
    /\ IsFiniteSet(Store!Leased)
    /\ pendingBytes = Sum(Reservations(leases), Store!Leased)
    /\ pendingBytes <= MaxPending

FinalizedExact ==
    /\ finalizedBytes = Sum(Sizes(artifacts), Store!Registered)
    /\ finalizedBytes <= MaxTotal

LEMMA ReservationsAreNat ==
    ASSUME NEW l \in [Ids -> Leases \cup {None}], None \notin Leases
    PROVE  \A i \in Ids : /\ Reservations(l)[i] \in Nat
                          /\ l[i] # None => Reservations(l)[i] = l[i].reserved
BY DEF Reservations, Leases, Store!Leases

LEMMA SizesAreNat ==
    ASSUME NEW a \in [Ids -> Entries \cup {None}], None \notin Entries
    PROVE  \A i \in Ids : /\ Sizes(a)[i] \in Nat
                          /\ a[i] # None => Sizes(a)[i] = Len(a[i].hash)
BY DEF Sizes, Entries, Store!Entries

LEMMA StoreTypes ==
    ASSUME StoreInv
    PROVE  /\ leases \in [Ids -> Leases \cup {None}] /\ None \notin Leases
           /\ artifacts \in [Ids -> Entries \cup {None}] /\ None \notin Entries
           /\ IsFiniteSet(Store!Registered)
           /\ Store!Leased \subseteq Ids /\ Store!Registered \subseteq Ids
           /\ MaxPending \in Nat /\ MaxTotal \in Nat
BY RegistryIsOK DEF StoreInv, Store!TypeOK, Store!StoreAssumption, Leases, Entries,
   RegistryOK, Store!Leased, Store!Registered

(* Leases that go with their reservations. *)
LEMMA LeasesGo ==
    ASSUME StoreInv, PendingExact, NEW L \in SUBSET Store!Leased,
           NEW l, NEW T, T = Store!Leased \ L, \A j \in T : l[j] = leases[j]
    PROVE  /\ IsFiniteSet(T)
           /\ Sum(Reservations(l), T) = Store!Minus(pendingBytes, Store!Reserved(L))
           /\ Sum(Reservations(l), T) \in Nat /\ Sum(Reservations(l), T) <= MaxPending
<1> DEFINE f == Reservations(leases)
           g == Reservations(l)
           S == Store!Leased
<1>1. \A j \in S : j \in Ids /\ leases[j] # None /\ f[j] \in Nat
  BY StoreTypes, ReservationsAreNat DEF Store!Leased
<1>2. \A j \in S \ L : g[j] = f[j] BY <1>1 DEF Reservations
<1>3. IsFiniteSet(L) /\ L \in SUBSET Ids /\ IsFiniteSet(S)
  BY <1>1, FS_Subset DEF PendingExact
<1>4. Store!Reserved(L) = Sum(f, L) BY <1>1, <1>3, AccountsAreFolds, FoldsAreSums
<1> HIDE DEF f, g, S
<1>5. /\ IsFiniteSet(S \ L) /\ Sum(g, S \ L) \in Nat
      /\ Sum(g, S \ L) = Store!Minus(Sum(f, S), Sum(f, L)) /\ Sum(g, S \ L) <= Sum(f, S)
  BY <1>1, <1>2, <1>3, SumOfLess DEF S
<1>6. Sum(f, S) = pendingBytes /\ pendingBytes <= MaxPending /\ Sum(f, S) \in Nat
        /\ MaxPending \in Nat
  BY <1>1, <1>3, SumIsNat, StoreTypes DEF PendingExact, f, S
<1> QED BY <1>4, <1>5, <1>6 DEF g, S

LEMMA CreateLeaseCounts ==
    ASSUME StoreInv, PendingExact, NEW i \in Ids, Store!CreateLease(i)
    PROVE  PendingExact'
<1>1. PICK n \in 1 .. MaxBytes \cup {None}, c \in Store!Cleanups :
         LET p == Store!Minus(pendingBytes, Store!Reserved(c.l))
             made == c.ok /\ Store!Admitted(Store!Leased \ c.l, p, Store!Lease(n).reserved)
         IN /\ leases' = [Store!Forget(leases, c.l) EXCEPT
                              ![i] = IF made THEN Store!Lease(n) ELSE @]
            /\ pendingBytes' = IF made THEN p + Store!Lease(n).reserved ELSE p
  BY Zenon DEF Store!CreateLease
<1> DEFINE p == Store!Minus(pendingBytes, Store!Reserved(c.l))
           made == c.ok /\ Store!Admitted(Store!Leased \ c.l, p, Store!Lease(n).reserved)
           f == Reservations(leases)
           g == Reservations(leases')
           S == Store!Leased
           K == S \ c.l
<1>2. /\ leases' = [Store!Forget(leases, c.l) EXCEPT ![i] = IF made THEN Store!Lease(n) ELSE @]
      /\ pendingBytes' = IF made THEN p + Store!Lease(n).reserved ELSE p
  BY <1>1, Zenon
<1>3. leases[i] = None BY DEF Store!CreateLease, StoreInv, DrawnOnce
<1>4. c.l \subseteq S BY DEF Store!Cleanups, Store!Late, S
<1>5. Store!Lease(n).reserved \in Nat /\ Store!Lease(n) # None
  <2>1. Store!Lease(n) \in Leases
    BY DEF Store!Lease, Leases, Store!Leases, StoreInv, Store!StoreAssumption, Store!TypeOK
  <2> QED BY <2>1, StoreTypes DEF Leases, Store!Leases
<1>6. /\ IsFiniteSet(K) /\ p = Sum(f, K) /\ p \in Nat /\ p <= MaxPending
  <2>1. \A j \in K : leases[j] = leases[j] OBVIOUS
  <2> QED BY <1>4, LeasesGo, Zenon DEF K, S, p, f
<1> HIDE DEF p, made
<1>7. \A j \in Ids : leases'[j] = IF j = i /\ made THEN Store!Lease(n)
                                  ELSE IF j \in c.l THEN None ELSE leases[j]
  BY <1>2 DEF Store!Forget
<1>8. \A j \in K : j \in Ids /\ j # i /\ f[j] \in Nat /\ g[j] = f[j]
  BY <1>3, <1>7, StoreTypes, ReservationsAreNat DEF Store!Leased, Reservations
<1>9. CASE made
  <2>1. Store!Leased' = K \cup {i} BY <1>3, <1>5, <1>7, <1>9 DEF Store!Leased
  <2>2. g[i] = Store!Lease(n).reserved BY <1>5, <1>7, <1>9 DEF Reservations
  <2>3. IsFiniteSet(K \cup {i}) /\ Sum(g, K \cup {i}) = Sum(f, K) + g[i]
    <3> HIDE DEF f, g, K
    <3> QED BY <1>5, <1>6, <1>8, <2>2, SumOfMore
  <2>4. p + Store!Lease(n).reserved <= MaxPending BY <1>9 DEF made, Store!Admitted
  <2> HIDE DEF f
  <2> QED BY <1>2, <1>6, <1>9, <2>1, <2>2, <2>3, <2>4 DEF PendingExact
<1>10. CASE ~ made
  <2>1. Store!Leased' = K BY <1>3, <1>7, <1>10 DEF Store!Leased
  <2>2. Sum(g, K) = Sum(f, K)
    <3> HIDE DEF f, g, K
    <3> QED BY <1>6, <1>8, SumsAreEqual
  <2> QED BY <1>2, <1>6, <1>10, <2>1, <2>2 DEF PendingExact
<1> QED BY <1>9, <1>10

LEMMA LeaseGoes ==
    ASSUME StoreInv, PendingExact, NEW i \in Store!Leased,
           leases' = Store!Forget(leases, {i}),
           pendingBytes' = Store!Minus(pendingBytes, leases[i].reserved)
    PROVE  PendingExact'
<1>1. i \in Ids /\ leases[i] # None /\ {i} \in SUBSET Store!Leased BY DEF Store!Leased
<1>2. \A j \in Ids : leases'[j] = IF j = i THEN None ELSE leases[j] BY DEF Store!Forget
<1>3. Store!Leased' = Store!Leased \ {i} BY <1>2 DEF Store!Leased
<1>4. Store!Reserved({i}) = leases[i].reserved
  <2>1. Reservations(leases)[i] \in Nat /\ Reservations(leases)[i] = leases[i].reserved
    BY <1>1, StoreTypes, ReservationsAreNat
  <2>2. Store!Reserved({i}) = Sum(Reservations(leases), {i})
    BY ZenonT(60), <1>1, FS_Singleton, AccountsAreFolds, FoldsAreSums
  <2> QED BY <2>1, <2>2, SumOfOne
<1>5. \A j \in Store!Leased \ {i} : leases'[j] = leases[j] BY <1>2 DEF Store!Leased
<1>6. /\ IsFiniteSet(Store!Leased')
      /\ Sum(Reservations(leases'), Store!Leased') = Store!Minus(pendingBytes,
                                                                 Store!Reserved({i}))
      /\ Sum(Reservations(leases'), Store!Leased') <= MaxPending
  BY <1>1, <1>3, <1>5, LeasesGo
<1> QED BY <1>4, <1>6 DEF PendingExact

LEMMA AppendChunkCounts ==
    ASSUME StoreInv, StoreInv', PendingExact, NEW i \in Ids, Store!AppendChunk(i)
    PROVE  PendingExact'
<1> DEFINE more == Store!Minus(Len(leases[i].hash) + 1, leases[i].reserved)
<1>1. CASE leases' = leases /\ pendingBytes' = pendingBytes
  BY <1>1 DEF PendingExact, Store!Leased
<1>2. CASE ~ (leases' = leases /\ pendingBytes' = pendingBytes)
  <2>1. PICK c : leases' = [leases EXCEPT ![i].hash = Append(@, c), ![i].reserved = @ + more]
    BY <1>2 DEF Store!AppendChunk
  <2>2. /\ pendingBytes' = pendingBytes + more /\ pendingBytes + more <= MaxPending
        /\ leases[i] \in Leases
    BY <1>2 DEF Store!AppendChunk, Store!Live, Store!Leased, StoreInv, Store!TypeOK, Leases
  <2>3. more \in Nat BY <2>2 DEF Store!Minus, Leases, Store!Leases
  <2> HIDE DEF more
  <2>4. leases'[i].reserved = leases[i].reserved + more /\ leases[i].reserved \in Nat
    BY <2>1, <2>2, <2>3, StoreTypes DEF Leases, Store!Leases
  <2>5. \A j \in Ids : j # i => leases'[j] = leases[j] BY <2>1, StoreTypes
  <2>6. leases[i] # None /\ leases'[i] # None /\ leases'[i] \in Leases
    <3>1. leases[i].hash \in Seq(Chunks) /\ leases[i].reserved + more \in Nat
      BY <2>2, <2>3 DEF Leases, Store!Leases
    <3>2. PICK h \in Seq(Chunks) :
             leases'[i] = [leases[i] EXCEPT !.hash = h, !.reserved = leases[i].reserved + more]
      <4>1. PICK d \in Chunks :
               leases' = [leases EXCEPT ![i].hash = Append(@, d), ![i].reserved = @ + more]
        BY <1>2 DEF Store!AppendChunk, more
      <4>2. leases'[i] = [leases[i] EXCEPT !.hash = Append(@, d), !.reserved = @ + more]
        BY <4>1, StoreTypes
      <4>3. Append(leases[i].hash, d) \in Seq(Chunks) BY <3>1
      <4>4. leases'[i] = [leases[i] EXCEPT !.hash = Append(leases[i].hash, d),
                                           !.reserved = leases[i].reserved + more]
        BY <2>2, <4>2 DEF Leases, Store!Leases
      <4> QED BY <4>3, <4>4
    <3>3. \A x \in Leases, h_1 \in Seq(Chunks), r \in Nat :
              [x EXCEPT !.hash = h_1, !.reserved = r] \in Leases
      BY DEF Leases, Store!Leases
    <3>4. leases'[i] \in Leases BY <2>2, <3>1, <3>2, <3>3, ZenonT(60)
    <3> QED BY <2>2, <3>4, StoreTypes
  <2>7. Store!Leased' = Store!Leased /\ i \in Store!Leased BY <2>5, <2>6 DEF Store!Leased
  <2> DEFINE f == Reservations(leases)
             g == Reservations(leases')
             S == Store!Leased
  <2>8. \A j \in S : /\ f[j] \in Nat
                     /\ g[j] = IF j = i THEN f[i] + more ELSE f[j]
    <3>1. \A j \in S : j \in Ids /\ f[j] \in Nat BY StoreTypes, ReservationsAreNat
    <3>2. f[i] = leases[i].reserved /\ g[i] = leases'[i].reserved BY <2>6 DEF Reservations
    <3> QED BY <2>4, <2>5, <3>1, <3>2 DEF Reservations
  <2>9. IsFiniteSet(S) /\ pendingBytes = Sum(f, S) BY DEF PendingExact
  <2>10. Sum(g, S) = Sum(f, S) + more
    <3> HIDE DEF f, g, S
    <3>0. i \in S BY <2>7 DEF S
    <3>1. \A j \in S : g[j] \in Nat BY <2>3, <2>8, <3>0
    <3>2. Sum(f, S) = f[i] + Sum(f, S \ {i}) /\ Sum(g, S) = g[i] + Sum(g, S \ {i})
      BY <2>8, <2>9, <3>0, <3>1, SumWithout
    <3>3. IsFiniteSet(S \ {i}) /\ Sum(f, S \ {i}) \in Nat /\ Sum(g, S \ {i}) = Sum(f, S \ {i})
      <4>1. IsFiniteSet(S \ {i}) /\ \A j \in S \ {i} : f[j] \in Nat /\ g[j] = f[j]
        BY <2>8, <2>9, FS_Subset
      <4>2. Sum(f, S \ {i}) \in Nat BY <4>1, SumIsNat
      <4> QED BY <4>1, <4>2, SumsAreEqual
    <3>4. g[i] = f[i] + more /\ f[i] \in Nat BY <2>8, <3>0
    <3>5. \A j, k, n \in Nat : (j + n) + k = (j + k) + n OBVIOUS
    <3> QED BY <2>3, <3>2, <3>3, <3>4, <3>5
  <2> QED BY <2>2, <2>7, <2>9, <2>10 DEF PendingExact
<1> QED BY <1>1, <1>2

(* Artifacts that go with their sizes. *)
LEMMA ArtifactsGo ==
    ASSUME StoreInv, FinalizedExact, NEW A \in SUBSET Store!Registered,
           NEW a, NEW T, T = Store!Registered \ A,
           \A j \in T : a[j] # None /\ a[j].hash = artifacts[j].hash
    PROVE  /\ IsFiniteSet(T)
           /\ Sum(Sizes(a), T) = Store!Minus(finalizedBytes, Store!Finalized(A))
           /\ Sum(Sizes(a), T) \in Nat /\ Sum(Sizes(a), T) <= MaxTotal
           /\ Sum(Sizes(a), T) = Store!Finalized(T)
<1> DEFINE f == Sizes(artifacts)
           g == Sizes(a)
           S == Store!Registered
<1>1. \A j \in S : j \in Ids /\ artifacts[j] # None /\ f[j] \in Nat
  BY StoreTypes, SizesAreNat DEF Store!Registered
<1>2. \A j \in S \ A : g[j] = f[j] BY <1>1 DEF Sizes
<1>3. /\ IsFiniteSet(A) /\ A \in SUBSET Ids /\ IsFiniteSet(S)
      /\ IsFiniteSet(T) /\ T \in SUBSET Ids
  BY <1>1, FS_Subset, StoreTypes
<1>4. Store!Finalized(A) = Sum(f, A) /\ Store!Finalized(T) = Sum(f, T)
  BY <1>1, <1>3, AccountsAreFolds, FoldsAreSums
<1> HIDE DEF f, g, S
<1>5. /\ IsFiniteSet(S \ A) /\ Sum(g, S \ A) \in Nat
      /\ Sum(g, S \ A) = Store!Minus(Sum(f, S), Sum(f, A)) /\ Sum(g, S \ A) <= Sum(f, S)
  BY <1>1, <1>2, <1>3, SumOfLess DEF S
<1>6. Sum(f, S) = finalizedBytes /\ finalizedBytes <= MaxTotal /\ Sum(f, S) \in Nat
        /\ MaxTotal \in Nat
  BY <1>1, <1>3, SumIsNat, StoreTypes DEF FinalizedExact, f, S
<1>7. Sum(g, T) = Sum(f, T) BY <1>2, <1>3, SumsAreEqual DEF S
<1> QED BY <1>4, <1>5, <1>6, <1>7 DEF g, S

LEMMA RemovedCount ==
    ASSUME StoreInv, FinalizedExact, NEW A \in SUBSET Store!Registered,
           artifacts' = Store!Forget(artifacts, A),
           finalizedBytes' = Store!Minus(finalizedBytes, Store!Finalized(A))
    PROVE  FinalizedExact'
<1>1. \A j \in Ids : artifacts'[j] = IF j \in A THEN None ELSE artifacts[j]
  BY DEF Store!Forget
<1>2. Store!Registered' = Store!Registered \ A BY <1>1 DEF Store!Registered
<1>3. \A j \in Store!Registered' :
          artifacts'[j] # None /\ artifacts'[j].hash = artifacts[j].hash
  BY <1>1, <1>2 DEF Store!Registered
<1>4. /\ Sum(Sizes(artifacts'), Store!Registered')
            = Store!Minus(finalizedBytes, Store!Finalized(A))
      /\ Sum(Sizes(artifacts'), Store!Registered') <= MaxTotal
  BY <1>2, <1>3, ArtifactsGo
<1> QED BY <1>4 DEF FinalizedExact

LEMMA FinalizeCounts ==
    ASSUME StoreInv, PendingExact, FinalizedExact, NEW i \in Ids, Store!Finalize(i)
    PROVE  PendingExact' /\ FinalizedExact'
<1> DEFINE size == Len(leases[i].hash)
<1>1. /\ i \in Store!Leased /\ leases[i] \in Leases /\ artifacts[i] = None
      /\ leases[i].hash \in Seq(Chunks)
  BY DEF Store!Finalize, Store!Live, Store!Leased, StoreInv, DrawnOnce, Store!TypeOK,
     Leases, Store!Leases
<1>2. \/ \E gone \in SUBSET Store!Registered :
            LET alloc == Store!Allocate(Store!Forget(artifacts, gone)) IN
            /\ Store!Fits(Store!Registered \ gone, size)
            /\ finalizedBytes' = Store!Minus(finalizedBytes, Store!Finalized(gone)) + size
            /\ artifacts' = [alloc[1] EXCEPT
                  ![i] = [hash |-> leases[i].hash, access |-> alloc[2],
                          expires |-> now + FinalTtl]]
            /\ nextAccess' = alloc[2] + 1 /\ later' = Store!Used(i, gone)
            /\ leases' = Store!Forget(leases, {i})
            /\ pendingBytes' = Store!Minus(pendingBytes, leases[i].reserved)
      \/ \E gone \in SUBSET Store!Registered :
            /\ artifacts' = Store!Forget(artifacts, gone)
            /\ finalizedBytes' = Store!Minus(finalizedBytes, Store!Finalized(gone))
            /\ UNCHANGED <<leases, pendingBytes>>
  <2>1. Store!Stale \subseteq Store!Registered BY DEF Store!Stale
  <2>2. \A n, E : E \in Store!Evictions(n, Store!Registered \ Store!Stale) =>
            /\ Store!Stale \cup E \in SUBSET Store!Registered
            /\ Store!Fits(Store!Registered \ (Store!Stale \cup E), n)
    <3> TAKE n, E
    <3> HAVE E \in Store!Evictions(n, Store!Registered \ Store!Stale)
    <3>1. /\ E \subseteq Store!Registered \ Store!Stale
          /\ Store!Fits((Store!Registered \ Store!Stale) \ E, n)
      BY DEF Store!Evictions
    <3>2. (Store!Registered \ Store!Stale) \ E = Store!Registered \ (Store!Stale \cup E)
      OBVIOUS
    <3> QED BY <2>1, <3>1, <3>2
  <2>3. \A n, E : E \in Store!Incomplete(n, Store!Registered \ Store!Stale) =>
            Store!Stale \cup E \in SUBSET Store!Registered
    BY <2>1 DEF Store!Incomplete
  <2>4. CASE \E E \in Store!Evictions(size, Store!Registered \ Store!Stale) :
            LET alloc == Store!Allocate(Store!Forget(artifacts, Store!Stale \cup E)) IN
            /\ finalizedBytes' =
                   Store!Minus(finalizedBytes, Store!Finalized(Store!Stale \cup E)) + size
            /\ artifacts' = [alloc[1] EXCEPT
                  ![i] = [hash |-> leases[i].hash, access |-> alloc[2],
                          expires |-> now + FinalTtl]]
            /\ nextAccess' = alloc[2] + 1 /\ later' = Store!Used(i, Store!Stale \cup E)
            /\ leases' = Store!Forget(leases, {i})
            /\ pendingBytes' = Store!Minus(pendingBytes, leases[i].reserved)
    BY <2>2, <2>4, Zenon
  <2>5. CASE \E E \in Store!Evictions(size, Store!Registered \ Store!Stale) :
            /\ artifacts' = Store!Forget(artifacts, Store!Stale \cup E)
            /\ finalizedBytes' =
                   Store!Minus(finalizedBytes, Store!Finalized(Store!Stale \cup E))
            /\ UNCHANGED <<leases, pendingBytes>>
    BY <2>2, <2>5, Zenon
  <2>6. CASE \E S \in (SUBSET Store!Stale) \cup
                 {Store!Stale \cup E :
                  E \in Store!Incomplete(size, Store!Registered \ Store!Stale)} :
            /\ artifacts' = Store!Forget(artifacts, S)
            /\ finalizedBytes' = Store!Minus(finalizedBytes, Store!Finalized(S))
            /\ UNCHANGED <<leases, pendingBytes>>
    <3>1. \A S \in (SUBSET Store!Stale) \cup
                 {Store!Stale \cup E :
                  E \in Store!Incomplete(size, Store!Registered \ Store!Stale)} :
              S \in SUBSET Store!Registered
      <4>1. \A n : \A S \in {Store!Stale \cup E :
                   E \in Store!Incomplete(n, Store!Registered \ Store!Stale)} :
                S \in SUBSET Store!Registered
        BY <2>3
      <4>2. \A S \in SUBSET Store!Stale : S \in SUBSET Store!Registered BY <2>1
      <4> QED BY <4>1, <4>2
    <3> QED BY <2>6, <3>1, Zenon
  <2> QED BY <2>4, <2>5, <2>6 DEF Store!Finalize, Store!Remove
<1>3. ASSUME NEW gone \in SUBSET Store!Registered, NEW alloc,
             alloc = Store!Allocate(Store!Forget(artifacts, gone)),
             Store!Fits(Store!Registered \ gone, size),
             finalizedBytes' = Store!Minus(finalizedBytes, Store!Finalized(gone)) + size,
             artifacts' = [alloc[1] EXCEPT
                 ![i] = [hash |-> leases[i].hash, access |-> alloc[2],
                         expires |-> now + FinalTtl]],
             nextAccess' = alloc[2] + 1, later' = Store!Used(i, gone),
             leases' = Store!Forget(leases, {i}),
             pendingBytes' = Store!Minus(pendingBytes, leases[i].reserved)
      PROVE  PendingExact' /\ FinalizedExact'
  <2> DEFINE e == [hash |-> leases[i].hash, access |-> alloc[2], expires |-> now + FinalTtl]
             T == Store!Registered \ gone
             f == Sizes(artifacts)
             g == Sizes(artifacts')
  <2>1. PendingExact' BY <1>1, <1>3, LeaseGoes
  <2>2. e \in Entries /\ e.access = alloc[2] /\ e.hash = leases[i].hash
    <3>1. alloc[2] \in Nat BY <1>3, RegistryIsOK, AllocateKeepsHash
    <3> QED BY <1>1, <3>1 DEF Entries, Store!Entries, StoreInv, Store!StoreAssumption,
       Store!TypeOK
  <2>3. artifacts' = [alloc[1] EXCEPT ![i] = e] BY <1>3
  <2> HIDE DEF e
  <2>4. Gains(i, gone, e) BY <1>3, <2>2, <2>3, Zenon DEF Gains
  <2>5. /\ artifacts'[i] = e
        /\ \A j \in Ids : j # i =>
              /\ artifacts'[j] # None <=> artifacts[j] # None /\ j \notin gone
              /\ artifacts'[j] # None => artifacts'[j].hash = artifacts[j].hash
    BY <2>4, RegistryIsOK, RegistryGains
  <2>6. i \notin T /\ Store!Registered' = T \cup {i}
    <3>1. e # None BY <2>2, StoreTypes
    <3> QED BY <1>1, <2>5, <3>1 DEF Store!Registered
  <2>7. \A j \in T : /\ artifacts'[j] # None /\ artifacts'[j].hash = artifacts[j].hash
                     /\ f[j] \in Nat /\ g[j] = f[j]
    <3>1. \A j \in T : /\ j \in Ids /\ j # i /\ artifacts[j] # None
                       /\ artifacts'[j] # None /\ artifacts'[j].hash = artifacts[j].hash
      BY <2>5, <2>6 DEF Store!Registered
    <3> QED BY <3>1, StoreTypes, SizesAreNat DEF Sizes
  <2>8. /\ IsFiniteSet(T)
        /\ Sum(f, T) = Store!Minus(finalizedBytes, Store!Finalized(gone))
        /\ Sum(f, T) \in Nat /\ Sum(f, T) = Store!Finalized(T)
    <3>1. \A j \in T : artifacts[j] # None BY DEF Store!Registered
    <3> QED BY <3>1, ArtifactsGo
  <2>9. g[i] = size /\ g[i] \in Nat
    <3>1. e # None /\ size \in Nat BY <1>1, <2>2, StoreTypes
    <3> QED BY <2>2, <2>5, <3>1 DEF Sizes
  <2>10. Sum(g, T \cup {i}) = Sum(f, T) + g[i]
    <3> HIDE DEF f, g, T
    <3> QED BY <2>6, <2>7, <2>8, <2>9, SumOfMore
  <2>11. Sum(f, T) + size <= MaxTotal BY <1>3, <2>8 DEF Store!Fits
  <2> HIDE DEF f, T, size
  <2>12. finalizedBytes' = Sum(g, Store!Registered') /\ finalizedBytes' <= MaxTotal
    <3>1. finalizedBytes' = Sum(f, T) + size BY <1>3, <2>8
    <3> QED BY <2>6, <2>9, <2>10, <2>11, <3>1
  <2> QED BY <2>1, <2>12 DEF FinalizedExact
<1>4. ASSUME NEW gone \in SUBSET Store!Registered,
             artifacts' = Store!Forget(artifacts, gone),
             finalizedBytes' = Store!Minus(finalizedBytes, Store!Finalized(gone)),
             UNCHANGED <<leases, pendingBytes>>
      PROVE  PendingExact' /\ FinalizedExact'
  BY <1>4, RemovedCount DEF PendingExact, Store!Leased
<1> QED BY <1>2, <1>3, <1>4, Zenon

LEMMA LookupCounts ==
    ASSUME StoreInv, FinalizedExact, NEW i \in Ids, Store!Lookup(i)
    PROVE  FinalizedExact'
<1>1. Store!Stale \subseteq Store!Registered BY DEF Store!Stale
<1>2. \/ \E S \in SUBSET Store!Registered :
            /\ artifacts' = Store!Forget(artifacts, S)
            /\ finalizedBytes' = Store!Minus(finalizedBytes, Store!Finalized(S))
      \/ /\ i \in Store!Registered \ Store!Stale
         /\ finalizedBytes' = Store!Minus(finalizedBytes, Store!Finalized(Store!Stale))
         /\ LET alloc == Store!Allocate(Store!Forget(artifacts, Store!Stale)) IN
            /\ artifacts' = [alloc[1] EXCEPT ![i].access = alloc[2]]
            /\ nextAccess' = alloc[2] + 1 /\ later' = Store!Used(i, Store!Stale)
  BY <1>1 DEF Store!Lookup, Store!Remove
<1>3. ASSUME NEW S \in SUBSET Store!Registered,
             artifacts' = Store!Forget(artifacts, S),
             finalizedBytes' = Store!Minus(finalizedBytes, Store!Finalized(S))
      PROVE  FinalizedExact'
  BY <1>3, RemovedCount
<1>4. CASE /\ i \in Store!Registered \ Store!Stale
           /\ finalizedBytes' = Store!Minus(finalizedBytes, Store!Finalized(Store!Stale))
           /\ LET alloc == Store!Allocate(Store!Forget(artifacts, Store!Stale)) IN
              /\ artifacts' = [alloc[1] EXCEPT ![i].access = alloc[2]]
              /\ nextAccess' = alloc[2] + 1 /\ later' = Store!Used(i, Store!Stale)
  <2>1. PICK gone, alloc :
            /\ gone = Store!Stale /\ alloc = Store!Allocate(Store!Forget(artifacts, gone))
            /\ artifacts' = [alloc[1] EXCEPT ![i].access = alloc[2]]
            /\ nextAccess' = alloc[2] + 1 /\ later' = Store!Used(i, gone)
    BY <1>4, Zenon
  <2>2. PICK e : Gains(i, gone, e) /\ e.hash = artifacts[i].hash BY <1>4, <2>1, TouchedGains
  <2>3. /\ artifacts'[i] = e /\ e # None
        /\ \A j \in Ids : j # i =>
              /\ artifacts'[j] # None <=> artifacts[j] # None /\ j \notin gone
              /\ artifacts'[j] # None => artifacts'[j].hash = artifacts[j].hash
    BY <2>2, RegistryIsOK, RegistryGains DEF Gains
  <2>4. /\ Store!Registered' = Store!Registered \ gone
        /\ \A j \in Store!Registered' :
               artifacts'[j] # None /\ artifacts'[j].hash = artifacts[j].hash
    BY ZenonT(60), <1>4, <2>1, <2>2, <2>3 DEF Store!Registered
  <2>5. /\ Sum(Sizes(artifacts'), Store!Registered')
              = Store!Minus(finalizedBytes, Store!Finalized(gone))
        /\ Sum(Sizes(artifacts'), Store!Registered') <= MaxTotal
    <3>1. gone \in SUBSET Store!Registered BY <1>1, <2>1
    <3> QED BY <2>4, <3>1, ArtifactsGo
  <2> QED BY <1>4, <2>1, <2>5 DEF FinalizedExact
<1> QED BY <1>2, <1>3, <1>4

AccountsInv == StoreInv /\ PendingExact /\ FinalizedExact

LEMMA AccountsInit == Store!StoreAssumption /\ Store!Init => AccountsInv
<1> SUFFICES ASSUME Store!StoreAssumption, Store!Init PROVE AccountsInv OBVIOUS
<1>1. Store!Leased = {} /\ Store!Registered = {} /\ pendingBytes = 0 /\ finalizedBytes = 0
  BY DEF Store!Init, Store!Nobody, Store!Leased, Store!Registered
<1>2. MaxPending \in Nat /\ MaxTotal \in Nat BY DEF Store!StoreAssumption
<1> QED BY <1>1, <1>2, SumOfNothing, FS_EmptySet, StoreInit DEF AccountsInv, PendingExact,
   FinalizedExact

LEMMA AccountsStep == AccountsInv /\ [Store!Next]_Store!vars => AccountsInv'
<1> SUFFICES ASSUME AccountsInv, [Store!Next]_Store!vars PROVE AccountsInv' OBVIOUS
<1> USE DEF AccountsInv
<1>0. StoreInv' BY StoreStep
<1>1. UNCHANGED <<leases, pendingBytes>> => PendingExact' BY DEF PendingExact, Store!Leased
<1>2. UNCHANGED <<artifacts, finalizedBytes>> => FinalizedExact'
  BY DEF FinalizedExact, Store!Registered
<1>3. ASSUME NEW i \in Ids, Store!CreateLease(i) PROVE AccountsInv'
  <2>1. PICK A \in SUBSET Store!Registered :
           /\ artifacts' = Store!Forget(artifacts, A)
           /\ finalizedBytes' = Store!Minus(finalizedBytes, Store!Finalized(A))
    <3>1. \A c \in Store!Cleanups : c.a \in SUBSET Store!Registered
      BY DEF Store!Cleanups, Store!Stale
    <3> QED BY <1>3, <3>1, Zenon DEF Store!CreateLease
  <2> QED BY <1>0, <1>3, <2>1, RemovedCount, CreateLeaseCounts
<1>4. ASSUME NEW i \in Ids, Store!Expire(i) \/ Store!Abort(i) PROVE AccountsInv'
  <2>1. i \in Store!Leased /\ Store!DropLease(i)
    BY <1>4 DEF Store!Expire, Store!Abort, Store!Late, Store!Live
  <2> QED BY <1>0, <1>2, <2>1, LeaseGoes DEF Store!DropLease
<1>5. ASSUME NEW i \in Ids, Store!AppendChunk(i) PROVE AccountsInv'
  <2>1. UNCHANGED <<artifacts, finalizedBytes>> BY <1>5 DEF Store!AppendChunk
  <2> QED BY <1>0, <1>2, <1>5, <2>1, AppendChunkCounts
<1>6. ASSUME NEW i \in Ids, Store!Finalize(i) PROVE AccountsInv'
  BY <1>0, <1>6, FinalizeCounts
<1>7. ASSUME NEW i \in Ids, Store!Lookup(i) PROVE AccountsInv'
  <2>1. UNCHANGED <<leases, pendingBytes>> BY <1>7 DEF Store!Lookup
  <2> QED BY <1>0, <1>1, <1>7, <2>1, LookupCounts
<1>8. ASSUME NEW i \in Ids, Store!Consume(i) PROVE AccountsInv'
  <2>1. PICK S \in SUBSET Store!Registered :
           /\ artifacts' = Store!Forget(artifacts, S)
           /\ finalizedBytes' = Store!Minus(finalizedBytes, Store!Finalized(S))
           /\ UNCHANGED <<leases, pendingBytes>>
    BY <1>8 DEF Store!Consume, Store!Remove, Store!Stale
  <2> QED BY <1>0, <1>1, <2>1, RemovedCount
<1>9. CASE Store!Tick \/ UNCHANGED Store!vars
  <2>1. UNCHANGED <<leases, pendingBytes, artifacts, finalizedBytes>>
    BY <1>9 DEF Store!Tick, Store!vars
  <2> QED BY <1>0, <1>1, <1>2, <2>1
<1>10. CASE Store!Restart
  <2>1. /\ leases' = Store!Nobody /\ artifacts' = Store!Nobody
        /\ pendingBytes' = 0 /\ finalizedBytes' = 0
    BY <1>10 DEF Store!Restart
  <2>2. Store!Leased' = {} /\ Store!Registered' = {}
    BY <2>1 DEF Store!Leased, Store!Registered, Store!Nobody
  <2>3. PendingExact' /\ FinalizedExact'
    BY <2>1, <2>2, SumOfNothing, FS_EmptySet, StoreTypes DEF PendingExact, FinalizedExact
  <2> QED BY <1>0, <2>3
<1> QED BY <1>3, <1>4, <1>5, <1>6, <1>7, <1>8, <1>9, <1>10 DEF Store!Next

LEMMA AccountsInvIsExact == AccountsInv => Store!AccountsAreExact
<1> SUFFICES ASSUME AccountsInv PROVE Store!AccountsAreExact OBVIOUS
<1>1. /\ IsFiniteSet(Store!Leased) /\ Store!Leased \in SUBSET Ids
      /\ \A j \in Store!Leased : leases[j] # None
      /\ IsFiniteSet(Store!Registered) /\ Store!Registered \in SUBSET Ids
      /\ \A j \in Store!Registered : artifacts[j] # None
  BY StoreTypes DEF AccountsInv, PendingExact, Store!Leased, Store!Registered
<1>2. /\ Store!Reserved(Store!Leased) = Sum(Reservations(leases), Store!Leased)
      /\ Store!Finalized(Store!Registered) = Sum(Sizes(artifacts), Store!Registered)
  BY <1>1, AccountsAreFolds, FoldsAreSums
<1> QED BY <1>2 DEF AccountsInv, PendingExact, FinalizedExact, Store!AccountsAreExact

(* Whatever fails half way, is sent again, expires, or is forgotten by a restart: what is
   published under an id is, chunk by chunk, what was acknowledged to the client that has
   uploaded it (artifact.rs:561, 640). *)
THEOREM PublishedIsAcknowledged ==
    Store!StoreAssumption => (Store!Spec => []Store!PublishedIsWhole)
<1> SUFFICES ASSUME Store!StoreAssumption
             PROVE  Store!Spec => []Store!PublishedIsWhole
  OBVIOUS
<1>1. StoreInv => Store!PublishedIsWhole BY DEF StoreInv
<1> QED BY <1>1, StoreInit, StoreStep, PTL DEF Store!Spec

(* However many uses there are and whenever the counter ends, the numbers of the listed
   artifacts are in the order of their uses, so that what is evicted is what was used least
   recently (artifact.rs:720, 828 and 1029). *)
THEOREM EvictionsAreLeastRecent ==
    Store!StoreAssumption => (Store!Spec => []Store!UsesAreOrdered)
<1> SUFFICES ASSUME Store!StoreAssumption
             PROVE  Store!Spec => []Store!UsesAreOrdered
  OBVIOUS
<1>1. StoreInv => Store!UsesAreOrdered BY DEF StoreInv
<1> QED BY <1>1, StoreInit, StoreStep, PTL DEF Store!Spec

(* Whatever is reserved, grows, is dropped, expires, is evicted, or fails half way: the two
   counters are the sums of what they count, and the budgets hold (artifact.rs:665 and
   820). *)
THEOREM AccountsAreKept ==
    Store!StoreAssumption => (Store!Spec => []Store!AccountsAreExact)
<1> SUFFICES ASSUME Store!StoreAssumption
             PROVE  Store!Spec => []Store!AccountsAreExact
  OBVIOUS
<1> QED BY AccountsInit, AccountsStep, AccountsInvIsExact, PTL DEF Store!Spec

(* The store keeps what it has acknowledged, its accounts and the order of its uses, all
   three (StoreIsConsistent). *)
THEOREM StoreStaysConsistent ==
    Store!StoreAssumption => (Store!Spec => []StoreIsConsistent)
<1>1. Store!PublishedIsWhole /\ Store!AccountsAreExact /\ Store!UsesAreOrdered
         => StoreIsConsistent
  BY DEF StoreIsConsistent
<1> QED BY <1>1, PublishedIsAcknowledged, AccountsAreKept, EvictionsAreLeastRecent, PTL

-------------------------------------------------------------------------------
(* The playtest of a command. *)


(* What the variables hold, and finitely many requests. *)
PlayTyped == Play!PlaytestAssumption /\ Play!TypeOK /\ IsFiniteSet(inbox)

(* A finite set of numbers has a greatest one, and any a smallest one. *)
LEMMA GreatestNumber ==
    ASSUME NEW S, S \subseteq Nat, IsFiniteSet(S), S # {}
    PROVE  Play!Max(S) \in S /\ \A y \in S : y <= Play!Max(S)
<1> DEFINE Tops(s) == {x \in s : \A y \in s : x >= y}
           T == {t \in FiniteSubsetsOf(S) : t # {} /\ Tops(t) = {}}
<1>1. T = {}
  <2> SUFFICES ASSUME T # {} PROVE FALSE OBVIOUS
  <2>1. PICK m \in T : \A n \in T : n \subseteq m => n = m
    <3>1. T \subseteq FiniteSubsetsOf(S) OBVIOUS
    <3> HIDE DEF T
    <3> QED BY <3>1, SmallestSet
  <2>2. m \subseteq S /\ IsFiniteSet(m) /\ m # {} /\ Tops(m) = {} BY DEF FiniteSubsetsOf
  <2>3. PICK x \in m : TRUE BY <2>2
  <2> DEFINE n == m \ {x}
  <2>4. n \subseteq m /\ n # m /\ n \in FiniteSubsetsOf(S)
    BY <2>2, FS_Subset DEF FiniteSubsetsOf
  <2>5. n = {} \/ Tops(n) # {} BY <2>1, <2>4
  <2>6. CASE n = {}
    <3>1. m = {x} /\ x \in Nat BY <2>2, <2>6
    <3>2. x \in Tops(m) BY <3>1
    <3> QED BY <2>2, <3>2
  <2>7. CASE Tops(n) # {}
    <3>1. PICK z \in n : \A y \in n : z >= y BY <2>7
    <3>2. x \in Nat /\ z \in Nat /\ \A y \in m : y \in Nat BY <2>2
    <3>3. CASE x >= z
      <4>1. \A y \in m : x >= y BY <3>1, <3>2, <3>3
      <4> QED BY <2>2, <4>1
    <3>4. CASE ~ (x >= z)
      <4>1. \A y \in m : z >= y BY <3>1, <3>2, <3>4
      <4> QED BY <2>2, <4>1
    <3> QED BY <3>3, <3>4
  <2> QED BY <2>5, <2>6, <2>7
<1>2. S \in FiniteSubsetsOf(S) BY DEF FiniteSubsetsOf
<1>3. \E x \in S : \A y \in S : x >= y BY <1>1, <1>2
<1>4. Play!Max(S) \in S /\ \A y \in S : Play!Max(S) >= y BY <1>3 DEF Play!Max
<1> QED BY <1>4

(* A set of numbers has a smallest one. *)
LEMMA LeastNumber ==
    ASSUME NEW S, S \subseteq Nat, S # {}
    PROVE  Play!Min(S) \in S /\ \A y \in S : Play!Min(S) <= y
<1>1. PICK x \in S : TRUE OBVIOUS
<1> DEFINE T == {n \in 0 .. x : \A y \in S : n <= y}
<1>2. T \subseteq Nat /\ 0 \in T BY <1>1
<1>3. IsFiniteSet(T)
  <2>1. IsFiniteSet(0 .. x) /\ T \subseteq 0 .. x BY <1>1, FS_Interval
  <2> HIDE DEF T
  <2> QED BY <2>1, FS_Subset
<1>4. Play!Max(T) \in T /\ \A n \in T : n <= Play!Max(T)
  <2> HIDE DEF T
  <2> QED BY <1>2, <1>3, GreatestNumber
<1>5. Play!Max(T) \in S
  <2> SUFFICES ASSUME Play!Max(T) \notin S PROVE FALSE OBVIOUS
  <2>1. Play!Max(T) \in Nat /\ \A y \in S : Play!Max(T) <= y BY <1>4
  <2> HIDE DEF T
  <2>2. \A y \in S : y \in Nat /\ Play!Max(T) + 1 <= y BY <2>1
  <2>3. Play!Max(T) + 1 \in T BY <1>1, <2>1, <2>2 DEF T
  <2> QED BY <1>4, <2>1, <2>3
<1>6. \E n \in S : \A y \in S : n =< y BY <1>4, <1>5
<1> HIDE DEF T
<1> QED BY <1>6 DEF Play!Min

(* The number of a request is above those of all others. *)
LEMMA NumberIsNew ==
    PlayTyped => /\ Play!Number \in Nat \ {0}
                 /\ \A m \in inbox : m.id < Play!Number
                 /\ cancel # NoPlay => cancel.id < Play!Number
<1> SUFFICES ASSUME PlayTyped
             PROVE  /\ Play!Number \in Nat \ {0}
                    /\ \A m \in inbox : m.id < Play!Number
                    /\ cancel # NoPlay => cancel.id < Play!Number
  OBVIOUS
<1> DEFINE I == {m.id : m \in inbox}
           C == IF cancel = NoPlay THEN {} ELSE {cancel.id}
           S == {0} \cup I \cup C
<1>1. IsFiniteSet(S) /\ S \subseteq Nat /\ S # {}
  <2>1. IsFiniteSet(I)
    <3> DEFINE f == [m \in inbox |-> m.id]
    <3>1. f \in Surjection(inbox, I) BY DEF Surjection
    <3> HIDE DEF f
    <3> QED BY <3>1, FS_Surjection DEF PlayTyped
  <2>2. IsFiniteSet(C) /\ IsFiniteSet({0}) BY FS_Singleton, FS_EmptySet
  <2>3. I \subseteq Nat /\ C \subseteq Nat
    BY DEF PlayTyped, Play!TypeOK, Play!Requests, Play!Cancels
  <2> HIDE DEF I, C
  <2>4. IsFiniteSet({0} \cup I) BY <2>1, <2>2, FS_Union
  <2>5. IsFiniteSet(S) BY <2>2, <2>4, FS_Union
  <2> QED BY <2>3, <2>5
<1>2. Play!Max(S) \in Nat /\ \A y \in S : y <= Play!Max(S)
  <2> HIDE DEF S
  <2> QED BY <1>1, GreatestNumber
<1>3. Play!Number = 1 + Play!Max(S) BY DEF Play!Number
<1>4. \A m \in inbox : m.id \in S /\ m.id \in Nat BY <1>1
<1>5. cancel # NoPlay => cancel.id \in S /\ cancel.id \in Nat BY <1>1
<1> HIDE DEF S
<1> QED BY <1>2, <1>3, <1>4, <1>5

-------------------------------------------------------------------------------
(* Frames in the order of their numbers. *)
Increasing(s) == \A i, k \in DOMAIN s : i < k => s[i].seq < s[k].seq

(* A part of a queue in order is in order. *)
LEMMA PartIsIncreasing ==
    ASSUME NEW s \in Seq(Play!Frames), NEW m \in Nat \ {0}, NEW n \in Nat, n <= Len(s)
    PROVE  /\ SubSeq(s, m, n) \in Seq(Play!Frames)
           /\ Len(SubSeq(s, m, n)) = IF m <= n THEN n - m + 1 ELSE 0
           /\ \A i \in DOMAIN SubSeq(s, m, n) :
                 i + m - 1 \in DOMAIN s /\ SubSeq(s, m, n)[i] = s[i + m - 1]
           /\ Increasing(s) => Increasing(SubSeq(s, m, n))
<1> DEFINE p == SubSeq(s, m, n)
<1>1. /\ p \in Seq(Play!Frames)
      /\ Len(p) = IF m <= n THEN n - m + 1 ELSE 0
      /\ \A i \in 1 .. Len(p) : p[i] = s[m + i - 1]
  <2>1. \A i \in m .. n : s[i] \in Play!Frames OBVIOUS
  <2> QED BY <2>1, SubSeqProperties
<1>2. DOMAIN p = 1 .. Len(p) /\ DOMAIN s = 1 .. Len(s) BY <1>1
<1> HIDE DEF p
<1>3. \A i \in DOMAIN p : i + m - 1 \in DOMAIN s /\ p[i] = s[i + m - 1] BY <1>1, <1>2
<1>4. Increasing(s) => Increasing(p)
  <2> SUFFICES ASSUME Increasing(s), NEW i \in DOMAIN p, NEW k \in DOMAIN p, i < k
               PROVE  p[i].seq < p[k].seq
    BY DEF Increasing
  <2>1. i + m - 1 < k + m - 1 BY <1>2
  <2> QED BY <1>3, <2>1 DEF Increasing
<1> QED BY <1>1, <1>3, <1>4 DEF p

(* What the command has not seen of a queue in order is what is newer. *)
LEMMA UnseenIsNew ==
    ASSUME NEW q \in Seq(Play!Frames), NEW n \in Nat
    PROVE  /\ Play!Unseen(q, n) \in Seq(Play!Frames)
           /\ Len(Play!Unseen(q, n)) <= Len(q)
           /\ Increasing(q) =>
                 /\ Increasing(Play!Unseen(q, n))
                 /\ Play!Range(Play!Unseen(q, n)) = {e \in Play!Range(q) :
                                                             e.seq > n}
<1> DEFINE new == {i \in DOMAIN q : q[i].seq > n}
           S == new \cup {Len(q) + 1}
           f == Play!Min(S)
           u == SubSeq(q, f, Len(q))
<1>1. Play!Unseen(q, n) = u BY DEF Play!Unseen
<1>2. DOMAIN q = 1 .. Len(q) /\ Len(q) \in Nat /\ \A i \in DOMAIN q : q[i] \in Play!Frames
  OBVIOUS
<1>3. f \in S /\ \A i \in S : f <= i
  <2>1. S \subseteq Nat /\ S # {} BY <1>2
  <2> HIDE DEF S
  <2> QED BY <2>1, LeastNumber
<1>4. f \in Nat \ {0} /\ f <= Len(q) + 1 BY <1>2, <1>3
<1> HIDE DEF f
<1>5. /\ u \in Seq(Play!Frames)
      /\ Len(u) = IF f <= Len(q) THEN Len(q) - f + 1 ELSE 0
      /\ \A i \in DOMAIN u : i + f - 1 \in DOMAIN q /\ u[i] = q[i + f - 1]
      /\ Increasing(q) => Increasing(u)
  BY <1>2, <1>4, PartIsIncreasing
<1>6. Len(u) <= Len(q) BY <1>2, <1>4, <1>5
<1>7. ASSUME Increasing(q) PROVE Play!Range(u) = {e \in Play!Range(q) : e.seq > n}
  <2>1. \A i \in DOMAIN q : q[i].seq > n <=> i >= f
    <3> TAKE i \in DOMAIN q
    <3>1. q[i].seq > n => i >= f BY <1>2, <1>3, <1>4
    <3>2. ASSUME i >= f PROVE q[i].seq > n
      <4>1. f \in new BY <1>2, <1>3, <1>4, <3>2
      <4>2. i = f \/ q[f].seq < q[i].seq BY <1>2, <1>4, <1>7, <3>2, <4>1 DEF Increasing
      <4>3. q[f].seq \in Nat /\ q[i].seq \in Nat /\ q[f].seq > n
        BY <1>2, <4>1 DEF Play!Frames
      <4> QED BY <4>2, <4>3
    <3> QED BY <3>1, <3>2
  <2>2. ASSUME NEW e \in Play!Range(u) PROVE e \in Play!Range(q) /\ e.seq > n
    <3>1. PICK i \in DOMAIN u : e = u[i] BY DEF Play!Range
    <3>2. i + f - 1 \in DOMAIN q /\ e = q[i + f - 1] /\ i + f - 1 >= f
      <4>1. DOMAIN u = 1 .. Len(u) BY <1>5
      <4> HIDE DEF u
      <4> QED BY <1>4, <1>5, <3>1, <4>1
    <3> QED BY <2>1, <3>2 DEF Play!Range
  <2>3. ASSUME NEW e \in Play!Range(q), e.seq > n PROVE e \in Play!Range(u)
    <3>1. PICK i \in DOMAIN q : e = q[i] BY DEF Play!Range
    <3>2. i >= f BY <2>1, <2>3, <3>1
    <3>3. DOMAIN u = 1 .. Len(u) BY <1>5
    <3> HIDE DEF u
    <3>4. i - f + 1 \in DOMAIN u /\ (i - f + 1) + f - 1 = i BY <1>2, <1>4, <1>5, <3>2, <3>3
    <3> QED BY <1>5, <3>1, <3>4 DEF Play!Range
  <2> QED BY <2>2, <2>3
<1> QED BY <1>1, <1>5, <1>6, <1>7

-------------------------------------------------------------------------------

(* The command's questions, a start on its way, and a job. *)
Asking == {"start", "poll", "status", "cancel"}
Starts == \E m \in inbox : m.op = "start"
Begun == job # NoPlay

(* Requests have numbers of their own. *)
RequestsAreNew == \A m, n \in inbox : m.id = n.id => m = n

(* The command waits for the last of them, and for the one it needs. *)
AnswerIsAwaited ==
    /\ waits # NoPlay =>
          /\ cmd.pc \in Asking
          /\ \A m \in inbox : m.id <= waits
          /\ \A m \in inbox : m.id = waits => m.op = cmd.pc /\ m.after = cmd.cursor
          /\ cancel # NoPlay => cancel.id <= waits
          /\ cancel # NoPlay /\ cancel.id = waits => cmd.pc = "cancel"
    /\ reply # NoPlay => waits # NoPlay
    /\ reply # NoPlay /\ cmd.pc = "cancel" /\ reply.kind = "ok" => reply.outcome # NoPlay
    /\ reply # NoPlay /\ reply.kind # "ok" => reply.outcome = NoPlay

(* Why the command asks what it asks. *)
WhyIsKnown ==
    /\ cmd.pc = "start" => cmd.why = "start"
    /\ cmd.pc = "poll" => cmd.why = "run"
    /\ cmd.pc = "status" => cmd.why \in {"recover", "heartbeat", "timeout", "interrupt"}
    /\ cmd.pc = "cancel" => cmd.why # "run"

(* Nothing runs, and nothing asks how it runs, before there is a job. *)
JobIsBegun ==
    \/ Begun
    \/ /\ ~ studio /\ script = "off" /\ stop = NoPlay /\ term = NoPlay /\ cancel = NoPlay
       /\ \A m \in inbox : m.op \notin {"poll", "status"}
       /\ cmd.pc \notin {"poll", "status"}
       /\ cmd.pc = "cancel" => cmd.why = "start"
       /\ reply # NoPlay => ~ (cmd.pc = "start" /\ reply.kind = "ok")

(* Before the command has sent a start there is none. *)
SentIsKnown == ~ cmd.sent => ~ Begun /\ ~ Starts

(* A run is decided once, and one at a time stops the playtest. *)
DecisionIsOne ==
    /\ Begun => /\ job.pending <=> (term # NoPlay)
                /\ term # NoPlay => job.terminal = NoPlay
                /\ job.status = "running" => stop = NoPlay
    /\ stop # NoPlay /\ stop.by = "terminal" => term # NoPlay /\ term.phase = "stop"
    /\ term # NoPlay /\ term.phase = "runners" => keepOpen

(* Unless a stop has failed, the playtest runs while its job is active. *)
StudioIsKnown == ~ refused /\ Begun => (studio <=> job.status \in Play!Active)

(* What every step stands on. *)
PlayShape ==
    /\ RequestsAreNew /\ AnswerIsAwaited /\ WhyIsKnown /\ JobIsBegun /\ SentIsKnown
    /\ DecisionIsOne /\ StudioIsKnown

-------------------------------------------------------------------------------
(* The types are kept. *)
LEMMA MarkedIsQueue ==
    PlayTyped => Play!Marked.events \in Seq(Play!Frames) /\ Play!Marked.seq \in Nat
<1> SUFFICES ASSUME PlayTyped
    PROVE Play!Marked.events \in Seq(Play!Frames) /\ Play!Marked.seq \in Nat
  OBVIOUS
<1>1. events \in Seq(Play!Frames) /\ seq \in Nat /\ dropped \in Nat
        /\ QueueMax \in Nat \ {0}
  BY DEF PlayTyped, Play!TypeOK, Play!PlaytestAssumption
<1>2. CASE dropped = 0 BY <1>1, <1>2 DEF Play!Marked
<1>3. CASE dropped # 0
  <2> DEFINE full == Len(events) >= QueueMax
             lost == IF ~ full THEN 0
                     ELSE IF Head(events).type = "dropped" THEN Head(events).count ELSE 1
             rest == IF full THEN Tail(events) ELSE events
  <2>1. lost \in Nat /\ rest \in Seq(Play!Frames)
    <3>1. CASE ~ full BY <1>1, <3>1
    <3>2. CASE full
      <4>1. events # <<>> BY <1>1, <3>2
      <4>2. Head(events) \in Play!Frames /\ Tail(events) \in Seq(Play!Frames) BY <1>1, <4>1
      <4> QED BY <3>2, <4>2 DEF Play!Frames
    <3> QED BY <3>1, <3>2
  <2>2. Play!Marked = [events |-> Append(rest, Play!Frame("dropped", seq, dropped + lost)),
                           seq |-> seq + 1]
    BY <1>3 DEF Play!Marked
  <2> HIDE DEF lost, rest
  <2>3. Play!Frame("dropped", seq, dropped + lost) \in Play!Frames
    BY <1>1, <2>1 DEF Play!Frame, Play!Frames
  <2> QED BY <1>1, <2>1, <2>2, <2>3
<1> QED BY <1>2, <1>3

(* An event or the end leaves a queue. *)
LEMMA EnqueueKeepsQueue ==
    ASSUME PlayTyped, NEW type \in {"event", "end"}, Play!Enqueue(type)
    PROVE  events' \in Seq(Play!Frames) /\ dropped' \in Nat /\ seq' \in Nat
<1>1. Play!Marked.events \in Seq(Play!Frames) /\ Play!Marked.seq \in Nat BY MarkedIsQueue
<1>2. Play!Frame(type, Play!Marked.seq, 0) \in Play!Frames
  BY <1>1 DEF Play!Frame, Play!Frames
<1>3. \A q \in Seq(Play!Frames),
      f \in Play!Frames : Append(q, f) \in Seq(Play!Frames)
  BY AppendProperties
<1>4. CASE Len(Play!Marked.events) >= QueueMax BY <1>1, <1>4 DEF Play!Enqueue
<1>5. CASE ~ (Len(Play!Marked.events) >= QueueMax)
  <2>1. dropped' = 0 /\ events' = Append(Play!Marked.events,
                                         Play!Frame(type, Play!Marked.seq, 0))
        /\ seq' = Play!Marked.seq + 1
    BY <1>5, Zenon DEF Play!Enqueue
  <2> QED BY <1>1, <1>2, <1>3, <2>1
<1> QED BY <1>4, <1>5

(* The cursor of an answer is a number. *)
LEMMA LastIsNumber ==
    ASSUME cmd \in Play!Commands, NEW f \in Seq(Play!Frames)
      PROVE Play!LastSeq(f) \in Nat
<1>1. CASE f = <<>> BY <1>1 DEF Play!LastSeq, Play!Commands
<1>2. CASE f # <<>>
  <2>1. f[Len(f)] \in Play!Frames BY <1>2
  <2> QED BY <1>2, <2>1 DEF Play!LastSeq, Play!Frames
<1> QED BY <1>1, <1>2

(* To take a request only removes it. *)
LEMMA TakeKeeps ==
    ASSUME PlayTyped, NEW m \in inbox, Play!Take(m)
    PROVE  inbox' \subseteq inbox /\ inbox' \subseteq Play!Requests /\ IsFiniteSet(inbox')
<1>1. inbox' \subseteq inbox BY DEF Play!Take
<1> QED BY <1>1, FS_Subset DEF PlayTyped, Play!TypeOK

(* To respond removes the request, and may be heard. *)
LEMMA RespondKeeps ==
    ASSUME PlayTyped, NEW m \in inbox, NEW r \in Play!Replies, Play!Respond(m, r)
    PROVE  /\ inbox' \subseteq inbox /\ inbox' \subseteq Play!Requests
           /\ IsFiniteSet(inbox')
           /\ reply' \in Play!Replies \cup {NoPlay} /\ waits' = waits
<1>1. Play!Take(m) /\ waits' = waits /\ reply' \in Play!Replies \cup {NoPlay}
  BY DEF Play!Respond, PlayTyped, Play!TypeOK
<1> QED BY <1>1, TakeKeeps

(* What a decision does: runners are cancelled, or somebody else is stopping the playtest,
   or it is stopped, or it is over. *)
DecideRunners(kind, force, j) ==
    /\ keepOpen
    /\ job' = [j EXCEPT !.pending = TRUE]
    /\ term' = [phase |-> "runners", end |-> Play!Terminal(kind, FALSE)]
    /\ stop' = stop
DecideAborted(j) ==
    /\ j.status = "stopping"
    /\ job' = [j EXCEPT !.pending = TRUE]
    /\ term' = [phase |-> "audit", end |-> Play!Terminal("aborted", TRUE)]
    /\ stop' = stop
DecideStop(kind, force, j) ==
    /\ j.status = "running"
    /\ job' = [j EXCEPT !.pending = TRUE, !.status = "stopping", !.stopRequested = TRUE]
    /\ term' = [phase |-> "stop", end |-> Play!Terminal(kind, FALSE)]
    /\ stop' = [by |-> "terminal", force |-> force \/ kind \in {"timeout", "bootFailure"}]
DecideOver(kind, j) ==
    /\ j.status \notin Play!Active
    /\ job' = [j EXCEPT !.pending = TRUE]
    /\ term' = [phase |-> "audit", end |-> Play!Terminal(kind, FALSE)]
    /\ stop' = stop

(* A decision is one of the four. *)
LEMMA DecideIsOne ==
    ASSUME NEW kind, NEW force, NEW j, Play!Decide(kind, force, j)
    PROVE  \/ DecideRunners(kind, force, j) \/ DecideAborted(j)
           \/ DecideStop(kind, force, j) \/ DecideOver(kind, j)
<1>1. CASE keepOpen /\ kind \notin {"aborted", "start response lost"} /\ ~ force
  BY <1>1 DEF Play!Decide, DecideRunners
<1>2. CASE ~ (keepOpen /\ kind \notin {"aborted", "start response lost"} /\ ~ force)
  <2>1. CASE j.status = "stopping" BY <1>2, <2>1 DEF Play!Decide, DecideAborted
  <2>2. CASE j.status = "running" BY <1>2, <2>2 DEF Play!Decide, DecideStop
  <2>3. CASE j.status # "stopping" /\ j.status # "running"
    BY <1>2, <2>3 DEF Play!Decide, DecideOver, Play!Active
  <2> QED BY <2>1, <2>2, <2>3
<1> QED BY <1>1, <1>2

(* A decision keeps the types. *)
LEMMA DecideKeeps ==
    ASSUME NEW kind \in Play!Kinds, NEW force \in BOOLEAN, NEW j \in Play!Jobs,
           stop \in Play!Stops \cup {NoPlay}, Play!Decide(kind, force, j)
    PROVE  /\ job' \in Play!Jobs /\ term' \in Play!Decisions
                /\ stop' \in Play!Stops \cup {NoPlay}
<1>1. Play!Terminal(kind, FALSE) \in Play!Ends
        /\ Play!Terminal("aborted", TRUE) \in Play!Ends
  BY DEF Play!Terminal, Play!Ends, Play!Kinds
<1> USE <1>1 DEF Play!Jobs, Play!Decisions
<1>2. CASE DecideRunners(kind, force, j) BY <1>2 DEF DecideRunners
<1>3. CASE DecideAborted(j) BY <1>3 DEF DecideAborted
<1>4. CASE DecideStop(kind, force, j)
  <2> USE <1>4 DEF DecideStop
  <2>1. [by |-> "terminal", force |-> force
         \/ kind \in {"timeout", "bootFailure"}] \in Play!Stops
    BY Zenon DEF Play!Stops
  <2>2. job' \in Play!Jobs OBVIOUS
  <2>3. term' \in Play!Decisions OBVIOUS
  <2> QED BY <2>1, <2>2, <2>3
<1>5. CASE DecideOver(kind, j) BY <1>5 DEF DecideOver
<1> QED BY <1>2, <1>3, <1>4, <1>5, DecideIsOne

(* The types hold in the beginning. *)
LEMMA InitTyped == Play!PlaytestAssumption /\ Play!Init => PlayTyped
<1> SUFFICES ASSUME Play!PlaytestAssumption, Play!Init PROVE PlayTyped OBVIOUS
<1>1. spare \in [events : Nat, losses : Nat, faults : Nat, stops : Nat]
  BY DEF Play!Init, Play!PlaytestAssumption
<1>2. cmd \in Play!Commands BY DEF Play!Init, Play!Commands, Play!Whys
<1>3. IsFiniteSet(inbox) /\ inbox \subseteq Play!Requests BY FS_EmptySet DEF Play!Init
<1>4. /\ keepOpen \in BOOLEAN /\ waits = NoPlay /\ reply = NoPlay /\ job = NoPlay
      /\ tombstone \in BOOLEAN /\ studio \in BOOLEAN /\ script = "off"
      /\ stop = NoPlay /\ term = NoPlay /\ cancel = NoPlay
  BY DEF Play!Init
<1>5. /\ events \in Seq(Play!Frames) /\ dropped \in Nat /\ seq \in Nat
      /\ printed \in Seq(Play!Frames) /\ emitted \in Nat /\ refused \in BOOLEAN
  <2>1. <<>> \in Seq(Play!Frames) OBVIOUS
  <2> QED BY <2>1 DEF Play!Init
<1> QED BY <1>1, <1>2, <1>3, <1>4, <1>5 DEF PlayTyped, Play!TypeOK

(* Whatever the command turns to, it is a command. *)
LEMMA CommandsKeep ==
    ASSUME cmd \in Play!Commands
    PROVE  /\ \A pc \in {"start", "poll", "status", "cancel"}, why \in Play!Whys :
                 Play!Go(pc, why) => cmd' \in Play!Commands
           /\ \A kind \in Play!Kinds : Play!Finish(kind) => cmd' \in Play!Commands
           /\ Play!NextAttempt => cmd' \in Play!Commands
           /\ \A why \in Play!Whys : Play!Abort(why) => cmd' \in Play!Commands
<1>1. \A pc \in {"start", "poll", "status", "cancel"}, why \in Play!Whys :
         Play!Go(pc, why) => cmd' \in Play!Commands
  BY ZenonT(60) DEF Play!Go, Play!Commands
<1>2. \A kind \in Play!Kinds : Play!Finish(kind) => cmd' \in Play!Commands
  BY ZenonT(60) DEF Play!Finish, Play!Commands
<1>3. Play!NextAttempt => cmd' \in Play!Commands
  <2>1. [cmd EXCEPT !.attempt = @ + 1] \in Play!Commands BY DEF Play!Commands
  <2> QED BY <1>1, <1>2, <2>1 DEF Play!NextAttempt, Play!Kinds, Play!Whys
<1> QED BY <1>1, <1>2, <1>3 DEF Play!Abort, Play!Kinds

(* The outcome of a terminal record is a kind of end. *)
LEMMA OutcomeIsKind == \A t \in Play!Ends : Play!Outcome(t) \in Play!Kinds
BY DEF Play!Outcome, Play!Ends, Play!Kinds

(* Every step keeps the types. *)
LEMMA PlayTypeStep == PlayTyped /\ PlayShape /\ [Play!Next]_Play!vars => PlayTyped'
<1> SUFFICES ASSUME PlayTyped, PlayShape, [Play!Next]_Play!vars PROVE PlayTyped' OBVIOUS
<1> USE DEF Play!command, Play!network, Play!queue, Play!teardown,
    Play!test, Play!history
<1>0. Play!PlaytestAssumption BY DEF PlayTyped
<1>1. CASE UNCHANGED Play!vars BY <1>1 DEF Play!vars, PlayTyped, Play!TypeOK
<1>2. CASE Play!Ask
  <2> USE <1>2 DEF Play!Ask, PlayTyped, Play!TypeOK
  <2>1. Play!Request(cmd.pc) \in Play!Requests /\ Play!Number \in Nat
    BY NumberIsNew DEF Play!Request, Play!Requests, Play!Commands
  <2>2. IsFiniteSet(inbox') BY FS_AddElement
  <2>3. cmd' \in Play!Commands BY DEF Play!Commands
  <2> QED BY <2>1, <2>2, <2>3
<1>3. \A b : Play!Spend(b) =>
        spare' \in [events : Nat, losses : Nat, faults : Nat, stops : Nat]
  BY DEF Play!Spend, PlayTyped, Play!TypeOK
<1>4. \A k \in {"ok", "error", "lost", "refused"} : Play!Answer(k) \in Play!Replies
  <2>1. <<>> \in Seq(Play!Frames) OBVIOUS
  <2> QED BY <2>1 DEF Play!Answer, Play!Replies
<1>5. CASE Play!Lose BY <1>3, <1>4, <1>5 DEF Play!Lose, PlayTyped, Play!TypeOK
<1>6. CASE Play!Refuse
  <2>1. IsFiniteSet(inbox') /\ inbox' \subseteq Play!Requests
    <3>1. inbox' \subseteq inbox BY <1>6 DEF Play!Refuse
    <3> QED BY <3>1, FS_Subset DEF PlayTyped, Play!TypeOK
  <2> QED BY <1>3, <1>4, <1>6, <2>1 DEF Play!Refuse, PlayTyped, Play!TypeOK
<1>7. CASE \E m \in inbox : Play!Start(m)
  <2> USE DEF Play!Start
  <2> PICK m \in inbox : Play!Start(m) BY <1>7
  <2>1. \E r \in Play!Replies : Play!Respond(m, r) BY <1>4
  <2>2. /\ inbox' \subseteq Play!Requests /\ IsFiniteSet(inbox')
        /\ reply' \in Play!Replies \cup {NoPlay} /\ waits' = waits
    BY <2>1, RespondKeeps
  <2>3. Play!Run \in Play!Jobs BY DEF Play!Run, Play!Jobs
  <2>4. /\ job' \in Play!Jobs \cup {NoPlay} /\ studio' \in BOOLEAN
        /\ script' \in {"off", "booting", "running"}
        /\ spare' \in [events : Nat, losses : Nat, faults : Nat, stops : Nat]
    BY <1>3, <2>3 DEF PlayTyped, Play!TypeOK
  <2> QED BY <2>2, <2>4 DEF PlayTyped, Play!TypeOK
<1>8. CASE Play!CannotConnect
  BY <1>3, <1>8, CommandsKeep DEF Play!CannotConnect, Play!Rest, PlayTyped, Play!TypeOK
<1>9. cmd \in Play!Commands
        /\ (Play!Heard => waits' = NoPlay /\ reply' = NoPlay /\ inbox' = inbox)
  BY DEF PlayTyped, Play!TypeOK, Play!Heard
<1>10. CASE Play!StartAnswered
  <2>1. cmd' \in Play!Commands
    BY <1>9, <1>10, CommandsKeep DEF Play!StartAnswered, Play!Kinds, Play!Whys
  <2> QED BY <1>9, <1>10, <2>1 DEF Play!StartAnswered, Play!Rest, PlayTyped, Play!TypeOK
<1>11. CASE Play!PollAnswered
  <2>1. reply \in Play!Replies
    BY <1>11 DEF Play!PollAnswered, Play!Hears, PlayTyped, Play!TypeOK
  <2>2. CASE Play!Go("status", "recover") /\ UNCHANGED printed
    BY <1>9, <1>11, <2>2, CommandsKeep DEF Play!PollAnswered, Play!Rest, PlayTyped,
       Play!TypeOK, Play!Whys
  <2>3. CASE ~ (Play!Go("status", "recover") /\ UNCHANGED printed)
    <3> DEFINE over ==
          IF reply.outcome # NoPlay THEN Play!Outcome(reply.outcome) ELSE cmd.pending
               new == [cmd EXCEPT !.cursor = Play!LastSeq(reply.frames), !.pending = over]
    <3>1. over \in Play!Kinds \cup {NoPlay}
      BY <1>9, <2>1, OutcomeIsKind DEF Play!Replies, Play!Commands
    <3>2. new \in Play!Commands
      <4>1. Play!LastSeq(reply.frames) \in Nat BY <1>9, <2>1, LastIsNumber DEF Play!Replies
      <4> HIDE DEF over
      <4> QED BY <1>9, <3>1, <4>1 DEF Play!Commands
    <3> USE <1>11 DEF Play!PollAnswered
    <3>3. \/ cmd' = [new EXCEPT !.pc = "done", !.outcome = over]
          \/ cmd' = new
          \/ cmd' = [new EXCEPT !.pc = "status", !.why = "heartbeat"]
      BY <2>3
    <3>4. printed' \in Seq(Play!Frames)
      <4>1. printed' = printed \o reply.frames BY <2>3
      <4> QED BY <2>1, <4>1, ConcatProperties DEF Play!Replies, PlayTyped, Play!TypeOK
    <3> HIDE DEF over, new
    <3>5. cmd' \in Play!Commands
      BY ZenonT(60), <3>1, <3>2, <3>3 DEF Play!Commands, Play!Whys
    <3> QED BY <1>9, <3>4, <3>5 DEF Play!Rest, PlayTyped, Play!TypeOK
  <2> QED BY <2>2, <2>3
<1>12. CASE Play!StopsWaiting
  <2>1. cmd' \in Play!Commands BY <1>9, <1>12, CommandsKeep DEF Play!StopsWaiting, Play!Whys
  <2> QED BY <1>12, <2>1 DEF Play!StopsWaiting, Play!Rest, PlayTyped, Play!TypeOK
<1>13. CASE Play!StatusAnswered
  <2> USE <1>13 DEF Play!StatusAnswered
  <2>1. cmd' \in Play!Commands
    <3>1. reply \in Play!Replies BY DEF Play!Hears, PlayTyped, Play!TypeOK
    <3>2. reply.outcome # NoPlay => Play!Outcome(reply.outcome) \in Play!Kinds
      BY <3>1, OutcomeIsKind DEF Play!Replies
    <3> QED BY <1>9, <3>2, CommandsKeep DEF Play!Whys, Play!Kinds
  <2> QED BY <1>9, <2>1 DEF Play!Rest, PlayTyped, Play!TypeOK
<1>14. CASE Play!CancelAnswered
  <2> USE <1>14 DEF Play!CancelAnswered
  <2>1. cmd' \in Play!Commands
    <3>1. reply \in Play!Replies BY DEF Play!Hears, PlayTyped, Play!TypeOK
    <3>2. reply.kind = "ok" => Play!Outcome(reply.outcome) \in Play!Kinds
      BY <3>1, OutcomeIsKind DEF Play!Hears, Play!Replies, PlayShape, AnswerIsAwaited
    <3> QED BY <1>9, <3>2, CommandsKeep DEF Play!Whys, Play!Kinds
  <2> QED BY ZenonT(60), <1>9, <2>1 DEF Play!Rest, PlayTyped, Play!TypeOK
<1>15. CASE Play!Dies
  <2>1. cmd' \in Play!Commands BY <1>9, <1>15 DEF Play!Dies, Play!Commands
  <2> QED BY <1>3, <1>15, <2>1 DEF Play!Dies, Play!Rest, PlayTyped, Play!TypeOK
<1>16. CASE \E m \in inbox : Play!Poll(m)
  <2> PICK m \in inbox : Play!Poll(m) BY <1>16
  <2>0. Begun /\ job \in Play!Jobs /\ m \in Play!Requests
    BY DEF Play!Poll, PlayShape, JobIsBegun, Begun, PlayTyped, Play!TypeOK
  <2> DEFINE rest == Play!Unseen(Play!Marked.events, m.after)
             some == SubSeq(rest, 1, IF Len(rest) < PollMax THEN Len(rest) ELSE PollMax)
             r == [Play!Answer("ok") EXCEPT !.frames = some, !.more = Len(rest) > PollMax,
                                                !.outcome = job.terminal]
  <2>1. /\ Play!Respond(m, r) /\ events' = rest /\ dropped' = 0
        /\ seq' = Play!Marked.seq
        /\ UNCHANGED <<Play!command, job, tombstone, Play!test, Play!teardown,
                       Play!history, spare>>
    BY Zenon DEF Play!Poll
  <2>2. rest \in Seq(Play!Frames) /\ Play!Marked.seq \in Nat
    BY <2>0, MarkedIsQueue, UnseenIsNew DEF Play!Requests
  <2>3. some \in Seq(Play!Frames)
    <3> HIDE DEF rest
    <3> DEFINE n == IF Len(rest) < PollMax THEN Len(rest) ELSE PollMax
    <3>1. n \in Nat /\ n <= Len(rest) BY <1>0, <2>2 DEF Play!PlaytestAssumption
    <3> HIDE DEF n
    <3>2. SubSeq(rest, 1, n) \in Seq(Play!Frames) BY <2>2, <3>1, PartIsIncreasing
    <3> QED BY <3>2 DEF n
  <2>4. r \in Play!Replies
    <3>1. job.terminal \in Play!Ends \cup {NoPlay} BY <2>0 DEF Play!Jobs
    <3>2. \A f \in Seq(Play!Frames), b \in BOOLEAN, e \in Play!Ends \cup {NoPlay} :
             [Play!Answer("ok") EXCEPT !.frames = f, !.more = b,
              !.outcome = e] \in Play!Replies
      BY <1>4 DEF Play!Replies
    <3>3. (Len(rest) > PollMax) \in BOOLEAN OBVIOUS
    <3> HIDE DEF some, rest
    <3> QED BY <2>3, <3>1, <3>2, <3>3, Zenon
  <2> HIDE DEF r, rest
  <2>5. /\ inbox' \subseteq Play!Requests /\ IsFiniteSet(inbox')
        /\ reply' \in Play!Replies \cup {NoPlay} /\ waits' = waits
    BY <2>1, <2>4, RespondKeeps
  <2> QED BY <2>1, <2>2, <2>5 DEF PlayTyped, Play!TypeOK
<1>17. CASE \E m \in inbox : Play!Status(m)
  <2> PICK m \in inbox : Play!Status(m) BY <1>17
  <2>0. Begun /\ job \in Play!Jobs
    BY DEF Play!Status, PlayShape, JobIsBegun, Begun, PlayTyped, Play!TypeOK
  <2> DEFINE r == [Play!Answer("ok") EXCEPT !.active = job.status \in Play!Active,
                                                !.outcome = job.terminal]
  <2>1. Play!Respond(m, r) BY Zenon DEF Play!Status
  <2>2. r \in Play!Replies
    <3>1. \A b \in BOOLEAN, e \in Play!Ends \cup {NoPlay} :
             [Play!Answer("ok") EXCEPT !.active = b, !.outcome = e] \in Play!Replies
      BY <1>4 DEF Play!Replies
    <3>2. (job.status \in Play!Active) \in BOOLEAN OBVIOUS
    <3>3. job.terminal \in Play!Ends \cup {NoPlay} BY <2>0 DEF Play!Jobs
    <3> QED BY <3>1, <3>2, <3>3, Zenon
  <2> HIDE DEF r
  <2>3. /\ inbox' \subseteq Play!Requests /\ IsFiniteSet(inbox')
        /\ reply' \in Play!Replies \cup {NoPlay} /\ waits' = waits
    BY <2>1, <2>2, RespondKeeps
  <2> QED BY <2>3 DEF Play!Status, PlayTyped, Play!TypeOK
<1>18. CASE \E m \in inbox : Play!Cancel(m)
  <2> PICK m \in inbox : Play!Cancel(m) BY <1>18
  <2>0. m \in Play!Requests BY DEF PlayTyped, Play!TypeOK
  <2>1. CASE Play!CancelNothing(m)
    <3> DEFINE r ==
          [Play!Answer("ok") EXCEPT !.outcome = Play!Terminal("start response lost", FALSE)]
    <3>1. Play!Respond(m, r) BY <2>1, Zenon DEF Play!CancelNothing
    <3>2. r \in Play!Replies
      <4>1. Play!Terminal("start response lost", FALSE) \in Play!Ends
        BY DEF Play!Terminal, Play!Ends, Play!Kinds
      <4> QED BY <1>4, <4>1 DEF Play!Replies
    <3> HIDE DEF r
    <3>3. /\ inbox' \subseteq Play!Requests /\ IsFiniteSet(inbox')
          /\ reply' \in Play!Replies \cup {NoPlay} /\ waits' = waits
      BY <3>1, <3>2, RespondKeeps
    <3> QED BY <2>1, <3>3 DEF Play!Cancel, Play!CancelNothing, PlayTyped, Play!TypeOK
  <2>2. CASE Play!CancelDecided(m)
    <3> USE <2>2 DEF Play!CancelDecided
    <3>1. inbox' \subseteq Play!Requests /\ IsFiniteSet(inbox') BY TakeKeeps
    <3>2. job \in Play!Jobs BY DEF PlayTyped, Play!TypeOK
    <3>3. job' \in Play!Jobs /\ stop' \in Play!Stops \cup {NoPlay}
      <4>1. [by |-> "cancel", force |-> TRUE] \in Play!Stops BY DEF Play!Stops
      <4>2. [job EXCEPT !.status = "stopping", !.stopRequested = TRUE] \in Play!Jobs
        BY <3>2 DEF Play!Jobs
      <4> QED BY <3>2, <4>1, <4>2 DEF PlayTyped, Play!TypeOK
    <3>4. cancel' \in Play!Cancels
      <4>1. \A c \in {"waits", "none", "failed"} :
              [id |-> m.id, cleanup |-> c] \in Play!Cancels
        BY <2>0 DEF Play!Cancels, Play!Requests
      <4> QED BY <4>1
    <3> QED BY <3>1, <3>3, <3>4 DEF Play!Cancel, PlayTyped, Play!TypeOK
  <2> USE DEF Play!CancelOpen, PlayTyped, Play!TypeOK
  <2>3. CASE Play!CancelOpen(m)
    <3>1. inbox' \subseteq Play!Requests /\ IsFiniteSet(inbox') BY <2>3, TakeKeeps
    <3>2. job \in Play!Jobs /\ cancel' \in Play!Cancels
      BY <2>0, <2>3 DEF Play!Cancels, Play!Requests
    <3>3. /\ job' \in Play!Jobs \cup {NoPlay}
          /\ term' \in Play!Decisions \cup {NoPlay}
          /\ stop' \in Play!Stops \cup {NoPlay}
      <4>1. CASE Play!Free
        <5> DEFINE k == IF m.why = "start" THEN "start response lost"
                        ELSE IF m.why = "timeout" THEN "timeout" ELSE "aborted"
        <5>1. Play!Decide(k, m.force, job) /\ k \in Play!Kinds /\ m.force \in BOOLEAN
          BY <2>0, <2>3, <4>1 DEF Play!Kinds, Play!Requests
        <5> HIDE DEF k
        <5> QED BY <3>2, <5>1, DecideKeeps
      <4>2. CASE ~ Play!Free BY <2>3, <4>2
      <4> QED BY <4>1, <4>2
    <3> QED BY <2>3, <3>1, <3>2, <3>3 DEF Play!Cancel
  <2> QED BY <2>1, <2>2, <2>3 DEF Play!Cancel
<1> USE DEF PlayTyped, Play!TypeOK
<1>19. CASE Play!CancelGivesUp BY <1>4, <1>19 DEF Play!CancelGivesUp
<1>20. CASE Play!CancelReturns
  <2> USE <1>20 DEF Play!CancelReturns
  <2>1. job \in Play!Jobs /\ cancel \in Play!Cancels BY DEF PlayShape, JobIsBegun, Begun
  <2>2. reply' \in Play!Replies \cup {NoPlay}
    <3>1. job.terminal \in Play!Ends BY <2>1 DEF Play!Jobs
    <3>2. \A e \in Play!Ends :
            [Play!Answer("ok") EXCEPT !.outcome = e] \in Play!Replies
      BY <1>4 DEF Play!Replies
    <3>3. Play!Terminal("aborted", TRUE) \in Play!Ends
            /\ Play!Terminal(job.terminal.kind, FALSE) \in Play!Ends
      BY <3>1 DEF Play!Terminal, Play!Ends, Play!Kinds
    <3>4. cancel.cleanup \in {"none", "failed", "confirmed"} BY <2>1 DEF Play!Cancels
    <3> QED BY <3>1, <3>2, <3>3, <3>4
  <2> QED BY ZenonT(60), <2>2
<1>21. \A kind \in Play!Kinds, b \in BOOLEAN : Play!Terminal(kind, b) \in Play!Ends
  BY DEF Play!Terminal, Play!Ends
<1>22. CASE Play!JobEnds
  <2>1. job \in Play!Jobs BY <1>22 DEF Play!JobEnds, PlayShape, JobIsBegun, Begun
  <2>2. PICK ended \in {"completed", "failed"} :
          LET j == [job EXCEPT !.status = IF job.stopRequested THEN "stopped" ELSE ended]
          IN IF Play!Free
             THEN /\ job' = [j EXCEPT !.pending = TRUE]
                  /\ term' = [phase |-> "audit",
                              end |-> Play!Terminal(IF ~ j.booted /\ j.status = "failed"
                                                        THEN "bootFailure" ELSE "aborted",
                                                        FALSE)]
             ELSE job' = j /\ UNCHANGED term
    BY <1>22 DEF Play!JobEnds
  <2> DEFINE j == [job EXCEPT !.status = IF job.stopRequested THEN "stopped" ELSE ended]
  <2>3. j \in Play!Jobs /\ [j EXCEPT !.pending = TRUE] \in Play!Jobs BY <2>1 DEF Play!Jobs
  <2>4. job' \in Play!Jobs /\ term' \in Play!Decisions \cup {NoPlay}
    <3> DEFINE k == IF ~ j.booted /\ j.status = "failed" THEN "bootFailure" ELSE "aborted"
    <3>1. Play!Free => job' = [j EXCEPT !.pending = TRUE]
                           /\ term' = [phase |-> "audit", end |-> Play!Terminal(k, FALSE)]
      BY <2>2
    <3>2. ~ Play!Free => job' = j /\ term' = term BY <2>2
    <3>3. [phase |-> "audit", end |-> Play!Terminal(k, FALSE)] \in Play!Decisions
      BY <1>21 DEF Play!Kinds, Play!Decisions
    <3> HIDE DEF k, j
    <3> QED BY <2>3, <3>1, <3>2, <3>3
  <2> QED BY <1>22, <2>4 DEF Play!JobEnds
<1>23. ASSUME NEW ok \in BOOLEAN, stop # NoPlay, Play!Stopped(ok)
       PROVE  /\ stop' \in Play!Stops \cup {NoPlay}
              /\ term' \in Play!Decisions \cup {NoPlay}
              /\ cancel' \in Play!Cancels \cup {NoPlay}
  <2> USE <1>23 DEF Play!Stopped
  <2>1. term' \in Play!Decisions \cup {NoPlay}
    <3>1. CASE stop.by = "terminal"
      <4>1. term \in Play!Decisions BY <3>1 DEF PlayShape, DecisionIsOne
      <4>2. (IF ok THEN term.end ELSE Play!Terminal("aborted", TRUE)) \in Play!Ends
        BY <1>21, <4>1 DEF Play!Decisions, Play!Kinds
      <4> QED BY <3>1, <4>2 DEF Play!Decisions
    <3> QED BY <3>1
  <2>2. cancel' \in Play!Cancels \cup {NoPlay}
    <3>1. cancel # NoPlay =>
            \A c \in {"confirmed", "failed"} :
              [cancel EXCEPT !.cleanup = c] \in Play!Cancels
      BY DEF Play!Cancels
    <3> QED BY <3>1, Zenon
  <2> QED BY <2>1, <2>2
<1>24. CASE Play!StopReturns BY <1>23, <1>24 DEF Play!StopReturns
<1>25. CASE Play!StopFails
  <2> USE <1>25 DEF Play!StopFails
  <2>1. job \in Play!Jobs /\ stop \in Play!Stops BY DEF PlayShape, JobIsBegun, Begun
  <2>2. job' \in Play!Jobs
    <3>1. [job EXCEPT !.status = "failed"] \in Play!Jobs BY <2>1 DEF Play!Jobs
    <3>2. [job EXCEPT !.stopRequested = FALSE,
             !.status = IF @ = "stopping" THEN "running" ELSE @] \in Play!Jobs
      BY <2>1 DEF Play!Jobs
    <3> QED BY <3>1, <3>2
  <2>3. refused' \in BOOLEAN OBVIOUS
  <2> QED BY <1>3, <1>23, <2>2, <2>3
<1>26. CASE Play!OtherStop
  <2> USE <1>26 DEF Play!OtherStop
  <2>1. job' \in Play!Jobs BY DEF Play!Jobs
  <2>2. stop' \in Play!Stops BY DEF Play!Stops
  <2> QED BY <1>3, <2>1, <2>2
<1>27. CASE Play!RunnersCancelled
  <2> USE <1>27 DEF Play!RunnersCancelled
  <2>1. term' \in Play!Decisions
    <3>1. term \in Play!Decisions /\ Play!Terminal("aborted", TRUE) \in Play!Ends
      BY <1>21 DEF Play!Kinds
    <3> QED
      <4>1. [phase |-> "audit",
             end |-> Play!Terminal("aborted", TRUE)] \in Play!Decisions
        BY <3>1 DEF Play!Decisions
      <4>2. [term EXCEPT !.phase = "audit"] \in Play!Decisions BY <3>1 DEF Play!Decisions
      <4> QED BY <4>1, <4>2
  <2> QED BY ZenonT(60), <1>3, <2>1
<1>28. CASE Play!Finalize
  <2> USE <1>28 DEF Play!Finalize
  <2>1. job \in Play!Jobs /\ term \in Play!Decisions BY DEF PlayShape, JobIsBegun, Begun
  <2>2. job' \in Play!Jobs BY <2>1 DEF Play!Jobs, Play!Decisions
  <2>3. events' \in Seq(Play!Frames) /\ dropped' \in Nat /\ seq' \in Nat
    BY EnqueueKeepsQueue
  <2> QED BY SMTT(60), <2>2, <2>3
<1>29. ASSUME NEW kind \in Play!Kinds, job # NoPlay, Play!Decides(kind) PROVE PlayTyped'
  <2>1. job' \in Play!Jobs /\ term' \in Play!Decisions
          /\ stop' \in Play!Stops \cup {NoPlay}
    BY <1>29, DecideKeeps DEF Play!Decides
  <2> QED BY <1>29, <2>1 DEF Play!Decides
<1>30. CASE Play!BootFails \/ Play!TimerFires \/ Play!Vanishes
  BY <1>29, <1>30 DEF Play!BootFails, Play!TimerFires, Play!Vanishes, Play!Kinds
<1>31. script # "off" => job \in Play!Jobs BY DEF PlayShape, JobIsBegun, Begun
<1>32. CASE Play!Boots
  <2>1. job' \in Play!Jobs BY <1>31, <1>32 DEF Play!Boots, Play!Jobs
  <2> QED BY <1>32, <2>1 DEF Play!Boots
<1>33. CASE Play!Emits
  <2>1. events' \in Seq(Play!Frames) /\ dropped' \in Nat /\ seq' \in Nat
    BY <1>33, EnqueueKeepsQueue DEF Play!Emits
  <2> QED BY <1>3, <1>33, <2>1 DEF Play!Emits
<1>34. CASE Play!Completes
  <2>1. job' \in Play!Jobs BY <1>31, <1>34 DEF Play!Completes, Play!Jobs
  <2> QED BY <1>34, <2>1 DEF Play!Completes
<1>35. CASE Play!Fetched
  <2> USE <1>35 DEF Play!Fetched
  <2> DEFINE j == [job EXCEPT !.claim = NoPlay]
  <2>1. job \in Play!Jobs /\ j \in Play!Jobs /\ job.claim \in {"success", "failure"}
    BY DEF Play!Jobs
  <2>2. PICK kind \in Play!Kinds : Play!Decide(kind, FALSE, j) BY <2>1 DEF Play!Kinds
  <2> HIDE DEF j
  <2>3. job' \in Play!Jobs /\ term' \in Play!Decisions
          /\ stop' \in Play!Stops \cup {NoPlay}
    BY <2>1, <2>2, DecideKeeps
  <2>4. spare' \in [events : Nat, losses : Nat, faults : Nat, stops : Nat] BY <1>3
  <2> QED BY <2>3, <2>4
<1> QED BY <1>1, <1>2, <1>5, <1>6, <1>7, <1>8, <1>10, <1>11, <1>12, <1>13, <1>14, <1>15,
   <1>16, <1>17, <1>18, <1>19, <1>20, <1>22, <1>24, <1>25, <1>26, <1>27, <1>28, <1>30,
   <1>32, <1>33, <1>34, <1>35 DEF Play!Next

-------------------------------------------------------------------------------
(* Who waits for whom. *)
LEMMA InboxTurns == [Play!Next]_Play!vars => Play!Ask \/ inbox' \subseteq inbox
<1> SUFFICES ASSUME [Play!Next]_Play!vars, ~ Play!Ask PROVE inbox' \subseteq inbox OBVIOUS
<1> USE DEF Play!network
<1>1. \A m : Play!Take(m) => inbox' \subseteq inbox BY DEF Play!Take
<1>2. \A m, r : Play!Respond(m, r) => inbox' \subseteq inbox BY <1>1 DEF Play!Respond
<1>3. CASE UNCHANGED Play!vars BY <1>3 DEF Play!vars
<1>4. CASE Play!Lose \/ Play!Refuse \/ Play!CannotConnect
           \/ Play!StartAnswered \/ Play!PollAnswered \/ Play!StopsWaiting
           \/ Play!StatusAnswered \/ Play!CancelAnswered \/ Play!Dies
  BY <1>4 DEF Play!Lose, Play!Refuse, Play!CannotConnect, Play!StartAnswered,
     Play!PollAnswered, Play!StopsWaiting, Play!StatusAnswered, Play!CancelAnswered,
     Play!Dies, Play!Heard
<1>5. CASE \E m \in inbox : Play!Start(m) \/ Play!Poll(m) \/ Play!Status(m)
  BY <1>2, <1>5 DEF Play!Start, Play!Poll, Play!Status
<1>6. CASE \E m \in inbox : Play!Cancel(m)
  BY <1>1, <1>2, <1>6 DEF Play!Cancel, Play!CancelNothing, Play!CancelDecided,
     Play!CancelOpen
<1>7. CASE Play!CancelGivesUp \/ Play!CancelReturns \/ Play!JobEnds
           \/ Play!StopReturns \/ Play!StopFails \/ Play!OtherStop
           \/ Play!RunnersCancelled \/ Play!Finalize \/ Play!Boots
                \/ Play!Emits \/ Play!Completes \/ Play!Fetched
  BY <1>7 DEF Play!CancelGivesUp, Play!CancelReturns, Play!JobEnds, Play!StopReturns,
     Play!StopFails, Play!OtherStop, Play!RunnersCancelled, Play!Finalize, Play!Boots,
     Play!Emits, Play!Completes, Play!Fetched
<1>8. CASE Play!BootFails \/ Play!TimerFires \/ Play!Vanishes
  BY <1>8 DEF Play!BootFails, Play!TimerFires, Play!Vanishes, Play!Decides
<1> QED BY <1>3, <1>4, <1>5, <1>6, <1>7, <1>8 DEF Play!Next

(* A new request has a new number. *)
LEMMA RequestsStep == PlayTyped /\ PlayShape /\ [Play!Next]_Play!vars => RequestsAreNew'
<1> SUFFICES ASSUME PlayTyped, PlayShape, [Play!Next]_Play!vars PROVE RequestsAreNew'
  OBVIOUS
<1>1. RequestsAreNew BY DEF PlayShape
<1>2. CASE inbox' \subseteq inbox BY <1>1, <1>2 DEF RequestsAreNew
<1>3. CASE Play!Ask
  <2>1. \A m \in inbox : m.id < Play!Number /\ m.id \in Nat
    BY NumberIsNew DEF PlayTyped, Play!TypeOK, Play!Requests
  <2>2. Play!Request(cmd.pc).id = Play!Number
          /\ inbox' = inbox \cup {Play!Request(cmd.pc)}
    BY <1>3 DEF Play!Request, Play!Ask
  <2>3. Play!Number \in Nat BY NumberIsNew
  <2> QED BY <1>1, <2>1, <2>2, <2>3 DEF RequestsAreNew
<1> QED BY <1>2, <1>3, InboxTurns

(* Nothing else changes what is waited for. *)
Inside == UNCHANGED <<cmd, waits, reply, inbox>>

LEMMA PluginActs ==
    ASSUME Play!JobEnds \/ Play!StopReturns \/ Play!StopFails
           \/ Play!OtherStop \/ Play!RunnersCancelled \/ Play!Finalize
           \/ Play!Boots \/ Play!BootFails \/ Play!TimerFires
                \/ Play!Vanishes \/ Play!Emits \/ Play!Completes \/ Play!Fetched
    PROVE  Inside /\ keepOpen' = keepOpen /\ tombstone' = tombstone
           /\ (cancel' = cancel
               \/ (cancel # NoPlay /\ \E c : cancel' = [cancel EXCEPT !.cleanup = c]))
<1> USE DEF Play!command, Play!network, Play!teardown, Inside
<1>1. CASE Play!JobEnds \/ Play!OtherStop \/ Play!RunnersCancelled
           \/ Play!Finalize \/ Play!Boots \/ Play!Emits
           \/ Play!Completes \/ Play!Fetched
  BY <1>1 DEF Play!JobEnds, Play!OtherStop, Play!RunnersCancelled, Play!Finalize,
     Play!Boots, Play!Emits, Play!Completes, Play!Fetched
<1>2. CASE Play!BootFails \/ Play!TimerFires \/ Play!Vanishes
  BY <1>2 DEF Play!BootFails, Play!TimerFires, Play!Vanishes, Play!Decides
<1>3. CASE Play!StopReturns \/ Play!StopFails
  <2>1. PICK ok \in BOOLEAN : Play!Stopped(ok) BY <1>3 DEF Play!StopReturns, Play!StopFails
  <2>2. cancel' = cancel \/ (cancel # NoPlay /\ \E c : cancel' = [cancel EXCEPT !.cleanup = c])
    BY <2>1 DEF Play!Stopped
  <2> QED BY <1>3, <2>2 DEF Play!StopReturns, Play!StopFails
<1> QED BY <1>1, <1>2, <1>3

(* The command waits for the last request it has sent. *)
LEMMA AwaitedStep == PlayTyped /\ PlayShape /\ [Play!Next]_Play!vars => AnswerIsAwaited'
<1> SUFFICES ASSUME PlayTyped, PlayShape, [Play!Next]_Play!vars PROVE AnswerIsAwaited'
  OBVIOUS
<1> USE DEF Play!command, Play!network, Play!teardown
<1>0. AnswerIsAwaited BY DEF PlayShape
<1>1. \A k : Play!Answer(k).kind = k /\ Play!Answer(k).outcome = NoPlay BY DEF Play!Answer
<1>2. CASE UNCHANGED Play!vars BY <1>0, <1>2 DEF Play!vars, AnswerIsAwaited
<1>3. CASE Play!Ask
  <2>1. /\ \A m \in inbox : m.id < Play!Number /\ m.id \in Nat
        /\ Play!Number \in Nat
        /\ cancel # NoPlay => cancel.id < Play!Number /\ cancel.id \in Nat
    BY NumberIsNew DEF PlayTyped, Play!TypeOK, Play!Requests, Play!Cancels
  <2>2. /\ Play!Request(cmd.pc).id = Play!Number
        /\ Play!Request(cmd.pc).op = cmd.pc
        /\ Play!Request(cmd.pc).after = cmd.cursor
    BY DEF Play!Request
  <2>3. /\ inbox' = inbox \cup {Play!Request(cmd.pc)} /\ waits' = Play!Number
        /\ waits = NoPlay
        /\ reply' = reply /\ cancel' = cancel /\ cmd.pc \in Asking
    BY <1>3 DEF Play!Ask, Asking
  <2>4. cmd'.pc = cmd.pc /\ cmd'.cursor = cmd.cursor
    BY <1>3 DEF Play!Ask, PlayTyped, Play!TypeOK, Play!Commands
  <2> QED BY <1>0, <2>1, <2>2, <2>3, <2>4 DEF AnswerIsAwaited
<1>4. CASE Play!Lose \/ Play!Refuse
  BY <1>0, <1>1, <1>4 DEF Play!Lose, Play!Refuse, AnswerIsAwaited
<1>5. CASE Play!CannotConnect
  BY <1>0, <1>5 DEF Play!CannotConnect, Play!Rest, AnswerIsAwaited
<1>6. CASE Play!StartAnswered \/ Play!PollAnswered \/ Play!StopsWaiting
        \/ Play!StatusAnswered \/ Play!CancelAnswered \/ Play!Dies
  <2>1. waits' = NoPlay /\ reply' = NoPlay
    BY <1>6 DEF Play!StartAnswered, Play!PollAnswered, Play!StopsWaiting,
       Play!StatusAnswered, Play!CancelAnswered, Play!Dies, Play!Heard
  <2> QED BY <2>1 DEF AnswerIsAwaited
<1>7. ASSUME NEW m \in inbox, NEW r, Play!Respond(m, r), UNCHANGED <<cmd, cancel>>,
             cmd.pc = "cancel" /\ r.kind = "ok" /\ m.op = "cancel" => r.outcome # NoPlay,
             r.kind # "ok" => r.outcome = NoPlay
      PROVE  AnswerIsAwaited'
  <2>1. inbox' \subseteq inbox /\ waits' = waits /\ reply' = (IF waits = m.id THEN r ELSE reply)
    BY <1>7 DEF Play!Respond, Play!Take
  <2>2. m.id \in Nat /\ NoPlay \notin Nat
    BY DEF PlayTyped, Play!TypeOK, Play!Requests, Play!PlaytestAssumption
  <2>3. waits = m.id => waits # NoPlay /\ m.op = cmd.pc BY <1>0, <2>2 DEF AnswerIsAwaited
  <2> QED BY <1>0, <1>7, <2>1, <2>3 DEF AnswerIsAwaited
<1>8. CASE \E m \in inbox : Play!Start(m)
  <2> PICK m \in inbox : Play!Start(m) BY <1>8
  <2>1. m.op = "start" /\ \E k \in {"ok", "error"} : Play!Respond(m, Play!Answer(k))
    BY DEF Play!Start
  <2> QED BY <1>1, <1>7, <2>1 DEF Play!Start
<1>9. CASE \E m \in inbox : Play!Poll(m)
  <2> PICK m \in inbox : Play!Poll(m) BY <1>9
  <2>1. PICK f, b,
        t : Play!Respond(m, [Play!Answer("ok") EXCEPT !.frames = f, !.more = b,
                                                              !.outcome = t])
    BY DEF Play!Poll
  <2>2. [Play!Answer("ok") EXCEPT !.frames = f, !.more = b, !.outcome = t].kind = "ok"
    BY DEF Play!Answer
  <2> QED BY <1>7, <2>1, <2>2 DEF Play!Poll
<1>10. CASE \E m \in inbox : Play!Status(m)
  <2> PICK m \in inbox : Play!Status(m) BY <1>10
  <2>1. PICK b, t :
          Play!Respond(m, [Play!Answer("ok") EXCEPT !.active = b, !.outcome = t])
    BY DEF Play!Status
  <2>2. [Play!Answer("ok") EXCEPT !.active = b, !.outcome = t].kind = "ok"
    BY DEF Play!Answer
  <2> QED BY <1>7, <2>1, <2>2 DEF Play!Status
<1>11. CASE \E m \in inbox : Play!Cancel(m)
  <2> PICK m \in inbox : Play!Cancel(m) BY <1>11
  <2>1. CASE Play!CancelNothing(m)
    <3> DEFINE r ==
          [Play!Answer("ok") EXCEPT !.outcome = Play!Terminal("start response lost", FALSE)]
    <3>1. Play!Terminal("start response lost", FALSE) \in Play!Ends
      BY DEF Play!Terminal, Play!Ends, Play!Kinds
    <3>2. r.kind = "ok" /\ r.outcome # NoPlay
      BY <3>1 DEF Play!Answer, PlayTyped, Play!PlaytestAssumption
    <3>3. Play!Respond(m, r) /\ UNCHANGED <<cmd, cancel>>
      BY <2>1 DEF Play!Cancel, Play!CancelNothing
    <3> HIDE DEF r
    <3> QED BY <1>7, <3>2, <3>3
  <2>2. CASE Play!CancelDecided(m) \/ Play!CancelOpen(m)
    <3>1. /\ inbox' \subseteq inbox /\ cancel'.id = m.id /\ UNCHANGED <<cmd, waits, reply>>
          /\ cancel' # NoPlay /\ m.op = "cancel"
      <4>1. PICK c \in {"waits", "none", "failed"} : cancel' = [id |-> m.id, cleanup |-> c]
        BY <2>2 DEF Play!CancelDecided, Play!CancelOpen
      <4>2. cancel' \in Play!Cancels
        BY <4>1 DEF Play!Cancels, Play!Requests, PlayTyped, Play!TypeOK
      <4> QED BY <2>2, <4>1, <4>2 DEF Play!Cancel, Play!CancelDecided, Play!CancelOpen,
         Play!Take, PlayTyped, Play!PlaytestAssumption
    <3>2. waits # NoPlay => m.id <= waits BY <1>0 DEF AnswerIsAwaited
    <3> QED BY <1>0, <3>1, <3>2 DEF AnswerIsAwaited
  <2> QED BY <2>1, <2>2 DEF Play!Cancel
<1>12. CASE Play!CancelGivesUp
  <2>1. cancel.id \in Nat /\ NoPlay \notin Nat
    BY <1>12 DEF Play!CancelGivesUp, Play!Cancels, PlayTyped, Play!TypeOK,
       Play!PlaytestAssumption
  <2> QED BY <1>0, <1>1, <1>12, <2>1 DEF Play!CancelGivesUp, AnswerIsAwaited
<1>13. CASE Play!CancelReturns
  <2> USE <1>13 DEF Play!CancelReturns
  <2>1. job \in Play!Jobs /\ cancel \in Play!Cancels
    BY DEF PlayShape, JobIsBegun, Begun, PlayTyped, Play!TypeOK
  <2>2. job.terminal \in Play!Ends /\ NoPlay \notin Play!Ends
    BY <2>1 DEF Play!Jobs, PlayTyped, Play!PlaytestAssumption
  <2>3. PICK e \in Play!Ends :
          reply' = IF waits = cancel.id /\ reply = NoPlay
                   THEN [Play!Answer("ok") EXCEPT !.outcome = e] ELSE reply
    <3>1. Play!Terminal("aborted", TRUE) \in Play!Ends
            /\ Play!Terminal(job.terminal.kind, FALSE) \in Play!Ends
      BY <2>2 DEF Play!Terminal, Play!Ends, Play!Kinds
    <3> QED BY <2>2, <3>1
  <2>4. [Play!Answer("ok") EXCEPT !.outcome = e].kind = "ok"
          /\ [Play!Answer("ok") EXCEPT !.outcome = e].outcome = e
    BY DEF Play!Answer
  <2>5. cancel.id \in Nat /\ NoPlay \notin Nat
    BY <2>1 DEF Play!Cancels, PlayTyped, Play!PlaytestAssumption
  <2> QED BY <1>0, <2>2, <2>3, <2>4, <2>5 DEF AnswerIsAwaited
<1>14. ASSUME Inside, cancel' = cancel
         \/ (cancel # NoPlay /\ \E c : cancel' = [cancel EXCEPT !.cleanup = c])
       PROVE  AnswerIsAwaited'
  <2>1. cancel' # NoPlay => cancel # NoPlay /\ cancel'.id = cancel.id
    BY <1>14 DEF PlayTyped, Play!TypeOK, Play!Cancels
  <2> QED BY <1>0, <1>14, <2>1 DEF Inside, AnswerIsAwaited
<1> QED BY <1>2, <1>3, <1>4, <1>5, <1>6, <1>8, <1>9, <1>10, <1>11, <1>12, <1>13, <1>14,
   PluginActs DEF Play!Next

(* What the command's transitions change, and what they leave. *)
LEMMA CommandTurns ==
    ASSUME cmd \in Play!Commands
    PROVE  /\ \A pc, why : Play!Go(pc, why) => /\ cmd'.pc = pc /\ cmd'.why = why
                                                   /\ cmd'.sent = cmd.sent
                                                        /\ cmd'.cursor = cmd.cursor
                                                   /\ cmd'.pending = cmd.pending
                                                   /\ cmd'.outcome = cmd.outcome
           /\ \A kind : Play!Finish(kind) => /\ cmd'.pc = "done" /\ cmd'.why = cmd.why
                                                 /\ cmd'.sent = cmd.sent
                                                      /\ cmd'.cursor = cmd.cursor
                                                 /\ cmd'.pending = cmd.pending
                                                 /\ cmd'.outcome = kind
           /\ Play!NextAttempt => /\ cmd'.sent = cmd.sent /\ cmd'.cursor = cmd.cursor
                                      /\ cmd'.pending = cmd.pending
                                      /\ \/ cmd'.pc = cmd.pc /\ cmd'.why = cmd.why
                                            /\ cmd'.outcome = cmd.outcome
                                         \/ cmd.sent /\ cmd'.pc = "cancel" /\ cmd'.why = "start"
                                            /\ cmd'.outcome = cmd.outcome
                                         \/ ~ cmd.sent /\ cmd'.pc = "done" /\ cmd'.why = cmd.why
                                            /\ cmd'.outcome = "bootFailure"
           /\ Play!Ask => /\ cmd'.pc = cmd.pc /\ cmd'.why = cmd.why /\ cmd'.cursor = cmd.cursor
                              /\ cmd'.pending = cmd.pending /\ cmd'.outcome = cmd.outcome
                              /\ cmd'.sent = (cmd.sent \/ cmd.pc = "start")
           /\ Play!Dies => /\ cmd'.pc = "dead" /\ cmd'.why = cmd.why /\ cmd'.sent = cmd.sent
                               /\ cmd'.cursor = cmd.cursor /\ cmd'.pending = cmd.pending
                               /\ cmd'.outcome = cmd.outcome
<1> USE DEF Play!Commands
<1>1. \A pc, why : Play!Go(pc, why) => /\ cmd'.pc = pc /\ cmd'.why = why
                                           /\ cmd'.sent = cmd.sent
                                           /\ cmd'.cursor = cmd.cursor
                                           /\ cmd'.pending = cmd.pending
                                           /\ cmd'.outcome = cmd.outcome
  BY DEF Play!Go
<1>2. \A kind : Play!Finish(kind) => /\ cmd'.pc = "done" /\ cmd'.why = cmd.why
                                         /\ cmd'.sent = cmd.sent /\ cmd'.cursor = cmd.cursor
                                         /\ cmd'.pending = cmd.pending
                                         /\ cmd'.outcome = kind
  BY DEF Play!Finish
<1>3. cmd.attempt < Attempts /\ Play!NextAttempt =>
        /\ cmd'.pc = cmd.pc /\ cmd'.why = cmd.why /\ cmd'.sent = cmd.sent
        /\ cmd'.cursor = cmd.cursor /\ cmd'.pending = cmd.pending
        /\ cmd'.outcome = cmd.outcome
  BY DEF Play!NextAttempt
<1>4. Play!Ask => /\ cmd'.pc = cmd.pc /\ cmd'.why = cmd.why /\ cmd'.cursor = cmd.cursor
                      /\ cmd'.pending = cmd.pending /\ cmd'.outcome = cmd.outcome
                      /\ cmd'.sent = (cmd.sent \/ cmd.pc = "start")
  BY DEF Play!Ask
<1>5. Play!Dies => /\ cmd'.pc = "dead" /\ cmd'.why = cmd.why /\ cmd'.sent = cmd.sent
                       /\ cmd'.cursor = cmd.cursor /\ cmd'.pending = cmd.pending
                       /\ cmd'.outcome = cmd.outcome
  BY DEF Play!Dies
<1>6. ~ (cmd.attempt < Attempts) /\ Play!NextAttempt =>
        \/ cmd.sent /\ Play!Go("cancel", "start")
        \/ ~ cmd.sent /\ Play!Finish("bootFailure")
  BY DEF Play!NextAttempt
<1> QED BY <1>1, <1>2, <1>3, <1>4, <1>5, <1>6

(* Answers to the command; nobody else changes what it does. *)
Hearing ==
  Play!StartAnswered \/ Play!PollAnswered \/ Play!StopsWaiting
    \/ Play!StatusAnswered \/ Play!CancelAnswered

LEMMA CommandActs ==
    [Play!Next]_Play!vars => \/ Play!Ask \/ Play!CannotConnect \/ Hearing \/ Play!Dies
                             \/ cmd' = cmd /\ keepOpen' = keepOpen
<1> SUFFICES ASSUME [Play!Next]_Play!vars,
    ~ (Play!Ask \/ Play!CannotConnect \/ Hearing \/ Play!Dies)
             PROVE  cmd' = cmd /\ keepOpen' = keepOpen
  OBVIOUS
<1> USE DEF Play!command
<1>1. CASE UNCHANGED Play!vars BY <1>1 DEF Play!vars
<1>2. CASE Play!Lose \/ Play!Refuse \/ Play!CancelGivesUp
           \/ Play!CancelReturns
  BY <1>2 DEF Play!Lose, Play!Refuse, Play!CancelGivesUp, Play!CancelReturns
<1>3. CASE \E m \in inbox : Play!Start(m) \/ Play!Poll(m) \/ Play!Status(m)
        \/ Play!Cancel(m)
  BY <1>3 DEF Play!Start, Play!Poll, Play!Status, Play!Cancel
<1> QED BY <1>1, <1>2, <1>3, PluginActs DEF Play!Next, Inside, Hearing

(* What the hearing command does next. *)
LEMMA Hearings ==
    ASSUME PlayTyped, PlayShape, Hearing
    PROVE  /\ cmd'.sent = cmd.sent
           /\ waits' = NoPlay /\ reply' = NoPlay /\ inbox' = inbox
           /\ \/ cmd'.pc = "done" /\ cmd'.why = cmd.why
              \/ cmd'.pc = "start" /\ cmd.pc = "start" /\ cmd'.why = "start"
              \/ cmd'.pc = "poll" /\ cmd'.why = "run"
              \/ cmd'.pc = "status"
                 /\ cmd'.why \in {"recover", "heartbeat", "timeout", "interrupt"}
              \/ cmd'.pc = "cancel"
                 /\ cmd'.why \in {"start", "heartbeat", "transport", "timeout", "interrupt"}
           /\ UNCHANGED <<keepOpen, job, tombstone, Play!test, Play!teardown,
                          Play!queue, emitted, refused, spare>>
<1> USE DEF Play!history
<1>1. cmd \in Play!Commands /\ WhyIsKnown BY DEF PlayTyped, Play!TypeOK, PlayShape
<1> DEFINE Next1 ==
      /\ cmd'.sent = cmd.sent
      /\ \/ cmd'.pc = "done" /\ cmd'.why = cmd.why
         \/ cmd'.pc = "start" /\ cmd.pc = "start" /\ cmd'.why = "start"
         \/ cmd'.pc = "poll" /\ cmd'.why = "run"
         \/ cmd'.pc = "status" /\ cmd'.why \in {"recover", "heartbeat", "timeout", "interrupt"}
         \/ cmd'.pc = "cancel"
            /\ cmd'.why \in {"start", "heartbeat", "transport", "timeout", "interrupt"}
<1>2. ASSUME Play!StartAnswered PROVE Next1
  BY <1>1, <1>2, CommandTurns DEF Play!StartAnswered, Play!Hears, WhyIsKnown
<1>3. ASSUME Play!PollAnswered PROVE Next1
  <2>1. CASE Play!Go("status", "recover") BY <1>1, <2>1, CommandTurns
  <2>2. CASE ~ Play!Go("status", "recover")
    <3> DEFINE over ==
          IF reply.outcome # NoPlay THEN Play!Outcome(reply.outcome) ELSE cmd.pending
               new == [cmd EXCEPT !.cursor = Play!LastSeq(reply.frames), !.pending = over]
    <3>1. \/ cmd' = [new EXCEPT !.pc = "done", !.outcome = over]
          \/ cmd' = new
          \/ cmd' = [new EXCEPT !.pc = "status", !.why = "heartbeat"]
      BY <1>3, <2>2 DEF Play!PollAnswered
    <3>2. cmd.pc = "poll" BY <1>3 DEF Play!PollAnswered, Play!Hears
    <3> HIDE DEF over
    <3> QED BY <1>1, <3>1, <3>2 DEF Play!Commands, WhyIsKnown
  <2> QED BY <2>1, <2>2
<1>4. ASSUME Play!StopsWaiting PROVE Next1 BY <1>1, <1>4, CommandTurns DEF Play!StopsWaiting
<1>5. ASSUME Play!StatusAnswered PROVE Next1
  <2>1. \/ \E k : Play!Finish(k) \/ Play!Go("cancel", "heartbeat") \/ Play!Go("poll", "run")
        \/ Play!Go("cancel", "transport") \/ UNCHANGED cmd
        \/ Play!Go("cancel", "timeout")
    BY <1>5 DEF Play!StatusAnswered, Play!Abort
  <2>2. cmd.pc = "status" BY <1>5 DEF Play!StatusAnswered, Play!Hears
  <2> QED BY <1>1, <2>1, <2>2, CommandTurns DEF WhyIsKnown
<1> USE DEF Play!CancelAnswered, Hearing
<1>6. ASSUME Play!CancelAnswered PROVE Next1
  <2>1. (\E k : Play!Finish(k))
          \/ \E w \in {"timeout", "interrupt"} : Play!Go("status", w)
    BY <1>6
  <2> QED BY <1>1, <2>1, CommandTurns
<1>7. waits' = NoPlay /\ reply' = NoPlay /\ inbox' = inbox
  BY DEF Play!StartAnswered, Play!PollAnswered, Play!StopsWaiting, Play!StatusAnswered,
     Play!Heard
<1>8. UNCHANGED <<keepOpen, job, tombstone, Play!test, Play!teardown,
                  Play!queue, emitted, refused, spare>>
  BY DEF Play!StartAnswered, Play!PollAnswered, Play!StopsWaiting, Play!StatusAnswered,
     Play!Rest
<1>9. Next1 BY <1>2, <1>3, <1>4, <1>5, <1>6
<1> QED BY <1>7, <1>8, <1>9

(* Every step keeps the reasons of the command. *)
LEMMA WhyStep == PlayTyped /\ PlayShape /\ [Play!Next]_Play!vars => WhyIsKnown'
<1> SUFFICES ASSUME PlayTyped, PlayShape, [Play!Next]_Play!vars PROVE WhyIsKnown' OBVIOUS
<1>1. cmd \in Play!Commands /\ WhyIsKnown BY DEF PlayTyped, Play!TypeOK, PlayShape
<1>2. CASE Play!Ask \/ Play!Dies BY <1>1, <1>2, CommandTurns DEF WhyIsKnown
<1>3. CASE Play!CannotConnect BY <1>1, <1>3, CommandTurns DEF WhyIsKnown, Play!CannotConnect
<1>4. CASE Hearing BY <1>1, <1>4, Hearings DEF WhyIsKnown
<1> QED BY <1>1, <1>2, <1>3, <1>4, CommandActs DEF WhyIsKnown

-------------------------------------------------------------------------------
(* The job. *)
LEMMA JobsStay ==
    ASSUME NEW j \in Play!Jobs
    PROVE  /\ [j EXCEPT !.pending = TRUE] \in Play!Jobs
           /\ [j EXCEPT !.claim = NoPlay] \in Play!Jobs
           /\ [j EXCEPT !.pending = TRUE, !.status = "stopping",
               !.stopRequested = TRUE] \in Play!Jobs
           /\ [j EXCEPT !.status = "stopping", !.stopRequested = TRUE] \in Play!Jobs
           /\ [j EXCEPT !.booted = TRUE] \in Play!Jobs
           /\ \A kind \in {"success", "failure"} : [j EXCEPT !.claim = kind] \in Play!Jobs
           /\ \A x \in {"failed", "stopped", "completed"} :
                [j EXCEPT !.status = x] \in Play!Jobs
           /\ [j EXCEPT !.stopRequested = FALSE,
                 !.status = IF @ = "stopping" THEN "running" ELSE @] \in Play!Jobs
           /\ \A e \in Play!Ends :
                [j EXCEPT !.pending = FALSE, !.terminal = e] \in Play!Jobs
BY ZenonT(60) DEF Play!Jobs

(* A job is never forgotten. *)
LEMMA BegunStays == PlayTyped /\ PlayShape /\ Begun /\ [Play!Next]_Play!vars => Begun'
<1> SUFFICES ASSUME PlayTyped, PlayShape, Begun, [Play!Next]_Play!vars
    PROVE job' # NoPlay
  BY DEF Begun
<1>0. job \in Play!Jobs /\ NoPlay \notin Play!Jobs
  BY DEF PlayTyped, Play!TypeOK, Begun, Play!PlaytestAssumption
<1>1. CASE job' = job BY <1>0, <1>1
<1>2. CASE UNCHANGED Play!vars \/ Play!Ask \/ Play!Lose \/ Play!Refuse
        \/ Play!CannotConnect \/ Hearing \/ Play!Dies
  <2>1. job' = job
    BY SMTT(60), <1>2, Hearings
    DEF Play!vars, Play!Ask, Play!Lose, Play!Refuse, Play!CannotConnect,
       Play!Rest, Play!Dies
  <2> QED BY <1>1, <2>1
<1>3. ASSUME NEW kind, NEW force, NEW j \in Play!Jobs, Play!Decide(kind, force, j)
      PROVE job' # NoPlay
  <2>1. \/ job' = [j EXCEPT !.pending = TRUE]
        \/ job' = [j EXCEPT !.pending = TRUE, !.status = "stopping", !.stopRequested = TRUE]
    BY <1>3, DecideIsOne DEF DecideRunners, DecideAborted, DecideStop, DecideOver
  <2> QED BY ZenonT(60), <1>0, <2>1, JobsStay
<1>4. CASE \E m \in inbox : Play!Start(m) \/ Play!Poll(m) \/ Play!Status(m)
        \/ Play!CancelNothing(m)
  <2>1. job' = job
    BY ZenonT(60), <1>4 DEF Play!Start, Play!Poll, Play!Status, Play!CancelNothing, Begun
  <2> QED BY <1>1, <2>1
<1>5. CASE \E m \in inbox : Play!CancelDecided(m)
  BY ZenonT(60), <1>0, <1>5, JobsStay DEF Play!CancelDecided
<1>6. CASE \E m \in inbox : Play!CancelOpen(m) BY <1>0, <1>3, <1>6 DEF Play!CancelOpen
<1>7. CASE Play!CancelGivesUp \/ Play!CancelReturns \/ Play!StopReturns
        \/ Play!RunnersCancelled \/ Play!Emits
  <2>1. job' = job
    BY <1>7 DEF Play!CancelGivesUp, Play!CancelReturns, Play!StopReturns,
       Play!RunnersCancelled, Play!Emits
  <2> QED BY <1>1, <2>1
<1> USE <1>0, JobsStay
<1>8. CASE Play!JobEnds
  <2>1. PICK x \in {"failed", "stopped", "completed"} :
          job' \in {[[job EXCEPT !.status = x] EXCEPT !.pending = TRUE],
                    [job EXCEPT !.status = x]}
    BY ZenonT(60), <1>8 DEF Play!JobEnds
  <2>2. [job EXCEPT !.status = x] \in Play!Jobs BY ZenonT(60)
  <2>3. [[job EXCEPT !.status = x] EXCEPT !.pending = TRUE] \in Play!Jobs
    BY ZenonT(60), <2>2
  <2> QED BY ZenonT(60), <2>1, <2>2, <2>3
<1>9. CASE Play!StopFails \/ Play!OtherStop \/ Play!Boots \/ Play!Completes
  BY ZenonT(60), <1>9 DEF Play!StopFails, Play!OtherStop, Play!Boots, Play!Completes
<1>10. CASE Play!Finalize
  <2>1. term.end \in Play!Ends
    BY ZenonT(60), <1>10 DEF Play!Finalize, PlayTyped, Play!TypeOK, Play!Decisions
  <2> QED BY ZenonT(60), <1>10, <2>1 DEF Play!Finalize
<1>11. CASE Play!BootFails \/ Play!TimerFires \/ Play!Vanishes
  BY ZenonT(60), <1>3, <1>11
  DEF Play!BootFails, Play!TimerFires, Play!Vanishes, Play!Decides
<1>12. CASE Play!Fetched BY ZenonT(60), <1>3, <1>12 DEF Play!Fetched
<1> QED
  BY ZenonT(60), <1>2, <1>4, <1>5, <1>6, <1>7, <1>8, <1>9, <1>10, <1>11, <1>12
  DEF Play!Next,
   Play!Cancel, Hearing

(* Before there is a job the command can only start one, or cancel. *)
LEMMA NothingActs ==
    PlayTyped /\ PlayShape /\ ~ Begun /\ [Play!Next]_Play!vars =>
        \/ UNCHANGED Play!vars \/ Play!Ask \/ Play!Lose \/ Play!Refuse
             \/ Play!CannotConnect \/ Play!Dies
        \/ Play!StartAnswered /\ reply.kind # "ok"
        \/ Play!CancelAnswered /\ cmd.why = "start"
        \/ \E m \in inbox : Play!Start(m)
             \/ (Play!Cancel(m) /\ Play!CancelNothing(m))
<1> SUFFICES ASSUME PlayTyped, PlayShape, ~ Begun, [Play!Next]_Play!vars,
                    ~ \/ UNCHANGED Play!vars \/ Play!Ask \/ Play!Lose
                      \/ Play!Refuse \/ Play!CannotConnect \/ Play!Dies
                      \/ Play!StartAnswered /\ reply.kind # "ok"
                      \/ Play!CancelAnswered /\ cmd.why = "start"
                      \/ \E m \in inbox : Play!Start(m)
                           \/ (Play!Cancel(m) /\ Play!CancelNothing(m))
             PROVE  FALSE
  OBVIOUS
<1>1. /\ ~ studio /\ script = "off" /\ stop = NoPlay /\ term = NoPlay /\ cancel = NoPlay
      /\ job = NoPlay
      /\ \A m \in inbox : m.op \notin {"poll", "status"}
      /\ cmd.pc \notin {"poll", "status"}
      /\ cmd.pc = "cancel" => cmd.why = "start"
      /\ reply # NoPlay => ~ (cmd.pc = "start" /\ reply.kind = "ok")
  BY DEF PlayShape, JobIsBegun, Begun
<1>2. ~ Play!StartAnswered /\ ~ Play!CancelAnswered /\ ~ Play!PollAnswered
        /\ ~ Play!StopsWaiting /\ ~ Play!StatusAnswered
  BY <1>1 DEF Play!StartAnswered, Play!CancelAnswered, Play!PollAnswered, Play!StopsWaiting,
     Play!StatusAnswered, Play!Hears
<1>3. ~ \E m \in inbox : Play!Start(m) \/ Play!Poll(m) \/ Play!Status(m)
        \/ Play!Cancel(m)
  <2>1. \A m \in inbox : ~ Play!Poll(m) /\ ~ Play!Status(m)
    BY <1>1 DEF Play!Poll, Play!Status
  <2>2. \A m \in inbox : ~ Play!Cancel(m)
    BY <1>1 DEF Play!Cancel, Play!CancelDecided, Play!CancelOpen
  <2> QED BY <2>1, <2>2
<1>4. ~ Play!CancelGivesUp /\ ~ Play!CancelReturns /\ ~ Play!JobEnds
        /\ ~ Play!StopReturns /\ ~ Play!StopFails /\ ~ Play!OtherStop
  BY <1>1 DEF Play!CancelGivesUp, Play!CancelReturns, Play!JobEnds, Play!StopReturns,
     Play!StopFails, Play!OtherStop
<1>5. ~ Play!RunnersCancelled /\ ~ Play!Finalize /\ ~ Play!Boots
        /\ ~ Play!BootFails /\ ~ Play!TimerFires /\ ~ Play!Vanishes
  BY <1>1 DEF Play!RunnersCancelled, Play!Finalize, Play!Boots, Play!BootFails,
     Play!TimerFires, Play!Vanishes
<1>6. ~ Play!Emits /\ ~ Play!Completes /\ ~ Play!Fetched
  BY <1>1 DEF Play!Emits, Play!Completes, Play!Fetched
<1> QED BY <1>2, <1>3, <1>4, <1>5, <1>6 DEF Play!Next

(* A job begins only with a start that was sent. *)
LEMMA BegunStep ==
  PlayTyped /\ PlayShape /\ [Play!Next]_Play!vars => JobIsBegun' /\ SentIsKnown'
<1> SUFFICES ASSUME PlayTyped, PlayShape, [Play!Next]_Play!vars
    PROVE JobIsBegun' /\ SentIsKnown'
  OBVIOUS
<1> USE DEF Play!command, Play!network, Play!teardown, Play!test
<1>0. cmd \in Play!Commands /\ WhyIsKnown /\ JobIsBegun /\ SentIsKnown /\ AnswerIsAwaited
  BY DEF PlayTyped, Play!TypeOK, PlayShape
<1>1. CASE Begun
  <2>1. Begun' /\ cmd.sent BY <1>0, <1>1, BegunStays DEF SentIsKnown
  <2>2. cmd'.sent BY <1>0, <2>1, CommandTurns, CommandActs, Hearings DEF Play!CannotConnect
  <2> QED BY <2>1, <2>2 DEF JobIsBegun, SentIsKnown
<1>2. CASE ~ Begun
  <2>0. /\ ~ studio /\ script = "off" /\ stop = NoPlay /\ term = NoPlay
        /\ cancel = NoPlay /\ job = NoPlay
        /\ \A m \in inbox : m.op \notin {"poll", "status"}
        /\ cmd.pc \notin {"poll", "status"}
        /\ cmd.pc = "cancel" => cmd.why = "start"
        /\ reply # NoPlay => ~ (cmd.pc = "start" /\ reply.kind = "ok")
    BY <1>0, <1>2 DEF JobIsBegun, Begun
  <2>1. CASE UNCHANGED Play!vars
    BY <1>0, <2>1 DEF Play!vars, JobIsBegun, SentIsKnown, Begun, Starts
  <2>2. CASE Play!Ask
    <3>1. Play!Request(cmd.pc).op = cmd.pc BY DEF Play!Request
    <3>2. reply = NoPlay BY <1>0, <2>2 DEF Play!Ask, AnswerIsAwaited
    <3> QED BY <1>0, <2>0, <2>2, <3>1, <3>2, CommandTurns DEF Play!Ask, JobIsBegun,
       SentIsKnown, Begun, Starts
  <2>3. CASE Play!Lose \/ Play!Refuse
    <3>1. reply'.kind # "ok" BY <2>3 DEF Play!Lose, Play!Refuse, Play!Answer
    <3>2. inbox' \subseteq inbox /\ cmd' = cmd
          /\ UNCHANGED <<studio, script, stop, term, cancel, job>>
      BY <2>3 DEF Play!Lose, Play!Refuse
    <3> QED BY <1>0, <2>0, <3>1, <3>2 DEF JobIsBegun, SentIsKnown, Begun, Starts
  <2>4. CASE Play!CannotConnect
    BY <1>0, <2>0, <2>4, CommandTurns DEF Play!CannotConnect, Play!Rest, JobIsBegun,
       SentIsKnown, Begun, Starts
  <2>5. CASE Play!Dies
    BY <1>0, <2>0, <2>5, CommandTurns DEF Play!Dies, Play!Rest, JobIsBegun, SentIsKnown,
       Begun, Starts
  <2>6. CASE (Play!StartAnswered /\ reply.kind # "ok")
          \/ (Play!CancelAnswered /\ cmd.why = "start")
    <3>1. /\ waits' = NoPlay /\ reply' = NoPlay /\ inbox' = inbox /\ cmd'.sent = cmd.sent
          /\ UNCHANGED <<job, studio, script, stop, term, cancel>>
      BY <2>6, Hearings DEF Hearing
    <3>2. cmd'.pc \notin {"poll", "status"} /\ (cmd'.pc = "cancel" => cmd'.why = "start")
      <4>1. CASE Play!StartAnswered /\ reply.kind # "ok"
        BY <1>0, <4>1, CommandTurns DEF Play!StartAnswered, Play!Hears
      <4>2. CASE Play!CancelAnswered /\ cmd.why = "start"
        <5>1. \E k : Play!Finish(k) BY <4>2 DEF Play!CancelAnswered
        <5> QED BY <1>0, <5>1, CommandTurns
      <4> QED BY <2>6, <4>1, <4>2
    <3> QED BY <1>0, <2>0, <3>1, <3>2 DEF JobIsBegun, SentIsKnown, Begun, Starts
  <2>7. CASE \E m \in inbox : Play!Start(m)
    <3> PICK m \in inbox : Play!Start(m) BY <2>7
    <3>1. cmd' = cmd /\ inbox' \subseteq inbox /\ m.op = "start"
          /\ UNCHANGED <<stop, term, cancel>>
      BY DEF Play!Start, Play!Respond, Play!Take
    <3>2. cmd.sent BY <1>0, <3>1 DEF SentIsKnown, Starts
    <3>3. CASE job' = Play!Run
      <4>1. job' # NoPlay
        <5>1. Play!Run \in Play!Jobs BY DEF Play!Run, Play!Jobs
        <5> QED BY <3>3, <5>1 DEF PlayTyped, Play!PlaytestAssumption
      <4> QED BY <3>1, <3>2, <4>1 DEF JobIsBegun, SentIsKnown, Begun
    <3>4. CASE job' # Play!Run
      <4>1. /\ job' = job /\ studio' = studio /\ script' = script
            /\ Play!Respond(m, Play!Answer("error"))
        BY <2>0, <3>4 DEF Play!Start
      <4>2. reply' # NoPlay => ~ (cmd.pc = "start" /\ reply'.kind = "ok")
        BY <2>0, <4>1 DEF Play!Respond, Play!Answer
      <4> QED BY <2>0, <3>1, <3>2, <4>1, <4>2 DEF JobIsBegun, SentIsKnown, Begun
    <3> QED BY <3>3, <3>4
  <2>8. CASE \E m \in inbox : Play!Cancel(m) /\ Play!CancelNothing(m)
    <3> PICK m \in inbox : Play!Cancel(m) /\ Play!CancelNothing(m) BY <2>8
    <3>1. /\ cmd' = cmd /\ inbox' \subseteq inbox
          /\ UNCHANGED <<job, studio, script, stop, term, cancel>>
      BY DEF Play!Cancel, Play!CancelNothing, Play!Respond, Play!Take
    <3>2. reply' # reply => cmd.pc = "cancel"
      <4>1. m.id \in Nat /\ NoPlay \notin Nat
        BY DEF PlayTyped, Play!TypeOK, Play!Requests, Play!PlaytestAssumption
      <4> QED BY <1>0, <4>1 DEF Play!Cancel, Play!CancelNothing, Play!Respond,
         AnswerIsAwaited
    <3> QED BY <1>0, <2>0, <3>1, <3>2 DEF JobIsBegun, SentIsKnown, Begun, Starts
  <2> QED BY <1>2, <2>1, <2>2, <2>3, <2>4, <2>5, <2>6, <2>7, <2>8, NothingActs
<1> QED BY <1>1, <1>2

(* What decides, stops or ends a run. *)
Turning ==
    \/ \E m \in inbox : Play!Start(m)
         \/ (Play!Cancel(m) /\ (Play!CancelDecided(m) \/ Play!CancelOpen(m)))
    \/ Play!JobEnds \/ Play!StopReturns \/ Play!StopFails \/ Play!OtherStop
         \/ Play!RunnersCancelled \/ Play!Finalize
    \/ Play!Boots \/ Play!BootFails \/ Play!TimerFires \/ Play!Vanishes
         \/ Play!Completes \/ Play!Fetched

(* All other steps leave the job, its stop and Studio alone. *)
LEMMA OthersRest ==
    PlayTyped /\ PlayShape /\ [Play!Next]_Play!vars =>
        \/ Turning
        \/ /\ UNCHANGED <<job, stop, term, studio>>
           /\ refused => refused'
           /\ cancel' \in {cancel, NoPlay}
<1> SUFFICES ASSUME PlayTyped, PlayShape, [Play!Next]_Play!vars, ~ Turning
             PROVE  /\ UNCHANGED <<job, stop, term, studio>>
                    /\ refused => refused'
                    /\ cancel' \in {cancel, NoPlay}
  OBVIOUS
<1> USE DEF Play!teardown, Play!test, Play!history
<1>1. CASE UNCHANGED Play!vars BY <1>1 DEF Play!vars
<1>2. CASE Play!Ask \/ Play!Lose BY <1>2 DEF Play!Ask, Play!Lose
<1>8. CASE Play!Refuse
  <2>1. UNCHANGED <<job, stop, term, studio, cancel>> BY <1>8 DEF Play!Refuse
  <2>2. refused => refused' BY <1>8, Zenon DEF Play!Refuse
  <2> QED BY <2>1, <2>2
<1>3. CASE Play!CannotConnect \/ Play!Dies
  BY <1>3 DEF Play!CannotConnect, Play!Dies, Play!Rest
<1>4. CASE Hearing BY <1>4, Hearings
<1>5. CASE \E m \in inbox : Play!Poll(m) \/ Play!Status(m)
  BY <1>5 DEF Play!Poll, Play!Status
<1>6. CASE \E m \in inbox : Play!Cancel(m) /\ Play!CancelNothing(m)
  <2>1. UNCHANGED <<job, stop, term, studio, cancel, refused>>
    BY <1>6 DEF Play!Cancel, Play!CancelNothing
  <2> QED BY <2>1
<1>7. CASE Play!CancelGivesUp \/ Play!CancelReturns \/ Play!Emits
  <2>1. UNCHANGED <<job, stop, term, studio, refused>>
    BY <1>7 DEF Play!CancelGivesUp, Play!CancelReturns, Play!Emits
  <2>2. cancel' \in {cancel, NoPlay}
    BY <1>7 DEF Play!CancelGivesUp, Play!CancelReturns, Play!Emits
  <2> QED BY <2>1, <2>2
<1> QED BY <1>1, <1>2, <1>3, <1>4, <1>5, <1>6, <1>7, <1>8 DEF Play!Next, Hearing, Turning,
   Play!Cancel

(* A decision of a run that is undecided is the only one. *)
LEMMA DecideShape ==
    ASSUME PlayTyped, PlayShape, NEW kind \in Play!Kinds, NEW force \in BOOLEAN,
           job \in Play!Jobs, Play!Undecided,
           NEW j \in Play!Jobs, j.pending = job.pending, j.terminal = job.terminal,
           j.status = job.status, Play!Decide(kind, force, j),
           UNCHANGED <<keepOpen, studio, refused>>
    PROVE  DecisionIsOne' /\ StudioIsKnown'
<1>1. /\ job.terminal = NoPlay /\ job.pending = FALSE /\ term = NoPlay /\ DecisionIsOne
      /\ StudioIsKnown
      /\ job' # NoPlay /\ term' # NoPlay /\ Begun
  <2>1. job' \in Play!Jobs /\ term' \in Play!Decisions
    BY DecideKeeps DEF PlayTyped, Play!TypeOK
  <2>2. job # NoPlay BY DEF PlayTyped, Play!PlaytestAssumption
  <2> QED BY <2>1, <2>2 DEF Play!Undecided, PlayShape, DecisionIsOne, Begun, PlayTyped,
     Play!PlaytestAssumption
<1> USE <1>1 DEF DecisionIsOne
<1>2. stop # NoPlay => stop.by # "terminal" OBVIOUS
<1>3. CASE DecideRunners(kind, force, j)
  <2>1. /\ keepOpen /\ job'.pending = TRUE /\ job'.terminal = NoPlay
        /\ job'.status = job.status
        /\ term'.phase = "runners" /\ stop' = stop
    BY <1>3 DEF DecideRunners, Play!Jobs
  <2> QED BY <1>2, <2>1 DEF StudioIsKnown, Begun
<1>4. CASE DecideAborted(j)
  <2>1. /\ job'.pending = TRUE /\ job'.terminal = NoPlay /\ job'.status = job.status
        /\ term'.phase = "audit" /\ stop' = stop
    BY <1>4 DEF DecideAborted, Play!Jobs
  <2> QED BY <1>2, <2>1 DEF StudioIsKnown, Begun
<1>5. CASE DecideStop(kind, force, j)
  <2>1. /\ job'.pending = TRUE /\ job'.terminal = NoPlay /\ job'.status = "stopping"
        /\ term'.phase = "stop" /\ stop'.by = "terminal" /\ job.status = "running"
    BY <1>5 DEF DecideStop, Play!Jobs
  <2> QED BY <1>2, <2>1 DEF StudioIsKnown, Begun, Play!Active
<1>6. CASE DecideOver(kind, j)
  <2>1. /\ job'.pending = TRUE /\ job'.terminal = NoPlay /\ job'.status = job.status
        /\ term'.phase = "audit" /\ stop' = stop
    BY <1>6 DEF DecideOver, Play!Jobs
  <2> QED BY <1>2, <2>1 DEF StudioIsKnown, Begun
<1> QED BY <1>3, <1>4, <1>5, <1>6, DecideIsOne

(* Every step keeps one decision, and what is known of Studio. *)
LEMMA DecisionStep ==
  PlayTyped /\ PlayShape /\ [Play!Next]_Play!vars => DecisionIsOne' /\ StudioIsKnown'
<1> SUFFICES ASSUME PlayTyped, PlayShape, [Play!Next]_Play!vars
    PROVE DecisionIsOne' /\ StudioIsKnown'
  OBVIOUS
<1> USE DEF Play!command, Play!network, Play!teardown, Play!test,
    Play!history
<1>0. /\ DecisionIsOne /\ StudioIsKnown
      /\ job # NoPlay => job \in Play!Jobs
      /\ term # NoPlay => term \in Play!Decisions
      /\ stop # NoPlay => stop \in Play!Stops
      /\ keepOpen' = keepOpen
  <2>1. keepOpen' = keepOpen
    BY CommandActs, Hearings DEF Play!Ask, Play!CannotConnect, Play!Dies, Play!Rest
  <2> QED BY <2>1 DEF PlayTyped, Play!TypeOK, PlayShape
<1>1. CASE UNCHANGED <<job, stop, term, studio>> /\ (refused => refused')
  BY <1>0, <1>1 DEF DecisionIsOne, StudioIsKnown, Begun
<1>2. CASE \E m \in inbox : Play!Start(m)
  <2> PICK m \in inbox : Play!Start(m) BY <1>2
  <2>1. CASE job' = job /\ studio' = studio BY <1>1, <2>1 DEF Play!Start
  <2>2. CASE ~ (job' = job /\ studio' = studio)
    <3>1. job = NoPlay /\ job' = Play!Run /\ studio' = TRUE /\ UNCHANGED <<stop, term>>
      BY <2>2 DEF Play!Start
    <3>2. stop = NoPlay /\ term = NoPlay BY <3>1 DEF PlayShape, JobIsBegun, Begun
    <3>3. Play!Run.status = "running" /\ Play!Run.pending = FALSE
            /\ Play!Run.terminal = NoPlay
      BY DEF Play!Run
    <3> QED BY <3>1, <3>2, <3>3 DEF DecisionIsOne, StudioIsKnown, Play!Active
  <2> QED BY <2>1, <2>2
<1>3. CASE \E m \in inbox : Play!Cancel(m) /\ Play!CancelDecided(m)
  <2> PICK m \in inbox : Play!Cancel(m) /\ Play!CancelDecided(m) BY <1>3
  <2>1. CASE job' = job /\ stop' = stop BY <1>1, <2>1 DEF Play!Cancel, Play!CancelDecided
  <2>2. CASE ~ (job' = job /\ stop' = stop)
    <3>1. /\ job \in Play!Jobs /\ job.status = "running"
          /\ job' = [job EXCEPT !.status = "stopping", !.stopRequested = TRUE]
          /\ stop' = [by |-> "cancel", force |-> TRUE] /\ term' = term /\ studio' = studio
          /\ refused' = refused
      BY <1>0, <2>2 DEF Play!Cancel, Play!CancelDecided
    <3>2. /\ job'.status = "stopping" /\ job'.pending = job.pending
          /\ job'.terminal = job.terminal
          /\ stop'.by = "cancel" /\ job # NoPlay
      BY <3>1 DEF Play!Jobs, PlayTyped, Play!PlaytestAssumption
    <3> QED BY <1>0, <3>1, <3>2 DEF DecisionIsOne, StudioIsKnown, Begun, Play!Active
  <2> QED BY <2>1, <2>2
<1>4. CASE \E m \in inbox : Play!Cancel(m) /\ Play!CancelOpen(m)
  <2> PICK m \in inbox : Play!Cancel(m) /\ Play!CancelOpen(m) BY <1>4
  <2> USE DEF Play!CancelOpen
  <2>1. job \in Play!Jobs /\ UNCHANGED <<studio, refused>> BY <1>0 DEF Play!Cancel
  <2>2. CASE Play!Free
    <3> DEFINE k == IF m.why = "start" THEN "start response lost"
                    ELSE IF m.why = "timeout" THEN "timeout" ELSE "aborted"
    <3>1. Play!Decide(k, m.force, job) /\ k \in Play!Kinds /\ m.force \in BOOLEAN
      BY <2>2 DEF Play!Kinds, Play!Requests, PlayTyped, Play!TypeOK
    <3> HIDE DEF k
    <3> QED BY <1>0, <2>1, <2>2, <3>1, DecideShape DEF Play!Free
  <2>3. CASE ~ Play!Free
    <3>1. UNCHANGED <<job, stop, term, studio, refused>> BY <2>1, <2>3
    <3> QED BY <1>1, <3>1
  <2> QED BY <2>2, <2>3
<1>5. CASE Play!JobEnds
  <2>1. job \in Play!Jobs /\ studio' = FALSE /\ UNCHANGED <<stop, refused>>
    BY <1>0, <1>5 DEF Play!JobEnds, PlayShape, JobIsBegun, Begun
  <2>2. PICK x \in {"failed", "stopped", "completed"} :
          IF Play!Free
          THEN /\ job' = [[job EXCEPT !.status = x] EXCEPT !.pending = TRUE]
               /\ \E e : term' = [phase |-> "audit", end |-> e]
          ELSE job' = [job EXCEPT !.status = x] /\ term' = term
    BY <1>5 DEF Play!JobEnds
  <2>3. /\ job'.status = x /\ job'.terminal = job.terminal
        /\ job'.pending = (IF Play!Free THEN TRUE ELSE job.pending)
    BY <2>1, <2>2 DEF Play!Jobs
  <2>4. Begun BY <2>1 DEF Begun, PlayTyped, Play!PlaytestAssumption
  <2>5. CASE Play!Free
    <3>1. job.terminal = NoPlay /\ ~ job.pending BY <2>5 DEF Play!Free, Play!Undecided
    <3>2. term' # NoPlay /\ term'.phase = "audit"
      <4>1. term' \in Play!Decisions
        <5>1. \E k \in Play!Kinds :
                term' = [phase |-> "audit", end |-> Play!Terminal(k, FALSE)]
          BY <1>5, <2>5 DEF Play!JobEnds, Play!Kinds
        <5> QED BY <5>1 DEF Play!Terminal, Play!Ends, Play!Decisions
      <4> QED BY <2>2, <2>5, <4>1 DEF PlayTyped, Play!PlaytestAssumption
    <3>3. term = NoPlay /\ (stop # NoPlay => stop.by # "terminal")
      BY <1>0, <2>4, <3>1 DEF DecisionIsOne
    <3> QED BY <1>0, <2>1, <2>3, <2>4, <2>5, <3>1, <3>2, <3>3 DEF DecisionIsOne,
       StudioIsKnown, Play!Active
  <2>6. CASE ~ Play!Free
    BY <1>0, <2>1, <2>2, <2>3, <2>4, <2>6 DEF DecisionIsOne, StudioIsKnown, Play!Active
  <2> QED BY <2>5, <2>6
<1>6. CASE Play!StopReturns
  <2>1. /\ stop' = NoPlay /\ UNCHANGED <<job, studio, refused>> /\ stop # NoPlay
        /\ term' = IF stop.by # "terminal" THEN term
                   ELSE [phase |-> "audit", end |-> term.end]
    BY <1>6 DEF Play!StopReturns, Play!Stopped
  <2>2. stop.by = "terminal" => term # NoPlay /\ term' # NoPlay /\ term'.phase = "audit"
    <3>1. SUFFICES ASSUME stop.by = "terminal"
                   PROVE  term # NoPlay /\ term' # NoPlay /\ term'.phase = "audit"
      OBVIOUS
    <3>2. term # NoPlay BY <1>0, <2>1, <3>1 DEF DecisionIsOne
    <3>3. [phase |-> "audit", end |-> term.end] \in Play!Decisions
      BY <1>0, <3>2 DEF Play!Decisions
    <3> QED BY <2>1, <3>1, <3>2, <3>3 DEF PlayTyped, Play!PlaytestAssumption
  <2> QED BY <1>0, <2>1, <2>2 DEF DecisionIsOne, StudioIsKnown, Begun
<1>7. CASE Play!StopFails
  <2>1. /\ stop' = NoPlay /\ studio' = studio /\ stop # NoPlay
        /\ refused' = (refused \/ stop.force)
        /\ term' = IF stop.by # "terminal" THEN term
                   ELSE [phase |-> "audit", end |-> Play!Terminal("aborted", TRUE)]
        /\ job \in Play!Jobs
    BY <1>0, <1>7 DEF Play!StopFails, Play!Stopped, PlayShape, JobIsBegun, Begun
  <2>2. stop.by = "terminal" => term # NoPlay /\ term' # NoPlay /\ term'.phase = "audit"
    <3>1. SUFFICES ASSUME stop.by = "terminal"
                   PROVE  term # NoPlay /\ term' # NoPlay /\ term'.phase = "audit"
      OBVIOUS
    <3>2. term # NoPlay BY <1>0, <2>1, <3>1 DEF DecisionIsOne
    <3>3. [phase |-> "audit", end |-> Play!Terminal("aborted", TRUE)] \in Play!Decisions
      BY DEF Play!Terminal, Play!Ends, Play!Kinds, Play!Decisions
    <3> QED BY <2>1, <3>1, <3>2, <3>3 DEF PlayTyped, Play!PlaytestAssumption
  <2>3. /\ job'.pending = job.pending /\ job'.terminal = job.terminal
        /\ stop.force => job'.status = "failed"
        /\ ~ stop.force => job'.status = IF job.status = "stopping" THEN "running"
             ELSE job.status
    BY <1>7, <2>1 DEF Play!StopFails, Play!Jobs
  <2>4. Begun BY <2>1 DEF Begun, PlayTyped, Play!PlaytestAssumption
  <2> QED BY <1>0, <2>1, <2>2, <2>3, <2>4 DEF DecisionIsOne, StudioIsKnown, Play!Active
<1>8. CASE Play!OtherStop
  <2>1. /\ job \in Play!Jobs /\ job.status = "running"
        /\ UNCHANGED <<studio, term, refused>>
        /\ job' = [job EXCEPT !.status = "stopping", !.stopRequested = TRUE]
        /\ stop'.by = "other"
    BY <1>0, <1>8 DEF Play!OtherStop
  <2>2. job'.status = "stopping" /\ job'.pending = job.pending /\ job'.terminal = job.terminal
    BY <2>1 DEF Play!Jobs
  <2>3. Begun BY <2>1 DEF Begun, PlayTyped, Play!PlaytestAssumption
  <2> QED BY <1>0, <2>1, <2>2, <2>3 DEF DecisionIsOne, StudioIsKnown, Play!Active
<1>9. CASE Play!RunnersCancelled
  <2>1. /\ UNCHANGED <<job, stop, studio, refused>> /\ term \in Play!Decisions
        /\ term # NoPlay /\ term.phase = "runners"
    BY <1>0, <1>9 DEF Play!RunnersCancelled
  <2>2. term' # NoPlay /\ term'.phase = "audit"
    <3>1. [term EXCEPT !.phase = "audit"] \in Play!Decisions
          /\ [term EXCEPT !.phase = "audit"].phase = "audit"
      BY <2>1 DEF Play!Decisions
    <3>2. [phase |-> "audit", end |-> Play!Terminal("aborted", TRUE)] \in Play!Decisions
      BY DEF Play!Terminal, Play!Ends, Play!Kinds, Play!Decisions
    <3> QED
      <4>1. term' \in {[term EXCEPT !.phase = "audit"],
                       [phase |-> "audit", end |-> Play!Terminal("aborted", TRUE)]}
        BY <1>9 DEF Play!RunnersCancelled
      <4>2. NoPlay \notin Play!Decisions BY DEF PlayTyped, Play!PlaytestAssumption
      <4>3. [phase |-> "audit", end |-> Play!Terminal("aborted", TRUE)].phase = "audit"
        OBVIOUS
      <4> QED BY <3>1, <3>2, <4>1, <4>2, <4>3
  <2> QED BY <1>0, <2>1, <2>2 DEF DecisionIsOne, StudioIsKnown, Begun
<1> USE <1>0
<1>10. CASE Play!Finalize
  <2>1. /\ job \in Play!Jobs /\ term' = NoPlay /\ UNCHANGED <<stop, studio, refused>>
        /\ job' = [job EXCEPT !.pending = FALSE, !.terminal = term.end]
        /\ term # NoPlay /\ term.phase = "audit"
    BY <1>10 DEF Play!Finalize, PlayShape, JobIsBegun, Begun
  <2>2. job'.pending = FALSE /\ job'.status = job.status /\ job # NoPlay
    BY <2>1 DEF Play!Jobs, PlayTyped, Play!PlaytestAssumption
  <2> QED BY <2>1, <2>2 DEF DecisionIsOne, StudioIsKnown, Begun
<1>11. CASE Play!Boots \/ Play!Completes
  <2>1. job \in Play!Jobs /\ UNCHANGED <<stop, term, studio, refused>>
    BY <1>11 DEF Play!Boots, Play!Completes, PlayShape, JobIsBegun, Begun
  <2>2. /\ job'.status = job.status /\ job'.pending = job.pending
        /\ job'.terminal = job.terminal
        /\ job # NoPlay
    BY <1>11, <2>1 DEF Play!Boots, Play!Completes, Play!Jobs, PlayTyped,
       Play!PlaytestAssumption
  <2> QED BY <2>1, <2>2 DEF DecisionIsOne, StudioIsKnown, Begun
<1>12. CASE Play!BootFails \/ Play!TimerFires \/ Play!Vanishes
  <2>1. job \in Play!Jobs /\ Play!Free /\ UNCHANGED <<studio, refused>>
    BY <1>12 DEF Play!BootFails, Play!TimerFires, Play!Vanishes, Play!Decides
  <2>2. PICK k \in Play!Kinds : Play!Decide(k, FALSE, job)
    BY <1>12 DEF Play!BootFails, Play!TimerFires, Play!Vanishes, Play!Decides, Play!Kinds
  <2> QED BY <2>1, <2>2, DecideShape DEF Play!Free
<1>13. CASE Play!Fetched
  <2> DEFINE j == [job EXCEPT !.claim = NoPlay]
  <2>1. job \in Play!Jobs /\ j \in Play!Jobs
        /\ job.claim \in {"success", "failure"} /\ Play!Undecided
        /\ UNCHANGED <<studio, refused>>
    BY <1>13 DEF Play!Fetched, Play!Jobs
  <2>2. PICK k \in Play!Kinds : Play!Decide(k, FALSE, j)
    BY <1>13, <2>1 DEF Play!Fetched, Play!Kinds
  <2>3. j.pending = job.pending /\ j.terminal = job.terminal /\ j.status = job.status
    BY <2>1 DEF Play!Jobs
  <2> HIDE DEF j
  <2> QED BY <2>1, <2>2, <2>3, DecideShape
<1> QED BY <1>1, <1>2, <1>3, <1>4, <1>5, <1>6, <1>7, <1>8, <1>9, <1>10, <1>11, <1>12, <1>13,
   OthersRest DEF Turning

(* Every step keeps the shape. *)
LEMMA ShapeStep == PlayTyped /\ PlayShape /\ [Play!Next]_Play!vars => PlayShape'
BY RequestsStep, AwaitedStep, WhyStep, BegunStep, DecisionStep DEF PlayShape

(* The shape holds in the beginning. *)
LEMMA ShapeInit == Play!PlaytestAssumption /\ Play!Init => PlayShape
<1> SUFFICES ASSUME Play!PlaytestAssumption, Play!Init PROVE PlayShape OBVIOUS
<1> USE DEF Play!Init
<1>1. RequestsAreNew /\ AnswerIsAwaited BY DEF RequestsAreNew, AnswerIsAwaited
<1>2. WhyIsKnown /\ JobIsBegun /\ SentIsKnown
  BY DEF WhyIsKnown, JobIsBegun, SentIsKnown, Begun, Starts
<1>3. DecisionIsOne /\ StudioIsKnown BY DEF DecisionIsOne, StudioIsKnown, Begun
<1> QED BY <1>1, <1>2, <1>3 DEF PlayShape

-------------------------------------------------------------------------------
(* A playtest that is over stays over. *)
Over == ~ studio /\ (Begun \/ tombstone)
Safe == ~ studio /\ (Begun \/ tombstone \/ ~ Starts)
Closes == ~ keepOpen /\ ~ refused

(* What ends a run, without an error in stopping it, is over; and so is what the command has
   been told, or reports. *)
EndIsOver ==
    /\ term # NoPlay /\ term.phase = "audit" /\ ~ term.end.stopError /\ Closes => Over
    /\ Begun /\ job.terminal # NoPlay /\ ~ job.terminal.stopError /\ Closes => Over
    /\ cancel # NoPlay /\ cancel.cleanup = "confirmed" /\ Closes => Over
ToldIsOver ==
    /\ cmd.pending \notin {NoPlay, "aborted"} /\ Closes => Over
    /\ cmd.pc = "done" /\ cmd.outcome # "aborted" /\ Closes => Safe
ReplyIsOver ==
    reply # NoPlay =>
        /\ cmd.pc = "cancel" /\ reply.kind = "refused" => refused
        /\ cmd.pc = "start" /\ reply.kind = "error" => Safe
        /\ cmd.pc = "status" /\ reply.kind = "ok" /\ ~ reply.active /\ Closes => Over
        /\ reply.outcome # NoPlay /\ ~ reply.outcome.stopError /\ Closes => Over

(* A command that has to keep the test, or a stop that failed, stays so. *)
LEMMA ClosesStays ==
  PlayTyped /\ PlayShape /\ [Play!Next]_Play!vars => (Closes' => Closes)
    /\ (refused => refused')
<1> SUFFICES ASSUME PlayTyped, PlayShape, [Play!Next]_Play!vars
    PROVE (Closes' => Closes) /\ (refused => refused')
  OBVIOUS
<1> USE DEF Play!test, Play!history, Play!command
<1>1. keepOpen' = keepOpen
  BY CommandActs, Hearings DEF Play!Ask, Play!CannotConnect, Play!Dies, Play!Rest
<1>2. Turning => (refused => refused')
  <2>1. CASE Play!StopFails BY <2>1, Zenon DEF Play!StopFails
  <2>2. CASE \E m \in inbox : Play!Start(m)
          \/ (Play!Cancel(m) /\ (Play!CancelDecided(m) \/ Play!CancelOpen(m)))
    BY <2>2 DEF Play!Start, Play!Cancel
  <2>3. CASE Play!JobEnds \/ Play!StopReturns \/ Play!OtherStop
          \/ Play!RunnersCancelled \/ Play!Finalize
    BY <2>3 DEF Play!JobEnds, Play!StopReturns, Play!OtherStop, Play!RunnersCancelled,
       Play!Finalize
  <2>4. CASE Play!Boots \/ Play!BootFails \/ Play!TimerFires
          \/ Play!Vanishes \/ Play!Completes \/ Play!Fetched
    BY <2>4 DEF Play!Boots, Play!BootFails, Play!TimerFires, Play!Vanishes, Play!Completes,
       Play!Fetched, Play!Decides
  <2> QED BY <2>1, <2>2, <2>3, <2>4 DEF Turning
<1> QED BY <1>1, <1>2, OthersRest DEF Closes

(* Only a start starts a playtest. *)
LEMMA StudioStarts ==
    PlayTyped /\ PlayShape /\ [Play!Next]_Play!vars =>
        /\ tombstone => tombstone'
        /\ studio' => studio \/ (job = NoPlay /\ ~ tombstone /\ Starts)
<1> SUFFICES ASSUME PlayTyped, PlayShape, [Play!Next]_Play!vars
             PROVE  /\ tombstone => tombstone'
                    /\ studio' => studio \/ (job = NoPlay /\ ~ tombstone /\ Starts)
  OBVIOUS
<1> USE DEF Play!test, Play!command, Play!network, Play!teardown
<1>1. tombstone => tombstone'
  <2>1. CASE UNCHANGED Play!vars BY <2>1 DEF Play!vars
  <2>2. CASE Play!Ask \/ Play!Lose \/ Play!Refuse \/ Play!CannotConnect
          \/ Play!Dies \/ Play!CancelGivesUp \/ Play!CancelReturns
    BY <2>2 DEF Play!Ask, Play!Lose, Play!Refuse, Play!CannotConnect, Play!Dies,
       Play!CancelGivesUp, Play!CancelReturns, Play!Rest
  <2>3. CASE Hearing BY <2>3, Hearings
  <2>4. CASE \E m \in inbox : Play!Start(m) \/ Play!Poll(m) \/ Play!Status(m)
          \/ Play!Cancel(m)
    BY <2>4 DEF Play!Start, Play!Poll, Play!Status, Play!Cancel, Play!CancelNothing,
       Play!CancelDecided, Play!CancelOpen
  <2> QED BY <2>1, <2>2, <2>3, <2>4, PluginActs DEF Play!Next, Hearing
<1>2. Turning => (studio' => studio \/ (job = NoPlay /\ ~ tombstone /\ Starts))
  <2>1. CASE \E m \in inbox : Play!Start(m) BY <2>1 DEF Play!Start, Starts
  <2>2. CASE \E m \in inbox : Play!Cancel(m)
          /\ (Play!CancelDecided(m) \/ Play!CancelOpen(m))
    BY <2>2 DEF Play!Cancel
  <2>3. CASE Play!JobEnds \/ Play!StopReturns \/ Play!StopFails
          \/ Play!OtherStop \/ Play!RunnersCancelled \/ Play!Finalize
    BY <2>3 DEF Play!JobEnds, Play!StopReturns, Play!StopFails, Play!OtherStop,
       Play!RunnersCancelled, Play!Finalize
  <2>4. CASE Play!Boots \/ Play!BootFails \/ Play!TimerFires
          \/ Play!Vanishes \/ Play!Completes \/ Play!Fetched
    BY <2>4 DEF Play!Boots, Play!BootFails, Play!TimerFires, Play!Vanishes, Play!Completes,
       Play!Fetched, Play!Decides
  <2> QED BY <2>1, <2>2, <2>3, <2>4 DEF Turning
<1> QED BY <1>1, <1>2, OthersRest

LEMMA OverStays == PlayTyped /\ PlayShape /\ [Play!Next]_Play!vars /\ Over => Over'
BY StudioStarts, BegunStays DEF Over, Begun

(* Nor does a playtest come to run that no start can start. *)
LEMMA SafeStays ==
    PlayTyped /\ PlayShape /\ [Play!Next]_Play!vars /\ Safe
      /\ (waits # NoPlay \/ cmd.pc \notin Asking) => Safe'
<1> SUFFICES ASSUME PlayTyped, PlayShape, [Play!Next]_Play!vars, Safe,
    waits # NoPlay \/ cmd.pc \notin Asking
             PROVE  Safe'
  OBVIOUS
<1>1. ~ Play!Ask BY DEF Play!Ask, Asking
<1>2. Starts' => Starts BY <1>1, InboxTurns DEF Starts
<1> QED BY <1>2, StudioStarts, BegunStays DEF Safe, Begun

(* What is over cannot be started again. *)
LEMMA OverIsSafe == Over => Safe
BY DEF Over, Safe

(* The end of a run is decided at its audit, and for good. *)
LEMMA EndStays ==
    PlayTyped /\ PlayShape /\ [Play!Next]_Play!vars =>
        /\ Begun /\ job.terminal # NoPlay => job' # NoPlay /\ job'.terminal = job.terminal
        /\ Begun' /\ job'.terminal # NoPlay =>
              \/ Begun /\ job.terminal = job'.terminal
              \/ Play!Finalize /\ term # NoPlay /\ term.phase = "audit"
                   /\ job'.terminal = term.end
<1> SUFFICES ASSUME PlayTyped, PlayShape, [Play!Next]_Play!vars
             PROVE  /\ Begun /\ job.terminal # NoPlay =>
                          job' # NoPlay /\ job'.terminal = job.terminal
                    /\ Begun' /\ job'.terminal # NoPlay =>
                          \/ Begun /\ job.terminal = job'.terminal
                          \/ Play!Finalize /\ term # NoPlay /\ term.phase = "audit"
                             /\ job'.terminal = term.end
  OBVIOUS
<1>0. DecisionIsOne /\ (job # NoPlay => job \in Play!Jobs) /\ NoPlay \notin Play!Jobs
  BY DEF PlayTyped, Play!TypeOK, PlayShape, Play!PlaytestAssumption
<1>1. CASE job' = job BY <1>1 DEF Begun
<1>2. CASE job \in Play!Jobs /\ job'.terminal = job.terminal
  BY <1>0, <1>2, BegunStays DEF Begun
<1>3. ASSUME NEW kind, NEW force, NEW j \in Play!Jobs, Play!Decide(kind, force, j)
      PROVE  job'.terminal = j.terminal
  <2>1. \/ job' = [j EXCEPT !.pending = TRUE]
        \/ job' = [j EXCEPT !.pending = TRUE, !.status = "stopping", !.stopRequested = TRUE]
    BY <1>3, DecideIsOne DEF DecideRunners, DecideAborted, DecideStop, DecideOver
  <2> QED BY <2>1 DEF Play!Jobs
<1>4. CASE \E m \in inbox : Play!Start(m)
  <2>1. job' = job \/ (job = NoPlay /\ job' = Play!Run) BY <1>4 DEF Play!Start
  <2> QED BY <1>1, <2>1 DEF Play!Run, Begun
<1>5. CASE \E m \in inbox : Play!CancelDecided(m)
  <2>1. job' = job
          \/ (job \in Play!Jobs
              /\ job' = [job EXCEPT !.status = "stopping", !.stopRequested = TRUE])
    BY <1>0, <1>5 DEF Play!CancelDecided
  <2> QED BY <1>1, <1>2, <2>1 DEF Play!Jobs
<1>6. CASE \E m \in inbox : Play!CancelOpen(m)
  <2>1. job \in Play!Jobs /\ (job' = job \/ \E k, f : Play!Decide(k, f, job))
    BY <1>0, <1>6 DEF Play!CancelOpen
  <2> QED BY <1>1, <1>2, <1>3, <2>1
<1>7. CASE Play!JobEnds
  <2>1. job \in Play!Jobs BY <1>0, <1>7 DEF Play!JobEnds, PlayShape, JobIsBegun, Begun
  <2>2. PICK x \in {"failed", "stopped", "completed"} :
          job' \in {[[job EXCEPT !.status = x] EXCEPT !.pending = TRUE],
                    [job EXCEPT !.status = x]}
    BY <1>7 DEF Play!JobEnds
  <2>3. job'.terminal = job.terminal BY <2>1, <2>2 DEF Play!Jobs
  <2> QED BY <1>2, <2>1, <2>3
<1>8. CASE Play!StopFails \/ Play!OtherStop \/ Play!Boots \/ Play!Completes
  <2>1. job \in Play!Jobs
    BY <1>0, <1>8 DEF Play!StopFails, Play!OtherStop, Play!Boots, Play!Completes, PlayShape,
       JobIsBegun, Begun
  <2>2. job'.terminal = job.terminal
    BY <1>8, <2>1 DEF Play!StopFails, Play!OtherStop, Play!Boots, Play!Completes, Play!Jobs
  <2> QED BY <1>2, <2>1, <2>2
<1>9. CASE Play!StopReturns \/ Play!RunnersCancelled
  BY <1>1, <1>9 DEF Play!StopReturns, Play!RunnersCancelled
<1>10. CASE Play!Finalize
  <2>1. job \in Play!Jobs /\ term # NoPlay /\ job.terminal = NoPlay
    BY <1>0, <1>10 DEF Play!Finalize, PlayShape, JobIsBegun, Begun, DecisionIsOne
  <2>2. job'.terminal = term.end BY <1>10, <2>1 DEF Play!Finalize, Play!Jobs
  <2> QED BY <1>10, <2>1, <2>2 DEF Play!Finalize
<1>11. CASE Play!BootFails \/ Play!TimerFires \/ Play!Vanishes
  <2>1. job \in Play!Jobs /\ \E k, f : Play!Decide(k, f, job)
    BY <1>0, <1>11 DEF Play!BootFails, Play!TimerFires, Play!Vanishes, Play!Decides
  <2> QED BY <1>2, <1>3, <2>1
<1>12. CASE Play!Fetched
  <2> DEFINE j == [job EXCEPT !.claim = NoPlay]
  <2>1. job \in Play!Jobs /\ j \in Play!Jobs /\ j.terminal = job.terminal
    BY <1>0, <1>12 DEF Play!Fetched, Play!Jobs
  <2>2. \E k, f : Play!Decide(k, f, j) BY <1>12 DEF Play!Fetched
  <2> HIDE DEF j
  <2> QED BY <1>2, <1>3, <2>1, <2>2
<1> QED BY <1>1, <1>4, <1>5, <1>6, <1>7, <1>8, <1>9, <1>10, <1>11, <1>12, OthersRest DEF
   Turning

(* A decision that goes straight to its audit has met a test that is over. *)
LEMMA DecideEnds ==
    ASSUME PlayTyped, PlayShape, job # NoPlay, ~ refused, NEW kind, NEW force, NEW j,
           j.status = job.status, Play!Decide(kind, force, j),
           term'.phase = "audit", ~ term'.end.stopError
    PROVE  Over
<1>1. CASE DecideRunners(kind, force, j) BY <1>1 DEF DecideRunners
<1>2. CASE DecideAborted(j) BY <1>2 DEF DecideAborted, Play!Terminal
<1>3. CASE DecideStop(kind, force, j) BY <1>3 DEF DecideStop
<1>4. CASE DecideOver(kind, j) BY <1>4 DEF DecideOver, PlayShape, StudioIsKnown, Over, Begun
<1> QED BY <1>1, <1>2, <1>3, <1>4, DecideIsOne

(* The stop of a playtest returns when it has ended. *)
LEMMA ReturnIsOver == PlayTyped /\ PlayShape /\ Play!StopReturns /\ ~ refused => Over
<1> SUFFICES ASSUME PlayTyped, PlayShape, Play!StopReturns, ~ refused PROVE Over OBVIOUS
<1>1. Begun /\ job.status # "running" /\ job.status # "stopping"
  BY DEF PlayShape, JobIsBegun, DecisionIsOne, Play!StopReturns, Begun
<1> QED BY <1>1 DEF PlayShape, StudioIsKnown, Over, Play!Active

(* An audit of a stop without an error finds a playtest that is over. *)
LEMMA AuditIsOver ==
    ASSUME PlayTyped, PlayShape, [Play!Next]_Play!vars, Closes', term' # NoPlay,
           term'.phase = "audit",
           ~ term'.end.stopError
    PROVE  term' = term \/ Over'
<1>0. /\ Closes
      /\ job # NoPlay => job \in Play!Jobs
  BY ClosesStays DEF PlayTyped, Play!TypeOK
<1>1. Over => Over' BY OverStays
<1>2. CASE term' = term BY <1>2
<1>3. ASSUME job # NoPlay, NEW kind, NEW force, Play!Decide(kind, force, job) PROVE Over'
  BY <1>0, <1>1, <1>3, DecideEnds DEF Closes
<1>4. CASE \E m \in inbox : Play!Start(m)
        \/ (Play!Cancel(m) /\ Play!CancelDecided(m))
  BY <1>4 DEF Play!Start, Play!Cancel, Play!CancelDecided, Play!teardown
<1>5. CASE \E m \in inbox : Play!CancelOpen(m) BY <1>3, <1>5 DEF Play!CancelOpen
<1>6. CASE Play!JobEnds
  <2>1. Begun' BY <1>6, BegunStays DEF Play!JobEnds, PlayShape, JobIsBegun
  <2>2. studio' = FALSE BY <1>6 DEF Play!JobEnds
  <2> QED BY <2>1, <2>2 DEF Over
<1>7. CASE Play!StopReturns BY <1>0, <1>1, <1>7, ReturnIsOver DEF Closes
<1>8. CASE Play!StopFails BY <1>8 DEF Play!StopFails, Play!Stopped, Play!Terminal
<1>9. CASE Play!RunnersCancelled
  BY <1>0, <1>9 DEF Play!RunnersCancelled, PlayShape, DecisionIsOne, Closes
<1>10. CASE Play!Finalize BY <1>10 DEF Play!Finalize
<1>11. CASE Play!OtherStop \/ Play!Boots \/ Play!Completes
  BY <1>11 DEF Play!OtherStop, Play!Boots, Play!Completes, Play!teardown
<1>12. CASE Play!BootFails \/ Play!TimerFires \/ Play!Vanishes
  BY <1>3, <1>12 DEF Play!BootFails, Play!TimerFires, Play!Vanishes, Play!Decides
<1>13. CASE Play!Fetched
  <2> DEFINE j == [job EXCEPT !.claim = NoPlay]
  <2>1. job # NoPlay /\ j.status = job.status BY <1>0, <1>13 DEF Play!Fetched, Play!Jobs
  <2>2. \E k, f : Play!Decide(k, f, j) BY <1>13 DEF Play!Fetched
  <2> HIDE DEF j
  <2> QED BY <1>0, <1>1, <2>1, <2>2, DecideEnds DEF Closes
<1> QED BY <1>2, <1>4, <1>5, <1>6, <1>7, <1>8, <1>9, <1>10, <1>11, <1>12, <1>13, OthersRest
   DEF Turning

(* So does a cancellation that confirms its cleanup. *)
LEMMA ConfirmedIsOver ==
    ASSUME PlayTyped, PlayShape, [Play!Next]_Play!vars, Closes', cancel' # NoPlay,
           cancel'.cleanup = "confirmed"
    PROVE  cancel' = cancel \/ Over'
<1> USE DEF Play!teardown
<1>0. Closes /\ (cancel # NoPlay => cancel \in Play!Cancels)
  BY ClosesStays DEF PlayTyped, Play!TypeOK
<1>1. CASE \E m \in inbox : Play!Start(m) BY <1>1 DEF Play!Start
<1>2. CASE \E m \in inbox : Play!CancelDecided(m) \/ Play!CancelOpen(m)
  <2>1. \E i, c : c # "confirmed" /\ cancel' = [id |-> i, cleanup |-> c]
    <3>1. PICK m \in inbox : Play!CancelDecided(m) \/ Play!CancelOpen(m) BY <1>2
    <3>2. \E c \in {"waits", "none", "failed"} : cancel' = [id |-> m.id, cleanup |-> c]
      BY <3>1 DEF Play!CancelDecided, Play!CancelOpen
    <3> QED BY <3>2
  <2> QED BY <2>1
<1>3. CASE Play!JobEnds \/ Play!OtherStop \/ Play!RunnersCancelled
        \/ Play!Finalize \/ Play!Boots \/ Play!Completes \/ Play!Fetched
  BY <1>3 DEF Play!JobEnds, Play!OtherStop, Play!RunnersCancelled, Play!Finalize,
     Play!Boots, Play!Completes, Play!Fetched
<1>4. CASE Play!BootFails \/ Play!TimerFires \/ Play!Vanishes
  BY <1>4 DEF Play!BootFails, Play!TimerFires, Play!Vanishes, Play!Decides
<1>5. CASE Play!StopReturns BY <1>0, <1>5, ReturnIsOver, OverStays DEF Closes
<1>6. CASE Play!StopFails BY <1>0, <1>6 DEF Play!StopFails, Play!Stopped, Play!Cancels
<1> QED BY <1>1, <1>2, <1>3, <1>4, <1>5, <1>6, OthersRest DEF Turning

(* Every step keeps: what ends a run is over. *)
LEMMA EndStep ==
  PlayTyped /\ PlayShape /\ EndIsOver /\ [Play!Next]_Play!vars => EndIsOver'
<1> SUFFICES ASSUME PlayTyped, PlayShape, EndIsOver, [Play!Next]_Play!vars
    PROVE EndIsOver'
  OBVIOUS
<1>0. (Closes' => Closes) /\ (Over => Over') BY ClosesStays, OverStays
<1>1. term' # NoPlay /\ term'.phase = "audit" /\ ~ term'.end.stopError /\ Closes' => Over'
  BY <1>0, AuditIsOver DEF EndIsOver
<1>2. Begun' /\ job'.terminal # NoPlay /\ ~ job'.terminal.stopError /\ Closes' => Over'
  BY <1>0, EndStays DEF EndIsOver
<1>3. cancel' # NoPlay /\ cancel'.cleanup = "confirmed" /\ Closes' => Over'
  BY <1>0, ConfirmedIsOver DEF EndIsOver
<1> QED BY <1>1, <1>2, <1>3 DEF EndIsOver

(* Who answers the command. *)
LEMMA AnswersCome ==
    ASSUME PlayTyped, PlayShape, [Play!Next]_Play!vars, reply' # NoPlay
    PROVE  /\ cmd' = cmd
           /\ \/ reply' = reply
              \/ reply' = Play!Answer("lost")
              \/ Play!Refuse
              \/ \E m \in inbox :
                    /\ waits = m.id /\ m.op = cmd.pc /\ \A x \in inbox : x.id <= m.id
                    /\ Play!Start(m) \/ Play!Poll(m) \/ Play!Status(m)
                         \/ (Play!Cancel(m) /\ Play!CancelNothing(m))
              \/ /\ Play!CancelGivesUp \/ Play!CancelReturns
                 /\ cmd.pc = "cancel"
<1> USE DEF Play!command, Play!network
<1>0. AnswerIsAwaited /\ NoPlay \notin Nat /\ \A m \in inbox : m.id \in Nat
  BY DEF PlayShape, PlayTyped, Play!TypeOK, Play!Requests, Play!PlaytestAssumption
<1>1. ~ Play!Ask /\ ~ Play!CannotConnect /\ ~ Hearing /\ ~ Play!Dies
  BY <1>0, Hearings DEF Play!Ask, Play!CannotConnect, Play!Dies, AnswerIsAwaited
<1>2. CASE UNCHANGED Play!vars \/ Play!Lose \/ Play!Refuse
  BY <1>1, <1>2, CommandActs DEF Play!vars, Play!Lose
<1>3. CASE \E m \in inbox : Play!Start(m) \/ Play!Poll(m) \/ Play!Status(m)
        \/ Play!Cancel(m)
  <2> PICK m \in inbox : Play!Start(m) \/ Play!Poll(m) \/ Play!Status(m)
        \/ Play!Cancel(m)
    BY <1>3
  <2>1. CASE waits = m.id
    <3>1. m.op = cmd.pc /\ \A x \in inbox : x.id <= m.id BY <1>0, <2>1 DEF AnswerIsAwaited
    <3>2. CASE Play!Start(m) \/ Play!Poll(m) \/ Play!Status(m)
            \/ (Play!Cancel(m) /\ Play!CancelNothing(m))
      BY <1>1, <2>1, <3>1, <3>2, CommandActs
    <3>3. CASE Play!Cancel(m) /\ ~ Play!CancelNothing(m)
      BY <1>1, <3>3, CommandActs DEF Play!Cancel, Play!CancelDecided, Play!CancelOpen
    <3> QED BY <3>2, <3>3
  <2>2. CASE waits # m.id
    BY <1>1, <2>2, CommandActs DEF Play!Start, Play!Poll, Play!Status, Play!Cancel,
       Play!CancelNothing, Play!CancelDecided, Play!CancelOpen, Play!Respond
  <2> QED BY <2>1, <2>2
<1>4. CASE Play!CancelGivesUp \/ Play!CancelReturns
  <2>1. cancel # NoPlay /\ cancel.id \in Nat
    BY <1>4 DEF Play!CancelGivesUp, Play!CancelReturns, PlayTyped, Play!TypeOK, Play!Cancels
  <2>2. CASE waits = cancel.id
    BY <1>0, <1>1, <1>4, <2>1, <2>2, CommandActs DEF AnswerIsAwaited
  <2>3. CASE waits # cancel.id
    BY <1>1, <1>4, <2>3, CommandActs DEF Play!CancelGivesUp, Play!CancelReturns
  <2> QED BY <2>2, <2>3
<1>5. CASE Inside BY <1>5 DEF Inside
<1> QED BY <1>1, <1>2, <1>3, <1>4, <1>5, PluginActs DEF Play!Next, Hearing

(* Every step keeps: an answer that says so tells of a playtest that is over. *)
LEMMA ReplyStep ==
  PlayTyped /\ PlayShape /\ EndIsOver /\ ReplyIsOver /\ [Play!Next]_Play!vars =>
    ReplyIsOver'
<1> SUFFICES ASSUME PlayTyped, PlayShape, EndIsOver, ReplyIsOver,
    [Play!Next]_Play!vars, reply' # NoPlay
             PROVE  ReplyIsOver'
  BY DEF ReplyIsOver
<1> USE DEF Play!test, Play!command, Play!network
<1>0. /\ cmd' = cmd /\ (Closes' => Closes) /\ (refused => refused')
      /\ Over => (Over' /\ Safe')
      /\ AnswerIsAwaited /\ JobIsBegun /\ NoPlay \notin Nat
  <2>1. Over' => Safe' BY DEF Over, Safe
  <2> QED BY <2>1, AnswersCome, ClosesStays, OverStays DEF PlayShape, PlayTyped,
     Play!PlaytestAssumption
<1>1. \A k : Play!Answer(k).kind = k /\ Play!Answer(k).outcome = NoPlay BY DEF Play!Answer
<1>2. CASE reply' = reply
  <2>1. reply # NoPlay /\ waits # NoPlay BY <1>0, <1>2 DEF AnswerIsAwaited
  <2>2. Safe => Safe' BY <2>1, SafeStays
  <2> QED BY <1>0, <1>2, <2>1, <2>2 DEF ReplyIsOver
<1>3. CASE reply' = Play!Answer("lost") BY <1>1, <1>3 DEF ReplyIsOver
<1>4. CASE Play!Refuse
  <2>1. reply' = Play!Answer("refused") /\ (cmd.pc = "cancel" => refused')
    BY <1>4, Zenon DEF Play!Refuse
  <2> QED BY <1>0, <1>1, <2>1 DEF ReplyIsOver
<1>5. ASSUME NEW m \in inbox, waits = m.id, m.op = cmd.pc, \A x \in inbox : x.id <= m.id,
             Play!Start(m)
      PROVE  ReplyIsOver'
  <2>1. m.op = "start" /\ \E k \in {"ok", "error"} : Play!Respond(m, Play!Answer(k))
    BY <1>5 DEF Play!Start
  <2>2. reply'.outcome = NoPlay /\ reply'.kind \in {"ok", "error"} /\ cmd.pc = "start"
    BY <1>1, <1>5, <2>1 DEF Play!Respond
  <2>3. CASE reply'.kind = "error"
    <3>1. Play!Respond(m, Play!Answer("error")) /\ job = NoPlay
            /\ UNCHANGED <<job, studio>>
      BY <1>1, <1>5, <2>3 DEF Play!Start, Play!Respond
    <3>2. ~ Starts' BY <1>5, <2>1, <3>1 DEF Starts, Play!Respond, Play!Take, Play!Before
    <3> QED BY <1>0, <2>2, <3>1, <3>2 DEF ReplyIsOver, Safe, JobIsBegun, Begun
  <2> QED BY <1>0, <2>2, <2>3 DEF ReplyIsOver
<1>6. ASSUME NEW m \in inbox, waits = m.id, m.op = cmd.pc, Play!Poll(m) PROVE ReplyIsOver'
  <2>1. m.op = "poll" /\ Begun BY <1>0, <1>6 DEF Play!Poll, JobIsBegun
  <2>2. PICK f, b :
          Play!Respond(m, [Play!Answer("ok") EXCEPT !.frames = f, !.more = b,
                                                            !.outcome = job.terminal])
    BY <1>6 DEF Play!Poll
  <2>3. reply'.kind = "ok" /\ reply'.outcome = job.terminal
    BY <1>6, <2>2 DEF Play!Respond, Play!Answer
  <2> QED BY <1>0, <1>6, <2>1, <2>3 DEF ReplyIsOver, EndIsOver
<1>7. ASSUME NEW m \in inbox, waits = m.id, m.op = cmd.pc, Play!Status(m) PROVE ReplyIsOver'
  <2>1. m.op = "status" /\ Begun BY <1>0, <1>7 DEF Play!Status, JobIsBegun
  <2>2. /\ reply'.kind = "ok" /\ reply'.outcome = job.terminal
        /\ reply'.active = (job.status \in Play!Active)
    BY <1>7 DEF Play!Status, Play!Respond, Play!Answer
  <2>3. ~ reply'.active /\ Closes => Over
    BY <2>1, <2>2 DEF PlayShape, StudioIsKnown, Over, Closes
  <2> QED BY <1>0, <1>7, <2>1, <2>2, <2>3 DEF ReplyIsOver, EndIsOver
<1>8. ASSUME NEW m \in inbox, waits = m.id, m.op = cmd.pc, Play!Cancel(m),
      Play!CancelNothing(m)
      PROVE  ReplyIsOver'
  <2>1. m.op = "cancel" /\ reply'.kind = "ok"
    BY <1>8 DEF Play!Cancel, Play!CancelNothing, Play!Respond, Play!Answer
  <2>2. job = NoPlay /\ tombstone' /\ studio' = studio
    BY <1>8 DEF Play!Cancel, Play!CancelNothing
  <2>3. Over' BY <1>0, <2>2 DEF Over, JobIsBegun, Begun
  <2> QED BY <1>0, <1>8, <2>1, <2>3 DEF ReplyIsOver
<1>9. CASE Play!CancelGivesUp /\ cmd.pc = "cancel"
  <2>1. reply' = reply \/ reply' = Play!Answer("error") BY <1>9 DEF Play!CancelGivesUp
  <2> QED BY <1>0, <1>1, <1>2, <1>9, <2>1 DEF ReplyIsOver
<1>10. CASE Play!CancelReturns /\ cmd.pc = "cancel"
  <2>1. cancel # NoPlay /\ Begun /\ job.terminal # NoPlay
    BY <1>0, <1>10 DEF Play!CancelReturns, JobIsBegun
  <2> DEFINE end == IF cancel.cleanup = "failed" THEN Play!Terminal("aborted", TRUE)
                    ELSE IF cancel.cleanup = "confirmed"
                         THEN Play!Terminal(job.terminal.kind, FALSE)
                    ELSE job.terminal
  <2>2. reply' = reply \/ reply' = [Play!Answer("ok") EXCEPT !.outcome = end]
    BY <1>10 DEF Play!CancelReturns
  <2>3. ~ end.stopError /\ Closes => Over
    <3>1. CASE cancel.cleanup = "failed" BY <3>1 DEF Play!Terminal
    <3>2. CASE cancel.cleanup = "confirmed" BY <2>1, <3>2 DEF EndIsOver
    <3>3. CASE cancel.cleanup # "failed" /\ cancel.cleanup # "confirmed"
      BY <2>1, <3>3 DEF EndIsOver
    <3> QED BY <3>1, <3>2, <3>3
  <2> HIDE DEF end
  <2>4. /\ [Play!Answer("ok") EXCEPT !.outcome = end].kind = "ok"
        /\ [Play!Answer("ok") EXCEPT !.outcome = end].outcome = end
    BY DEF Play!Answer
  <2> QED BY <1>0, <1>2, <1>10, <2>2, <2>3, <2>4 DEF ReplyIsOver
<1> QED BY <1>2, <1>3, <1>4, <1>5, <1>6, <1>7, <1>8, <1>9, <1>10, AnswersCome

(* Before anything is sent no playtest can run. *)
LEMMA NothingIsSafe == PlayTyped /\ PlayShape /\ ~ cmd.sent => Safe
BY DEF PlayShape, SentIsKnown, JobIsBegun, Safe

(* The outcome of a run, unless it is an abort, is that of one that is over. *)
LEMMA OutcomeIsOver ==
    ASSUME ReplyIsOver, reply # NoPlay, reply.outcome # NoPlay,
           Play!Outcome(reply.outcome) # "aborted",
           Closes
    PROVE  Over
BY DEF Play!Outcome, ReplyIsOver

(* A start that gives up has been told that nothing runs. *)
LEMMA NextAttemptIsOver ==
    ASSUME PlayTyped, PlayShape, Play!NextAttempt, cmd.pc = "start",
           UNCHANGED <<job, tombstone, studio, inbox>>
    PROVE  /\ cmd'.pending = cmd.pending
           /\ cmd'.pc = "done" => Safe'
<1>1. cmd'.pc = "done" => ~ cmd.sent BY CommandTurns DEF PlayTyped, Play!TypeOK
<1>2. Safe => Safe' BY DEF Safe, Begun, Starts
<1> QED BY <1>1, <1>2, NothingIsSafe, CommandTurns DEF PlayTyped, Play!TypeOK

(* Every step keeps: what the command has been told, or reports, is over. *)
LEMMA ToldStep ==
    PlayTyped /\ PlayShape /\ EndIsOver /\ ReplyIsOver /\ ToldIsOver
      /\ [Play!Next]_Play!vars => ToldIsOver'
<1> SUFFICES ASSUME PlayTyped, PlayShape, EndIsOver, ReplyIsOver, ToldIsOver,
    [Play!Next]_Play!vars
             PROVE  ToldIsOver'
  OBVIOUS
<1> USE DEF Play!test, Play!command, Play!network
<1>0. /\ (Closes' => Closes) /\ (Over => (Over' /\ Safe')) /\ cmd \in Play!Commands
      /\ AnswerIsAwaited
  <2>1. Over' => Safe' BY DEF Over, Safe
  <2> QED BY <2>1, ClosesStays, OverStays DEF PlayTyped, Play!TypeOK, PlayShape
<1> USE <1>0
<1>1. CASE cmd' = cmd
  <2>1. cmd.pc = "done" /\ Safe => Safe' BY SafeStays DEF Asking
  <2> QED BY <1>1, <2>1 DEF ToldIsOver
<1>2. CASE Play!Ask
  <2>1. cmd'.pc # "done" /\ cmd'.pending = cmd.pending BY <1>2, CommandTurns DEF Play!Ask
  <2> QED BY <2>1 DEF ToldIsOver
<1>3. CASE Play!Dies
  <2>1. cmd'.pc # "done" /\ cmd'.pending = cmd.pending BY <1>3, CommandTurns
  <2> QED BY <2>1 DEF ToldIsOver
<1>4. CASE Play!CannotConnect
  <2>1. /\ Play!NextAttempt /\ cmd.pc = "start"
             /\ UNCHANGED <<job, tombstone, studio, inbox>>
    BY <1>4 DEF Play!CannotConnect, Play!Rest
  <2> QED BY <2>1, NextAttemptIsOver DEF ToldIsOver
<1>5. CASE Hearing
  <2>0. UNCHANGED <<keepOpen, job, tombstone, studio, inbox, refused>> /\ (Safe => Safe')
    <3>1. UNCHANGED <<keepOpen, job, tombstone, studio, inbox, refused>> BY <1>5, Hearings
    <3> QED BY <3>1 DEF Safe, Begun, Starts
  <2>1. CASE Play!StartAnswered
    <3> USE <2>1 DEF ToldIsOver, Play!StartAnswered
    <3>1. CASE Play!NextAttempt BY <2>0, <3>1, NextAttemptIsOver DEF Play!Hears
    <3>2. CASE Play!Go("poll", "run") BY <3>2, CommandTurns
    <3>3. CASE reply.kind = "error" /\ Play!Finish("bootFailure")
      <4>1. Safe BY <3>3 DEF Play!Hears, ReplyIsOver
      <4> QED BY <2>0, <3>3, <4>1, CommandTurns
    <3> QED BY <3>1, <3>2, <3>3
  <2>2. CASE Play!PollAnswered
    <3>1. CASE Play!Go("status", "recover") BY <3>1, CommandTurns DEF ToldIsOver
    <3>2. CASE ~ Play!Go("status", "recover")
      <4> DEFINE over ==
            IF reply.outcome # NoPlay THEN Play!Outcome(reply.outcome) ELSE cmd.pending
                 new == [cmd EXCEPT !.cursor = Play!LastSeq(reply.frames), !.pending = over]
      <4>1. \/ cmd' = [new EXCEPT !.pc = "done", !.outcome = over] /\ over # NoPlay
            \/ cmd' = new
            \/ cmd' = [new EXCEPT !.pc = "status", !.why = "heartbeat"]
        BY <2>2, <3>2 DEF Play!PollAnswered
      <4>2. cmd.pc = "poll" /\ reply # NoPlay BY <2>2 DEF Play!PollAnswered, Play!Hears
      <4>3. over \notin {NoPlay, "aborted"} /\ Closes => Over
        <5>1. CASE reply.outcome # NoPlay BY <4>2, <5>1, OutcomeIsOver
        <5>2. CASE reply.outcome = NoPlay BY <5>2 DEF ToldIsOver
        <5> QED BY <5>1, <5>2
      <4> HIDE DEF over
      <4>4. cmd'.pending = over /\ (cmd'.pc = "done" => cmd'.outcome = over /\ over # NoPlay)
        BY <4>1, <4>2 DEF Play!Commands
      <4> QED BY <2>0, <4>3, <4>4, OverIsSafe DEF ToldIsOver
    <3> QED BY <3>1, <3>2
  <2>3. CASE Play!StopsWaiting BY <2>3, CommandTurns DEF Play!StopsWaiting, ToldIsOver
  <2>4. CASE Play!StatusAnswered
    <3>0. cmd.pc = "status" /\ reply # NoPlay BY <2>4 DEF Play!StatusAnswered, Play!Hears
    <3>1. CASE \E pc \in Asking : \E why : Play!Go(pc, why)
      <4>1. cmd'.pc # "done" /\ cmd'.pending = cmd.pending BY <3>1, CommandTurns DEF Asking
      <4> QED BY <4>1 DEF ToldIsOver
    <3>2. CASE Play!Finish("aborted") BY <3>2, CommandTurns DEF ToldIsOver
    <3>3. CASE reply.outcome # NoPlay /\ Play!Finish(Play!Outcome(reply.outcome))
      <4>1. cmd'.pending = cmd.pending /\ cmd'.outcome = Play!Outcome(reply.outcome)
        BY <3>3, CommandTurns
      <4> QED BY <2>0, <3>0, <3>3, <4>1, OutcomeIsOver DEF ToldIsOver
    <3>4. CASE Play!Finish("timeout") /\ (keepOpen \/ (reply.kind = "ok" /\ ~ reply.active))
      <4>1. cmd'.pending = cmd.pending BY <3>4, CommandTurns
      <4>2. Closes => Over BY <3>0, <3>4 DEF Closes, ReplyIsOver
      <4> QED BY <4>1, <4>2 DEF ToldIsOver
    <3>5. \/ \E pc \in Asking : \E why : Play!Go(pc, why)
          \/ Play!Finish("aborted")
          \/ reply.outcome # NoPlay /\ Play!Finish(Play!Outcome(reply.outcome))
          \/ Play!Finish("timeout") /\ (keepOpen \/ (reply.kind = "ok" /\ ~ reply.active))
          \/ UNCHANGED cmd
      BY <2>4 DEF Play!StatusAnswered, Play!Abort, Asking
    <3> QED BY <1>1, <3>1, <3>2, <3>3, <3>4, <3>5
  <2>5. CASE Play!CancelAnswered
    <3>0. cmd.pc = "cancel" /\ reply # NoPlay BY <2>5 DEF Play!CancelAnswered, Play!Hears
    <3>1. CASE Play!Go("status", cmd.why) BY <3>1, CommandTurns DEF ToldIsOver
    <3>2. CASE Play!Finish("aborted") BY <3>2, CommandTurns DEF ToldIsOver
    <3>3. CASE reply.kind = "ok" /\ ~ Play!Finish("aborted")
      <4>1. reply.outcome # NoPlay BY <3>0, <3>3 DEF AnswerIsAwaited
      <4>2. Play!Outcome(reply.outcome) # "aborted"
        BY <2>5, <3>3 DEF Play!CancelAnswered, Play!Outcome
      <4>3. Closes => Over BY <3>0, <4>1, <4>2, OutcomeIsOver
      <4>4. \E k : Play!Finish(k) BY <2>5, <3>3 DEF Play!CancelAnswered
      <4>5. cmd'.pending = cmd.pending BY <4>4, CommandTurns
      <4> QED BY <4>3, <4>5 DEF ToldIsOver
    <3>4. CASE reply.kind = "refused"
      <4>1. ~ Closes BY <3>0, <3>4 DEF ReplyIsOver, Closes
      <4> QED BY <4>1 DEF ToldIsOver
    <3> QED BY <2>5, <3>1, <3>2, <3>3, <3>4 DEF Play!CancelAnswered
  <2> QED BY <1>5, <2>1, <2>2, <2>3, <2>4, <2>5 DEF Hearing
<1> QED BY <1>1, <1>2, <1>3, <1>4, <1>5, CommandActs


(* The frames of a sequence. *)
LEMMA FramesAreFinite ==
    ASSUME NEW q \in Seq(Play!Frames)
      PROVE Play!Range(q) \subseteq Play!Frames /\ IsFiniteSet(Play!Range(q))
<1>1. q \in [1 .. Len(q) -> Play!Frames] /\ Len(q) \in Nat OBVIOUS
<1>2. Play!Range(q) = {q[i] : i \in 1 .. Len(q)} BY <1>1 DEF Play!Range
<1>3. q \in Surjection(1 .. Len(q), Play!Range(q)) BY <1>1, <1>2 DEF Surjection
<1>4. IsFiniteSet(1 .. Len(q)) BY <1>1, FS_Interval
<1> QED BY <1>1, <1>2, <1>3, <1>4, FS_Surjection

(* A newer frame at the end of a queue. *)
LEMMA AppendIsNext ==
    ASSUME NEW q \in Seq(Play!Frames), NEW f \in Play!Frames
    PROVE  /\ Append(q, f) \in Seq(Play!Frames) /\ Len(Append(q, f)) = Len(q) + 1
           /\ Play!Range(Append(q, f)) = Play!Range(q) \cup {f}
           /\ Increasing(q) /\ (\A e \in Play!Range(q) : e.seq < f.seq) =>
                Increasing(Append(q, f))
<1> DEFINE a == Append(q, f)
<1>1. /\ a \in Seq(Play!Frames) /\ Len(a) = Len(q) + 1
      /\ \A i \in 1 .. Len(q) : a[i] = q[i]
      /\ a[Len(q) + 1] = f
  BY AppendProperties
<1>2. /\ DOMAIN a = 1 .. Len(q) + 1 /\ DOMAIN q = 1 .. Len(q) /\ Len(q) \in Nat BY <1>1
<1> HIDE DEF a
<1>3. Play!Range(a) = Play!Range(q) \cup {f} BY <1>1, <1>2 DEF Play!Range
<1>4. ASSUME Increasing(q), \A e \in Play!Range(q) : e.seq < f.seq PROVE Increasing(a)
  <2> SUFFICES ASSUME NEW i \in DOMAIN a, NEW k \in DOMAIN a, i < k PROVE a[i].seq < a[k].seq
    BY DEF Increasing
  <2>1. i \in 1 .. Len(q) /\ a[i] = q[i] /\ q[i] \in Play!Range(q)
    BY <1>1, <1>2 DEF Play!Range
  <2>2. CASE k = Len(q) + 1 BY <1>1, <1>4, <2>1, <2>2
  <2>3. CASE k # Len(q) + 1
    <3>1. k \in 1 .. Len(q) /\ a[k] = q[k] BY <1>1, <1>2, <2>3
    <3> QED BY <1>2, <1>4, <2>1, <3>1 DEF Increasing
  <2> QED BY <2>2, <2>3
<1> QED BY <1>1, <1>3, <1>4 DEF a

(* The queue without its oldest frame. *)
LEMMA TailIsRest ==
    ASSUME NEW q \in Seq(Play!Frames), q # <<>>
    PROVE  /\ Head(q) \in Play!Frames /\ Tail(q) \in Seq(Play!Frames)
           /\ Len(Tail(q)) = Len(q) - 1
           /\ Play!Range(q) = Play!Range(Tail(q)) \cup {Head(q)}
           /\ Increasing(q) => Increasing(Tail(q))
<1> DEFINE t == Tail(q)
<1>1. /\ Head(q) \in Play!Frames /\ t \in Seq(Play!Frames) /\ Len(t) = Len(q) - 1
      /\ \A i \in 1 .. Len(t) : t[i] = q[i + 1]
  BY HeadTailProperties
<1>2. DOMAIN t = 1 .. Len(q) - 1 /\ DOMAIN q = 1 .. Len(q) /\ Len(q) \in Nat /\ Len(q) > 0
      /\ Head(q) = q[1]
  BY <1>1
<1> HIDE DEF t
<1>3. Play!Range(q) = Play!Range(t) \cup {Head(q)}
  <2>1. \A i \in DOMAIN q : i = 1 \/ (i - 1 \in DOMAIN t /\ q[i] = t[i - 1]) BY <1>1, <1>2
  <2>2. \A i \in DOMAIN t : i + 1 \in DOMAIN q /\ t[i] = q[i + 1] BY <1>1, <1>2
  <2>3. 1 \in DOMAIN q BY <1>2
  <2>4. Play!Range(q) \subseteq Play!Range(t) \cup {Head(q)} BY <1>2, <2>1 DEF Play!Range
  <2>5. Play!Range(t) \subseteq Play!Range(q) BY <2>2 DEF Play!Range
  <2>6. Head(q) \in Play!Range(q) BY <1>2, <2>3 DEF Play!Range
  <2> QED BY <2>4, <2>5, <2>6
<1>4. Increasing(q) => Increasing(t)
  <2> SUFFICES ASSUME Increasing(q), NEW i \in DOMAIN t, NEW k \in DOMAIN t, i < k
               PROVE  t[i].seq < t[k].seq
    BY DEF Increasing
  <2>1. i + 1 \in DOMAIN q /\ k + 1 \in DOMAIN q /\ i + 1 < k + 1
        /\ t[i] = q[i + 1] /\ t[k] = q[k + 1]
    BY <1>1, <1>2
  <2> QED BY <2>1 DEF Increasing
<1> QED BY <1>1, <1>3, <1>4 DEF t

(* What is printed, followed by what is newer. *)
LEMMA ChainIsNext ==
    ASSUME NEW p \in Seq(Play!Frames), NEW q \in Seq(Play!Frames)
    PROVE  /\ p \o q \in Seq(Play!Frames)
           /\ Play!Range(p \o q) = Play!Range(p) \cup Play!Range(q)
           /\ Increasing(p) /\ Increasing(q)
              /\ (\A e \in Play!Range(p), f \in Play!Range(q) : e.seq < f.seq) =>
                   Increasing(p \o q)
<1> DEFINE c == p \o q
<1>1. /\ c \in Seq(Play!Frames) /\ Len(c) = Len(p) + Len(q)
      /\ \A i \in 1 .. Len(p) + Len(q) : c[i] = IF i <= Len(p) THEN p[i] ELSE q[i - Len(p)]
  BY ConcatProperties
<1>2. /\ DOMAIN c = 1 .. Len(p) + Len(q) /\ DOMAIN p = 1 .. Len(p) /\ DOMAIN q = 1 .. Len(q)
      /\ Len(p) \in Nat /\ Len(q) \in Nat
  BY <1>1
<1> HIDE DEF c
<1>3. \A i \in DOMAIN c : \/ i \in DOMAIN p /\ c[i] = p[i]
                          \/ i - Len(p) \in DOMAIN q /\ i > Len(p) /\ c[i] = q[i - Len(p)]
  BY <1>1, <1>2
<1>4. Play!Range(c) = Play!Range(p) \cup Play!Range(q)
  <2>1. \A i \in DOMAIN p : i \in DOMAIN c /\ c[i] = p[i] BY <1>1, <1>2
  <2>2. \A i \in DOMAIN q : i + Len(p) \in DOMAIN c /\ c[i + Len(p)] = q[i] BY <1>1, <1>2
  <2>3. Play!Range(c) \subseteq Play!Range(p) \cup Play!Range(q) BY <1>3 DEF Play!Range
  <2>4. Play!Range(p) \subseteq Play!Range(c) BY <2>1 DEF Play!Range
  <2>5. Play!Range(q) \subseteq Play!Range(c) BY <2>2 DEF Play!Range
  <2> QED BY <2>3, <2>4, <2>5
<1>5. ASSUME Increasing(p), Increasing(q), \A e \in Play!Range(p),
      f \in Play!Range(q) : e.seq < f.seq
      PROVE  Increasing(c)
  <2> SUFFICES ASSUME NEW i \in DOMAIN c, NEW k \in DOMAIN c, i < k PROVE c[i].seq < c[k].seq
    BY DEF Increasing
  <2>1. CASE i \in DOMAIN p /\ c[i] = p[i]
    <3>1. CASE k \in DOMAIN p /\ c[k] = p[k] BY <1>5, <2>1, <3>1 DEF Increasing
    <3>2. CASE k - Len(p) \in DOMAIN q /\ c[k] = q[k - Len(p)]
      BY <1>5, <2>1, <3>2 DEF Play!Range
    <3> QED BY <1>3, <3>1, <3>2
  <2>2. CASE i - Len(p) \in DOMAIN q /\ i > Len(p) /\ c[i] = q[i - Len(p)]
    <3>1. k - Len(p) \in DOMAIN q /\ c[k] = q[k - Len(p)] /\ i - Len(p) < k - Len(p)
      BY <1>2, <1>3, <2>2
    <3> QED BY <1>5, <2>2, <3>1 DEF Increasing
  <2> QED BY <1>3, <2>1, <2>2
<1> QED BY <1>1, <1>4, <1>5 DEF c

(* The last frame of a queue in order is the newest. *)
LEMMA LastIsGreatest ==
    ASSUME NEW q \in Seq(Play!Frames), Increasing(q), q # <<>>
    PROVE  q[Len(q)] \in Play!Range(q)
      /\ \A e \in Play!Range(q) : e.seq <= q[Len(q)].seq
<1>1. DOMAIN q = 1 .. Len(q) /\ Len(q) \in DOMAIN q
        /\ \A i \in DOMAIN q : q[i] \in Play!Frames
  OBVIOUS
<1>2. q[Len(q)] \in Play!Range(q) BY <1>1 DEF Play!Range
<1>3. ASSUME NEW i \in DOMAIN q PROVE q[i].seq <= q[Len(q)].seq
  <2>1. i = Len(q) \/ q[i].seq < q[Len(q)].seq BY <1>1 DEF Increasing
  <2>2. q[i].seq \in Nat /\ q[Len(q)].seq \in Nat BY <1>1 DEF Play!Frames
  <2> QED BY <2>1, <2>2
<1> QED BY <1>2, <1>3 DEF Play!Range

(* The first frames of a queue. *)
LEMMA FirstAreOldest ==
    ASSUME NEW q \in Seq(Play!Frames), Increasing(q), NEW n \in Nat, n <= Len(q)
    PROVE  /\ SubSeq(q, 1, n) \in Seq(Play!Frames) /\ Increasing(SubSeq(q, 1, n))
           /\ Play!Range(SubSeq(q, 1, n)) \subseteq Play!Range(q)
           /\ SubSeq(q, 1, n) # <<>> =>
                 \A e \in Play!Range(q) : e.seq <= SubSeq(q, 1, n)[Len(SubSeq(q, 1, n))].seq
                    => e \in Play!Range(SubSeq(q, 1, n))
           /\ n = Len(q) => Play!Range(SubSeq(q, 1, n)) = Play!Range(q)
<1> DEFINE p == SubSeq(q, 1, n)
<1>1. /\ p \in Seq(Play!Frames) /\ Len(p) = n /\ Increasing(p)
      /\ \A i \in DOMAIN p : i \in DOMAIN q /\ p[i] = q[i]
  <2>1. /\ p \in Seq(Play!Frames)
        /\ Len(p) = IF 1 <= n THEN n - 1 + 1 ELSE 0
        /\ \A i \in DOMAIN p : i + 1 - 1 \in DOMAIN q /\ p[i] = q[i + 1 - 1]
        /\ Increasing(p)
    BY PartIsIncreasing
  <2>2. \A i \in DOMAIN p : i + 1 - 1 = i BY <2>1
  <2> QED BY <2>1, <2>2
<1>2. DOMAIN p = 1 .. n /\ DOMAIN q = 1 .. Len(q)
        /\ \A i \in DOMAIN q : q[i] \in Play!Frames
  BY <1>1
<1> HIDE DEF p
<1>3. Play!Range(p) \subseteq Play!Range(q) BY <1>1 DEF Play!Range
<1>4. ASSUME p # <<>>, NEW i \in DOMAIN q, q[i].seq <= p[Len(p)].seq
      PROVE q[i] \in Play!Range(p)
  <2>1. n \in DOMAIN p /\ p[n] = q[n] /\ n \in DOMAIN q BY <1>1, <1>2, <1>4
  <2>2. i <= n
    <3>1. q[i].seq \in Nat /\ q[n].seq \in Nat BY <1>2, <2>1 DEF Play!Frames
    <3>2. ~ (n < i) BY <1>1, <1>2, <1>4, <2>1, <3>1 DEF Increasing
    <3> QED BY <1>2, <3>2
  <2>3. i \in DOMAIN p BY <1>2, <2>2
  <2> QED BY <1>1, <2>3 DEF Play!Range
<1>5. ASSUME n = Len(q) PROVE Play!Range(p) = Play!Range(q)
  BY <1>1, <1>2, <1>5 DEF Play!Range
<1> QED BY <1>1, <1>3, <1>4, <1>5 DEF p, Play!Range

-------------------------------------------------------------------------------
(* How many frames a set of them stands for. *)
Weights == [f \in Play!Frames |-> Play!Weight(f)]
Counted(S) == Sum(Weights, S)

(* The same as the fold that the model sums with. *)
FoldWeights(S) ==
    (CHOOSE h : h = [s \in SUBSET S |->
        IF s = {} THEN 0
        ELSE Play!Weight(CHOOSE x \in s : TRUE) + h[s \ {CHOOSE x \in s : TRUE}]])[S]

(* What was told is the fold over what was printed, *)
LEMMA TotalsAreFolds == Play!Told = FoldWeights(Play!Range(printed))
BY DEF Play!Told, Play!MapThenSumSet, Play!MapThenFoldSet, FoldWeights

(* A frame stands for a number of frames. *)
LEMMA WeightsAreNat ==
    \A f \in Play!Frames : Weights[f] = Play!Weight(f) /\ Weights[f] \in Nat
BY DEF Weights, Play!Weight, Play!Frames

(* and a fold over a finite set is its sum. *)
LEMMA TotalsAreSums ==
    ASSUME NEW S \in SUBSET Play!Frames, IsFiniteSet(S)
    PROVE  FoldWeights(S) = Counted(S)
<1> DEFINE P(h) == h = [s \in SUBSET S |->
               IF s = {} THEN 0
                 ELSE Play!Weight(CHOOSE x \in s : TRUE) + h[s \ {CHOOSE x \in s : TRUE}]]
           c == CHOOSE h : P(h)
<1>1. \A s \in SUBSET S : s # {} =>
         Any(s) \in S /\ Weights[Any(s)] = Play!Weight(CHOOSE x \in s : TRUE)
  BY AnyIsIn, WeightsAreNat DEF Any
<1>2. \A h : P(h) <=> Sums(Weights, S, h)
  <2> TAKE h
  <2>1. \A s \in SUBSET S :
          First(Weights, h, s) = IF s = {} THEN 0 ELSE
              Play!Weight(CHOOSE x \in s : TRUE) + h[s \ {CHOOSE x \in s : TRUE}]
    BY <1>1 DEF First, Any
  <2>2. [s \in SUBSET S |-> First(Weights, h, s)] = [s \in SUBSET S |-> IF s = {} THEN 0 ELSE
              Play!Weight(CHOOSE x \in s : TRUE) + h[s \ {CHOOSE x \in s : TRUE}]]
    BY <2>1
  <2> QED BY <2>2, Zenon DEF Sums
<1> HIDE DEF P
<1>3. Sums(Weights, S, Table(Weights, S)) BY TablesExist
<1>4. P(c) BY <1>2, <1>3, Zenon
<1>5. Sums(Weights, S, c) BY <1>2, <1>4
<1>6. c[S] = Table(Weights, S)[S] BY <1>3, <1>5, TablesAgree
<1>7. FoldWeights(S) = c[S] BY Zenon DEF FoldWeights, P
<1> QED BY <1>6, <1>7 DEF Sum, Counted

(* A finite set stands for a number of frames, *)
LEMMA CountsAreNat ==
    ASSUME NEW S \in SUBSET Play!Frames, IsFiniteSet(S)
    PROVE  Counted(S) \in Nat
BY WeightsAreNat, SumIsNat DEF Counted

(* more frames for no fewer, *)
LEMMA CountsGrow ==
    ASSUME NEW S \in SUBSET Play!Frames, IsFiniteSet(S), NEW U \in SUBSET S
    PROVE  Counted(U) <= Counted(S)
<1>1. Sum(Weights, S) = Sum(Weights, U) + Sum(Weights, S \ U) BY WeightsAreNat, SumSplits
<1>2. U \in SUBSET Play!Frames /\ S \ U \in SUBSET Play!Frames /\ IsFiniteSet(U)
        /\ IsFiniteSet(S \ U)
  BY FS_Subset
<1>3. Sum(Weights, S) \in Nat /\ Sum(Weights, U) \in Nat /\ Sum(Weights, S \ U) \in Nat
  BY <1>2, CountsAreNat DEF Counted
<1> QED BY <1>1, <1>3 DEF Counted

(* and one more frame for at most its own weight more. *)
LEMMA CountsAdd ==
    ASSUME NEW S \in SUBSET Play!Frames, IsFiniteSet(S), NEW f \in Play!Frames
    PROVE  /\ IsFiniteSet(S \cup {f})
           /\ f \notin S => Counted(S \cup {f}) = Counted(S) + Play!Weight(f)
           /\ Counted(S \cup {f}) <= Counted(S) + Play!Weight(f)
<1>1. IsFiniteSet(S \cup {f}) BY FS_AddElement
<1>2. Weights[f] = Play!Weight(f) /\ Play!Weight(f) \in Nat
        /\ \A e \in S : Weights[e] \in Nat
  BY WeightsAreNat
<1>3. f \notin S => Counted(S \cup {f}) = Counted(S) + Play!Weight(f)
  BY <1>2, SumOfMore DEF Counted
<1>4. Counted(S) \in Nat BY CountsAreNat
<1> DEFINE C == Counted(S)
           D == Counted(S \cup {f})
<1>5. f \in S => D = C
  <2>1. f \in S => S \cup {f} = S OBVIOUS
  <2> QED BY <2>1
<1>6. f \notin S => D = C + Play!Weight(f) BY <1>3
<1>7. C \in Nat BY <1>4
<1> HIDE DEF C, D
<1>8. D <= C + Play!Weight(f) BY <1>2, <1>5, <1>6, <1>7
<1> QED BY <1>1, <1>3, <1>8 DEF C, D

-------------------------------------------------------------------------------
(* The queue and what has been printed are in the order of the run, and what the command has
   seen of the queue has been printed. *)
QueueIsOrdered ==
    /\ Increasing(events) /\ \A e \in Play!Range(events) : e.seq < seq
    /\ Len(events) <= QueueMax
PrintIsOrdered ==
    /\ cmd.cursor < seq
    /\ Increasing(printed) /\ \A e \in Play!Range(printed) : e.seq <= cmd.cursor
    /\ \A e \in Play!Range(events) : e.seq <= cmd.cursor => e \in Play!Range(printed)
    /\ \A m \in inbox : m.after <= cmd.cursor

(* The marker of what was dropped stands for all of it, and for the frame it evicts when the
   queue is full. *)
LEMMA MarkedKeeps ==
    ASSUME PlayTyped, QueueIsOrdered, NEW P \in SUBSET Play!Frames, IsFiniteSet(P),
           \A e \in P : e.seq < seq
    PROVE  /\ Increasing(Play!Marked.events) /\ seq <= Play!Marked.seq
           /\ \A e \in Play!Range(Play!Marked.events) :
                 e.seq < Play!Marked.seq /\ (e \in Play!Range(events) \/ seq <= e.seq)
           /\ Len(Play!Marked.events) <= QueueMax
           /\ Counted(P \cup Play!Range(events)) + dropped <=
                  Counted(P \cup Play!Range(Play!Marked.events))
<1>1. /\ events \in Seq(Play!Frames) /\ seq \in Nat /\ dropped \in Nat
      /\ QueueMax \in Nat \ {0}
      /\ Len(events) \in Nat /\ Len(events) <= QueueMax
  BY DEF PlayTyped, Play!TypeOK, Play!PlaytestAssumption, QueueIsOrdered
<1>2. \A q \in Seq(Play!Frames) : /\ P \cup Play!Range(q) \in SUBSET Play!Frames
                                      /\ IsFiniteSet(P \cup Play!Range(q))
                                      /\ Counted(P \cup Play!Range(q)) \in Nat
  <2> TAKE q \in Seq(Play!Frames)
  <2>1. P \cup Play!Range(q) \in SUBSET Play!Frames
          /\ IsFiniteSet(P \cup Play!Range(q))
    BY FramesAreFinite, FS_Union
  <2> QED BY <2>1, CountsAreNat
<1>3. CASE dropped = 0
  <2>1. Play!Marked.events = events /\ Play!Marked.seq = seq BY <1>3 DEF Play!Marked
  <2> DEFINE c == Counted(P \cup Play!Range(events))
  <2>2. c \in Nat BY <1>1, <1>2
  <2> HIDE DEF c
  <2>3. c + dropped <= c BY <1>3, <2>2
  <2>4. Counted(P \cup Play!Range(events)) + dropped
          <= Counted(P \cup Play!Range(Play!Marked.events))
    BY <2>1, <2>3 DEF c
  <2>5. seq <= seq BY <1>1
  <2> QED BY <2>1, <2>4, <2>5 DEF QueueIsOrdered
<1>4. CASE dropped # 0
  <2> DEFINE full == Len(events) >= QueueMax
             lost == IF ~ full THEN 0
                     ELSE IF Head(events).type = "dropped" THEN Head(events).count ELSE 1
             rest == IF full THEN Tail(events) ELSE events
             f == Play!Frame("dropped", seq, dropped + lost)
  <2>1. Play!Marked = [events |-> Append(rest, f), seq |-> seq + 1] BY <1>4 DEF Play!Marked
  <2>2. /\ lost \in Nat /\ rest \in Seq(Play!Frames) /\ Increasing(rest)
        /\ Len(rest) + 1 <= QueueMax
        /\ Play!Range(rest) \subseteq Play!Range(events)
        /\ Counted(P \cup Play!Range(events)) <= Counted(P \cup Play!Range(rest)) + lost
    <3>1. CASE ~ full
      <4>1. rest = events /\ lost = 0 BY <3>1
      <4>2. Len(events) + 1 <= QueueMax BY <1>1, <3>1
      <4> DEFINE c == Counted(P \cup Play!Range(events))
      <4>3. c \in Nat BY <1>1, <1>2
      <4> HIDE DEF c
      <4>4. c <= c + 0 BY <4>3
      <4> HIDE DEF rest, lost
      <4> QED BY <1>1, <4>1, <4>2, <4>4 DEF QueueIsOrdered, c
    <3>2. CASE full
      <4>1. events # <<>> BY <1>1, <3>2
      <4>2. /\ Head(events) \in Play!Frames /\ Tail(events) \in Seq(Play!Frames)
            /\ Len(Tail(events)) = Len(events) - 1
            /\ Play!Range(events) = Play!Range(Tail(events)) \cup {Head(events)}
            /\ Increasing(Tail(events))
        BY <1>1, <4>1, TailIsRest DEF QueueIsOrdered
      <4>3. rest = Tail(events) /\ lost = Play!Weight(Head(events)) /\ lost \in Nat
        BY <3>2, <4>2 DEF Play!Weight, Play!Frames
      <4> USE <4>2, <4>3
      <4> HIDE DEF rest, lost
      <4>4. P \cup Play!Range(events) = (P \cup Play!Range(rest)) \cup {Head(events)}
        OBVIOUS
      <4>5. Counted((P \cup Play!Range(rest)) \cup {Head(events)})
               <= Counted(P \cup Play!Range(rest)) + Play!Weight(Head(events))
        BY <1>2, CountsAdd
      <4>6. Len(rest) + 1 <= QueueMax BY <1>1
      <4> QED BY <4>4, <4>5, <4>6
    <3> QED BY <3>1, <3>2
  <2> USE <1>1, <2>2
  <2> HIDE DEF lost, rest
  <2>3. f \in Play!Frames /\ f.seq = seq /\ Play!Weight(f) = dropped + lost
    BY DEF Play!Frame, Play!Frames, Play!Weight
  <2>4. \A e \in Play!Range(rest) : e.seq < seq /\ e \in Play!Range(events)
    BY DEF QueueIsOrdered
  <2> DEFINE a == Append(rest, f)
  <2>5. /\ a \in Seq(Play!Frames) /\ Len(a) = Len(rest) + 1
        /\ Play!Range(a) = Play!Range(rest) \cup {f}
        /\ Increasing(a)
    BY <2>3, <2>4, AppendIsNext
  <2> HIDE DEF a, f
  <2>6. Counted(P \cup Play!Range(a)) = Counted(P \cup Play!Range(rest)) + (dropped + lost)
    <3>1. P \cup Play!Range(a) = (P \cup Play!Range(rest)) \cup {f}
            /\ f \notin P \cup Play!Range(rest)
      BY <2>3, <2>4, <2>5
    <3> QED BY <1>2, <2>3, <3>1, CountsAdd
  <2>7. Counted(P \cup Play!Range(events)) + dropped <= Counted(P \cup Play!Range(a))
    <3>1. Counted(P \cup Play!Range(events)) \in Nat
            /\ Counted(P \cup Play!Range(rest)) \in Nat
      BY <1>2
    <3> QED BY <2>6, <3>1
  <2>8. Play!Marked.events = a /\ Play!Marked.seq = seq + 1 BY <2>1 DEF a, f
  <2>9. \A e \in Play!Range(a) : e.seq < seq + 1
          /\ (e \in Play!Range(events) \/ seq <= e.seq)
    <3> TAKE e \in Play!Range(a)
    <3>1. CASE e = f BY <2>3, <3>1
    <3>2. CASE e \in Play!Range(rest)
      <4>1. e.seq \in Nat BY <3>2, FramesAreFinite DEF Play!Frames
      <4> QED BY <2>4, <3>2, <4>1
    <3> QED BY <2>5, <3>1, <3>2
  <2>10. Len(a) <= QueueMax /\ seq <= seq + 1 BY <2>5
  <2> QED BY <2>5, <2>7, <2>8, <2>9, <2>10
<1> QED BY <1>3, <1>4

(* One more frame: what it displaces is counted. *)
LEMMA EnqueueKeeps ==
    ASSUME PlayTyped, QueueIsOrdered, NEW P \in SUBSET Play!Frames, IsFiniteSet(P),
           \A e \in P : e.seq < seq, NEW type \in {"event", "end"}, Play!Enqueue(type)
    PROVE  /\ Increasing(events') /\ seq <= seq' /\ Len(events') <= QueueMax
           /\ \A e \in Play!Range(events') :
                 e.seq < seq' /\ (e \in Play!Range(events) \/ seq <= e.seq)
           /\ Counted(P \cup Play!Range(events)) + dropped + 1
                 <= Counted(P \cup Play!Range(events')) + dropped'
<1> DEFINE q == Play!Marked.events
           n == Play!Marked.seq
           f == Play!Frame(type, n, 0)
<1>1. /\ q \in Seq(Play!Frames) /\ n \in Nat /\ seq \in Nat /\ QueueMax \in Nat
      /\ dropped \in Nat
      /\ events \in Seq(Play!Frames)
  BY MarkedIsQueue DEF PlayTyped, Play!TypeOK, Play!PlaytestAssumption
<1>2. /\ Increasing(q) /\ seq <= n /\ Len(q) <= QueueMax
      /\ \A e \in Play!Range(q) : e.seq < n
           /\ (e \in Play!Range(events) \/ seq <= e.seq)
      /\ Counted(P \cup Play!Range(events)) + dropped <= Counted(P \cup Play!Range(q))
  BY MarkedKeeps
<1>3. f \in Play!Frames /\ f.seq = n /\ Play!Weight(f) = 1
  BY <1>1 DEF Play!Frame, Play!Frames, Play!Weight
<1>4. /\ P \cup Play!Range(q) \in SUBSET Play!Frames
      /\ IsFiniteSet(P \cup Play!Range(q))
      /\ Counted(P \cup Play!Range(q)) \in Nat
           /\ Counted(P \cup Play!Range(events)) \in Nat
  <2>1. /\ P \cup Play!Range(q) \in SUBSET Play!Frames
        /\ IsFiniteSet(P \cup Play!Range(q))
        /\ P \cup Play!Range(events) \in SUBSET Play!Frames
             /\ IsFiniteSet(P \cup Play!Range(events))
    BY <1>1, FramesAreFinite, FS_Union
  <2> QED BY <2>1, CountsAreNat
<1> USE <1>1, <1>2
<1>5. CASE Len(q) >= QueueMax
  <2>1. dropped' = 1 /\ events' = q /\ seq' = n BY <1>5 DEF Play!Enqueue
  <2> HIDE DEF q, n
  <2> QED BY <1>4, <2>1
<1>6. CASE ~ (Len(q) >= QueueMax)
  <2>1. dropped' = 0 /\ events' = Append(q, f) /\ seq' = n + 1
    BY <1>6, Zenon DEF Play!Enqueue
  <2> USE <1>3, <2>1
  <2> HIDE DEF q, n, f
  <2>2. /\ Len(Append(q, f)) = Len(q) + 1
        /\ Play!Range(Append(q, f)) = Play!Range(q) \cup {f}
        /\ Increasing(Append(q, f))
    BY AppendIsNext
  <2>3. f \notin P \cup Play!Range(q) OBVIOUS
  <2>4. P \cup Play!Range(events') = (P \cup Play!Range(q)) \cup {f} BY <2>2
  <2>5. Counted(P \cup Play!Range(events')) = Counted(P \cup Play!Range(q)) + 1
    BY <1>4, <2>3, <2>4, CountsAdd
  <2>6. \A e \in Play!Range(q) : e.seq \in Nat BY FramesAreFinite DEF Play!Frames
  <2>7. Len(events') <= QueueMax /\ seq <= seq' /\ Increasing(events') BY <1>6, <2>2
  <2>8. \A e \in Play!Range(events') : e.seq < seq'
          /\ (e \in Play!Range(events) \/ seq <= e.seq)
    BY <2>2, <2>6
  <2> QED BY <1>4, <2>5, <2>7, <2>8
<1> QED BY <1>5, <1>6

(* Nothing that was emitted is lost: it is queued, or counted, or printed. *)
Kept == Play!Range(printed) \cup Play!Range(events)
FramesAreKept == emitted <= Counted(Kept) + dropped

(* What is kept can be counted. *)
LEMMA KeptIsCounted ==
    ASSUME PlayTyped
    PROVE  /\ Play!Range(printed) \in SUBSET Play!Frames
           /\ IsFiniteSet(Play!Range(printed))
           /\ Kept \in SUBSET Play!Frames /\ IsFiniteSet(Kept) /\ Counted(Kept) \in Nat
<1>1. printed \in Seq(Play!Frames) /\ events \in Seq(Play!Frames)
  BY DEF PlayTyped, Play!TypeOK
<1>2. /\ Play!Range(printed) \in SUBSET Play!Frames
      /\ IsFiniteSet(Play!Range(printed))
      /\ Kept \in SUBSET Play!Frames /\ IsFiniteSet(Kept)
  BY <1>1, FramesAreFinite, FS_Union DEF Kept
<1> QED BY <1>2, CountsAreNat

(* Polls, events and the end of the run change the queue, and nothing else does. *)
LEMMA QueueActs ==
    [Play!Next]_Play!vars => \/ UNCHANGED <<events, dropped, seq, emitted>>
                             \/ \E m \in inbox : Play!Poll(m)
                             \/ Play!Emits \/ Play!Finalize
<1> SUFFICES ASSUME [Play!Next]_Play!vars, ~ \E m \in inbox : Play!Poll(m),
    ~ Play!Emits, ~ Play!Finalize
             PROVE  UNCHANGED <<events, dropped, seq, emitted>>
  OBVIOUS
<1> USE DEF Play!queue, Play!history
<1>1. CASE UNCHANGED Play!vars BY <1>1 DEF Play!vars
<1>2. CASE Play!Ask \/ Play!Lose \/ Play!Refuse \/ Play!CannotConnect
        \/ Play!Dies \/ Play!CancelGivesUp \/ Play!CancelReturns
  BY <1>2 DEF Play!Ask, Play!Lose, Play!Refuse, Play!CannotConnect, Play!Dies, Play!Rest,
     Play!CancelGivesUp, Play!CancelReturns
<1>3. CASE Play!StartAnswered \/ Play!PollAnswered \/ Play!StopsWaiting
        \/ Play!StatusAnswered \/ Play!CancelAnswered
  BY <1>3 DEF Play!StartAnswered, Play!PollAnswered, Play!StopsWaiting, Play!StatusAnswered,
     Play!CancelAnswered, Play!Rest
<1>4. CASE \E m \in inbox : Play!Start(m) \/ Play!Status(m) \/ Play!Cancel(m)
  BY <1>4 DEF Play!Start, Play!Status, Play!Cancel
<1>5. CASE Play!JobEnds \/ Play!StopReturns \/ Play!StopFails
           \/ Play!OtherStop \/ Play!RunnersCancelled
           \/ Play!Boots \/ Play!Completes \/ Play!Fetched
  BY <1>5 DEF Play!JobEnds, Play!StopReturns, Play!StopFails, Play!OtherStop,
     Play!RunnersCancelled, Play!Boots, Play!Completes, Play!Fetched
<1>6. CASE Play!BootFails \/ Play!TimerFires \/ Play!Vanishes
  BY <1>6 DEF Play!BootFails, Play!TimerFires, Play!Vanishes, Play!Decides
<1> QED BY <1>1, <1>2, <1>3, <1>4, <1>5, <1>6 DEF Play!Next

(* A poll marks what was dropped, and removes what was printed. *)
LEMMA PollKeeps ==
    ASSUME PlayTyped, QueueIsOrdered, PrintIsOrdered, NEW m \in inbox, Play!Poll(m)
    PROVE  /\ events' \in Seq(Play!Frames) /\ Increasing(events') /\ seq <= seq'
           /\ Len(events') <= QueueMax /\ dropped' = 0
           /\ Play!Range(events') = {e \in Play!Range(Play!Marked.events) :
                                         e.seq > m.after}
           /\ \A e \in Play!Range(events') : e.seq < seq'
                /\ (e \in Play!Range(events) \/ seq <= e.seq)
           /\ Counted(Kept) + dropped
                   <= Counted(Play!Range(printed) \cup Play!Range(events'))
<1>0. /\ cmd \in Play!Commands /\ seq \in Nat /\ m.after \in Nat /\ QueueMax \in Nat
      /\ dropped \in Nat
      /\ m.after <= cmd.cursor /\ cmd.cursor \in Nat
  BY DEF PlayTyped, Play!TypeOK, Play!Requests, PrintIsOrdered, Play!Commands,
     Play!PlaytestAssumption
<1>1. \A e \in Play!Range(printed) : e.seq < seq
  <2> TAKE e \in Play!Range(printed)
  <2>1. e.seq \in Nat /\ e.seq <= cmd.cursor
    BY FramesAreFinite DEF PlayTyped, Play!TypeOK, PrintIsOrdered, Play!Frames
  <2> QED BY <1>0, <2>1 DEF PrintIsOrdered
<1>2. /\ Increasing(Play!Marked.events) /\ seq <= Play!Marked.seq
      /\ \A e \in Play!Range(Play!Marked.events) :
            e.seq < Play!Marked.seq /\ (e \in Play!Range(events) \/ seq <= e.seq)
      /\ Len(Play!Marked.events) <= QueueMax
      /\ Counted(Kept) + dropped
              <= Counted(Play!Range(printed) \cup Play!Range(Play!Marked.events))
  BY <1>1, KeptIsCounted, MarkedKeeps DEF Kept
<1> DEFINE q == Play!Marked.events
           rest == Play!Unseen(q, m.after)
<1>3. events' = rest /\ dropped' = 0 /\ seq' = Play!Marked.seq BY DEF Play!Poll
<1>4. q \in Seq(Play!Frames) /\ Play!Marked.seq \in Nat BY MarkedIsQueue
<1>5. /\ rest \in Seq(Play!Frames) /\ Len(rest) <= Len(q) /\ Increasing(rest)
      /\ Play!Range(rest) = {e \in Play!Range(q) : e.seq > m.after}
  <2> HIDE DEF q
  <2> QED BY <1>0, <1>2, <1>4, UnseenIsNew DEF q
<1> HIDE DEF q, rest
<1>6. Play!Range(printed) \cup Play!Range(rest) = Play!Range(printed) \cup Play!Range(q)
  <2>1. ASSUME NEW e \in Play!Range(q), e \notin Play!Range(rest)
        PROVE e \in Play!Range(printed)
    <3>1. e.seq \in Nat BY <1>4, FramesAreFinite DEF Play!Frames
    <3>2. e.seq <= cmd.cursor BY <1>0, <1>5, <2>1, <3>1
    <3>3. e \in Play!Range(events)
      <4>1. ~ (seq <= e.seq) BY <1>0, <3>1, <3>2 DEF PrintIsOrdered
      <4> QED BY <1>2, <2>1, <4>1 DEF q
    <3> QED BY <3>2, <3>3 DEF PrintIsOrdered
  <2> QED BY <1>5, <2>1
<1>7. Counted(Kept) + dropped <= Counted(Play!Range(printed) \cup Play!Range(rest))
  BY <1>2, <1>6 DEF q
<1>8. Len(rest) <= QueueMax BY <1>0, <1>2, <1>4, <1>5 DEF q
<1> QED BY <1>2, <1>3, <1>5, <1>7, <1>8 DEF q

(* Every step keeps the queue in order, and nothing that was kept is lost from it but into
   the count. *)
LEMMA QueueStep ==
    ASSUME PlayTyped, QueueIsOrdered, PrintIsOrdered, [Play!Next]_Play!vars
    PROVE  /\ QueueIsOrdered' /\ seq <= seq'
           /\ \A e \in Play!Range(events') : e \in Play!Range(events) \/ seq <= e.seq
           /\ FramesAreKept =>
                emitted' <= Counted(Play!Range(printed) \cup Play!Range(events')) + dropped'
<1>0. /\ seq \in Nat /\ dropped \in Nat /\ emitted \in Nat
      /\ events \in Seq(Play!Frames)
      /\ Counted(Kept) \in Nat
  BY KeptIsCounted DEF PlayTyped, Play!TypeOK
<1>1. \A e \in Play!Range(printed) : e.seq < seq
  <2> TAKE e \in Play!Range(printed)
  <2>1. e.seq \in Nat /\ e.seq <= cmd.cursor /\ cmd.cursor \in Nat
    BY FramesAreFinite DEF PlayTyped, Play!TypeOK, PrintIsOrdered, Play!Frames,
       Play!Commands
  <2> QED BY <1>0, <2>1 DEF PrintIsOrdered
<1>2. CASE UNCHANGED <<events, dropped, seq, emitted>>
  <2>1. seq <= seq' BY <1>0, <1>2
  <2> QED BY <1>2, <2>1 DEF QueueIsOrdered, FramesAreKept, Kept
<1>3. CASE \E m \in inbox : Play!Poll(m)
  <2> PICK m \in inbox : Play!Poll(m) BY <1>3
  <2>1. /\ Increasing(events') /\ seq <= seq' /\ Len(events') <= QueueMax /\ dropped' = 0
        /\ \A e \in Play!Range(events') : e.seq < seq'
             /\ (e \in Play!Range(events) \/ seq <= e.seq)
        /\ Counted(Kept) + dropped
                <= Counted(Play!Range(printed) \cup Play!Range(events'))
        /\ events' \in Seq(Play!Frames)
    BY PollKeeps
  <2>2. QueueIsOrdered' BY <2>1 DEF QueueIsOrdered, Increasing
  <2>3. emitted' = emitted BY DEF Play!Poll, Play!history
  <2> DEFINE c == Counted(Play!Range(printed) \cup Play!Range(events'))
  <2>4. c \in Nat BY <2>1, KeptIsCounted, FramesAreFinite, FS_Union, CountsAreNat
  <2> HIDE DEF c
  <2>5. Counted(Kept) + dropped <= c BY <2>1 DEF c
  <2>6. FramesAreKept => emitted' <= c + dropped'
    BY <1>0, <2>1, <2>3, <2>4, <2>5 DEF FramesAreKept
  <2> QED BY <2>1, <2>2, <2>6 DEF c
<1>4. CASE Play!Emits \/ Play!Finalize
  <2> PICK type \in {"event", "end"} : Play!Enqueue(type)
    BY <1>4 DEF Play!Emits, Play!Finalize
  <2>1. /\ Increasing(events') /\ seq <= seq' /\ Len(events') <= QueueMax
        /\ \A e \in Play!Range(events') : e.seq < seq'
             /\ (e \in Play!Range(events) \/ seq <= e.seq)
        /\ Counted(Kept) + dropped + 1
                <= Counted(Play!Range(printed) \cup Play!Range(events')) + dropped'
    BY <1>1, KeptIsCounted, EnqueueKeeps DEF Kept
  <2>2. QueueIsOrdered' BY <2>1 DEF QueueIsOrdered, Increasing
  <2>3. emitted' = emitted + 1 BY <1>4 DEF Play!Emits, Play!Finalize
  <2> DEFINE c == Counted(Play!Range(printed) \cup Play!Range(events'))
  <2>4. c \in Nat /\ dropped' \in Nat
    BY KeptIsCounted, EnqueueKeepsQueue, FramesAreFinite, FS_Union, CountsAreNat
  <2> HIDE DEF c
  <2>5. Counted(Kept) + dropped + 1 <= c + dropped' BY <2>1 DEF c
  <2>6. FramesAreKept => emitted' <= c + dropped'
    <3>1. \A a, b, d, e, f \in Nat : a + b + 1 <= d + e /\ f <= a + b => f + 1 <= d + e
      OBVIOUS
    <3> QED BY <1>0, <2>3, <2>4, <2>5, <3>1, Zenon DEF FramesAreKept
  <2> QED BY <2>1, <2>2, <2>6 DEF c
<1> QED BY <1>2, <1>3, <1>4, QueueActs

-------------------------------------------------------------------------------
(* What is still to be heard of a poll is what comes next, and all of it. *)
Polled == reply # NoPlay /\ cmd.pc = "poll" /\ reply.kind = "ok"
ReplyIsNew ==
    Polled =>
        /\ Increasing(reply.frames)
        /\ \A e \in Play!Range(reply.frames) : cmd.cursor < e.seq /\ e.seq < seq
        /\ \A e \in Play!Range(events) : cmd.cursor < e.seq
             /\ e.seq <= Play!LastSeq(reply.frames)
              => e \in Play!Range(reply.frames)

(* The command hears an answer to its poll. *)
Hear ==
    /\ Polled /\ printed' = printed \o reply.frames
    /\ cmd'.cursor = Play!LastSeq(reply.frames)
    /\ cmd'.pending = IF reply.outcome # NoPlay THEN Play!Outcome(reply.outcome)
         ELSE cmd.pending
    /\ cmd'.pc = "done" => ~ reply.more /\ cmd'.pending # NoPlay
    /\ inbox' = inbox /\ reply' = NoPlay /\ job' = job
    /\ UNCHANGED <<events, dropped, seq, emitted>>

(* The command prints what it hears of a poll, and nothing else. *)
LEMMA PrintActs ==
    ASSUME PlayTyped, PlayShape, [Play!Next]_Play!vars
    PROVE  \/ Hear
           \/ /\ printed' = printed /\ cmd'.cursor = cmd.cursor /\ cmd'.pending = cmd.pending
              /\ cmd'.pc = "done" /\ cmd'.why = "run" => cmd' = cmd
<1> DEFINE Quiet == /\ cmd'.cursor = cmd.cursor /\ cmd'.pending = cmd.pending
                    /\ cmd'.pc = "done" /\ cmd'.why = "run" => cmd' = cmd
<1> USE DEF Play!history
<1>0. cmd \in Play!Commands /\ WhyIsKnown BY DEF PlayTyped, Play!TypeOK, PlayShape
<1>1. CASE Play!PollAnswered
  <2>1. CASE Play!Go("status", "recover") /\ UNCHANGED printed BY <1>0, <2>1, CommandTurns
  <2>2. CASE ~ (Play!Go("status", "recover") /\ UNCHANGED printed)
    <3> DEFINE over ==
          IF reply.outcome # NoPlay THEN Play!Outcome(reply.outcome) ELSE cmd.pending
               new == [cmd EXCEPT !.cursor = Play!LastSeq(reply.frames), !.pending = over]
    <3>1. /\ reply.kind = "ok" /\ printed' = printed \o reply.frames
          /\ \/ over # NoPlay /\ ~ reply.more /\ cmd' = [new EXCEPT !.pc = "done", !.outcome = over]
             \/ cmd' = new
             \/ cmd' = [new EXCEPT !.pc = "status", !.why = "heartbeat"]
      BY <1>1, <2>2 DEF Play!PollAnswered
    <3>2. cmd.pc = "poll" /\ reply # NoPlay /\ reply' = NoPlay /\ inbox' = inbox
      BY <1>1 DEF Play!PollAnswered, Play!Hears, Play!Heard
    <3>3. UNCHANGED <<events, dropped, seq, emitted, job>>
      BY <1>1 DEF Play!PollAnswered, Play!Rest, Play!queue
    <3> HIDE DEF over
    <3>4. /\ cmd'.cursor = Play!LastSeq(reply.frames) /\ cmd'.pending = over
          /\ cmd'.pc = "done" => ~ reply.more /\ over # NoPlay
      BY <1>0, <3>1, <3>2 DEF Play!Commands
    <3> QED BY <3>1, <3>2, <3>3, <3>4 DEF Hear, Polled, over
  <2> QED BY <2>1, <2>2
<1>2. CASE Play!Ask \/ Play!CannotConnect \/ Play!StartAnswered
           \/ Play!StopsWaiting \/ Play!StatusAnswered \/ Play!CancelAnswered
           \/ Play!Dies
  <2>1. printed' = printed
    BY <1>2 DEF Play!Ask, Play!CannotConnect, Play!StartAnswered, Play!StopsWaiting,
       Play!StatusAnswered, Play!CancelAnswered, Play!Dies
  <2>2. CASE Play!Ask BY <1>0, <2>1, <2>2, CommandTurns DEF Play!Ask
  <2>3. CASE Play!StopsWaiting \/ Play!Dies
    BY <1>0, <2>1, <2>3, CommandTurns DEF Play!StopsWaiting
  <2>4. CASE Play!CannotConnect \/ Play!StartAnswered \/ Play!StatusAnswered
          \/ Play!CancelAnswered
    <3>1. cmd.pc \in {"start", "status", "cancel"} /\ cmd.why # "run"
      BY <1>0, <2>4 DEF Play!CannotConnect, Play!StartAnswered, Play!StatusAnswered,
         Play!CancelAnswered, Play!Hears, WhyIsKnown
    <3>2. \/ Play!NextAttempt \/ UNCHANGED cmd
          \/ \E pc \in Asking : \E why : Play!Go(pc, why)
          \/ \E kind : Play!Finish(kind)
      BY <2>4 DEF Play!CannotConnect, Play!StartAnswered, Play!StatusAnswered,
         Play!CancelAnswered, Play!Abort, Asking
    <3>3. /\ cmd'.cursor = cmd.cursor /\ cmd'.pending = cmd.pending
          /\ cmd'.pc = "done" => cmd'.why = cmd.why
      BY <1>0, <3>1, <3>2, CommandTurns DEF Asking
    <3> QED BY <2>1, <3>1, <3>3
  <2> QED BY <1>2, <2>2, <2>3, <2>4
<1>3. CASE cmd' = cmd
  <2>1. CASE UNCHANGED Play!vars \/ Play!Lose \/ Play!Refuse
          \/ Play!CancelGivesUp \/ Play!CancelReturns
    BY <1>3, <2>1 DEF Play!vars, Play!Lose, Play!Refuse, Play!CancelGivesUp,
       Play!CancelReturns
  <2>2. CASE \E m \in inbox : Play!Start(m) \/ Play!Poll(m) \/ Play!Status(m)
          \/ Play!Cancel(m)
    BY <1>3, <2>2 DEF Play!Start, Play!Poll, Play!Status, Play!Cancel
  <2>3. CASE Play!JobEnds \/ Play!StopReturns \/ Play!StopFails
          \/ Play!OtherStop \/ Play!RunnersCancelled \/ Play!Finalize
    BY <1>3, <2>3 DEF Play!JobEnds, Play!StopReturns, Play!StopFails, Play!OtherStop,
       Play!RunnersCancelled, Play!Finalize
  <2>4. CASE Play!Boots \/ Play!BootFails \/ Play!TimerFires
          \/ Play!Vanishes \/ Play!Emits \/ Play!Completes \/ Play!Fetched
    BY <1>3, <2>4 DEF Play!Boots, Play!BootFails, Play!TimerFires, Play!Vanishes,
       Play!Emits, Play!Completes, Play!Fetched, Play!Decides
  <2> QED BY <1>1, <1>2, <2>1, <2>2, <2>3, <2>4 DEF Play!Next
<1> QED BY <1>1, <1>2, <1>3, CommandActs DEF Hearing

(* The last frame of an answer. *)
LEMMA LastIsNew ==
    ASSUME PlayTyped, PrintIsOrdered, ReplyIsNew, Polled
    PROVE  /\ reply.frames \in Seq(Play!Frames)
           /\ Play!LastSeq(reply.frames) \in Nat
           /\ cmd.cursor <= Play!LastSeq(reply.frames)
                /\ Play!LastSeq(reply.frames) < seq
           /\ \A e \in Play!Range(reply.frames) : e.seq <= Play!LastSeq(reply.frames)
<1>1. /\ cmd \in Play!Commands /\ cmd.cursor \in Nat /\ seq \in Nat
      /\ reply \in Play!Replies
      /\ reply.frames \in Seq(Play!Frames)
  BY DEF PlayTyped, Play!TypeOK, Play!Commands, Polled, Play!Replies
<1> DEFINE q == reply.frames
<1>2. Play!LastSeq(q) \in Nat BY <1>1, LastIsNumber
<1>3. CASE q = <<>>
  <2>1. Play!LastSeq(q) = cmd.cursor /\ Play!Range(q) = {}
    BY <1>3 DEF Play!LastSeq, Play!Range
  <2> QED BY <1>1, <1>2, <2>1 DEF PrintIsOrdered
<1>4. CASE q # <<>>
  <2>1. Play!LastSeq(q) = q[Len(q)].seq BY <1>4 DEF Play!LastSeq
  <2>2. q[Len(q)] \in Play!Range(q) /\ \A e \in Play!Range(q) : e.seq <= q[Len(q)].seq
    BY <1>1, <1>4, LastIsGreatest DEF ReplyIsNew
  <2>3. cmd.cursor < q[Len(q)].seq /\ q[Len(q)].seq < seq BY <2>2 DEF ReplyIsNew
  <2> QED BY <1>1, <1>2, <2>1, <2>2, <2>3
<1> QED BY <1>1, <1>2, <1>3, <1>4

(* Every step prints in order. *)
LEMMA PrintStep ==
    ASSUME PlayTyped, PlayShape, QueueIsOrdered, PrintIsOrdered, ReplyIsNew,
           [Play!Next]_Play!vars
    PROVE  PrintIsOrdered'
<1>0. /\ cmd \in Play!Commands /\ cmd.cursor \in Nat /\ seq \in Nat /\ seq' \in Nat
      /\ printed \in Seq(Play!Frames) /\ events \in Seq(Play!Frames)
           /\ events' \in Seq(Play!Frames)
      /\ seq <= seq'
      /\ \A e \in Play!Range(events') : e.seq \in Nat
           /\ (e \in Play!Range(events) \/ seq <= e.seq)
  <2>1. PlayTyped' BY PlayTypeStep
  <2>2. events' \in Seq(Play!Frames) /\ seq' \in Nat BY <2>1 DEF PlayTyped, Play!TypeOK
  <2>3. \A e \in Play!Range(events') : e.seq \in Nat
    BY <2>2, FramesAreFinite DEF Play!Frames
  <2> QED BY <2>2, <2>3, QueueStep DEF PlayTyped, Play!TypeOK, Play!Commands
<1>1. CASE Hear
  <2>1. /\ reply.frames \in Seq(Play!Frames) /\ Play!LastSeq(reply.frames) \in Nat
        /\ cmd.cursor <= Play!LastSeq(reply.frames)
        /\ Play!LastSeq(reply.frames) < seq
        /\ \A e \in Play!Range(reply.frames) : e.seq <= Play!LastSeq(reply.frames)
    BY <1>1, LastIsNew DEF Hear
  <2>2. \A e \in Play!Range(printed) : e.seq \in Nat /\ e.seq <= cmd.cursor
    BY <1>0, FramesAreFinite DEF Play!Frames, PrintIsOrdered
  <2>3. \A e \in Play!Range(reply.frames) : e.seq \in Nat /\ cmd.cursor < e.seq
    BY <1>1, <2>1, FramesAreFinite DEF Play!Frames, ReplyIsNew, Hear
  <2>4. \A e \in Play!Range(printed), f \in Play!Range(reply.frames) : e.seq < f.seq
    BY <1>0, <2>2, <2>3
  <2>5. Play!Range(printed') = Play!Range(printed) \cup Play!Range(reply.frames)
        /\ Increasing(printed')
    BY <1>0, <1>1, <2>1, <2>4, ChainIsNext DEF Hear, PrintIsOrdered, ReplyIsNew
  <2>6. /\ cmd'.cursor = Play!LastSeq(reply.frames) /\ inbox' = inbox
        /\ UNCHANGED <<events, seq>>
    BY <1>1 DEF Hear
  <2> USE <2>6
  <2>7. \A e \in Play!Range(printed') : e.seq <= cmd'.cursor BY <1>0, <2>1, <2>2, <2>5
  <2>8. \A e \in Play!Range(events') : e.seq <= cmd'.cursor =>
          e \in Play!Range(printed')
    <3> TAKE e \in Play!Range(events')
    <3>1. e.seq <= cmd.cursor => e \in Play!Range(printed) BY DEF PrintIsOrdered
    <3>2. cmd.cursor < e.seq /\ e.seq <= Play!LastSeq(reply.frames) =>
            e \in Play!Range(reply.frames)
      BY <1>1 DEF ReplyIsNew, Hear
    <3>3. e.seq <= cmd.cursor \/ cmd.cursor < e.seq BY <1>0
    <3> QED BY <2>5, <3>1, <3>2, <3>3
  <2>9. \A m \in inbox' : m.after <= cmd'.cursor
    <3> TAKE m \in inbox'
    <3>1. m.after \in Nat /\ m.after <= cmd.cursor
      BY DEF PrintIsOrdered, PlayTyped, Play!TypeOK, Play!Requests
    <3> QED BY <1>0, <2>1, <3>1
  <2>10. cmd'.cursor < seq' BY <2>1
  <2> QED BY <2>5, <2>7, <2>8, <2>9, <2>10 DEF PrintIsOrdered, Increasing
<1> USE DEF PrintIsOrdered
<1>2. CASE printed' = printed /\ cmd'.cursor = cmd.cursor
  <2> USE <1>0, <1>2
  <2>1. \A e \in Play!Range(events') : e.seq <= cmd'.cursor =>
          e \in Play!Range(printed')
    <3> TAKE e \in Play!Range(events')
    <3>1. e \in Play!Range(events) \/ cmd.cursor < e.seq OBVIOUS
    <3> QED BY <3>1
  <2>2. \A m \in inbox' : m.after <= cmd'.cursor
    <3>1. CASE inbox' \subseteq inbox BY <3>1
    <3>2. CASE Play!Ask
      <4>1. Play!Request(cmd.pc).after = cmd.cursor
              /\ inbox' = inbox \cup {Play!Request(cmd.pc)}
        BY <3>2 DEF Play!Ask, Play!Request
      <4> QED BY <4>1
    <3> QED BY <3>1, <3>2, InboxTurns
  <2>3. cmd'.cursor < seq' OBVIOUS
  <2> QED BY <2>1, <2>2, <2>3 DEF Increasing
<1> QED BY <1>1, <1>2, PrintActs

(* What a poll answers. *)
LEMMA PollTells ==
    ASSUME PlayTyped, QueueIsOrdered, PrintIsOrdered, NEW m \in inbox, Play!Poll(m),
           waits = m.id
    PROVE  /\ reply'.kind = "ok" /\ reply'.outcome = job.terminal /\ job' = job
           /\ \E n \in Nat : /\ n <= Len(events') /\ reply'.frames = SubSeq(events', 1, n)
                             /\ ~ reply'.more => n = Len(events')
<1> DEFINE rest == Play!Unseen(Play!Marked.events, m.after)
           n == IF Len(rest) < PollMax THEN Len(rest) ELSE PollMax
<1>1. /\ events' = rest /\ job' = job
      /\ Play!Respond(m, [Play!Answer("ok") EXCEPT !.frames = SubSeq(rest, 1, n),
                                                           !.more = Len(rest) > PollMax,
                                                           !.outcome = job.terminal])
  BY DEF Play!Poll
<1>2. events' \in Seq(Play!Frames) /\ PollMax \in Nat
  BY PollKeeps DEF PlayTyped, Play!PlaytestAssumption
<1>3. Len(rest) \in Nat BY <1>1, <1>2
<1> HIDE DEF rest
<1>4. n \in Nat /\ n <= Len(rest) /\ (~ (Len(rest) > PollMax) => n = Len(rest))
  BY <1>2, <1>3
<1> HIDE DEF n
<1>5. /\ reply'.kind = "ok" /\ reply'.outcome = job.terminal
      /\ reply'.frames = SubSeq(rest, 1, n) /\ reply'.more = (Len(rest) > PollMax)
  BY <1>1 DEF Play!Respond, Play!Answer
<1> QED BY <1>1, <1>4, <1>5

(* A poll is answered by the plugin. *)
LEMMA PollAnswers ==
    ASSUME PlayTyped, PlayShape, [Play!Next]_Play!vars, Polled'
    PROVE  /\ cmd' = cmd
           /\ \/ reply' = reply /\ Polled
              \/ \E m \in inbox : Play!Poll(m) /\ waits = m.id /\ m.after = cmd.cursor
<1>1. cmd' = cmd /\ cmd.pc = "poll" /\ reply'.kind = "ok" /\ reply' # NoPlay
  BY AnswersCome DEF Polled
<1>2. CASE reply' = reply BY <1>1, <1>2 DEF Polled
<1>3. ~ (reply' = Play!Answer("lost")) BY <1>1 DEF Play!Answer
<1>4. ~ Play!Refuse BY <1>1 DEF Play!Refuse, Play!Answer
<1>5. CASE \E m \in inbox : /\ waits = m.id /\ m.op = cmd.pc
                            /\ Play!Start(m) \/ Play!Poll(m) \/ Play!Status(m)
                                 \/ (Play!Cancel(m) /\ Play!CancelNothing(m))
  <2> PICK m \in inbox : /\ waits = m.id /\ m.op = cmd.pc
                         /\ Play!Start(m) \/ Play!Poll(m) \/ Play!Status(m)
                              \/ (Play!Cancel(m) /\ Play!CancelNothing(m))
    BY <1>5
  <2>1. Play!Poll(m) BY <1>1 DEF Play!Start, Play!Status, Play!Cancel
  <2>2. m.after = cmd.cursor
    <3>1. waits # NoPlay
      BY DEF PlayTyped, Play!TypeOK, Play!Requests, Play!PlaytestAssumption
    <3> QED BY <3>1 DEF PlayShape, AnswerIsAwaited
  <2> QED BY <1>1, <2>1, <2>2
<1> QED BY <1>1, <1>2, <1>3, <1>4, <1>5, AnswersCome

(* Every step keeps: an answer to a poll is new and has no gaps. *)
LEMMA NewStep ==
    ASSUME PlayTyped, PlayShape, QueueIsOrdered, PrintIsOrdered, ReplyIsNew,
           [Play!Next]_Play!vars
    PROVE  ReplyIsNew'
<1> SUFFICES ASSUME Polled' PROVE ReplyIsNew' BY DEF ReplyIsNew
<1>0. /\ cmd \in Play!Commands /\ cmd.cursor \in Nat /\ seq \in Nat /\ seq' \in Nat
      /\ seq <= seq'
      /\ events' \in Seq(Play!Frames) /\ cmd' = cmd
      /\ \A e \in Play!Range(events') : e.seq \in Nat
           /\ (e \in Play!Range(events) \/ seq <= e.seq)
  <2>1. PlayTyped' BY PlayTypeStep
  <2>2. events' \in Seq(Play!Frames) /\ seq' \in Nat BY <2>1 DEF PlayTyped, Play!TypeOK
  <2>3. \A e \in Play!Range(events') : e.seq \in Nat
    BY <2>2, FramesAreFinite DEF Play!Frames
  <2> QED BY <2>2, <2>3, QueueStep, PollAnswers DEF PlayTyped, Play!TypeOK, Play!Commands
<1>1. CASE reply' = reply /\ Polled
  <2> USE <1>1, <1>0 DEF ReplyIsNew
  <2>1. /\ reply.frames \in Seq(Play!Frames) /\ Play!LastSeq(reply.frames) \in Nat
        /\ Play!LastSeq(reply.frames) < seq
    BY LastIsNew
  <2>2. \A e \in Play!Range(reply.frames) : e.seq \in Nat /\ cmd.cursor < e.seq
          /\ e.seq < seq
    BY <2>1, FramesAreFinite DEF Play!Frames
  <2>3. \A e \in Play!Range(reply'.frames) : cmd'.cursor < e.seq /\ e.seq < seq' BY <2>2
  <2>4. \A e \in Play!Range(events') : cmd.cursor < e.seq
          /\ e.seq <= Play!LastSeq(reply.frames)
           => e \in Play!Range(reply.frames)
    <3> TAKE e \in Play!Range(events')
    <3>1. e \in Play!Range(events) \/ Play!LastSeq(reply.frames) < e.seq BY <2>1
    <3> QED BY <2>1, <3>1
  <2>5. Play!LastSeq(reply.frames)' = Play!LastSeq(reply.frames) BY DEF Play!LastSeq
  <2>6. Increasing(reply'.frames) OBVIOUS
  <2> QED BY <2>3, <2>4, <2>5, <2>6 DEF Increasing
<1>2. CASE \E m \in inbox : Play!Poll(m) /\ waits = m.id /\ m.after = cmd.cursor
  <2> PICK m \in inbox : Play!Poll(m) /\ waits = m.id /\ m.after = cmd.cursor BY <1>2
  <2>1. /\ Increasing(events')
        /\ \A e \in Play!Range(events') : e.seq < seq' /\ e.seq > cmd.cursor
    BY PollKeeps
  <2>2. PICK n \in Nat : n <= Len(events') /\ reply'.frames = SubSeq(events', 1, n)
    BY PollTells
  <2> DEFINE f == SubSeq(events', 1, n)
  <2>3. /\ f \in Seq(Play!Frames) /\ Increasing(f)
        /\ Play!Range(f) \subseteq Play!Range(events')
        /\ f # <<>> => \A e \in Play!Range(events') : e.seq <= f[Len(f)].seq =>
             e \in Play!Range(f)
    BY <1>0, <2>1, <2>2, FirstAreOldest
  <2> HIDE DEF f
  <2>4. reply'.frames = f BY <2>2 DEF f
  <2>5. Play!LastSeq(reply.frames)' = IF f = <<>> THEN cmd.cursor ELSE f[Len(f)].seq
    BY <1>0, <2>4 DEF Play!LastSeq
  <2>6. \A e \in Play!Range(events') : cmd'.cursor < e.seq
          /\ e.seq <= Play!LastSeq(reply.frames)'
           => e \in Play!Range(f)
    <3> TAKE e \in Play!Range(events')
    <3>1. CASE f = <<>> BY <1>0, <2>5, <3>1
    <3>2. CASE f # <<>> BY <2>3, <2>5, <3>2
    <3> QED BY <3>1, <3>2
  <2>7. \A e \in Play!Range(f) : cmd'.cursor < e.seq /\ e.seq < seq' BY <1>0, <2>1, <2>3
  <2> QED BY <2>3, <2>4, <2>6, <2>7 DEF ReplyIsNew, Increasing
<1> QED BY <1>1, <1>2, PollAnswers

(* Every step keeps: nothing that was emitted is lost. *)
LEMMA LossStep ==
    ASSUME PlayTyped, PlayShape, QueueIsOrdered, PrintIsOrdered, ReplyIsNew, FramesAreKept,
           [Play!Next]_Play!vars
    PROVE  FramesAreKept'
<1> DEFINE S == Play!Range(printed) \cup Play!Range(events')
           T == Play!Range(printed') \cup Play!Range(events')
<1>1. printed' \in Seq(Play!Frames) /\ events' \in Seq(Play!Frames)
        /\ dropped' \in Nat /\ emitted' \in Nat
  <2>1. PlayTyped' BY PlayTypeStep
  <2> QED BY <2>1 DEF PlayTyped, Play!TypeOK
<1>2. Play!Range(printed) \subseteq Play!Range(printed')
  <2>1. CASE Hear
    <3>1. printed \in Seq(Play!Frames) /\ reply.frames \in Seq(Play!Frames)
      BY <2>1, LastIsNew DEF Hear, PlayTyped, Play!TypeOK
    <3> QED BY <2>1, <3>1, ChainIsNext DEF Hear
  <2>2. CASE printed' = printed BY <2>2
  <2> QED BY <2>1, <2>2, PrintActs
<1>3. T \in SUBSET Play!Frames /\ IsFiniteSet(T) /\ S \in SUBSET T
  BY <1>1, <1>2, FramesAreFinite, FS_Union
<1>4. emitted' <= Counted(S) + dropped' BY QueueStep
<1>5. T = Kept' BY DEF Kept
<1> HIDE DEF S, T
<1>6. Counted(S) <= Counted(T) /\ Counted(T) \in Nat /\ Counted(S) \in Nat
  BY <1>3, CountsGrow, CountsAreNat, FS_Subset
<1>7. emitted' <= Counted(T) + dropped' BY <1>1, <1>4, <1>6
<1>8. Counted(Kept)' = Counted(T) BY <1>5 DEF Counted
<1> QED BY <1>7, <1>8 DEF FramesAreKept

-------------------------------------------------------------------------------
(* What the command has heard of the end: all of it. *)
Final == Begun /\ job.terminal # NoPlay
EndIsTold ==
    /\ cmd.pending # NoPlay => Final
    /\ Polled => /\ cmd.pending # NoPlay => reply.outcome # NoPlay
                 /\ reply.outcome # NoPlay => Final
                 /\ reply.outcome # NoPlay /\ ~ reply.more =>
                       emitted <= Counted(Play!Range(printed) \cup Play!Range(reply.frames))
    /\ cmd.pc = "done" /\ cmd.why = "run" => Final
         /\ emitted <= Counted(Play!Range(printed))

(* After the end nothing is emitted. *)
LEMMA FinalStays ==
  PlayTyped /\ PlayShape /\ Final /\ [Play!Next]_Play!vars => Final'
    /\ emitted' = emitted
<1> SUFFICES ASSUME PlayTyped, PlayShape, Final, [Play!Next]_Play!vars
    PROVE Final' /\ emitted' = emitted
  OBVIOUS
<1>1. job.terminal # NoPlay /\ term = NoPlay BY DEF Final, PlayShape, DecisionIsOne
<1>2. ~ Play!Emits /\ ~ Play!Finalize BY <1>1 DEF Play!Emits, Play!Undecided, Play!Finalize
<1>3. emitted' = emitted BY <1>2, QueueActs DEF Play!Poll, Play!history
<1> QED BY <1>3, EndStays DEF Final, Begun

(* Every step keeps: with the end the command has heard everything. *)
LEMMA EndToldStep ==
    ASSUME PlayTyped, PlayShape, QueueIsOrdered, PrintIsOrdered, ReplyIsNew, FramesAreKept,
           EndIsTold,
           [Play!Next]_Play!vars
    PROVE  EndIsTold'
<1>0. Final => Final' /\ emitted' = emitted BY FinalStays
<1>1. CASE Hear
  <2>1. reply' = NoPlay /\ Polled BY <1>1 DEF Hear
  <2>2. reply.frames \in Seq(Play!Frames) /\ printed \in Seq(Play!Frames)
    BY <2>1, LastIsNew DEF PlayTyped, Play!TypeOK
  <2>3. Play!Range(printed') = Play!Range(printed) \cup Play!Range(reply.frames)
    BY <1>1, <2>2, ChainIsNext DEF Hear
  <2>4. cmd'.pending # NoPlay => reply.outcome # NoPlay BY <1>1, <2>1 DEF Hear, EndIsTold
  <2>5. cmd'.pending # NoPlay => Final' BY <1>0, <2>1, <2>4 DEF EndIsTold
  <2>6. cmd'.pc = "done" => Final' /\ emitted' <= Counted(Play!Range(printed'))
    <3> SUFFICES ASSUME cmd'.pc = "done"
        PROVE Final' /\ emitted' <= Counted(Play!Range(printed'))
      OBVIOUS
    <3>1. reply.outcome # NoPlay /\ ~ reply.more BY <1>1, <2>4 DEF Hear
    <3>2. Final /\ emitted <= Counted(Play!Range(printed) \cup Play!Range(reply.frames))
      BY <2>1, <3>1 DEF EndIsTold
    <3> QED BY <1>0, <2>3, <3>2
  <2>7. Counted(Play!Range(printed))' = Counted(Play!Range(printed')) BY DEF Counted
  <2> QED BY <2>1, <2>5, <2>6, <2>7 DEF EndIsTold, Polled
<1>2. CASE /\ printed' = printed /\ cmd'.pending = cmd.pending
           /\ cmd'.pc = "done" /\ cmd'.why = "run" => cmd' = cmd
  <2>1. cmd'.pending # NoPlay => Final' BY <1>0, <1>2 DEF EndIsTold
  <2>2. cmd'.pc = "done" /\ cmd'.why = "run" => Final'
          /\ emitted' <= Counted(Play!Range(printed'))
    BY <1>0, <1>2 DEF EndIsTold
  <2> DEFINE Told1 ==
        /\ cmd'.pending # NoPlay => reply'.outcome # NoPlay
        /\ reply'.outcome # NoPlay => Final'
        /\ reply'.outcome # NoPlay /\ ~ reply'.more =>
              emitted' <= Counted(Play!Range(printed') \cup Play!Range(reply'.frames))
  <2>3. ASSUME Polled', reply' = reply, Polled PROVE Told1
    <3>1. reply'.outcome # NoPlay => Final /\ Final' /\ emitted' = emitted
      BY <1>0, <2>3 DEF EndIsTold
    <3>2. Told1 BY <1>2, <2>3, <3>1 DEF EndIsTold
    <3> QED BY <3>2
  <2>4. ASSUME Polled', NEW m \in inbox, Play!Poll(m), waits = m.id PROVE Told1
    <3>1. PICK n \in Nat : /\ n <= Len(events') /\ reply'.frames = SubSeq(events', 1, n)
                           /\ ~ reply'.more => n = Len(events')
      BY <2>4, PollTells
    <3>2. reply'.outcome = job.terminal /\ job' = job BY <2>4, PollTells
    <3>3. Begun BY <2>4 DEF PlayShape, JobIsBegun, Play!Poll
    <3>4. cmd'.pending # NoPlay => reply'.outcome # NoPlay
      BY <1>2, <3>2 DEF EndIsTold, Final
    <3>5. reply'.outcome # NoPlay => Final' BY <1>0, <3>2, <3>3 DEF Final
    <3>6. ASSUME ~ reply'.more
          PROVE  emitted' <= Counted(Play!Range(printed') \cup Play!Range(reply'.frames))
      <4>1. events' \in Seq(Play!Frames) /\ Increasing(events') /\ dropped' = 0
        BY <2>4, PollKeeps
      <4>2. Play!Range(reply'.frames) = Play!Range(events')
        BY <3>1, <3>6, <4>1, FirstAreOldest
      <4>3. emitted' <= Counted(Kept') + dropped'
        <5>1. Counted(Kept)' = Counted(Kept') BY DEF Counted
        <5> QED BY <5>1, LossStep DEF FramesAreKept
      <4>4. Counted(Kept') \in Nat /\ emitted' \in Nat
        <5>1. PlayTyped' BY PlayTypeStep
        <5>2. printed' \in Seq(Play!Frames) /\ emitted' \in Nat
          BY <5>1 DEF PlayTyped, Play!TypeOK
        <5> QED BY <4>1, <5>2, FramesAreFinite, FS_Union, CountsAreNat DEF Kept
      <4>5. Kept' = Play!Range(printed') \cup Play!Range(reply'.frames) BY <4>2 DEF Kept
      <4> DEFINE c == Counted(Kept')
      <4> HIDE DEF c
      <4>6. emitted' <= c BY <4>1, <4>3, <4>4 DEF c
      <4> QED BY <4>5, <4>6 DEF c
    <3> QED BY <3>4, <3>5, <3>6
  <2>5. Polled' => Told1 BY <2>3, <2>4, PollAnswers
  <2>6. /\ Counted(Play!Range(printed))' = Counted(Play!Range(printed'))
        /\ Counted(Play!Range(printed) \cup Play!Range(reply.frames))'
             = Counted(Play!Range(printed') \cup Play!Range(reply'.frames))
    BY DEF Counted
  <2> QED BY <2>1, <2>2, <2>5, <2>6 DEF EndIsTold
<1> QED BY <1>1, <1>2, PrintActs

-------------------------------------------------------------------------------
(* The whole invariant. *)
OverInv == EndIsOver /\ ToldIsOver /\ ReplyIsOver
ToldInv == QueueIsOrdered /\ PrintIsOrdered /\ ReplyIsNew /\ FramesAreKept /\ EndIsTold
PlaytestInv == PlayTyped /\ PlayShape /\ OverInv /\ ToldInv

(* The invariant holds in the beginning, is kept by every step, *)
LEMMA PlaytestInit == Play!PlaytestAssumption /\ Play!Init => PlaytestInv
<1> USE DEF Play!Init
<1> SUFFICES ASSUME Play!PlaytestAssumption, Play!Init PROVE PlaytestInv OBVIOUS
<1>1. PlayTyped /\ PlayShape BY InitTyped, ShapeInit
<1>2. OverInv BY DEF OverInv, EndIsOver, ToldIsOver, ReplyIsOver, Begun
<1>3. Play!Range(events) = {} /\ Play!Range(printed) = {} BY DEF Play!Range
<1>4. QueueIsOrdered /\ PrintIsOrdered /\ ReplyIsNew
  <2>1. Len(events) <= QueueMax BY DEF Play!PlaytestAssumption
  <2>2. Increasing(events) /\ Increasing(printed) BY DEF Increasing
  <2>3. cmd.cursor < seq /\ inbox = {} /\ reply = NoPlay OBVIOUS
  <2> QED BY <1>3, <2>1, <2>2, <2>3 DEF QueueIsOrdered, PrintIsOrdered, ReplyIsNew, Polled
<1>5. FramesAreKept
  <2>1. Kept = {} /\ emitted = 0 /\ dropped = 0 BY <1>3 DEF Kept
  <2>2. Counted(Kept) = 0 BY <2>1, SumOfNothing DEF Counted
  <2> QED BY <2>1, <2>2 DEF FramesAreKept
<1>6. EndIsTold BY DEF EndIsTold, Polled
<1> QED BY <1>1, <1>2, <1>4, <1>5, <1>6 DEF PlaytestInv, ToldInv

LEMMA PlaytestStep == PlaytestInv /\ [Play!Next]_Play!vars => PlaytestInv'
<1> SUFFICES ASSUME PlaytestInv, [Play!Next]_Play!vars PROVE PlaytestInv' OBVIOUS
<1>1. PlayTyped' /\ PlayShape' BY PlayTypeStep, ShapeStep DEF PlaytestInv
<1>2. EndIsOver' /\ ToldIsOver' /\ ReplyIsOver'
  BY EndStep, ToldStep, ReplyStep DEF PlaytestInv, OverInv
<1>3. QueueIsOrdered' /\ PrintIsOrdered' /\ ReplyIsNew' /\ FramesAreKept' /\ EndIsTold'
  BY QueueStep, PrintStep, NewStep, LossStep, EndToldStep DEF PlaytestInv, ToldInv
<1> QED BY <1>1, <1>2, <1>3 DEF PlaytestInv, OverInv, ToldInv

(* and says what is promised. *)
LEMMA PlaytestInvHolds == PlaytestInv => Play!NothingLeft /\ Play!EventsAccounted
<1> SUFFICES ASSUME PlaytestInv PROVE Play!NothingLeft /\ Play!EventsAccounted OBVIOUS
<1>1. Play!NothingLeft
  BY DEF PlaytestInv, OverInv, ToldIsOver, Play!NothingLeft, Closes, Safe
<1>2. \A i, k \in DOMAIN printed : i < k => printed[i].seq < printed[k].seq
  BY DEF PlaytestInv, ToldInv, PrintIsOrdered, Increasing
<1>3. Play!Told = Counted(Play!Range(printed)) /\ Play!Told \in Nat
  BY KeptIsCounted, TotalsAreFolds, TotalsAreSums, CountsAreNat DEF PlaytestInv
<1>4. cmd.pc = "done" /\ cmd.why = "run" => Play!Told >= emitted
  <2>1. emitted \in Nat BY DEF PlaytestInv, PlayTyped, Play!TypeOK
  <2> QED BY <1>3, <2>1 DEF PlaytestInv, ToldInv, EndIsTold
<1> QED BY <1>1, <1>2, <1>4 DEF Play!EventsAccounted

(* For any attempts, limits of the queue and of an answer, events, lost requests and failing
   stops: a command that ends with anything but an abort has left no playtest that it had to
   close, and once it has heard of the end of its run it has printed every frame, in order
   and once, or counted it among the dropped. *)
THEOREM PlaytestIsAlwaysTold ==
    Play!PlaytestAssumption /\ Play!Spec => []PlaytestIsTold
<1>1. Play!PlaytestAssumption /\ Play!Init => PlaytestInv BY PlaytestInit
<1>2. PlaytestInv /\ [Play!Next]_Play!vars => PlaytestInv' BY PlaytestStep
<1>3. PlaytestInv => PlaytestIsTold BY PlaytestInvHolds DEF PlaytestIsTold
<1> QED BY <1>1, <1>2, <1>3, PTL DEF Play!Spec
===============================================================================
