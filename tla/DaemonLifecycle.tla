---------------------------- MODULE DaemonLifecycle ----------------------------
(* The daemons of one project and the manager processes that start, stop,  *)
(* restart and query them (daemon_manager.rs, lifecycle.rs, the start of   *)
(* `serve` in main.rs, /manager-close in http.rs).                         *)
(*                                                                         *)
(* They share a runtime record, a file that names the boot and the port of *)
(* the managed daemon; a start lock and a port lock, which the operating   *)
(* system drops with their holder; and the ports.  A manager may be killed *)
(* at any step (its parent's pipe closes), a daemon may crash at any step, *)
(* and a daemon that listens may be too busy to answer in time.            *)
(*                                                                         *)
(* On Windows remove_record_if_boot deletes the file it has read, through  *)
(* its handle; elsewhere it reads the file and then unlinks the name.      *)
EXTENDS Naturals, FiniteSets

CONSTANTS
    Managers,      \* manager processes
    MaxBoots,      \* bound on the daemons that are spawned
    MaxPort,       \* ports 1..MaxPort are scanned by default
    MaxCommands,   \* bound on the commands that are run
    MaxKills,      \* bound on the managers that are killed
    MaxCrashes,    \* bound on the daemons that crash or are told to end
    None

VARIABLES
    windows,       \* the record is deleted through the handle it was read by
    record,        \* the runtime record: a boot, or None
    daemons,       \* boot -> its phase, its port and whether it listens
    startLock,     \* the manager that holds the start lock of the project
    portLock,      \* the manager that holds the port lock
    managers,      \* manager -> its program counter and its locals
    commands, kills, crashes    \* what the bounds leave

vars == <<windows, record, daemons, startLock, portLock, managers, commands,
          kills, crashes>>

Boots == 1 .. MaxBoots
Ports == 1 .. MaxPort

(* What the proofs assume of the constants.                                *)
DaemonAssumption ==
    /\ MaxBoots \in Nat /\ MaxPort \in Nat \ {0}
    /\ MaxCommands \in Nat /\ MaxKills \in Nat /\ MaxCrashes \in Nat
    /\ None \notin Boots \cup Managers

Unborn == [phase |-> "unborn", port |-> 1, open |-> FALSE]
Idle   == [pc |-> "idle", command |-> "start", port |-> 0, seen |-> None]

Listens(b) == daemons[b].open
Answers(b) == Listens(b) /\ daemons[b].phase \in {"serving", "closing"}
Free(p)    == \A b \in Boots : Listens(b) => daemons[b].port # p

(* bootId, pid and port of a record never change: the boot stands for all. *)
PortOf(b)  == daemons[b].port

Go(m, pc) == managers' = [managers EXCEPT ![m].pc = pc]
See(m, pc, b) == managers' = [managers EXCEPT ![m].pc = pc, ![m].seen = b]
Phase(b, p) == daemons' = [daemons EXCEPT ![b].phase = p]

Drop(lock, m) == IF lock = m THEN None ELSE lock

(* A command returns, or its process dies: its locks go with it.           *)
Release(m) ==
    /\ managers' = [managers EXCEPT ![m] = Idle]
    /\ startLock' = Drop(startLock, m)
    /\ portLock' = Drop(portLock, m)

Init ==
    /\ windows \in BOOLEAN
    /\ record = None
    /\ daemons = [b \in Boots |-> Unborn]
    /\ startLock = None /\ portLock = None
    /\ managers = [m \in Managers |-> Idle]
    /\ commands = MaxCommands /\ kills = MaxKills /\ crashes = MaxCrashes

-------------------------------------------------------------------------------
(* A probe that takes a daemon that does not answer for a dead one.        *)
ProbeGuesses(b) ==
    IF Answers(b) THEN {"exact", "unresponsive"} ELSE {"stale"}

(* The probe of a record: does its exact boot answer, does another daemon  *)
(* answer on its port, does its port take connections without an answer,   *)
(* or is the port free?  Exact identity is checked by boot, pid and port.  *)
Probe(b) ==
    IF Free(PortOf(b)) THEN {"stale"}
    ELSE {"unresponsive"}
         \cup {"exact" : c \in {c \in {b} : Answers(c)}}
         \cup {"different" : c \in {c \in Boots \ {b} :
                   Answers(c) /\ PortOf(c) = PortOf(b)}}

-------------------------------------------------------------------------------
(* A start that does not wait for others of its project.                   *)
StartsUnlocked(m) ==
    /\ managers[m].pc = "idle" /\ commands > 0
    /\ \E p \in 0 .. MaxPort :
          managers' = [managers EXCEPT ![m] =
              [pc |-> "read", command |-> "start", port |-> p, seen |-> None]]
    /\ startLock' = m
    /\ commands' = commands - 1
    /\ UNCHANGED <<windows, record, daemons, portLock, kills, crashes>>

(* daemon_start: the lock is tried once, a manager that finds it held      *)
(* returns an error.                                                       *)
BeginStart(m) ==
    /\ managers[m].pc = "idle" /\ commands > 0 /\ startLock = None
    /\ \E p \in 0 .. MaxPort :
          managers' = [managers EXCEPT ![m] =
              [pc |-> "read", command |-> "start", port |-> p, seen |-> None]]
    /\ startLock' = m
    /\ commands' = commands - 1
    /\ UNCHANGED <<windows, record, daemons, portLock, kills, crashes>>

(* daemon_status, daemon_stop and a restart take no lock.  A restart       *)
(* remembers the port of the record.                                       *)
BeginOther(m) ==
    /\ managers[m].pc = "idle" /\ commands > 0
    /\ \E c \in {"status", "stop", "restart"} :
          managers' = [managers EXCEPT ![m] =
              [pc |-> "read", command |-> c, seen |-> None,
               port |-> IF c = "restart" /\ record # None
                        THEN PortOf(record) ELSE 0]]
    /\ commands' = commands - 1
    /\ UNCHANGED <<windows, record, daemons, startLock, portLock, kills,
                   crashes>>

ReadRecord(m) ==
    /\ managers[m].pc = "read"
    /\ See(m, IF record = None THEN "scan" ELSE "probe", record)
    /\ UNCHANGED <<windows, record, daemons, startLock, portLock, commands,
                   kills, crashes>>

(* The exact boot runs: a start and a status return it, a stop posts       *)
(* /manager-close.  An unresponsive one is left alone by everyone.         *)
ProbeRecord(m) ==
    /\ managers[m].pc = "probe"
    /\ \E outcome \in Probe(managers[m].seen) :
          \/ /\ outcome = "exact" /\ managers[m].command \in {"stop", "restart"}
             /\ Go(m, "post") /\ UNCHANGED <<startLock, portLock>>
          \/ /\ \/ outcome = "unresponsive"
                \/ outcome = "exact" /\ managers[m].command \in {"start", "status"}
             /\ Release(m)
          \/ /\ \/ outcome = "stale"
                \/ outcome = "different" /\ managers[m].command \in {"stop", "restart"}
             /\ Go(m, "clean") /\ UNCHANGED <<startLock, portLock>>
          \/ /\ outcome = "different" /\ managers[m].command \in {"start", "status"}
             /\ managers' = [managers EXCEPT ![m].pc = "clean",
                                             ![m].command = "adopt"]
             /\ UNCHANGED <<startLock, portLock>>
    /\ UNCHANGED <<windows, record, daemons, commands, kills, crashes>>

(* What follows a record that is cleaned: a stop is done, and a start and  *)
(* a status that have met another daemon of the project; otherwise they    *)
(* look for one elsewhere.  A restart goes on to its start.                *)
AfterClean(m) ==
    CASE managers[m].command \in {"start", "status"} -> "scan"
      [] managers[m].command = "restart" -> "lock"
      [] OTHER -> "done"

(* remove_record_if_boot, by the manager.                                  *)
Clean(m) ==
    /\ managers[m].pc = "clean"
    /\ IF record # managers[m].seen
       THEN Go(m, AfterClean(m)) /\ UNCHANGED record
       ELSE IF windows
       THEN Go(m, AfterClean(m)) /\ record' = None
       ELSE Go(m, "unlink") /\ UNCHANGED record
    /\ UNCHANGED <<windows, daemons, startLock, portLock, commands, kills,
                   crashes>>

Unlink(m) ==
    /\ managers[m].pc = "unlink"
    /\ record' = None
    /\ Go(m, AfterClean(m))
    /\ UNCHANGED <<windows, daemons, startLock, portLock, commands, kills,
                   crashes>>

(* find_daemon_for_project, and the hello of the requested port.  Whoever  *)
(* answers in time is found; a start then returns it as external, a stop   *)
(* refuses.  With none, a start goes on; a restart has nothing to stop.    *)
Scan(m) ==
    /\ managers[m].pc = "scan"
    /\ \/ /\ \E b \in Boots : Answers(b)
          /\ Release(m)
       \/ /\ managers[m].command = "start" /\ Go(m, "port")
          /\ UNCHANGED <<startLock, portLock>>
       \/ /\ managers[m].command = "restart" /\ Go(m, "lock")
          /\ UNCHANGED <<startLock, portLock>>
       \/ /\ managers[m].command \in {"stop", "status"} /\ Release(m)
    /\ UNCHANGED <<windows, record, daemons, commands, kills, crashes>>

(* The second half of a restart is a start of its own.                     *)
StartAgain(m) ==
    /\ managers[m].pc = "lock"
    /\ \/ /\ startLock = None /\ startLock' = m
          /\ managers' = [managers EXCEPT ![m].pc = "read",
                                          ![m].command = "start"]
          /\ UNCHANGED portLock
       \/ startLock # None /\ Release(m)
    /\ UNCHANGED <<windows, record, daemons, commands, kills, crashes>>

(* The port lock is polled until the timeout.                              *)
LockPort(m) ==
    /\ managers[m].pc = "port"
    /\ \/ portLock = None /\ portLock' = m /\ Go(m, "spawn")
          /\ UNCHANGED startLock
       \/ portLock # None /\ Release(m)
    /\ UNCHANGED <<windows, record, daemons, commands, kills, crashes>>

(* The port asked for must be free, by default the first free one is       *)
(* taken; the child is spawned with a boot of its own.                     *)
Spawn(m) ==
    /\ managers[m].pc = "spawn"
    /\ \E b \in Boots, p \in Ports :
          /\ daemons[b] = Unborn /\ \A c \in Boots : c < b => daemons[c] # Unborn
          /\ IF managers[m].port # 0 THEN p = managers[m].port
             ELSE \A q \in Ports : q < p => ~ Free(q)
          /\ \/ /\ Free(p)
                /\ daemons' = [daemons EXCEPT ![b] =
                      [phase |-> "spawned", port |-> p, open |-> FALSE]]
                /\ See(m, "wait", b) /\ UNCHANGED <<startLock, portLock>>
             \/ ~ Free(p) /\ Release(m) /\ UNCHANGED daemons
    /\ UNCHANGED <<windows, record, commands, kills, crashes>>

(* The child is over: its record, if any, is removed and the start fails.  *)
Fail(m) ==
    managers' = [managers EXCEPT ![m].pc = "clean", ![m].command = "failed"]

Killed(b) == daemons' = [daemons EXCEPT ![b].phase = "dead", ![b].open = FALSE]

(* The exact hello of the child ends the wait, whatever the record says: a *)
(* record that is missing fails the start and leaves the child, the record *)
(* of another boot kills it.  A child that has exited, or that does not    *)
(* answer in time and is killed, fails the start.                          *)
AwaitHello(m) ==
    /\ managers[m].pc = "wait"
    /\ LET b == managers[m].seen IN
       \/ /\ Answers(b) /\ record \in {b, None}
          /\ Release(m) /\ UNCHANGED daemons
       \/ /\ Answers(b) /\ record \notin {b, None}
          /\ Killed(b) /\ Release(m)
       \/ /\ daemons[b].phase = "dead"
          /\ Fail(m) /\ UNCHANGED <<daemons, startLock, portLock>>
       \/ /\ daemons[b].phase # "dead"
          /\ Killed(b) /\ Fail(m) /\ UNCHANGED <<startLock, portLock>>
    /\ UNCHANGED <<windows, record, commands, kills, crashes>>

(* authorize_destructive_identity: the daemon that gets the request has    *)
(* the boot, the pid, the port and the project it names, or it refuses.    *)
Post(m) ==
    /\ managers[m].pc = "post"
    /\ LET seen == managers[m].seen IN
       \/ \E b \in Boots :
             /\ Answers(b) /\ PortOf(b) = PortOf(seen)
             /\ IF b = seen
                THEN /\ Phase(b, "closing") /\ Go(m, "poll")
                     /\ UNCHANGED <<startLock, portLock>>
                ELSE Release(m) /\ UNCHANGED daemons
       \/ Release(m) /\ UNCHANGED daemons
    /\ UNCHANGED <<windows, record, commands, kills, crashes>>

(* The stop waits until its boot is gone, or gives up at its deadline.     *)
Poll(m) ==
    /\ managers[m].pc = "poll"
    /\ \/ /\ Probe(managers[m].seen) \cap {"stale", "different"} # {}
          /\ Go(m, "clean") /\ UNCHANGED <<startLock, portLock>>
       \/ /\ Probe(managers[m].seen) \cap {"exact", "unresponsive"} # {}
          /\ Release(m)
    /\ UNCHANGED <<windows, record, daemons, commands, kills, crashes>>

Done(m) ==
    /\ managers[m].pc = "done"
    /\ Release(m)
    /\ UNCHANGED <<windows, record, daemons, commands, kills, crashes>>

(* The parent of a lifecycle process is gone: it exits at once, and its    *)
(* child goes on.                                                          *)
Kill(m) ==
    /\ kills > 0 /\ managers[m].pc # "idle"
    /\ kills' = kills - 1
    /\ Release(m)
    /\ UNCHANGED <<windows, record, daemons, commands, crashes>>

-------------------------------------------------------------------------------
(* `serve` binds before anything else; a port that is taken, if only by    *)
(* the bind a probe makes, ends it.                                        *)
Bind(b) ==
    /\ daemons[b].phase = "spawned"
    /\ \/ Free(PortOf(b))
          /\ daemons' = [daemons EXCEPT ![b].phase = "bound", ![b].open = TRUE]
       \/ Killed(b)
    /\ UNCHANGED <<windows, record, startLock, portLock, managers, commands,
                   kills, crashes>>

(* write_record replaces the file, whatever it holds.                      *)
WriteRecord(b) ==
    /\ daemons[b].phase = "bound"
    /\ record' = b
    /\ Phase(b, "recorded")
    /\ UNCHANGED <<windows, startLock, portLock, managers, commands, kills,
                   crashes>>

(* It serves; or its watch does not validate and it ends, the guard of the *)
(* record first and the listener last.                                     *)
Serve(b) ==
    /\ daemons[b].phase = "recorded"
    /\ Phase(b, "serving") \/ Phase(b, "guard")
    /\ UNCHANGED <<windows, record, startLock, portLock, managers, commands,
                   kills, crashes>>

(* The graceful shutdown of axum drops the listener first: the port is     *)
(* free while the requests in flight go on, and the record is still there. *)
CloseListener(b) ==
    /\ daemons[b].phase = "closing"
    /\ daemons' = [daemons EXCEPT ![b].phase = "draining", ![b].open = FALSE]
    /\ UNCHANGED <<windows, record, startLock, portLock, managers, commands,
                   kills, crashes>>

(* The last request has ended.                                             *)
Drained(b) ==
    /\ daemons[b].phase = "draining"
    /\ Phase(b, "guard")
    /\ UNCHANGED <<windows, record, startLock, portLock, managers, commands,
                   kills, crashes>>

(* RuntimeRecordGuard::drop: remove_record_if_boot, by the daemon.         *)
DropGuard(b) ==
    /\ daemons[b].phase = "guard"
    /\ IF record = b /\ ~ windows
       THEN Phase(b, "unlink") /\ UNCHANGED record
       ELSE Killed(b) /\ record' = IF record = b THEN None ELSE record
    /\ UNCHANGED <<windows, startLock, portLock, managers, commands, kills,
                   crashes>>

DropUnlink(b) ==
    /\ daemons[b].phase = "unlink"
    /\ record' = None
    /\ Killed(b)
    /\ UNCHANGED <<windows, startLock, portLock, managers, commands, kills,
                   crashes>>

(* A signal or an owner's heartbeat that is lost, or a crash.              *)
End(b) ==
    /\ crashes > 0 /\ crashes' = crashes - 1
    /\ \/ daemons[b].phase = "serving" /\ Phase(b, "closing")
       \/ daemons[b].phase \notin {"unborn", "dead"} /\ Killed(b)
    /\ UNCHANGED <<windows, record, startLock, portLock, managers, commands,
                   kills>>

Next ==
    \/ \E m \in Managers :
          \/ BeginStart(m) \/ BeginOther(m) \/ ReadRecord(m) \/ ProbeRecord(m)
          \/ Clean(m) \/ Unlink(m) \/ Scan(m) \/ StartAgain(m) \/ LockPort(m)
          \/ Spawn(m) \/ AwaitHello(m) \/ Post(m) \/ Poll(m) \/ Done(m)
          \/ Kill(m)
    \/ \E b \in Boots :
          \/ Bind(b) \/ WriteRecord(b) \/ Serve(b) \/ CloseListener(b)
          \/ Drained(b) \/ DropGuard(b) \/ DropUnlink(b) \/ End(b)

Spec == Init /\ [][Next]_vars

-------------------------------------------------------------------------------
TypeOK ==
    /\ windows \in BOOLEAN
    /\ record \in Boots \cup {None}
    /\ daemons \in [Boots ->
          [phase : {"unborn", "spawned", "bound", "recorded", "serving",
                    "closing", "draining", "guard", "unlink", "dead"},
           port : Ports, open : BOOLEAN]]
    /\ startLock \in Managers \cup {None} /\ portLock \in Managers \cup {None}
    /\ managers \in [Managers ->
          [pc : {"idle", "read", "probe", "clean", "unlink", "scan", "lock",
                 "port", "spawn", "wait", "post", "poll", "done"},
           command : {"start", "status", "stop", "restart", "adopt",
                      "failed"},
           port : 0 .. MaxPort, seen : Boots \cup {None}]]
    /\ commands \in 0 .. MaxCommands /\ kills \in 0 .. MaxKills
    /\ crashes \in 0 .. MaxCrashes

(* Where the record is deleted through its handle, no process deletes the  *)
(* record of a daemon that still takes connections: neither a manager that *)
(* saw an older boot dead, nor an older boot that ends, nor a probe that a *)
(* busy daemon has not answered (lifecycle.rs:217, daemon_manager.rs:494). *)
(* A daemon that drains does lose its record: its port is free, which is   *)
(* all that a probe asks.                                                  *)
LiveRecordKept ==
    [][windows /\ record # None /\ record' = None =>
          daemons'[record].phase \in {"draining", "guard", "unlink", "dead"}]_vars

(* And the project has one daemon that takes connections, or will, as long *)
(* as no manager has been killed: a start that runs beside stops, restarts,*)
(* queries and an older daemon that ends never spawns a second one next to *)
(* one that serves (daemon_manager.rs:630 and 640).  It may spawn one next *)
(* to a daemon that drains, which answers nobody but finishes its requests.*)
Running(b) == daemons[b].phase \in {"spawned", "bound", "recorded", "serving",
                                    "closing"}

OneDaemon ==
    windows /\ kills = MaxKills =>
        \A b, c \in Boots : Running(b) /\ Running(c) => b = c

===============================================================================
