------------------------------ MODULE PluginLink ------------------------------
(***************************************************************************)
(* How the plugin finds a daemon, compares Studio with its project, goes   *)
(* live, and starts over after every gap.  Modelled from startConnect,     *)
(* beginDaemonConnection, runInitialCompare, startHooksAndWs, wsLoop,      *)
(* refreshHello and retryInitialCompare of plugin/Plugin.luau.             *)
(*                                                                         *)
(* Each of these is a coroutine that yields in its requests; what it finds *)
(* when it goes on is compared with `gen`, the wsGeneration it began with. *)
(* What a comparison and its transfers do inside is in InitialChoice,      *)
(* StreamCommit and SnapshotPull; here a transfer is one step.  An edit of *)
(* the user is an element: of `studio`, of a project's `disk`, or of both. *)
(***************************************************************************)
EXTENDS Integers

CONSTANTS
    Urls, Projects,
    Budgets,   \* what may happen: daemons, strokes, saves, faults and clicks, and
               \* whether a request that was under way at a cancel is answered late
    None

VARIABLES
    host,      \* per URL: the daemon that listens there, or None
    held,      \* daemons whose active slot an old connection still has
    disk,      \* per project: the edits on the disk
    studio,    \* the edits in Studio
    unheard,   \* per project: saves since the comparison that no link has heard of
    link,      \* the plugin's connection state
    ws,        \* the published socket's generation, or None
    pending,   \* pendingOps
    outbox, inbox,  \* edits on the way of the socket
    attempts, timers, compares, restarts, loops,  \* the coroutines
    intended,  \* the project that the user's last Connect has found
    left       \* the budget that is left

daemonVars == <<host>>
dataVars   == <<disk, studio, unheard>>
wireVars   == <<ws, pending, outbox, inbox, held>>
taskVars   == <<attempts, timers, compares, restarts, loops>>
vars == <<daemonVars, dataVars, link, wireVars, taskVars, intended, left>>

(* An edit in Studio is known by the budget it leaves, and so is a daemon,  *)
(* whose capability that is; a save by its negative.                        *)
Strokes == Nat \ {0}
Saves == {n \in Int : n < 0}

BootAt(u) == IF host[u] = None THEN None ELSE host[u].boot
Running(b) == b # None /\ \E u \in Urls : BootAt(u) = b
ProjectOf(b) == host[CHOOSE u \in Urls : BootAt(u) = b].project

(* What a coroutine looks at when it goes on.                               *)
Wanted(c) == link.desired /\ link.busy /\ c.gen = link.gen
Alive(l)  == link.desired /\ link.connected /\ l.gen = link.gen
Latest(a) == a.n = link.attempt /\ link.busy

Comparing(k) == [gen |-> k.gen, cap |-> k.cap, at |-> "scanning", dirty |-> FALSE, boot |-> None]

Init ==
    /\ host = [u \in Urls |-> None] /\ held = {} /\ left \in Budgets
    /\ studio = {0} /\ disk \in [Projects -> {{}, {0}}]
    /\ unheard = [p \in Projects |-> {}]
    /\ link = [desired |-> FALSE, busy |-> FALSE, connected |-> FALSE, gen |-> 0,
               attempt |-> 0, base |-> None, cap |-> None, compared |-> None,
               pin |-> None, retrying |-> FALSE, resyncing |-> FALSE,
               hooks |-> FALSE, with |-> None]
    /\ ws = None /\ pending = {} /\ outbox = {} /\ inbox = {}
    /\ attempts = {} /\ timers = {} /\ compares = {} /\ restarts = {} /\ loops = {}
    /\ intended = None

-------------------------------------------------------------------------------
(* The daemons, and the user.                                               *)

Spend(what) == left[what] > 0 /\ left' = [left EXCEPT ![what] = @ - 1]

StartDaemon(u, p) ==
    /\ Spend("daemons")
    /\ host[u] = None /\ \A v \in Urls : host[v] # None => host[v].project # p
    /\ host' = [host EXCEPT ![u] = [project |-> p, boot |-> left.daemons]]
    /\ UNCHANGED <<dataVars, link, wireVars, taskVars, intended>>

StopDaemon(u) ==
    /\ host[u] # None
    /\ host' = [host EXCEPT ![u] = None] /\ held' = held \ {host[u].boot}
    /\ UNCHANGED <<dataVars, link, ws, pending, outbox, inbox, taskVars, intended, left>>

(* The daemon notices that a connection of the plugin is gone.              *)
Release(b) ==
    /\ b \in held /\ held' = held \ {b}
    /\ ~\E l \in loops : l.at = "heard" /\ l.boot = b /\ Alive(l)
    /\ UNCHANGED <<daemonVars, dataVars, link, ws, pending, outbox, inbox, taskVars, intended, left>>

(* A file is saved.  What the daemon broadcasts reaches the plugin whose    *)
(* hello it has accepted; a socket that has not said hello ignores it.      *)
Save(p) ==
    /\ Spend("saves")
    /\ LET e == 0 - left.saves
           heard == \E l \in loops : /\ l.at = "heard" /\ Alive(l) /\ Running(l.boot)
                                     /\ ProjectOf(l.boot) = p
       IN /\ disk' = [disk EXCEPT ![p] = @ \cup {e}]
          /\ inbox' = IF heard THEN inbox \cup {e} ELSE inbox
          /\ unheard' = IF heard THEN unheard ELSE [unheard EXCEPT ![p] = @ \cup {e}]
    /\ UNCHANGED <<daemonVars, studio, link, ws, pending, outbox, held, taskVars, intended>>

(* The user edits in Studio.  Every comparison has a guard that notices; a  *)
(* hook that is installed queues the edit.                                  *)
Stroke ==
    /\ Spend("strokes")
    /\ studio' = studio \cup {left.strokes}
    /\ compares' = {[c EXCEPT !.dirty = TRUE] : c \in compares}
    /\ \/ link.hooks /\ pending' = pending \cup {left.strokes}
       \/ ~link.connected /\ UNCHANGED pending
    /\ UNCHANGED <<daemonVars, disk, unheard, link, ws, outbox, inbox, held,
                   attempts, timers, restarts, loops, intended>>

-------------------------------------------------------------------------------
(* Connect, Cancel and Disconnect are one button.                           *)

Connect(u) ==
    /\ ~link.connected /\ ~link.busy /\ Spend("clicks")
    /\ link' = [link EXCEPT !.pin = None, !.busy = TRUE, !.attempt = @ + 1]
    /\ attempts' = attempts \cup {[n |-> link'.attempt, url |-> u, at |-> "searching"]}
    /\ UNCHANGED <<daemonVars, dataVars, wireVars, timers, compares, restarts, loops, intended>>

Cancelled == [link EXCEPT !.desired = FALSE, !.retrying = FALSE, !.cap = None, !.compared = None,
                          !.pin = None, !.busy = FALSE, !.gen = @ + 1, !.attempt = @ + 1]

Cancel ==
    /\ ~link.connected /\ link.busy /\ Spend("clicks")
    /\ link' = Cancelled
    /\ UNCHANGED <<daemonVars, dataVars, wireVars, taskVars, intended>>

(* disconnect(): the socket is closed and the hooks go; edits that are on   *)
(* the way arrive before that or not at all, and those still queued wait    *)
(* for a flush that finds no connection.                                    *)
Disconnected ==
    /\ link' = [Cancelled EXCEPT !.connected = FALSE, !.hooks = FALSE, !.base = None]
    /\ ws' = None /\ pending' = {} /\ outbox' = {} /\ inbox' = {}
    /\ UNCHANGED held

Disconnect ==
    /\ link.connected /\ Spend("clicks")
    /\ Disconnected
    /\ UNCHANGED <<daemonVars, dataVars, taskVars, intended>>

-------------------------------------------------------------------------------
(* An attempt: the URL that the user gave or that discovery has found.  An   *)
(* installation that was cancelled ends a frame later, before the answer.   *)

Searched(a) ==
    /\ a \in attempts /\ a.at = "searching"
    /\ \A c \in compares : c.at = "installing" => Wanted(c)
    /\ \/ /\ Latest(a) /\ host[a.url] # None
          /\ attempts' = (attempts \ {a}) \cup {[a EXCEPT !.at = "validating"]} /\ UNCHANGED link
       \/ Latest(a) /\ host[a.url] = None /\ attempts' = attempts \ {a} /\ link' = [link EXCEPT !.busy = FALSE]
       \/ ~Latest(a) /\ attempts' = attempts \ {a} /\ UNCHANGED link
    /\ UNCHANGED <<daemonVars, dataVars, wireVars, timers, compares, restarts, loops, intended, left>>

(* validateDaemonProtocol has answered.  What follows does not ask whether  *)
(* the attempt is still the latest.                                         *)
Validated(a) ==
    /\ a \in attempts /\ a.at = "validating"
    /\ IF ~Latest(a) /\ ~left.late
       THEN attempts' = attempts \ {a} /\ UNCHANGED <<link, intended>>
       ELSE \/ /\ host[a.url] = None
               /\ attempts' = attempts \ {a}
               /\ link' = [link EXCEPT !.desired = FALSE, !.busy = FALSE]
               /\ UNCHANGED intended
            \/ /\ host[a.url] # None
               /\ attempts' = (attempts \ {a}) \cup {[a EXCEPT !.at = "configuring"]}
               /\ link' = [link EXCEPT !.desired = TRUE, !.cap = BootAt(a.url), !.compared = None,
                                       !.pin = host[a.url].project, !.base = a.url]
               /\ intended' = IF a.n = link.attempt THEN host[a.url].project ELSE intended
    /\ UNCHANGED <<daemonVars, dataVars, wireVars, timers, compares, restarts, loops, left>>

(* refreshDaemonConfig has answered, or failed.                             *)
Configured(a) ==
    /\ a \in attempts /\ a.at = "configuring" /\ attempts' = attempts \ {a}
    /\ compares' = IF Latest(a) \/ left.late THEN compares \cup {Comparing(link)} ELSE compares
    /\ UNCHANGED <<daemonVars, dataVars, link, wireVars, timers, restarts, loops, intended, left>>

-------------------------------------------------------------------------------
(* refreshHello: the pinned project's daemon, at the URL of before or at    *)
(* the one where discovery finds it.  It writes what it has found before    *)
(* its caller can see that nobody wants it any more.                        *)

Matching(p) == {u \in Urls : host[u] # None /\ host[u].project = p}
Refreshed(u) == [link EXCEPT !.base = u, !.cap = BootAt(u)]

(* retryInitialCompare on a state k of the link.                            *)
Retried(k) ==
    IF ~k.desired THEN [k EXCEPT !.busy = FALSE]
    ELSE IF k.retrying THEN k
    ELSE [k EXCEPT !.retrying = TRUE, !.busy = TRUE]
TimerOf(k) == IF k.desired /\ ~k.retrying THEN {[gen |-> k.gen, at |-> "waiting", pin |-> None]} ELSE {}

StillRetrying == link
Fired == [link EXCEPT !.retrying = FALSE]

TimerFires(t) ==
    /\ t \in timers /\ t.at = "waiting"
    /\ link' = Fired
    /\ timers' = IF Wanted(t) THEN (timers \ {t}) \cup {[t EXCEPT !.at = "asking", !.pin = link.pin]}
                              ELSE timers \ {t}
    /\ UNCHANGED <<daemonVars, dataVars, wireVars, attempts, compares, restarts, loops, intended, left>>

TimerAnswered(t) ==
    /\ t \in timers /\ t.at = "asking"
    /\ \/ \E u \in Matching(t.pin) :
            /\ Wanted(t) \/ left.late
            /\ link' = Refreshed(u) /\ timers' = timers \ {t}
            /\ compares' = IF Wanted(t) THEN compares \cup {Comparing(link')} ELSE compares
       \/ /\ Matching(t.pin) = {} /\ Wanted(t)
          /\ link' = Retried(link) /\ timers' = (timers \ {t}) \cup TimerOf(link) /\ UNCHANGED compares
       \/ ~Wanted(t) /\ timers' = timers \ {t} /\ UNCHANGED <<link, compares>>
    /\ UNCHANGED <<daemonVars, dataVars, wireVars, attempts, restarts, loops, intended, left>>

-------------------------------------------------------------------------------
(* A comparison.  `boot` is the daemon that has its session.                *)

Becomes(c, d) == compares' = (compares \ {c}) \cup {d}
Ends(c) == compares' = compares \ {c}
RetryAfter(c) == Ends(c) /\ link' = Retried(link) /\ timers' = timers \cup TimerOf(link) /\ UNCHANGED restarts
RestartAfter(c) == Ends(c) /\ restarts' = restarts \cup {[gen |-> link.gen]} /\ UNCHANGED <<link, timers>>
Serves(c) == link.base # None /\ BootAt(link.base) = c.boot
Fault == Spend("faults")

Scanned(c) ==
    /\ c \in compares /\ c.at = "scanning" /\ Wanted(c)
    /\ \/ c.dirty /\ RestartAfter(c)
       \/ ~c.dirty /\ Becomes(c, [c EXCEPT !.at = "asking"]) /\ UNCHANGED <<link, timers, restarts>>
    /\ UNCHANGED <<daemonVars, dataVars, wireVars, attempts, loops, intended, left>>

(* The statistics alone decide when the project is empty.                   *)
Asked(c) ==
    /\ c \in compares /\ c.at = "asking" /\ Wanted(c)
    /\ LET b == BootAt(link.base) IN
       \/ /\ b # None /\ UNCHANGED <<link, timers, restarts, left>>
          /\ Becomes(c, [c EXCEPT !.boot = b,
                                  !.at = IF disk[ProjectOf(b)] = {} THEN "pushing" ELSE "comparing"])
       \/ ((b = None /\ UNCHANGED left) \/ (b # None /\ Fault)) /\ RetryAfter(c)
    /\ UNCHANGED <<daemonVars, dataVars, wireVars, attempts, loops, intended>>

(* The streamed comparison: a daemon that does not know its session, and an *)
(* edit while it runs, begin the recovery.                                  *)
Compared(c) ==
    /\ c \in compares /\ c.at = "comparing" /\ Wanted(c)
    /\ \/ /\ Serves(c) /\ ~c.dirty /\ UNCHANGED <<link, timers, restarts>>
          /\ LET p == ProjectOf(c.boot) IN
             \/ /\ studio = disk[p] /\ Becomes(c, [c EXCEPT !.at = "compared"])
                /\ unheard' = [unheard EXCEPT ![p] = {}]
             \/ studio # disk[p] /\ Becomes(c, [c EXCEPT !.at = "deciding"]) /\ UNCHANGED unheard
       \/ (~Serves(c) \/ c.dirty) /\ RetryAfter(c) /\ UNCHANGED unheard
    /\ UNCHANGED <<daemonVars, disk, studio, wireVars, attempts, loops, intended, left>>

(* The user's choice; one that the daemon does not know is stale, and the   *)
(* plugin compares again.                                                   *)
Decided(c) ==
    /\ c \in compares /\ c.at = "deciding" /\ Wanted(c)
    /\ \/ /\ Serves(c) /\ ~c.dirty /\ UNCHANGED <<link, timers, restarts, ws, pending, outbox, inbox, held>>
          /\ \E at \in {"pulling", "pushing"} : Becomes(c, [c EXCEPT !.at = at])
       \/ Serves(c) /\ ~c.dirty /\ Ends(c) /\ Disconnected /\ UNCHANGED <<timers, restarts>>
       \/ c.dirty /\ RestartAfter(c) /\ UNCHANGED <<ws, pending, outbox, inbox, held>>
       \/ /\ ~Serves(c) /\ ~c.dirty /\ BootAt(link.base) # None /\ Becomes(c, Comparing(link))
          /\ UNCHANGED <<link, timers, restarts, ws, pending, outbox, inbox, held>>
    /\ UNCHANGED <<daemonVars, dataVars, attempts, loops, intended, left>>

(* A poll that fails looks for the daemon again.                            *)
PollFailed(c) ==
    /\ c \in compares /\ c.at = "deciding" /\ Wanted(c) /\ BootAt(link.base) = None
    /\ \E u \in Matching(link.pin) : link' = Refreshed(u)
    /\ UNCHANGED <<daemonVars, dataVars, wireVars, taskVars, intended, left>>

(* A pull has a guard of its own, and another begins when it ends.          *)
Pulled(c) ==
    /\ c \in compares /\ c.at = "pulling" /\ Wanted(c)
    /\ \/ /\ Serves(c) /\ ~c.dirty /\ UNCHANGED <<link, timers, restarts>>
          /\ studio' = disk[ProjectOf(c.boot)]
          /\ unheard' = [unheard EXCEPT ![ProjectOf(c.boot)] = {}]
          /\ Becomes(c, [c EXCEPT !.at = "compared"])
       \/ (~Serves(c) \/ c.dirty) /\ RetryAfter(c) /\ UNCHANGED <<studio, unheard>>
    /\ UNCHANGED <<daemonVars, disk, wireVars, attempts, loops, intended, left>>

Pushed(c) ==
    /\ c \in compares /\ c.at = "pushing" /\ Wanted(c)
    /\ \/ /\ Serves(c) /\ ~c.dirty /\ UNCHANGED <<link, timers, restarts>>
          /\ disk' = [disk EXCEPT ![ProjectOf(c.boot)] = studio]
          /\ unheard' = [unheard EXCEPT ![ProjectOf(c.boot)] = {}]
          /\ Becomes(c, [c EXCEPT !.at = "compared"])
       \/ c.dirty /\ RestartAfter(c) /\ UNCHANGED <<disk, unheard>>
       \/ ~Serves(c) /\ ~c.dirty /\ RetryAfter(c) /\ UNCHANGED <<disk, unheard>>
    /\ UNCHANGED <<daemonVars, studio, wireVars, attempts, loops, intended, left>>

(* completeInitialCompare: the hooks are installed while the guard stays.   *)
Completed(c) ==
    /\ c \in compares /\ c.at = "compared" /\ Wanted(c)
    /\ \/ c.dirty /\ RestartAfter(c)
       \/ /\ ~c.dirty /\ Becomes(c, [c EXCEPT !.at = "installing"]) /\ UNCHANGED <<timers, restarts>>
          /\ link' = [link EXCEPT !.compared = c.cap, !.with = c.boot, !.hooks = TRUE]
    /\ UNCHANGED <<daemonVars, dataVars, wireVars, attempts, loops, intended, left>>

(* startHooksAndWs, after installHooks: the link is live, or the hooks go.  *)
Installed(c) ==
    /\ c \in compares /\ c.at = "installing"
    /\ \/ /\ Wanted(c) /\ ~c.dirty /\ Ends(c)
          /\ link' = [link EXCEPT !.retrying = FALSE, !.resyncing = FALSE, !.connected = TRUE,
                                  !.busy = FALSE, !.gen = @ + 1]
          /\ loops' = loops \cup {[gen |-> link'.gen, at |-> "asking", pin |-> link.pin, boot |-> None]}
          /\ UNCHANGED <<pending, restarts>>
       \/ /\ ~Wanted(c) \/ c.dirty
          /\ link' = [link EXCEPT !.hooks = FALSE] /\ pending' = {} /\ UNCHANGED loops
          /\ Ends(c) /\ restarts' = IF Wanted(c) THEN restarts \cup {[gen |-> link.gen]} ELSE restarts
    /\ UNCHANGED <<daemonVars, dataVars, ws, outbox, inbox, held, attempts, timers, intended, left>>

(* Anywhere else, one that nobody wants any more just ends.                 *)
Dropped(c) ==
    /\ c \in compares /\ c.at # "installing" /\ ~Wanted(c) /\ Ends(c)
    /\ UNCHANGED <<daemonVars, dataVars, link, wireVars, attempts, timers, restarts, loops, intended, left>>

RestartDue(r) ==
    /\ r \in restarts /\ restarts' = restarts \ {r}
    /\ compares' = IF Wanted(r) THEN compares \cup {Comparing(link)} ELSE compares
    /\ UNCHANGED <<daemonVars, dataVars, link, wireVars, attempts, timers, loops, intended, left>>

-------------------------------------------------------------------------------
(* The loop of a socket.                                                    *)

Gone(l) == loops' = loops \ {l}
Moves(l, m) == loops' = (loops \ {l}) \cup {m}

(* The edits on the way that the daemon of boot b still takes.              *)
Arrive(b) ==
    \E got \in SUBSET outbox :
        disk' = IF Running(b) THEN [disk EXCEPT ![ProjectOf(b)] = @ \cup got] ELSE disk

(* A gap, and the controlled resynchronisation: everything queued is        *)
(* dropped for a new comparison.                                            *)
TornKeepsHooks(k) == [k EXCEPT !.connected = FALSE, !.busy = TRUE, !.cap = None, !.compared = None,
                               !.gen = @ + 1]
Torn(k) == [TornKeepsHooks(k) EXCEPT !.hooks = FALSE]
Gapped(b, k) ==
    /\ Arrive(b)
    /\ ws' = None /\ pending' = {} /\ outbox' = {} /\ inbox' = {}
    /\ link' = Retried(Torn(k)) /\ timers' = timers \cup TimerOf(Torn(k))
    /\ UNCHANGED held

AnyDaemon(u) == host[u] # None
SameDaemon(u) == link.compared = BootAt(u)

LoopAnswered(l) ==
    /\ l \in loops /\ l.at = "asking"
    /\ \/ \E u \in Matching(l.pin) :
            /\ Alive(l) \/ left.late
            /\ IF Alive(l)
               THEN \/ /\ SameDaemon(u) /\ link' = Refreshed(u)
                       /\ Moves(l, [l EXCEPT !.at = "opening"])
                       /\ UNCHANGED <<disk, ws, pending, outbox, inbox, held, timers>>
                    \/ ~SameDaemon(u) /\ Gone(l) /\ Gapped(l.boot, Refreshed(u))
               ELSE link' = Refreshed(u) /\ Gone(l) /\ UNCHANGED <<disk, wireVars, timers>>
       \/ Alive(l) /\ Matching(l.pin) = {} /\ Gone(l) /\ Gapped(l.boot, link)
       \/ ~Alive(l) /\ Gone(l) /\ UNCHANGED <<link, disk, wireVars, timers>>
    /\ UNCHANGED <<daemonVars, studio, unheard, attempts, compares, restarts, intended, left>>

Opened(l) ==
    /\ l \in loops /\ l.at = "opening" /\ Alive(l) /\ BootAt(link.base) # None
    /\ Moves(l, [l EXCEPT !.at = "greeting", !.boot = BootAt(link.base)])
    /\ UNCHANGED <<daemonVars, dataVars, link, wireVars, attempts, timers, compares, restarts, intended, left>>

(* The daemon accepts the hello of the one plugin that shows its capability.*)
Heard(l) ==
    /\ l \in loops /\ l.at = "greeting" /\ Alive(l) /\ Running(l.boot)
    /\ link.cap = l.boot /\ l.boot \notin held
    /\ Moves(l, [l EXCEPT !.at = "heard"]) /\ held' = held \cup {l.boot}
    /\ UNCHANGED <<daemonVars, dataVars, link, ws, pending, outbox, inbox, attempts, timers, compares,
                   restarts, intended, left>>

(* The first answer publishes the socket.                                   *)
Accept(l) ==
    /\ l \in loops /\ l.at = "heard" /\ Alive(l) /\ Running(l.boot) /\ ws # l.gen
    /\ ws' = l.gen
    /\ UNCHANGED <<daemonVars, dataVars, link, pending, outbox, inbox, held, taskVars, intended, left>>

(* It is refused, by a new daemon or because the old connection still has   *)
(* the slot; it closes; it falls silent; or an edit is not taken.           *)
Unknown(l) ==
    IF l.at = "opening" THEN BootAt(link.base) = None
    ELSE ~Running(l.boot) \/ (l.at = "greeting" /\ link.cap # l.boot)
Closes(l) ==
    /\ l \in loops /\ l.at # "asking" /\ Gone(l)
    /\ \/ /\ Alive(l) /\ Gapped(l.boot, link)
          /\ \/ Unknown(l) /\ UNCHANGED left
             \/ ~Unknown(l) /\ Fault
       \/ ~Alive(l) /\ UNCHANGED <<disk, link, wireVars, timers, left>>
    /\ UNCHANGED <<daemonVars, studio, unheard, attempts, compares, restarts, intended>>

(* requestControlledLiveResync: an operation that Studio does not take.     *)
Resync(l) ==
    /\ l \in loops /\ Alive(l) /\ ws = l.gen /\ Fault
    /\ ~link.resyncing
    /\ Gapped(l.boot, [link EXCEPT !.resyncing = TRUE])
    /\ UNCHANGED <<daemonVars, studio, unheard, attempts, compares, restarts, loops, intended>>

(* flushPush, and what arrives.                                             *)
Flush ==
    /\ ws # None /\ pending # {}
    /\ outbox' = outbox \cup pending /\ pending' = {}
    /\ UNCHANGED <<daemonVars, dataVars, link, ws, inbox, held, taskVars, intended, left>>

Written(l, e) ==
    /\ l \in loops /\ Alive(l) /\ ws = l.gen /\ Running(l.boot) /\ e \in outbox
    /\ disk' = [disk EXCEPT ![ProjectOf(l.boot)] = @ \cup {e}] /\ outbox' = outbox \ {e}
    /\ UNCHANGED <<daemonVars, studio, unheard, link, ws, pending, inbox, held, taskVars, intended, left>>

Applied(l, e) ==
    /\ l \in loops /\ Alive(l) /\ ws = l.gen /\ e \in inbox
    /\ studio' = studio \cup {e} /\ inbox' = inbox \ {e}
    /\ UNCHANGED <<daemonVars, disk, unheard, link, ws, pending, outbox, held, taskVars, intended, left>>

-------------------------------------------------------------------------------
Next ==
    \/ \E u \in Urls : StopDaemon(u) \/ Connect(u) \/ \E p \in Projects : StartDaemon(u, p)
    \/ \E b \in held : Release(b)
    \/ \E p \in Projects : Save(p)
    \/ Stroke \/ Cancel \/ Disconnect \/ Flush
    \/ \E a \in attempts : Searched(a) \/ Validated(a) \/ Configured(a)
    \/ \E t \in timers : TimerFires(t) \/ TimerAnswered(t)
    \/ \E c \in compares : \/ Scanned(c) \/ Asked(c) \/ Compared(c) \/ Decided(c) \/ PollFailed(c)
                           \/ Pulled(c) \/ Pushed(c) \/ Completed(c) \/ Installed(c) \/ Dropped(c)
    \/ \E r \in restarts : RestartDue(r)
    \/ \E l \in loops : \/ LoopAnswered(l) \/ Opened(l) \/ Heard(l) \/ Accept(l) \/ Closes(l) \/ Resync(l)
                        \/ \E e \in outbox : Written(l, e)
                        \/ \E e \in inbox : Applied(l, e)

Spec == Init /\ [][Next]_vars

-------------------------------------------------------------------------------
Published == {l \in loops : ws = l.gen /\ Running(l.boot)}

(* While a link is live nothing falls between the comparison, the hooks and *)
(* the socket: what one side has and the other has not is on its way, but   *)
(* for saves that the daemon broadcast before it had accepted a hello.      *)
LinkAgrees ==
    \A l \in Published :
        LET p == ProjectOf(l.boot) IN
        /\ studio \ disk[p] \subseteq pending \cup outbox
        /\ disk[p] \ studio \subseteq inbox \cup unheard[p]

(* Only the daemon that Studio was compared with is live, and it is of the  *)
(* project the user has connected to last.                                  *)
LiveIsCompared ==
    \A l \in Published : l.boot = link.with /\ ProjectOf(l.boot) = intended

(* The plugin never waits for nothing: while it is busy or connected some   *)
(* coroutine goes on, and no two of them do the same.                       *)
SomeoneGoesOn ==
    LET going == {c \in compares : Wanted(c)} \cup {t \in timers : Wanted(t)}
                 \cup {r \in restarts : Wanted(r)} \cup {a \in attempts : Latest(a)}
    IN /\ link.busy => \E x \in going : going = {x}
       /\ link.connected => \E l \in loops : {m \in loops : Alive(m)} = {l}

Boots == Nat \cup {None}
Links == [desired : BOOLEAN, busy : BOOLEAN, connected : BOOLEAN, gen : Nat,
          attempt : Nat, base : Urls \cup {None}, cap : Boots, compared : Boots,
          pin : Projects \cup {None}, retrying : BOOLEAN, resyncing : BOOLEAN,
          hooks : BOOLEAN, with : Boots]
Tries == [n : Nat, url : Urls, at : {"searching", "validating", "configuring"}]
Timers == [gen : Nat, at : {"waiting", "asking"}, pin : Projects \cup {None}]
Compares == [gen : Nat, cap : Boots, dirty : BOOLEAN, boot : Boots,
             at : {"scanning", "asking", "comparing", "deciding", "pulling",
                   "pushing", "compared", "installing"}]
Restarts == [gen : Nat]
Loops == [gen : Nat, at : {"asking", "opening", "greeting", "heard"},
          pin : Projects \cup {None}, boot : Boots]
Allowances == [daemons : Nat, strokes : Nat, saves : Nat, faults : Nat,
               clicks : Nat, late : BOOLEAN]

LinkAssumption ==
    /\ Budgets \subseteq Allowances
    /\ None \notin Nat /\ None \notin Urls /\ None \notin Projects
    /\ None \notin [project : Projects, boot : Nat]

TypeOK ==
    /\ host \in [Urls -> {None} \cup [project : Projects, boot : Nat]]
    /\ studio \subseteq {0} \cup Strokes \cup Saves
    /\ pending \cup outbox \subseteq Strokes /\ inbox \subseteq Saves
    /\ ws \in Boots /\ held \subseteq Nat
    /\ disk \in [Projects -> SUBSET ({0} \cup Strokes \cup Saves)]
    /\ unheard \in [Projects -> SUBSET Saves]
    /\ link \in Links /\ attempts \subseteq Tries /\ timers \subseteq Timers
    /\ compares \subseteq Compares /\ restarts \subseteq Restarts /\ loops \subseteq Loops
    /\ intended \in Projects \cup {None} /\ left \in Allowances
===============================================================================
