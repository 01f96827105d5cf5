----------------------------- MODULE InitialChoice -----------------------------
(***************************************************************************)
(* The first synchronisation of a project and a place that differ: the     *)
(* plugin streams what Studio has, service by service, the daemon compares *)
(* it with the disk, a desktop window is asked which side wins, and the    *)
(* plugin, which polls for the answer, starts the transfer that was        *)
(* chosen.  Modelled from daemon/src/http.rs, the grant of http_apply.rs,  *)
(* runInitialCompare and waitForDecision of plugin/Plugin.luau, and        *)
(* views/overwrite.js.                                                     *)
(*                                                                         *)
(* A comparison, its session and the question it ends in have one number.  *)
(* A service on the disk is the history of its trees; of each tree only    *)
(* whether it is what Studio has.  Each phase of a service is one chunk,   *)
(* and a selection is two chunks.  Both sides hold something, so the push  *)
(* and pull of an empty side do not arise.                                 *)
(***************************************************************************)
EXTENDS Naturals, Sequences, FiniteSets

CONSTANTS
    N,          \* services 1..N, in the order of SYNCED_SERVICES
    Windows,    \* desktop windows that show the question
    Polls,      \* polls of the plugin that the daemon may be answering
    MaxScans, MaxEdits, MaxSubmits,  \* bounds
    Budgets,    \* how often what may happen: one of these to start with
    None

Services  == 1..N
Questions == 1..MaxScans
Choices   == {"disk", "studio", "cancel"}
Phases    == <<"structure", "prepare", "identities", "hashes">>

(* A selection of paths is known by its submission; {} stands for all.      *)
Submissions == 1..MaxSubmits
Chunks      == {0, 1}
Paths       == SUBSET (Submissions \X Chunks)
Verdicts    == [choice : Choices, paths : Paths]
Generations == [Services -> Nat]

VARIABLES
    disk,      \* per service: for each of its trees, is it what Studio has?
    \* the daemon
    session,   \* the InitialCompareAccumulator of the project, or None
    prep,      \* the thread of diskPrepare: where it is, what it captured
    slot,      \* AppState.pending_initial, or None
    deciding,  \* handlers of a Studio choice between their critical sections
    grants,    \* STUDIO_TRANSFER_GRANTS and SELECTIVE_TRANSFER_GRANTS
    replays,   \* COMPLETED_INITIAL_SELECTIONS: submissions
    poll,      \* the handlers of initial_decision
    \* the plugin and the windows
    plugin, inflight,  \* where it is; comparison requests on their way
    window, mail,      \* where each is; requests of windows on their way
    \* observation and bounds
    verdict,   \* what each question was decided
    done,      \* what the plugin started because of it
    compared,  \* the generations of the disk each question is about
    synced,    \* the generations of the disk at an in-sync answer, or None
    told,      \* <<question, verdict>>: what windows were told succeeded
    budget

observed == <<verdict, done, compared, synced, told>>
daemonVars == <<session, prep, slot, deciding, grants, replays, poll>>
vars == <<disk, daemonVars, plugin, inflight, window, mail, observed, budget>>

Gen(s)  == Len(disk[s])
Now     == [s \in Services |-> Gen(s)]
Free    == [at |-> "free", q |-> 0, verdict |-> None, gens |-> None]
NoPrep  == [at |-> "none", gen |-> 0, same |-> FALSE]
StillAssumed(gens) == TRUE   \* mutant: the disk is not looked at again
StillCompared(gens) == gens = Now
Spend(what) == /\ budget[what] > 0
               /\ budget' = [budget EXCEPT ![what] = @ - 1]

Init ==
    /\ disk \in [Services -> {<<TRUE>>, <<FALSE>>}]
    /\ session = None /\ prep = NoPrep /\ slot = None
    /\ deciding = {} /\ grants = {} /\ replays = {}
    /\ poll = [k \in Polls |-> Free]
    /\ plugin = [at |-> "idle", q |-> 0, call |-> None, answer |-> None, poll |-> None]
    /\ inflight = {} /\ mail = {}
    /\ window = [w \in Windows |-> [at |-> "closed", q |-> 0, call |-> None, answer |-> None]]
    /\ verdict = [q \in Questions |-> None] /\ done = [q \in Questions |-> None]
    /\ compared = [q \in Questions |-> None]
    /\ synced = None /\ told = {}
    /\ budget \in Budgets

--------------------------------------------------------------------------------
(* The comparison, as the daemon runs it.                                   *)

Edit(s) ==
    /\ Spend("edits")
    /\ \E same \in BOOLEAN : disk' = [disk EXCEPT ![s] = Append(@, same)]
    /\ UNCHANGED <<daemonVars, plugin, inflight, window, mail, observed>>

(* The answer reaches the plugin if it still waits for it.                  *)
Answer(r, says) ==
    plugin' = IF plugin.call = r THEN [plugin EXCEPT !.answer = says] ELSE plugin

(* Stats first: whatever session the project has is replaced.               *)
InitialCompare(r) ==
    /\ r.phase = "stats"
    /\ session' = [q |-> r.q, service |-> 1, phase |-> 1, gens |-> <<>>,
                   clean |-> TRUE, last |-> None, says |-> None, over |-> FALSE]
    /\ prep' = NoPrep
    /\ Answer(r, "compare")
    /\ UNCHANGED <<slot, verdict, compared, synced>>

Chunk(r) == <<r.service, r.phase>>
Replays(r) == session.last = Chunk(r)
Expected(r) == /\ ~session.over
               /\ Chunk(r) = <<session.service, Phases[session.phase]>>

(* Any other chunk is refused: of another session, repeated, out of order.  *)
RefuseChunk(r) ==
    /\ r.phase # "stats"
    /\ IF session = None \/ session.q # r.q THEN Answer(r, "error")
       ELSE IF Replays(r) THEN Answer(r, session.says)
       ELSE ~Expected(r) /\ Answer(r, "error")
    /\ UNCHANGED <<session, prep, slot, verdict, compared, synced>>

Open(r) == /\ r.phase # "stats" /\ session # None /\ session.q = r.q
           /\ ~Replays(r) /\ Expected(r)

Advance(r, says) == [session EXCEPT !.last = Chunk(r), !.says = says]

(* The last structure chunk starts the thread that reads the disk.          *)
Structure(r) ==
    /\ Open(r) /\ r.phase = "structure"
    /\ prep' = [at |-> "reading", gen |-> Gen(r.service), same |-> FALSE]
    /\ session' = [Advance(r, "compare") EXCEPT !.phase = 2]
    /\ Answer(r, "compare")
    /\ UNCHANGED <<slot, verdict, compared, synced>>

(* prepare_streamed_initial_service_comparison: the tree is read between    *)
(* two looks at its generation.                                             *)
PrepareReads ==
    /\ prep.at = "reading"
    /\ LET s == session.service IN
       prep' = IF Gen(s) = prep.gen
               THEN [prep EXCEPT !.at = "ok", !.same = disk[s][Gen(s)]]
               ELSE [prep EXCEPT !.at = "failed"]
    /\ UNCHANGED <<disk, session, slot, deciding, grants, replays, poll, plugin,
                   inflight, window, mail, observed, budget>>

(* Mutant of DiskPrepare: what the thread found is kept when it failed.     *)
PreparedAgain(r) ==
    /\ Open(r) /\ r.phase = "prepare" /\ prep.at \in {"ok", "failed"}
    /\ IF prep.at = "ok"
       THEN /\ prep' = NoPrep
            /\ session' = [Advance(r, "compare") EXCEPT !.phase = 3,
                             !.gens = Append(@, prep.gen),
                             !.clean = @ /\ prep.same]
            /\ Answer(r, "compare")
       ELSE /\ session' = [session EXCEPT !.phase = 1]
            /\ Answer(r, "error")
            /\ UNCHANGED prep
    /\ UNCHANGED <<slot, verdict, compared, synced>>

(* diskPrepare, once the thread has an answer: the ticks before it change   *)
(* nothing but the number of the next tick.                                 *)
DiskPrepare(r) ==
    /\ Open(r) /\ r.phase = "prepare" /\ prep.at \in {"ok", "failed"}
    /\ prep' = NoPrep
    /\ IF prep.at = "ok"
       THEN /\ session' = [Advance(r, "compare") EXCEPT !.phase = 3,
                             !.gens = Append(@, prep.gen),
                             !.clean = @ /\ prep.same]
            /\ Answer(r, "compare")
       ELSE /\ session' = [session EXCEPT !.phase = 1]
            /\ Answer(r, "error")
    /\ UNCHANGED <<slot, verdict, compared, synced>>

Identities(r) ==
    /\ Open(r) /\ r.phase = "identities"
    /\ session' = [Advance(r, "compare") EXCEPT !.phase = 4]
    /\ Answer(r, "compare")
    /\ UNCHANGED <<prep, slot, verdict, compared, synced>>

(* The scripts of the service are read now, each between two looks at its   *)
(* generation, and the next service begins.                                 *)
NextService(r) ==
    /\ Open(r) /\ r.phase = "hashes" /\ r.service < N
    /\ session' = [Advance(r, "compare") EXCEPT !.service = @ + 1, !.phase = 1,
                      !.clean = @ /\ disk[r.service][Gen(r.service)]]
    /\ Answer(r, "compare")
    /\ UNCHANGED <<prep, slot, verdict, compared, synced>>

(* finish_initial_comparison, under the lock of the sessions, so that no    *)
(* scan replaces this one meanwhile: a clean comparison is recorded if the  *)
(* disk is still the one that was compared, and fails for good if it is     *)
(* not; any other replaces the question of the project.                     *)
Question(q, gens) ==
    [q |-> q, choice |-> None, paths |-> {}, gens |-> gens, sub |-> None,
     next |-> 0, got |-> {}]
Finish(r) ==
    /\ Open(r) /\ r.phase = "hashes" /\ r.service = N
    /\ LET clean == session.clean /\ disk[N][Gen(N)]
           same  == StillCompared(session.gens)
           says  == IF ~clean THEN "decide" ELSE IF same THEN "in-sync" ELSE "error"
       IN /\ session' = [Advance(r, says) EXCEPT !.over = TRUE]
          /\ Answer(r, says)
          /\ slot' = IF clean THEN slot ELSE Question(r.q, session.gens)
          /\ compared' = IF clean THEN compared
                         ELSE [compared EXCEPT ![r.q] = session.gens]
          /\ synced' = IF clean /\ same THEN Now ELSE synced
    /\ UNCHANGED <<prep, verdict>>

Receive(r) ==
    /\ r \in inflight /\ inflight' = inflight \ {r}
    /\ \/ InitialCompare(r) \/ RefuseChunk(r) \/ Structure(r) \/ DiskPrepare(r)
       \/ Identities(r) \/ NextService(r) \/ Finish(r)
    /\ UNCHANGED <<disk, deciding, grants, replays, poll, window, mail, done,
                   told, budget>>

(* clear_completed_initial_compare_for_choice.                              *)
Cleared(q) == IF session # None /\ session.over /\ session.q = q
              THEN None ELSE session

--------------------------------------------------------------------------------
(* The decision.                                                            *)

Asked(q) == slot # None /\ slot.q = q

All(choice) == [choice |-> choice, paths |-> {}]
Last == 1

(* May a chunk be taken: the question is open, and the chunk starts a       *)
(* submission or is one of the submission under way.                        *)
Takes(m) == /\ Asked(m.q) /\ slot.choice = None
            /\ m.chunk = 0 \/ slot.sub = m.sub

(* A question is answered, and the session that led to it is dropped.       *)
Chosen(q, v) ==
    /\ slot' = [slot EXCEPT !.choice = v.choice, !.paths = v.paths, !.sub = None,
                            !.got = {}]
    /\ verdict' = [verdict EXCEPT ![q] = v]
    /\ session' = Cleared(q)

Reply(m, says) ==
    window' = IF window[m.from].call = m
              THEN [window EXCEPT ![m.from].answer = says] ELSE window

Refuse(m) == Reply(m, "error") /\ UNCHANGED <<slot, verdict, session>>

(* Mutant of Choose: whoever answers last is told that it is fine.          *)
ChooseAgain(m) ==
    IF ~Asked(m.q) THEN Refuse(m)
    ELSE /\ Reply(m, "ok")
         /\ IF slot.choice = None THEN Chosen(m.q, All(m.choice))
            ELSE UNCHANGED <<slot, verdict, session>>

(* Mutant of Choose: the last answer replaces the one before.               *)
ChooseOver(m) == IF ~Asked(m.q) THEN Refuse(m)
                 ELSE Chosen(m.q, All(m.choice)) /\ Reply(m, "ok")

(* The choice is set, or is the one that is set already, or is refused.     *)
Choose(m) ==
    IF ~Asked(m.q) THEN Refuse(m)
    ELSE IF slot.choice = None THEN Chosen(m.q, All(m.choice)) /\ Reply(m, "ok")
    ELSE IF slot.choice = m.choice /\ slot.paths = {}
    THEN Reply(m, "ok") /\ UNCHANGED <<slot, verdict, session>>
    ELSE Refuse(m)

(* initial_choice, for all of Disk and for Cancel.                          *)
DecideAll(m) ==
    /\ m.kind = "full" /\ m.choice # "studio"
    /\ Choose(m)
    /\ UNCHANGED <<deciding, replays>>

(* For Studio it first takes the generations the question is about.         *)
DecideStudio(m) ==
    /\ m.kind = "full" /\ m.choice = "studio"
    /\ IF Asked(m.q) /\ slot.choice = None
       THEN /\ deciding' = deciding \cup {[m |-> m, gens |-> slot.gens, at |-> "read"]}
            /\ UNCHANGED <<window, slot, verdict, session>>
       ELSE Refuse(m) /\ UNCHANGED deciding
    /\ UNCHANGED replays

(* Mutant of Selection: a second submission goes on with the first one's.   *)
SelectionMixed(m) ==
    /\ m.kind = "chunk"
    /\ UNCHANGED deciding
    /\ IF m.sub \in replays THEN Reply(m, "ok") /\ UNCHANGED <<slot, verdict, session, replays>>
       ELSE IF ~Takes(m) THEN Refuse(m) /\ UNCHANGED replays
       ELSE IF slot.sub = m.sub /\ m.chunk < slot.next
       THEN Reply(m, "ok") /\ UNCHANGED <<slot, verdict, session, replays>>
       ELSE LET got == slot.got \cup {<<m.sub, m.chunk>>} IN
            /\ Reply(m, "ok")
            /\ IF m.chunk = Last
               THEN /\ replays' = replays \cup {m.sub}
                    /\ Chosen(m.q, [choice |-> "disk", paths |-> got])
               ELSE /\ slot' = [slot EXCEPT !.sub = m.sub, !.got = got, !.next = 1]
                    /\ UNCHANGED <<verdict, session, replays>>

(* initial_choice_selection: a receipt is repeated, also of a committed     *)
(* submission; chunk zero starts anew, whatever was there; the last chunk   *)
(* remembers the receipts and then publishes the choice.                    *)
Selection(m) ==
    /\ m.kind = "chunk"
    /\ UNCHANGED deciding
    /\ IF m.sub \in replays THEN Reply(m, "ok") /\ UNCHANGED <<slot, verdict, session, replays>>
       ELSE IF ~Takes(m) THEN Refuse(m) /\ UNCHANGED replays
       ELSE IF slot.sub = m.sub /\ m.chunk < slot.next
       THEN Reply(m, "ok") /\ UNCHANGED <<slot, verdict, session, replays>>
       ELSE LET before == IF slot.sub = m.sub THEN slot.got ELSE {}
                got == before \cup {<<m.sub, m.chunk>>} IN
            /\ Reply(m, "ok")
            /\ IF m.chunk = Last
               THEN /\ replays' = replays \cup {m.sub}
                    /\ Chosen(m.q, [choice |-> "disk", paths |-> got])
               ELSE /\ slot' = [slot EXCEPT !.sub = m.sub, !.got = got, !.next = 1]
                    /\ UNCHANGED <<verdict, session, replays>>

(* abort_initial_selection: only of the submission it names.                *)
Abort(m) ==
    /\ m.kind = "abort"
    /\ slot' = IF Asked(m.q) /\ slot.choice = None /\ slot.sub = m.sub
               THEN [slot EXCEPT !.sub = None, !.got = {}] ELSE slot
    /\ UNCHANGED <<window, verdict, session, deciding, replays>>

Handle(m) ==
    /\ m \in mail /\ mail' = mail \ {m}
    /\ DecideAll(m) \/ DecideStudio(m) \/ Selection(m) \/ Abort(m)
    /\ UNCHANGED <<disk, prep, grants, poll, plugin, inflight, done, compared,
                   synced, told, budget>>

(* Outside the lock it looks whether the disk is still the compared one; if *)
(* not, the question is dropped, unless it has been answered meanwhile.     *)
Revalidate(d) ==
    /\ d \in deciding /\ d.at = "read"
    /\ IF StillCompared(d.gens)
       THEN /\ deciding' = (deciding \ {d}) \cup {[d EXCEPT !.at = "fresh"]}
            /\ UNCHANGED <<slot, session, window>>
       ELSE /\ deciding' = deciding \ {d}
            /\ slot' = IF Asked(d.m.q) /\ slot.choice = None THEN None ELSE slot
            /\ session' = Cleared(d.m.q)
            /\ Reply(d.m, "error")
    /\ UNCHANGED <<disk, prep, grants, replays, poll, plugin, inflight, mail,
                   observed, budget>>

ChooseStudio(d) ==
    /\ d \in deciding /\ d.at = "fresh"
    /\ deciding' = deciding \ {d}
    /\ Choose(d.m)
    /\ UNCHANGED <<disk, prep, grants, replays, poll, plugin, inflight, mail, done,
                   compared, synced, told, budget>>

--------------------------------------------------------------------------------
(* initial_decision: the answer is read under the slot's lock, the grant is *)
(* made under its own, and the slot is cleared under the first again.       *)

Tell(k, says) ==
    plugin' = IF plugin.poll = k THEN [plugin EXCEPT !.answer = says] ELSE plugin

(* Mutant of PollReads: it waits for a question that is gone.               *)
PollWaits(k) ==
    /\ poll[k].at = "waiting" /\ Asked(poll[k].q) /\ slot.choice # None
    /\ poll' = [poll EXCEPT ![k].at = "read", ![k].gens = slot.gens,
                            ![k].verdict = [choice |-> slot.choice, paths |-> slot.paths]]
    /\ UNCHANGED plugin

PollReads(k) ==
    /\ poll[k].at = "waiting"
    /\ IF ~Asked(poll[k].q)
       THEN poll' = [poll EXCEPT ![k] = Free] /\ Tell(k, All("stale"))
       ELSE /\ slot.choice # None
            /\ poll' = [poll EXCEPT ![k].at = "read", ![k].gens = slot.gens,
                         ![k].verdict = [choice |-> slot.choice, paths |-> slot.paths]]
            /\ UNCHANGED plugin

(* After a minute.                                                          *)
PollPending(k) ==
    /\ poll[k].at = "waiting" /\ Asked(poll[k].q) /\ slot.choice = None
    /\ poll' = [poll EXCEPT ![k] = Free] /\ Tell(k, All("pending"))

(* A full pull of the disk needs no grant, and neither does Cancel.         *)
NeedsGrant(v) == v.choice = "studio" \/ v.paths # {}
PollGrants(k) ==
    /\ poll[k].at = "read"
    /\ poll' = [poll EXCEPT ![k].at = "granted"]
    /\ grants' = IF ~NeedsGrant(poll[k].verdict) THEN grants
                 ELSE {g \in grants : g.q # poll[k].q}
                      \cup {[q |-> poll[k].q, verdict |-> poll[k].verdict,
                             gens |-> poll[k].gens]}
    /\ UNCHANGED <<plugin, slot>>

PollAnswers(k) ==
    /\ poll[k].at = "granted"
    /\ poll' = [poll EXCEPT ![k] = Free]
    /\ slot' = IF Asked(poll[k].q) THEN None ELSE slot
    /\ Tell(k, poll[k].verdict)
    /\ UNCHANGED grants

InitialDecision(k) ==
    /\ \/ (PollReads(k) \/ PollPending(k)) /\ UNCHANGED <<slot, grants>>
       \/ PollGrants(k) \/ PollAnswers(k)
    /\ UNCHANGED <<disk, session, prep, deciding, replays, inflight, window, mail,
                   observed, budget>>

--------------------------------------------------------------------------------
(* Time limits, and the end of the daemon.                                  *)

(* Sessions, uncommitted selections, grants and receipts are kept for       *)
(* minutes only.                                                            *)
Expire ==
    /\ Spend("expiries")
    /\ \/ /\ session # None /\ session' = None /\ prep' = NoPrep
          /\ UNCHANGED <<slot, grants, replays>>
       \/ /\ slot # None /\ slot.sub # None
          /\ slot' = [slot EXCEPT !.sub = None, !.got = {}]
          /\ UNCHANGED <<session, prep, grants, replays>>
       \/ \E g \in grants :
             grants' = grants \ {g} /\ UNCHANGED <<session, prep, slot, replays>>
       \/ \E r \in replays :
             replays' = replays \ {r} /\ UNCHANGED <<session, prep, slot, grants>>
    /\ UNCHANGED <<disk, deciding, poll, plugin, inflight, window, mail, observed>>

Crash ==
    /\ Spend("crashes")
    /\ session' = None /\ prep' = NoPrep /\ slot' = None /\ deciding' = {}
    /\ grants' = {} /\ replays' = {} /\ poll' = [k \in Polls |-> Free]
    /\ inflight' = {} /\ mail' = {}
    /\ UNCHANGED <<disk, plugin, window, observed>>

(* What a call of a client may meet: it is lost, or its answer is.          *)
Lose ==
    /\ Spend("losses")
    /\ \/ \E r \in inflight : inflight' = inflight \ {r} /\ UNCHANGED <<mail, plugin, window>>
       \/ \E m \in mail : mail' = mail \ {m} /\ UNCHANGED <<inflight, plugin, window>>
       \/ /\ plugin.answer # None /\ plugin' = [plugin EXCEPT !.answer = None]
          /\ UNCHANGED <<inflight, mail, window>>
       \/ \E w \in Windows : /\ window[w].answer # None
                             /\ window' = [window EXCEPT ![w].answer = None]
                             /\ UNCHANGED <<inflight, mail, plugin>>
    /\ UNCHANGED <<disk, daemonVars, observed>>

(* A call that can still be answered is given up, or one that cannot.       *)
GivesUp(gone) == (gone /\ UNCHANGED budget) \/ Spend("losses")

--------------------------------------------------------------------------------
(* The plugin.                                                              *)

Away == [plugin EXCEPT !.at = "idle", !.call = None, !.answer = None, !.poll = None]

Sends(q, service, phase, try) ==
    LET r == [q |-> q, service |-> service, phase |-> phase, try |-> try] IN
    /\ plugin' = [plugin EXCEPT !.at = "comparing", !.q = q, !.call = r, !.answer = None]
    /\ inflight' = inflight \cup {r}

(* runInitialCompare.                                                       *)
PluginScans ==
    /\ plugin.at = "idle"
    /\ Spend("scans")
    /\ Sends(MaxScans - budget.scans + 1, 0, "stats", 1)
    /\ UNCHANGED <<disk, daemonVars, window, mail, observed>>

PhaseAfter(phase) == CASE phase = "stats"      -> "structure"
                       [] phase = "structure"  -> "prepare"
                       [] phase = "prepare"    -> "identities"
                       [] phase = "identities" -> "hashes"
                       [] phase = "hashes"     -> "structure"
ServiceAfter(r) == IF r.phase \in {"stats", "hashes"} THEN r.service + 1 ELSE r.service

(* postCompareChunk: a chunk is tried twice, then the scan starts anew.     *)
Retries ==
    LET r == plugin.call IN
    IF r.phase # "stats" /\ r.try = 1
    THEN Sends(r.q, r.service, r.phase, 2)
    ELSE plugin' = Away /\ UNCHANGED inflight

PluginCompares ==
    /\ plugin.at = "comparing" /\ plugin.answer # None
    /\ CASE plugin.answer = "compare" ->
              Sends(plugin.q, ServiceAfter(plugin.call), PhaseAfter(plugin.call.phase), 1)
         [] plugin.answer = "error" -> Retries
         [] OTHER ->
              /\ plugin' = [Away EXCEPT !.at = IF plugin.answer = "decide"
                                               THEN "waiting" ELSE "synced"]
              /\ UNCHANGED inflight
    /\ UNCHANGED <<disk, daemonVars, window, mail, observed, budget>>

PluginTimesOut ==
    /\ plugin.at = "comparing" /\ plugin.answer = None
    /\ GivesUp(plugin.call \notin inflight)
    /\ Retries
    /\ UNCHANGED <<disk, daemonVars, window, mail, observed>>

(* waitForDecision.                                                         *)
PluginPolls(k) ==
    /\ plugin.at = "waiting" /\ plugin.poll = None /\ poll[k].at = "free"
    /\ plugin' = [plugin EXCEPT !.poll = k]
    /\ poll' = [poll EXCEPT ![k] = [Free EXCEPT !.at = "waiting", !.q = plugin.q]]
    /\ UNCHANGED <<disk, session, prep, slot, deciding, grants, replays, inflight,
                   window, mail, observed, budget>>

PluginLosesPoll ==
    /\ plugin.at = "waiting" /\ plugin.poll # None /\ plugin.answer = None
    /\ GivesUp(poll[plugin.poll].at = "free")
    /\ plugin' = [plugin EXCEPT !.poll = None]
    /\ UNCHANGED <<disk, daemonVars, inflight, window, mail, observed>>

(* The answer is acted on: a full pull and a cancellation at once, anything *)
(* else when the daemon has taken the grant for it.                         *)
Carries(q, v) ==
    /\ done' = [done EXCEPT ![q] = v]
    /\ plugin' = [Away EXCEPT !.at = IF v.choice = "cancel" THEN "stopped" ELSE "transfer"]

PluginDecided ==
    /\ plugin.at = "waiting" /\ plugin.answer # None
    /\ CASE plugin.answer = All("pending") ->
              plugin' = [plugin EXCEPT !.poll = None, !.answer = None] /\ UNCHANGED done
         [] plugin.answer = All("stale") -> plugin' = Away /\ UNCHANGED done
         [] OTHER -> IF NeedsGrant(plugin.answer)
                     THEN plugin' = [Away EXCEPT !.at = "starting"] /\ UNCHANGED done
                     ELSE Carries(plugin.q, plugin.answer)
    /\ UNCHANGED <<disk, daemonVars, inflight, window, mail, verdict, compared,
                   synced, told, budget>>

(* Mutant of PluginStarts: the grant is used without a look at the disk.    *)
StartsUnfenced ==
    /\ plugin.at = "starting"
    /\ \E g \in grants : g.q = plugin.q /\ grants' = grants \ {g} /\ Carries(g.q, g.verdict)
    /\ UNCHANGED <<disk, session, prep, slot, deciding, replays, poll, inflight,
                   window, mail, verdict, compared, synced, told, budget>>

(* consume_studio_transfer_grant, or snapshot_stream for a selection: the   *)
(* grant is taken first, and for a push the disk looked at then.            *)
PluginStarts ==
    /\ plugin.at = "starting"
    /\ LET mine == {g \in grants : g.q = plugin.q} IN
       /\ grants' = grants \ mine
       /\ IF \E g \in mine : g.verdict.choice = "studio" => StillCompared(g.gens)
          THEN \E g \in mine : Carries(g.q, g.verdict)
          ELSE plugin' = Away /\ UNCHANGED done
    /\ UNCHANGED <<disk, session, prep, slot, deciding, replays, poll, inflight,
                   window, mail, verdict, compared, synced, told, budget>>

(* The transfer fails; the daemon may give the grant of a selective one     *)
(* back (restore_snapshot_selective_grant).                                 *)
PluginFails ==
    /\ plugin.at = "transfer"
    /\ Spend("losses")
    /\ LET v == done[plugin.q] IN
       \/ UNCHANGED grants
       \/ /\ v.paths # {}
          /\ grants' = grants \cup {[q |-> plugin.q, verdict |-> v, gens |-> None]}
    /\ plugin' = Away
    /\ UNCHANGED <<disk, session, prep, slot, deciding, replays, poll, inflight,
                   window, mail, observed>>

(* scanBecameDirty: Studio has changed under the scan or the question.      *)
PluginRestarts ==
    /\ plugin.at = "comparing" \/ (plugin.at = "waiting" /\ plugin.answer # None)
    /\ Spend("losses")
    /\ plugin' = Away
    /\ UNCHANGED <<disk, daemonVars, inflight, window, mail, observed>>

Plugin == PluginScans \/ PluginCompares \/ PluginTimesOut \/ PluginLosesPoll
          \/ PluginDecided \/ PluginStarts \/ PluginFails \/ PluginRestarts
          \/ \E k \in Polls : PluginPolls(k)

--------------------------------------------------------------------------------
(* A desktop window (views/overwrite.js).                                   *)

Posts(w, m) == /\ window' = [window EXCEPT ![w].at = "busy", ![w].call = m,
                                           ![w].answer = None]
               /\ mail' = mail \cup {m}

WindowOpens(w) ==
    /\ window[w].at = "closed" /\ slot # None /\ slot.choice = None
    /\ window' = [window EXCEPT ![w].at = "open", ![w].q = slot.q]
    /\ UNCHANGED <<mail, told, budget>>

Full(w, choice) == [from |-> w, kind |-> "full", q |-> window[w].q,
                    choice |-> choice, sub |-> 0, chunk |-> 0, try |-> 1]
SubmitFullChoice(w, choice) ==
    /\ window[w].at = "open"
    /\ Spend("submits")
    /\ Posts(w, Full(w, choice))
    /\ UNCHANGED told

SubmitSelected(w) ==
    /\ window[w].at = "open"
    /\ Spend("submits")
    /\ Posts(w, [Full(w, "disk") EXCEPT !.kind = "chunk",
                                        !.sub = MaxSubmits - budget.submits + 1])
    /\ UNCHANGED told

Meant(m) == [choice |-> m.choice,
             paths |-> IF m.kind = "full" THEN {} ELSE {<<m.sub, c>> : c \in Chunks}]

(* It is told that it is done, and closes, or goes on with the next chunk.  *)
WindowAnswered(w) ==
    LET m == window[w].call IN
    /\ window[w].at = "busy" /\ window[w].answer = "ok"
    /\ IF m.kind = "full" \/ m.chunk = Last
       THEN /\ told' = told \cup {<<m.q, Meant(m)>>}
            /\ window' = [window EXCEPT ![w].at = "closed", ![w].call = None,
                                        ![w].answer = None]
            /\ UNCHANGED mail
       ELSE Posts(w, [m EXCEPT !.chunk = @ + 1, !.try = 1]) /\ UNCHANGED told
    /\ UNCHANGED budget

(* postSelectionChunk tries three times, then abortSelection; a full choice *)
(* is left to the user.                                                     *)
GivesIn(w) ==
    LET m == window[w].call IN
    IF m.kind = "chunk" /\ m.try < 3 THEN Posts(w, [m EXCEPT !.try = @ + 1])
    ELSE /\ window' = [window EXCEPT ![w].at = "open", ![w].call = None,
                                     ![w].answer = None]
         /\ mail' = IF m.kind = "full" THEN mail
                    ELSE mail \cup {[m EXCEPT !.kind = "abort", !.chunk = 0, !.try = 1]}

WindowRefused(w) ==
    /\ window[w].at = "busy"
    /\ \/ window[w].answer = "error" /\ UNCHANGED budget
       \/ window[w].answer = None /\ GivesUp(/\ window[w].call \notin mail
                                             /\ \A d \in deciding : d.m # window[w].call)
    /\ GivesIn(w)
    /\ UNCHANGED told

(* initial-choice-made, or the user closes it.                              *)
WindowCloses(w) ==
    /\ window[w].at = "open" /\ ~(Asked(window[w].q) /\ slot.choice = None)
    /\ window' = [window EXCEPT ![w].at = "closed"]
    /\ UNCHANGED <<mail, told, budget>>

Window(w) ==
    /\ \/ WindowOpens(w) \/ SubmitSelected(w) \/ WindowAnswered(w)
       \/ WindowRefused(w) \/ WindowCloses(w)
       \/ \E choice \in Choices : SubmitFullChoice(w, choice)
    /\ UNCHANGED <<disk, daemonVars, plugin, inflight, verdict, done, compared, synced>>

--------------------------------------------------------------------------------
Next ==
    \/ \E s \in Services : Edit(s)
    \/ \E r \in inflight : Receive(r)
    \/ \E m \in mail : Handle(m)
    \/ \E d \in deciding : Revalidate(d) \/ ChooseStudio(d)
    \/ \E k \in Polls : InitialDecision(k)
    \/ \E w \in Windows : Window(w)
    \/ PrepareReads \/ Plugin \/ Expire \/ Crash \/ Lose

Spec == Init /\ [][Next]_vars

(* The daemon's handlers and threads run, and the plugin's calls have       *)
(* deadlines.  Nobody has to answer the question.                           *)
Fairness ==
    /\ WF_vars(\E r \in inflight : Receive(r)) /\ WF_vars(PrepareReads)
    /\ \A k \in Polls : WF_vars(InitialDecision(k)) /\ WF_vars(PluginPolls(k))
    /\ WF_vars(PluginCompares) /\ WF_vars(PluginDecided) /\ WF_vars(PluginStarts)
    /\ WF_vars(PluginTimesOut) /\ WF_vars(PluginLosesPoll)

FairSpec == Spec /\ Fairness

--------------------------------------------------------------------------------
PhaseNames == {Phases[i] : i \in 1..4}
CallOf(q)  == [q : {q}, service : 0..N, phase : {"stats"} \cup PhaseNames, try : {1, 2}]
Calls      == UNION {CallOf(q) : q \in Questions}
MailOf(w)  == [from : {w}, kind : {"full", "chunk", "abort"}, q : Questions,
               choice : Choices, sub : 0..MaxSubmits, chunk : Chunks, try : 1..3]
Mail       == UNION {MailOf(w) : w \in Windows}
GenMaps    == [1..N -> 1..(MaxEdits + 1)]
Gens       == {g \in GenMaps : \A s \in Services : g[s] <= Gen(s)}
Says       == {"compare", "in-sync", "decide", "error"}
Verdict    == {v \in Verdicts : v.paths # {} => v.choice = "disk"}
Sessions   == [q : Questions, service : Services, phase : 1..4, gens : Seq(Nat),
               clean : BOOLEAN, over : BOOLEAN, says : Says \cup {None},
               last : (Services \X PhaseNames) \cup {None}]
Slots      == [q : Questions, choice : Choices \cup {None}, paths : Paths, gens : GenMaps,
               sub : Submissions \cup {None}, next : Chunks, got : Paths]

(* Something is compared, each budget is within its bound, and None is      *)
(* nothing else.                                                            *)
ASSUME ChoiceAssumption ==
    /\ N \in Nat \ {0} /\ MaxScans \in Nat /\ MaxEdits \in Nat /\ MaxSubmits \in Nat
    /\ Budgets \subseteq [scans : 0..MaxScans, edits : 0..MaxEdits, submits : 0..MaxSubmits,
                          losses : Nat, expiries : Nat, crashes : Nat]
    /\ None \notin Polls /\ None \notin Questions \cup Submissions
    /\ None \notin Choices \cup Says \cup {"ok"} /\ None \notin Verdicts
    /\ None \notin (0..N) \X ({"stats"} \cup PhaseNames)
    /\ None \notin Calls /\ None \notin Mail /\ None \notin Sessions /\ None \notin Slots

TypeOK ==
    /\ \A s \in Services : disk[s] \in Seq(BOOLEAN) /\ Gen(s) \in 1..(MaxEdits + 1)
    /\ session # None =>
          /\ session \in Sessions /\ session.q <= plugin.q
          /\ Len(session.gens) = session.service - (IF session.phase > 2 THEN 0 ELSE 1)
          /\ \A s \in 1..Len(session.gens) : session.gens[s] \in 1..Gen(s)
          /\ session.last # None => session.says \in Says
    /\ prep.at \in {"none", "reading", "ok", "failed"}
    /\ prep.at # "none" => session # None /\ session.phase = 2
    /\ slot # None => slot \in Slots /\ slot.gens \in Gens
    /\ \A d \in deciding : d.m \in Mail /\ d.gens \in Gens /\ d.at \in {"read", "fresh"}
    /\ \A g \in grants : g.q \in Questions /\ g.verdict \in Verdict /\ NeedsGrant(g.verdict)
    /\ replays \subseteq Submissions
    /\ \A k \in Polls : poll[k].at \in {"free", "waiting", "read", "granted"}
    /\ plugin.at \in {"idle", "comparing", "synced", "waiting", "starting", "transfer", "stopped"}
    /\ inflight \subseteq Calls /\ mail \subseteq Mail
    /\ \A w \in Windows : window[w].at \in {"closed", "open", "busy"}

(* One question at a time, decided once, and carried out as decided, at     *)
(* most once: across two reads of the slot and the grants made between      *)
(* them, polls the plugin gave up on, comparisons that replace a question,  *)
(* and a daemon that starts again.                                          *)
Abstract == INSTANCE Decision WITH
    open <- IF slot = None THEN None ELSE slot.q, Verdicts <- Verdict
DecisionSpec == Abstract!Spec

(* A window that was told that its choice is made made it: no retry, no     *)
(* choice of another window, no replaced question is taken for it.          *)
ToldIsTrue == \A t \in told : verdict[t[1]] = t[2]

(* A selection is acted on whole, and never with chunks of another one.     *)
SelectionIsWhole ==
    \A q \in Questions : verdict[q] # None /\ verdict[q].paths # {} =>
        \E sub \in Submissions : verdict[q].paths = {sub} \X Chunks

(* Studio overwrites only the disk the user was asked about: when the push  *)
(* starts, every service still is the tree that was compared.               *)
PushIsFenced ==
    [][\A q \in Questions :
         done'[q] # done[q] /\ done'[q].choice = "studio" => compared[q] = Now]_vars

(* What an in-sync answer records as agreed was the same on both sides.     *)
InSyncIsTrue == synced # None => \A s \in Services : disk[s][synced[s]]

(* A decision reaches the plugin, whatever polls were lost before.          *)
DecisionLands ==
    \A q \in Questions :
        verdict[q] # None /\ plugin.at = "waiting" /\ plugin.q = q
            ~> ~(plugin.at = "waiting" /\ plugin.q = q)
================================================================================
