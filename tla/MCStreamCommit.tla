---------------------------- MODULE MCStreamCommit ----------------------------
(* What writes the project's files: a streamed push, the single operations  *)
(* on a tree, and the user's edits of the tree in Studio that become such   *)
(* operations; and the link that all of them go over.  A behaviour is one   *)
(* of `part`, and the others stay in an initial state.                      *)
(*                                                                          *)
(* The push has two settings: "crashes", where the daemon may crash, and    *)
(* "aborts", where the plugin may give up instead, no phase takes long, and *)
(* where it does give up there is an edit or a fault, not both.  The        *)
(* operations have two as well, each with a script in a file and one in a   *)
(* directory: two operations in a row, with two faults or with an edit and  *)
(* a fault, and one under two edits.  So have the edits: three in a row of  *)
(* scripts whose siblings differ in name, and two where they need not.      *)
(*                                                                          *)
(* The link of the plugin has seven budgets: two of an edit in Studio, a    *)
(* save and a fault; the user connects, cancels and connects again; a       *)
(* daemon starts again under that, or under a save; and requests under way  *)
(* at a cancel are answered late.                                           *)
EXTENDS StreamCommit, ProjectTrees, OwnedLink

VARIABLES
    part,
    \* LiveEdits
    tree, cache, typing, deferred, queue, files, echo, connected, lost, steps

treeVars == <<trees, base, parked, backup, handler, reported, before, touched,
    spent, vouched, waived, fresh, ops, strokes, errors>>

File == [dir |-> FALSE, files |-> [n \in {"self"} |-> 1]]
Directory == [dir |-> TRUE, files |-> [n \in {"old", "child"} |-> IF n = "old" THEN 1 ELSE 2]]

Crashed == INSTANCE StreamCommit WITH MaxAborts <- 0
Aborted == INSTANCE StreamCommit WITH MaxCrashes <- 0, MaxTicks <- 0

Busy == INSTANCE TreeOps WITH
    Start <- AtStart, MaxOps <- 1, MaxEdits <- 2, MaxFaults <- MaxErrors,
    None <- NoTree, disk <- trees, answer <- reported, edits <- strokes,
    faults <- errors

ASSUME TreesAreSane == Ops!TreesAssumption

(* Scripts a, b and c: a has b below it, and c is beside it; a and b are in *)
(* different services, and c is to be inserted; a and b have one name.      *)
Scripts == {"a", "b", "c"}
Laid(above, names, paths) ==
    [tree |-> [up |-> above, name |-> names, text |-> [i \in Scripts |-> CASE i = "a" -> 11 [] i = "b" -> 12 [] OTHER -> 13]],
     cache |-> paths]
Part(n, k, d) == [name |-> n, ordinal |-> k, dir |-> d]
Of(a, b, c) == [i \in Scripts |-> CASE i = "a" -> a [] i = "b" -> b [] OTHER -> c]
Nested == Laid(Of("s1", "a", "s1"), Of(1, 1, 2),
    Of(<<"s1", Part(1, 0, TRUE)>>, <<"s1", Part(1, 0, TRUE), Part(1, 0, FALSE)>>,
       <<"s1", Part(2, 0, FALSE)>>))
Apart == Laid(Of("s1", "s2", "nil"), Of(1, 2, 2),
    Of(<<"s1", Part(1, 0, FALSE)>>, <<"s2", Part(2, 0, FALSE)>>, None))
Alike == Laid(Of("s1", "s1", "s1"), Of(1, 1, 2),
    Of(<<"s1", Part(1, 0, FALSE)>>, <<"s1", Part(1, 1, FALSE)>>,
       <<"s1", Part(2, 0, FALSE)>>))

Distinct == INSTANCE LiveEdits WITH
    Services <- {"s1", "s2"}, Start <- {Nested, Apart}, Twins <- FALSE,
    Grafts <- FALSE, MaxSteps <- 3, Nil <- "nil", disk <- files, live <- connected

Twinned == INSTANCE LiveEdits WITH
    Services <- {"s1", "s2"}, Start <- {Nested, Alike}, Twins <- TRUE,
    Grafts <- FALSE, MaxSteps <- 2, Nil <- "nil", disk <- files, live <- connected

editVars == <<tree, cache, typing, deferred, queue, files, echo, connected, lost, steps>>

LinkBudget(daemons, edited, saves, failures, clicks, late) ==
    [daemons |-> daemons, strokes |-> edited, saves |-> saves,
     faults |-> failures, clicks |-> clicks, late |-> late]
Plain == LinkBudget(2, 1, 1, 0, 1, FALSE)

LinkSpans ==
    {Plain, LinkBudget(2, 1, 0, 1, 1, FALSE), LinkBudget(2, 0, 1, 1, 1, FALSE),
     LinkBudget(2, 0, 0, 0, 3, FALSE), LinkBudget(3, 0, 0, 0, 2, FALSE),
     LinkBudget(3, 0, 1, 0, 1, FALSE), LinkBudget(2, 1, 0, 0, 2, TRUE)}

ASSUME LinkIsSane == Link!LinkAssumption

linkVars == <<host, slots, diskEdits, studioEdits, unheard, link, ws, pending, outward,
    inward, attempts, timers, compares, restarts, loops, intended, left>>

PartsInit ==
    /\ Init /\ Ops!Init /\ Link!Init
    /\ \/ /\ part \in {"crashes", "aborts", "sequence", "busy", "link"} /\ Distinct!Init
          /\ tree = Nested.tree
          /\ part \in {"crashes", "aborts", "link"} => trees["src"] = File /\ vouched = {}
       \/ /\ trees["src"] = File /\ vouched = {}
          /\ \/ part = "distinct" /\ Distinct!Init
             \/ part = "twins" /\ Twinned!Init
    /\ part # "link" => left = Plain /\ diskEdits = [p \in Projects |-> {}]

PartsNext ==
    \/ part = "crashes" /\ Crashed!Next /\ UNCHANGED <<part, treeVars, editVars, linkVars>>
    \/ /\ part = "aborts" /\ Aborted!Next /\ (aborts' = 0 \/ faults' = 0 \/ edits' = 0)
       /\ UNCHANGED <<part, treeVars, editVars, linkVars>>
    \/ /\ part = "sequence" /\ Ops!Next /\ (strokes' = 0 \/ errors' < MaxErrors)
       /\ UNCHANGED <<part, vars, editVars, linkVars>>
    \/ part = "busy" /\ Busy!Next /\ UNCHANGED <<part, vars, editVars, linkVars>>
    \/ part = "distinct" /\ Distinct!Next /\ UNCHANGED <<part, vars, treeVars, linkVars>>
    \/ part = "twins" /\ Twinned!Next /\ UNCHANGED <<part, vars, treeVars, linkVars>>
    \/ part = "link" /\ Link!Next /\ UNCHANGED <<part, vars, treeVars, editVars>>

Parts == PartsInit /\ [][PartsNext]_<<part, vars, treeVars, editVars, linkVars>>

OnlySecond == {2}
Both == {1, 2}
First == {1}
Shapes == {File, Directory}

-------------------------------------------------------------------------------
(* What the user does to the tree in Studio arrives on the disk.            *)
EditsArrive == part \in {"distinct", "twins"} => Distinct!EditsArrive
===============================================================================
