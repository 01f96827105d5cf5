------------------------------ MODULE Generation ------------------------------
(***************************************************************************)
(* What a streamed push promises (docs/SYNC_INVARIANTS.md, Reconciliation):*)
(* the services of one generation are on the disk together or not at all,  *)
(* and whoever is told otherwise is told that recovery is required.        *)
(* StreamCommit implements it.                                             *)
(***************************************************************************)
CONSTANTS Streams, Services

VARIABLES
    outcome,     \* what became of each stream
    published    \* the services each settled stream has on the disk

Init == /\ outcome = [g \in Streams |-> "none"]
        /\ published = [g \in Streams |-> {}]

(* Whatever happens to one stream, one that has settled before may lose a   *)
(* service to it and never gains one.                                       *)
Settle(gs, how) ==
    /\ \A g \in gs : outcome[g] = "none"
    /\ outcome' = [g \in Streams |-> IF g \in gs THEN how ELSE outcome[g]]
    /\ published' \in [Streams -> SUBSET Services]
    /\ \A g \in Streams \ gs : published'[g] \subseteq published[g]

Publish(g) == Settle({g}, "complete") /\ published'[g] = Services
Discard(g) == Settle({g}, "failed") /\ published'[g] = {}
Break(g)   == Settle({g}, "partial")
Crash      == \E gs \in SUBSET Streams : Settle(gs, "crashed")

Next == Crash \/ \E g \in Streams : Publish(g) \/ Discard(g) \/ Break(g)

Spec == Init /\ [][Next]_<<outcome, published>>
===============================================================================
