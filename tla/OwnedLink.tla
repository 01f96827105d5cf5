------------------------------- MODULE OwnedLink -------------------------------
(* The plugin's link under names that leave those of the other parts free,  *)
(* so that a module can speak of both.                                      *)

CONSTANTS
    Urls, Projects, Spans, NoLink

VARIABLES
    host, slots, diskEdits, studioEdits, unheard, link, ws, pending, outward,
    inward, attempts, timers, compares, restarts, loops, intended, left

Link == INSTANCE PluginLink WITH
    Budgets <- Spans, None <- NoLink, disk <- diskEdits, studio <- studioEdits,
    held <- slots, outbox <- outward, inbox <- inward

-------------------------------------------------------------------------------
(* While the plugin is live nothing falls between its comparison, its hooks *)
(* and its socket, only the daemon it was compared with is live, and it     *)
(* never waits for nothing.                                                 *)
LinkHolds ==
    Link!TypeOK /\ Link!LinkAgrees /\ Link!LiveIsCompared /\ Link!SomeoneGoesOn
===============================================================================
