---------------------------- MODULE OwnedPlaytest ----------------------------
(* The playtest of a command under names that leave those of the other      *)
(* parts free, so that a module can speak of both.                          *)

CONSTANTS
    Attempts, QueueMax, PollMax, Spares, NoPlay

VARIABLES
    keepOpen, cmd, waits, reply, inbox, job, tombstone, studio, script, stop,
    term, cancel, events, dropped, seq, printed, emitted, refused, spare

Play == INSTANCE PlaytestRun WITH
    Budgets <- Spares, None <- NoPlay, left <- spare

-------------------------------------------------------------------------------
(* A command that reports the end of a run it has not aborted has left no   *)
(* playtest behind; and every event is printed, in order, or counted as     *)
(* dropped.                                                                 *)
PlaytestIsTold == Play!NothingLeft /\ Play!EventsAccounted
===============================================================================
