---------------------------- MODULE SharedClipboard ----------------------------
(* The clipboard under names that leave the router's free, so that a module *)
(* can speak of both.                                                       *)

CONSTANTS
    Copies, Pastes, MaxQueue, MaxStrokes, MaxFaults, MaxCrashes, None

VARIABLES
    clip, held, commands, store, lane, dropped, handling, work, due, studio,
    placed, made, installs, budget

Clip == INSTANCE StudioClipboard WITH
    active <- handling, expired <- dropped

-------------------------------------------------------------------------------
(* Whoever dies or fails wherever, the clipboard is whole and readable, a   *)
(* paste places what one copy has serialized, or nothing, and is reported   *)
(* as what it is.                                                           *)
ClipboardHolds ==
    /\ Clip!ClipboardIsWhole /\ Clip!LoadIsOvertaken
    /\ Clip!PasteIsOneCopy /\ Clip!PasteIsTold /\ Clip!CopyIsFresh
===============================================================================
