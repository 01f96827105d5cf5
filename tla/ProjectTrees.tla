----------------------------- MODULE ProjectTrees -----------------------------
(* The operations on a tree under names that neither a streamed push nor    *)
(* the two sides of a text have, so that a module can speak of both.        *)

CONSTANTS AtStart, LateEdits, MaxOps, MaxStrokes, MaxErrors, NoTree

VARIABLES
    trees, base, parked, backup, handler, reported, before, touched, spent,
    vouched, waived, fresh, ops, strokes, errors

Ops == INSTANCE TreeOps WITH
    Start <- AtStart, MaxEdits <- MaxStrokes, MaxFaults <- MaxErrors,
    None <- NoTree, disk <- trees, answer <- reported, edits <- strokes,
    faults <- errors

-------------------------------------------------------------------------------
(* No operation on a tree takes anything of the user's that Studio does not *)
(* have, and what it answers is so.                                         *)
TreeIsKept == Ops!UserKept /\ Ops!ReportIsTrue
===============================================================================
