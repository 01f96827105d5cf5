----------------------------- MODULE MCSourceSync -----------------------------
(* Settings of SourceSync for TLC: two where threads take turns and edits  *)
(* do not cross events; one where they may cross, without resolutions; one *)
(* where every race of the code is open, without resolutions; and two with *)
(* a resolution and all races but one.                                     *)
EXTENDS SourceSync

Setting(races, saves, typed, choices) ==
    [races |-> races, saves |-> saves, typed |-> typed, choices |-> choices]

AllSettings == {Setting({}, 3, 2, 1), Setting({}, 2, 2, 2),
                Setting({"crossing"}, 3, 2, 0), Setting(RaceNames, 2, 1, 0),
                Setting(RaceNames \ {"overlap"}, 2, 1, 1),
                Setting(RaceNames \ {"crossing"}, 2, 1, 1)}

(* The shortest disagreements: one save and one edit that cross, and two   *)
(* saves that nobody answers but the plugin.                               *)
OneCrossing == {Setting({"crossing"}, 1, 1, 0)}
TwoSaves    == {Setting({}, 2, 0, 0)}
=============================================================================
