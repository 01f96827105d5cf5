------------------------------- MODULE TreeOps --------------------------------
(***************************************************************************)
(* The structural operations of Studio on the disk: a script, a file or a  *)
(* directory with an init file and a child, is renamed (a move is one into *)
(* another directory), deleted, turned from a file into a directory or     *)
(* back, replaced by force, or put back after the user has renamed it.     *)
(* Modelled from daemon/src/http_apply.rs.                                 *)
(*                                                                         *)
(* Each is a sequence of system calls without a lock, and an editor works  *)
(* on the same files.  A tree is followed at two places, the `src` of the  *)
(* operation and its `dst`.  A content is the number of the write that     *)
(* made it, so that it is the generation of its file too.                  *)
(***************************************************************************)
EXTENDS Naturals, FiniteSets

CONSTANTS
    Start,        \* the trees the project starts with
    LateEdits,    \* may an editor hit between a check and the call it is for?
    MaxOps, MaxEdits, MaxFaults,  \* bounds
    None

VARIABLES
    disk,      \* the tree at each place, or None
    base,      \* the conflict engine: the content of each path both sides have
    parked,    \* parked conflicts: a deletion, a divergent text, a renaming
    backup,    \* contents in .rosync-backups
    handler,   \* the operation that is carried out
    answer,    \* how the last one ended
    \* observation and bounds
    before,    \* the disk when it began
    touched,   \* an editor has been at work since
    spent,     \* the faults it has met
    vouched,   \* contents that were a baseline at some time
    waived,    \* contents the user has given up
    fresh, ops, edits, faults

vars == <<disk, base, parked, backup, handler, answer, before, touched, spent,
          vouched, waived, fresh, ops, edits, faults>>

Places == {"src", "dst"}
Inits  == {"old", "new"}                 \* names of the init file
Temps  == {"temp 1", "temp 2"}           \* .rosync-init-rename-N.tmp
Names  == Inits \cup Temps \cup {"child", "self"}
Paths  == Places \X Names

Empty == [n \in {} |-> 0]
Leaf(c) == [dir |-> FALSE, files |-> [n \in {"self"} |-> c]]
Dir(f)  == [dir |-> TRUE, files |-> f]
Held(t) == IF t = None THEN {} ELSE {t.files[n] : n \in DOMAIN t.files}
Has(t, n) == t # None /\ n \in DOMAIN t.files
With(t, n, c) == [t EXCEPT !.files = [m \in DOMAIN t.files \cup {n} |-> IF m = n THEN c ELSE t.files[m]]]
Without(t, n) == [t EXCEPT !.files = [m \in DOMAIN t.files \ {n} |-> t.files[m]]]
Renamed(t, a, b) == With(Without(t, a), b, t.files[a])
InitsOf(t) == IF t = None THEN {} ELSE Inits \cap DOMAIN t.files

Missing(t, n) == ~Has(t, n)

(* The script of a tree, which a restored renaming overwrites.             *)
Script(t) == IF t = None THEN {} ELSE {t.files[n] : n \in {"old", "self"} \cap DOMAIN t.files}

(* What the proofs assume of the trees at the start: each is a file or a    *)
(* directory, and its contents are numbered.                               *)
Shapes == {{"self"}} \cup SUBSET (Names \ {"self"})
TreesOver(S) == [dir : {S # {"self"}}, files : [S -> Nat \ {0}]]
Trees == UNION {TreesOver(S) : S \in Shapes}
TreesAssumption ==
    /\ \A S \in Shapes : None \notin TreesOver(S)
    /\ \A t \in Start : /\ \E S \in Shapes : t \in TreesOver(S)
                        /\ Held(t) = 1..Cardinality(Held(t))

Idle == [op |-> "none", at |-> "idle", dir |-> FALSE, script |-> FALSE, plan |-> FALSE,
         fence |-> None, fenced |-> FALSE, todo |-> {}, temp |-> "none", stage |-> "old",
         text |-> 0]

Init ==
    /\ disk \in {[p \in Places |-> IF p = "src" THEN t ELSE None] : t \in Start}
    /\ vouched \in SUBSET Held(disk["src"])
    /\ base = [q \in Paths |->
                 IF q[1] = "src" /\ Has(disk["src"], q[2]) /\ disk["src"].files[q[2]] \in vouched
                 THEN disk["src"].files[q[2]] ELSE 0]
    /\ parked = {} /\ backup = {} /\ handler = Idle /\ answer = None
    /\ before = disk /\ touched = FALSE /\ spent = 0 /\ waived = {}
    /\ fresh = 1 + Cardinality(Held(disk["src"]))
    /\ ops = 0 /\ edits = 0 /\ faults = 0

-------------------------------------------------------------------------------
At(op, place) == handler.op \in op /\ handler.at = place
Go(place)     == handler' = [handler EXCEPT !.at = place] /\ UNCHANGED answer
Ends(result)  == handler' = Idle /\ answer' = [op |-> handler.op, result |-> result]

rest    == <<before, touched, waived, fresh, ops, edits>>
NoFault == UNCHANGED <<spent, faults>>
Fault   == faults < MaxFaults /\ faults' = faults + 1 /\ spent' = spent + 1
(* What a call may do that ought to succeed: nothing, if it is to fail.    *)
Fails(cause) == Fault \/ (cause /\ NoFault)

Looks  == UNCHANGED <<disk, base, parked, backup, vouched, rest>>
Writes == UNCHANGED <<base, parked, backup, vouched, rest>>

(* forget_path and record_sync                                             *)
Forget(p) ==
    /\ base' = [q \in Paths |-> IF q[1] = p THEN 0 ELSE base[q]]
    /\ parked' = parked \ {"delete", "update"}
Record(p, names, c) ==
    /\ base' = [q \in Paths |-> IF q[1] = p /\ q[2] \in names THEN c[q[2]] ELSE base[q]]
    /\ vouched' = vouched \cup {c[n] : n \in names}

(* An operation arrives: from the plugin, or from the user who resolves a   *)
(* conflict and gives up what is there.  Its text is not the user's.       *)
Ops == {"rename", "delete", "transition", "replace", "remove", "restore"}

Arrives ==
    /\ handler.at = "idle" /\ ops < MaxOps /\ ops' = ops + 1
    /\ \E op \in Ops, d \in BOOLEAN :
         /\ op = "remove" => "delete" \in parked
         /\ op = "restore" => "rename" \in parked
         /\ d => op \in {"transition", "replace"}
         /\ handler' = [Idle EXCEPT !.op = op, !.dir = d, !.text = fresh,
                          !.at = IF op = "remove" THEN "fence" ELSE "check"]
         /\ waived' = waived \cup {fresh} \cup
                         (CASE op = "remove"  -> Held(disk["src"])
                            [] op = "restore" -> Script(disk["dst"])
                            [] OTHER          -> {})
         /\ parked' = parked \ (CASE op = "remove"  -> {"delete"}
                                  [] op = "restore" -> {"rename"}
                                  [] OTHER          -> {})
    /\ fresh' = fresh + 1 /\ before' = disk /\ touched' = FALSE /\ spent' = 0
    /\ answer' = None
    /\ UNCHANGED <<disk, base, backup, vouched, edits, faults>>

-------------------------------------------------------------------------------
(* rename, and move: apply_rename_target, rename_path_and_init             *)

CheckRename ==
    /\ At({"rename"}, "check") /\ Looks
    /\ \/ Fault /\ Ends("refused")
       \/ /\ NoFault
          /\ \/ disk["src"] = None /\ Ends("nothing")
             \/ /\ disk["src"] # None
                /\ disk["dst"] # None \/ Cardinality(InitsOf(disk["src"])) > 1
                /\ Ends("refused")
             \/ /\ disk["src"] # None /\ disk["dst"] = None
                /\ Cardinality(InitsOf(disk["src"])) <= 1
                /\ handler' = [handler EXCEPT !.at = "capture",
                                 !.script = InitsOf(disk["src"]) # {}]
                /\ UNCHANGED answer

(* capture_synced_subtree: the fence of the operation.                     *)
CaptureRename ==
    /\ At({"rename"}, "capture") /\ Looks
    /\ \/ Fails(disk["src"] = None) /\ Ends("refused")
       \/ /\ disk["src"] # None /\ NoFault
          /\ handler' = [handler EXCEPT !.at = "plan", !.fence = disk["src"]]
          /\ UNCHANGED answer

(* prepare_init_rename and init_rename_temp_path                           *)
PlanRename ==
    /\ At({"rename"}, "plan") /\ Looks
    /\ LET inits == InitsOf(disk["src"])
           lost == handler.script /\ (disk["src"] = None \/ Cardinality(inits) # 1)
           free == {n \in Temps : Missing(disk["src"], n)}
       IN  \/ Fails(lost \/ free = {}) /\ Ends("refused")
           \/ /\ ~lost /\ NoFault
              /\ \E n \in free :
                   handler' = [handler EXCEPT !.at = "outer", !.temp = n,
                                 !.plan = handler.script /\ inits = {"old"}]
              /\ UNCHANGED answer

(* rename(2) of the tree at p to q: a file takes the place of a file, and   *)
(* a directory that of an empty one.                                       *)
CanMove(p, q) ==
    /\ disk[p] # None
    /\ disk[q] # None => disk[p].dir = disk[q].dir /\ (disk[q].dir => disk[q].files = Empty)
Move(p, q) == disk' = [disk EXCEPT ![q] = disk[p], ![p] = None]

Outer ==
    /\ At({"rename"}, "outer")
    /\ \/ Fails(~CanMove("src", "dst")) /\ Looks /\ Ends("refused")
       \/ CanMove("src", "dst") /\ NoFault /\ Move("src", "dst") /\ Writes /\ Go("moved")

RollBack(stage) ==
    handler' = [handler EXCEPT !.at = "undo", !.stage = stage] /\ UNCHANGED answer

(* relocated_subtree_matches and the guards of the parents                 *)
VerifyMoved ==
    /\ At({"rename"}, "moved") /\ Looks
    /\ \/ Fails(disk["dst"] # handler.fence) /\ RollBack("old")
       \/ /\ disk["dst"] = handler.fence /\ NoFault
          /\ Go(IF handler.plan THEN "aside" ELSE "forget")

(* The init file goes aside before its new name is looked at, for a file    *)
(* system where both names are one.                                        *)
MoveInit(from, to) == disk' = [disk EXCEPT !["dst"] = Renamed(disk["dst"], from, to)]

InitAside ==
    /\ At({"rename"}, "aside")
    /\ \/ Fails(Missing(disk["dst"], "old")) /\ Looks /\ RollBack("old")
       \/ /\ Has(disk["dst"], "old") /\ NoFault
          /\ MoveInit("old", handler.temp) /\ Writes /\ Go("look")

(* A mutant: an init file that is there is not looked for.                  *)
InitUnlooked == At({"rename"}, "look") /\ Looks /\ NoFault /\ Go("final")

InitDestination ==
    /\ At({"rename"}, "look") /\ Looks
    /\ \/ Fails(Has(disk["dst"], "new")) /\ RollBack(handler.temp)
       \/ Missing(disk["dst"], "new") /\ NoFault /\ Go("final")

InitFinal ==
    /\ At({"rename"}, "final")
    /\ \/ Fails(Missing(disk["dst"], handler.temp)) /\ Looks /\ RollBack(handler.temp)
       \/ /\ Has(disk["dst"], handler.temp) /\ NoFault
          /\ MoveInit(handler.temp, "new") /\ Writes /\ Go("verify")

(* A mutant: the stage of the roll-back is that of the step before.         *)
FinalStale ==
    /\ At({"rename"}, "verify") /\ Looks
    /\ \/ Fails(disk["dst"] = None) /\ RollBack(handler.temp)
       \/ disk["dst"] # None /\ NoFault /\ Go("forget")

FinalVerify ==
    /\ At({"rename"}, "verify") /\ Looks
    /\ \/ Fails(disk["dst"] = None) /\ RollBack("new")
       \/ disk["dst"] # None /\ NoFault /\ Go("forget")

(* rollback_renamed_path_and_init: the init file, then the tree, and each   *)
(* only if everything else is as it was.                                   *)
Staged(stage) ==
    IF stage = "old" THEN handler.fence ELSE Renamed(handler.fence, "old", stage)
Unchanged(stage) == disk["src"] = None /\ disk["dst"] = Staged(stage)

UndoVerify ==
    /\ At({"rename"}, "undo") /\ Looks
    /\ \/ Fails(~Unchanged(handler.stage)) /\ Ends("left")
       \/ /\ Unchanged(handler.stage) /\ NoFault
          /\ Go(IF handler.stage = "old" THEN "again" ELSE "init")

UndoInit ==
    /\ At({"rename"}, "init")
    /\ LET lost == Missing(disk["dst"], handler.stage) \/ Has(disk["dst"], "old")
       IN  \/ Fails(lost) /\ Looks /\ Ends("left")
           \/ ~lost /\ NoFault /\ MoveInit(handler.stage, "old") /\ Writes /\ Go("again")

UndoVerifyAgain ==
    /\ At({"rename"}, "again") /\ Looks
    /\ \/ Fails(~Unchanged("old")) /\ Ends("left")
       \/ Unchanged("old") /\ NoFault /\ Go("back")

UndoOuter ==
    /\ At({"rename"}, "back")
    /\ \/ Fails(~CanMove("dst", "src")) /\ Looks /\ Ends("left")
       \/ CanMove("dst", "src") /\ NoFault /\ Move("dst", "src") /\ Writes /\ Go("undone")

UndoChecked ==
    /\ At({"rename"}, "undone") /\ Looks
    /\ \/ Fails(disk["src"] # handler.fence) /\ Ends("left")
       \/ disk["src"] = handler.fence /\ NoFault /\ Ends("restored")

(* The baselines go with the tree: what the disk has is taken for what      *)
(* Studio has.                                                             *)
Rebase ==
    /\ At({"rename"}, "forget") /\ NoFault
    /\ Forget("src") /\ Go("seed") /\ UNCHANGED <<disk, backup, vouched, rest>>

Seed ==
    /\ At({"rename"}, "seed")
    /\ \/ Fails(disk["dst"] = None) /\ Looks /\ Ends("late")
       \/ /\ disk["dst"] # None /\ NoFault /\ Ends("applied")
          /\ Record("dst", DOMAIN disk["dst"].files, disk["dst"].files)
          /\ UNCHANGED <<disk, parked, backup, rest>>

-------------------------------------------------------------------------------
(* What a removal, a deletion, a change of representation and a forced      *)
(* replacement have in common                                              *)

CheckDelete ==
    /\ At({"delete"}, "check") /\ Looks
    /\ \/ Fault /\ Ends("refused")
       \/ /\ NoFault
          /\ IF Held(disk["src"]) = {} THEN Ends("nothing") ELSE Go("match")

(* apply_exact_set with fromDiskPath                                       *)
CheckTransition ==
    /\ At({"transition"}, "check") /\ Looks
    /\ LET src == disk["src"]
           dst == disk["dst"]
           replay == src = None /\ dst # None /\ dst.dir = handler.dir
           clean == /\ src # None /\ dst = None /\ src.dir # handler.dir
                    /\ src.dir => InitsOf(src) = {"old"}
       IN  \/ Fails(~replay /\ ~clean) /\ Ends("refused")
           \/ replay /\ NoFault /\ Go("write")
           \/ clean /\ NoFault /\ Go("match")

(* apply_set_in_dir in a forced push: a fragment that is not what Studio    *)
(* has there is backed up and removed.                                     *)
CheckReplace ==
    /\ At({"replace"}, "check") /\ Looks
    /\ \/ Fault /\ Ends("refused")
       \/ disk["src"] = None /\ NoFault /\ Go("write")
       \/ disk["src"] # None /\ disk["src"].dir # handler.dir /\ NoFault /\ Go("backup")
       \/ disk["src"] # None /\ disk["src"].dir = handler.dir /\ NoFault /\ Ends("updated")

(* path_tree_matches_baselines: a script Studio does not know is not        *)
(* deleted behind the user's back, a conflict is parked.                   *)
Matches == disk["src"] # None /\ \A n \in DOMAIN disk["src"].files :
               disk["src"].files[n] = base[<<"src", n>>]

(* A mutant: what Studio does not know is deleted too.                      *)
MatchNothing ==
    /\ At({"delete", "transition"}, "match") /\ NoFault /\ Looks
    /\ Go(IF handler.op = "delete" THEN "fence" ELSE "write")

MatchBaselines ==
    /\ At({"delete", "transition"}, "match")
    /\ \/ Fault /\ Looks /\ Ends("refused")
       \/ Matches /\ NoFault /\ Looks /\ Go(IF handler.op = "delete" THEN "fence" ELSE "write")
       \/ /\ ~Matches /\ NoFault /\ Ends("conflict")
          /\ parked' = parked \cup {IF handler.op = "transition" /\ disk["src"] # None
                                       /\ ~disk["src"].dir THEN "update" ELSE "delete"}
          /\ UNCHANGED <<disk, base, backup, vouched, rest>>

(* backup_forced_removal: captured, copied file by file, captured again.    *)
BackupCapture ==
    /\ At({"replace"}, "backup") /\ Looks
    /\ \/ Fails(disk["src"] = None) /\ Ends("refused")
       \/ /\ disk["src"] # None /\ NoFault
          /\ handler' = [handler EXCEPT !.at = "copy", !.fence = disk["src"],
                           !.todo = DOMAIN disk["src"].files]
          /\ UNCHANGED answer

BackupCopy ==
    /\ At({"replace"}, "copy") /\ handler.todo # {}
    /\ \E n \in handler.todo :
         LET same == Has(disk["src"], n) /\ disk["src"].files[n] = handler.fence.files[n]
         IN  \/ Fails(~same) /\ Looks /\ Ends("refused")
             \/ /\ same /\ NoFault
                /\ backup' = backup \cup {disk["src"].files[n]}
                /\ handler' = [handler EXCEPT !.todo = handler.todo \ {n}]
                /\ UNCHANGED <<answer, disk, base, parked, vouched, rest>>

BackupVerify ==
    /\ At({"replace"}, "copy") /\ handler.todo = {} /\ Looks
    /\ \/ Fails(disk["src"] # handler.fence) /\ Ends("refused")
       \/ /\ disk["src"] = handler.fence /\ NoFault
          /\ handler' = [handler EXCEPT !.at = "fence", !.fenced = TRUE]
          /\ UNCHANGED answer

(* remove_synced_subtree: what is removed is captured first, and must be    *)
(* what the backup has, if there is one.                                   *)
Removing == {"delete", "transition", "replace", "remove"}
Removed == Go(IF handler.op = "replace" THEN "write" ELSE "gone")
(* An error after the first change: the conflict is parked again, if it was *)
(* one that was resolved.                                                  *)
Stops(result) ==
    /\ Ends(result)
    /\ parked' = IF handler.op = "remove" THEN parked \cup {"delete"} ELSE parked
    /\ UNCHANGED <<disk, base, backup, vouched, rest>>

(* A mutant: the backup is not compared with what is removed.               *)
RemovalUnfenced ==
    /\ At(Removing, "fence") /\ Looks /\ NoFault
    /\ \/ disk["src"] = None /\ Removed
       \/ /\ disk["src"] # None
          /\ handler' = [handler EXCEPT !.at = "entries", !.fence = disk["src"],
                           !.todo = DOMAIN disk["src"].files]
          /\ UNCHANGED answer

RemovalFence ==
    /\ At(Removing, "fence")
    /\ LET other == handler.fenced /\ disk["src"] # handler.fence /\ disk["src"] # None
       IN  \/ Fails(other) /\ Stops(IF handler.op = "transition" THEN "partial" ELSE "refused")
           \/ disk["src"] = None /\ NoFault /\ Looks /\ Removed
           \/ /\ disk["src"] # None /\ ~other /\ NoFault /\ Looks
              /\ handler' = [handler EXCEPT !.at = "entries", !.fence = disk["src"],
                               !.todo = DOMAIN disk["src"].files]
              /\ UNCHANGED answer

(* A mutant: files go without a second look.                                *)
RemoveBlindly ==
    /\ At(Removing, "entries") /\ handler.todo # {} /\ NoFault /\ Writes
    /\ IF disk["src"] # None /\ disk["src"].dir
       THEN \E n \in handler.todo :
              /\ disk' = [disk EXCEPT !["src"] = IF Has(disk["src"], n)
                            THEN Without(disk["src"], n) ELSE disk["src"]]
              /\ handler' = [handler EXCEPT !.todo = handler.todo \ {n}]
              /\ UNCHANGED answer
       ELSE disk' = [disk EXCEPT !["src"] = None] /\ Removed

RemoveFile ==
    /\ At(Removing, "entries") /\ handler.todo # {}
    /\ \E n \in handler.todo :
         LET same == Has(disk["src"], n) /\ disk["src"].files[n] = handler.fence.files[n]
         IN  \/ Fails(~same) /\ Stops("partial")
             \/ /\ same /\ NoFault /\ Writes
                /\ IF disk["src"].dir
                   THEN /\ disk' = [disk EXCEPT !["src"] = Without(disk["src"], n)]
                        /\ handler' = [handler EXCEPT !.todo = handler.todo \ {n}]
                        /\ UNCHANGED answer
                   ELSE disk' = [disk EXCEPT !["src"] = None] /\ Removed

RemoveDirectory ==
    /\ At(Removing, "entries") /\ handler.todo = {}
    /\ LET empty == disk["src"] # None /\ disk["src"].dir /\ disk["src"].files = Empty
       IN  \/ Fails(~empty) /\ Stops("partial")
           \/ empty /\ NoFault /\ disk' = [disk EXCEPT !["src"] = None] /\ Writes /\ Removed

ForgetRemoved ==
    /\ At({"delete", "transition", "remove"}, "gone") /\ NoFault
    /\ Forget("src") /\ Ends("applied") /\ UNCHANGED <<disk, backup, vouched, rest>>

-------------------------------------------------------------------------------
(* apply_set_in_dir: Studio's tree is written, a file at a time             *)

Target == IF handler.op = "replace" THEN "src" ELSE "dst"
Wanted == IF handler.dir THEN <<"old", "child">> ELSE <<"self">>

WriteDirectory ==
    /\ At({"transition", "replace"}, "write")
    /\ LET t == disk[Target]
           shut == t # None /\ t.dir # handler.dir
       IN  \/ Fails(shut) /\ Looks /\ Ends("partial")
           \/ /\ ~shut /\ NoFault
              /\ disk' = IF handler.dir /\ t = None THEN [disk EXCEPT ![Target] = Dir(Empty)] ELSE disk
              /\ Writes
              /\ handler' = [handler EXCEPT !.at = "files", !.todo = {Wanted[i] : i \in DOMAIN Wanted}]
              /\ UNCHANGED answer

(* apply_source_bytes: what differs from its baseline is not overwritten,   *)
(* except by force.  The conflict of an init file or of a leaf ends the    *)
(* operation; that of a child is parked, and the rest is written.          *)
First == CHOOSE n \in handler.todo : n = "child" => handler.todo = {"child"}

WriteFile ==
    /\ At({"transition", "replace"}, "files") /\ handler.todo # {}
    /\ LET t == disk[Target]
           n == First
           shut == IF handler.dir THEN t = None \/ ~t.dir ELSE t # None /\ t.dir
           clash == /\ handler.op = "transition" /\ Has(t, n)
                    /\ t.files[n] # base[<<Target, n>>]
           text == [m \in {n} |-> handler.text]
       IN  \/ Fails(shut) /\ Looks /\ Ends("partial")
           \/ /\ ~shut /\ clash /\ NoFault
              /\ parked' = parked \cup {"update"}
              /\ IF n = "child"
                 THEN handler' = [handler EXCEPT !.todo = {}] /\ UNCHANGED answer
                 ELSE Ends("conflict")
              /\ UNCHANGED <<disk, base, backup, vouched, rest>>
           \/ /\ ~shut /\ ~clash /\ NoFault
              /\ disk' = [disk EXCEPT ![Target] = IF handler.dir THEN With(t, n, handler.text)
                                                  ELSE Leaf(handler.text)]
              /\ Record(Target, {n}, text)
              /\ handler' = [handler EXCEPT !.todo = handler.todo \ {n}]
              /\ UNCHANGED <<answer, parked, backup, rest>>

(* The old representation goes once the new one is there.                  *)
Written ==
    /\ At({"transition", "replace"}, "files") /\ handler.todo = {} /\ NoFault /\ Looks
    /\ IF handler.op = "transition" /\ before["src"] # None THEN Go("fence") ELSE Ends("applied")

-------------------------------------------------------------------------------
(* restore_fs_rename_transactional: the user has renamed a script Studio    *)
(* has changed, and keeps what Studio has.                                 *)

Reparked(result) ==
    /\ Ends(result)
    /\ parked' = parked \cup {IF disk["src"] # None /\ disk["dst"] = None THEN "update" ELSE "rename"}
    /\ UNCHANGED <<disk, base, backup, vouched, rest>>

CheckRestore ==
    /\ At({"restore"}, "check")
    /\ LET clear == disk["src"] = None /\ disk["dst"] # None
       IN  \/ Fails(~clear) /\ Reparked("refused")
           \/ clear /\ NoFault /\ Looks /\ Go("capture")

CaptureRestore ==
    /\ At({"restore"}, "capture")
    /\ \/ Fails(disk["dst"] = None) /\ Reparked("refused")
       \/ /\ disk["dst"] # None /\ NoFault /\ Looks
          /\ handler' = [handler EXCEPT !.at = "outer", !.fence = disk["dst"]]
          /\ UNCHANGED answer

RestoreMoves ==
    /\ At({"restore"}, "outer")
    /\ \/ Fails(~CanMove("dst", "src")) /\ Reparked("refused")
       \/ CanMove("dst", "src") /\ NoFault /\ Move("dst", "src") /\ Writes /\ Go("moved")

RestoreVerifies ==
    /\ At({"restore"}, "moved")
    /\ \/ Fails(disk["src"] # handler.fence) /\ Reparked("late")
       \/ disk["src"] = handler.fence /\ NoFault /\ Looks /\ Go("install")

Source == IF handler.fence.dir THEN "old" ELSE "self"

RestoreWrites ==
    /\ At({"restore"}, "install")
    /\ LET t == IF disk["src"] = None /\ handler.fence.dir THEN Dir(Empty) ELSE disk["src"]
           shut == t # None /\ t.dir # handler.fence.dir
       IN  \/ Fails(shut) /\ Looks /\ Go("undo")
           \/ /\ ~shut /\ NoFault
              /\ disk' = [disk EXCEPT !["src"] = IF handler.fence.dir
                            THEN With(t, "old", handler.text) ELSE Leaf(handler.text)]
              /\ Record("src", {Source}, [m \in {Source} |-> handler.text])
              /\ Ends("applied") /\ UNCHANGED <<parked, backup, rest>>

RestoreUndoes ==
    /\ At({"restore"}, "undo")
    /\ LET clear == disk["src"] = handler.fence /\ disk["dst"] = None
       IN  \/ Fails(~clear) /\ Reparked("left")
           \/ /\ clear /\ NoFault /\ Move("src", "dst") /\ Ends("restored")
              /\ parked' = parked \cup {"rename"} /\ UNCHANGED <<base, backup, vouched, rest>>

-------------------------------------------------------------------------------
(* The editor.  Between a check and the call it is for it may always come   *)
(* first; LateEdits says whether it does.                                  *)

All(p) == {p} \X Names
Endangered ==
    CASE At({"rename"}, "capture") \/ At({"rename"}, "plan") \/ At({"rename"}, "outer") -> All("dst")
      [] At({"restore"}, "check") -> All("dst")
      [] At({"restore"}, "capture") -> All("src") \cup All("dst")
      [] At({"rename"}, "final") -> {<<"dst", "new">>}
      [] At({"rename"}, "back") \/ At({"restore"}, "outer") \/ At({"restore"}, "install") -> All("src")
      [] handler.op \in {"delete", "transition", "remove"}
           /\ handler.at \in {"write", "files", "fence"} -> All("src")
      [] handler.op = "replace" /\ handler.at \in {"write", "files"} -> All("src")
      [] OTHER -> {}

Edits(paths) ==
    /\ edits < MaxEdits /\ edits' = edits + 1
    /\ LateEdits \/ paths \cap Endangered = {}
    /\ touched' = TRUE
    /\ UNCHANGED <<base, backup, handler, answer, before, spent, vouched, ops, faults>>

Saves ==
    \E p \in Places : \E n \in Names \ Temps :
      /\ Has(disk[p], n) /\ Edits({<<p, n>>})
      /\ disk' = [disk EXCEPT ![p] = With(disk[p], n, fresh)]
      /\ waived' = waived \cup {disk[p].files[n]} /\ fresh' = fresh + 1 /\ UNCHANGED parked

Creates ==
    \E p \in Places : \E n \in Names \ Temps :
      /\ Edits({<<p, n>>})
      /\ \/ n = "self" /\ disk[p] = None /\ disk' = [disk EXCEPT ![p] = Leaf(fresh)]
         \/ /\ n # "self" /\ disk[p] # None /\ disk[p].dir /\ Missing(disk[p], n)
            /\ disk' = [disk EXCEPT ![p] = With(disk[p], n, fresh)]
      /\ fresh' = fresh + 1 /\ UNCHANGED <<parked, waived>>

Erases ==
    \E p \in Places : \E n \in Names \ Temps :
      /\ Has(disk[p], n) /\ Edits({<<p, n>>})
      /\ disk' = [disk EXCEPT ![p] = IF disk[p].dir THEN Without(disk[p], n) ELSE None]
      /\ waived' = waived \cup {disk[p].files[n]} /\ UNCHANGED <<parked, fresh>>

(* Studio may have changed what the user renames: the watcher parks it.    *)
Renames ==
    /\ Edits(All("src") \cup All("dst"))
    /\ \E p \in Places, q \in Places :
         p # q /\ disk[p] # None /\ disk[q] = None /\ Move(p, q)
         /\ \/ UNCHANGED parked
            \/ handler.at = "idle" /\ p = "src" /\ parked' = parked \cup {"rename"}
    /\ UNCHANGED <<waived, fresh>>

(* The watcher and the plugin bring the other side up: all on the disk is a *)
(* baseline.                                                               *)
Syncs ==
    /\ handler.at = "idle" /\ ops < MaxOps
    /\ vouched' = vouched \cup Held(disk["src"]) \cup Held(disk["dst"])
    /\ base' = [q \in Paths |-> IF Has(disk[q[1]], q[2]) THEN disk[q[1]].files[q[2]] ELSE 0]
    /\ base' # base /\ parked = {}
    /\ UNCHANGED <<disk, parked, backup, handler, answer, before, touched, spent,
                   waived, fresh, ops, edits, faults>>

-------------------------------------------------------------------------------
Rename ==
    \/ CheckRename \/ CaptureRename \/ PlanRename \/ Outer \/ VerifyMoved \/ InitAside
    \/ InitDestination \/ InitFinal \/ FinalVerify \/ UndoVerify \/ UndoInit
    \/ UndoVerifyAgain \/ UndoOuter \/ UndoChecked \/ Rebase \/ Seed
Remove ==
    \/ CheckDelete \/ CheckTransition \/ CheckReplace \/ MatchBaselines \/ BackupCapture
    \/ BackupCopy \/ BackupVerify \/ RemovalFence \/ RemoveFile \/ RemoveDirectory
    \/ ForgetRemoved \/ WriteDirectory \/ WriteFile \/ Written
Restore == CheckRestore \/ CaptureRestore \/ RestoreMoves \/ RestoreVerifies \/ RestoreWrites \/ RestoreUndoes
Editor  == Saves \/ Creates \/ Erases \/ Renames \/ Syncs

Next == Arrives \/ Rename \/ Remove \/ Restore \/ Editor
Spec == Init /\ [][Next]_vars

-------------------------------------------------------------------------------
(* What the user has written is on the disk or in a backup, unless it was a *)
(* baseline, which Studio has, or the user has overwritten, erased or given *)
(* it up (the checks of apply_delete_target, remove_synced_subtree,         *)
(* backup_forced_removal and the renames).                                 *)
UserKept ==
    1..(fresh - 1) \subseteq Held(disk["src"]) \cup Held(disk["dst"]) \cup backup
                             \cup vouched \cup waived

(* What an operation answers is so, when no editor was at work meanwhile:   *)
(* one that is refused or rolled back has changed nothing, a single failure *)
(* of a renaming is always rolled back, and what has been applied is there, *)
(* whole, with the baselines that belong to it.                            *)
OneShape == disk["src"] = None /\ disk["dst"] # None
Based(p) == \A n \in DOMAIN disk[p].files : base[<<p, n>>] = disk[p].files[n]
Nobody(p) == \A n \in Names : base[<<p, n>>] = 0

Applied ==
    CASE answer.op = "rename" ->
           /\ OneShape /\ Based("dst") /\ Nobody("src")
           /\ disk["dst"] = IF InitsOf(before["src"]) = {"old"}
                            THEN Renamed(before["src"], "old", "new") ELSE before["src"]
      [] answer.op \in {"delete", "remove"} -> disk["src"] = None /\ Nobody("src")
      [] answer.op = "transition" -> OneShape /\ (before["src"] # None => Nobody("src"))
      [] answer.op = "replace" -> Held(before["src"]) \subseteq backup /\ Based("src")
      [] answer.op = "restore" -> disk["dst"] = None /\ disk["src"] # None

ReportIsTrue ==
    (handler.at = "idle" /\ answer # None /\ ~touched) =>
      CASE answer.result \in {"nothing", "refused", "restored"} -> disk = before
        [] answer.result = "conflict" -> disk["src"] = before["src"] /\ parked # {}
        [] answer.result = "applied"  -> Applied
        [] answer.result = "left"     -> spent > 1
        [] answer.result \in {"partial", "late"} -> spent > 0
        [] OTHER -> TRUE
===============================================================================
