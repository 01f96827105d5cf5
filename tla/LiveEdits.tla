------------------------------- MODULE LiveEdits ------------------------------
(***************************************************************************)
(* The structural edits of a user in Studio, turned into operations on     *)
(* files: the plugin's handlers of added, removed, moved and renamed       *)
(* scripts and of their texts, its cache of the path each script has on    *)
(* the disk, its queue, and what the daemon does with the operations.      *)
(* Modelled from plugin/Plugin.luau, plugin/PathHelpers.luau and           *)
(* daemon/src/http_apply.rs.                                               *)
(*                                                                         *)
(* A script without children is a file, one with children a directory with *)
(* an init file; of scripts with one name under one parent all but the     *)
(* first have an ordinal.  So an edit may change the paths of others, the  *)
(* plugin says an operation in paths it remembers, and the daemon applies  *)
(* it later.                                                               *)
(***************************************************************************)
EXTENDS Naturals, Sequences, FiniteSets

CONSTANTS
    Scripts, Services,
    Start,         \* trees to begin with, each with the paths on the disk
    Twins,         \* may two scripts under one parent have one name?
    Grafts,        \* may a script with children change its service, or return?
    MaxSteps,      \* bound on the user's edits
    Nil, None

VARIABLES
    tree,      \* Studio: the parent, the name and the text of each script
    cache,     \* diskPathCache
    typing,    \* scripts whose edited text waits for its debounce
    deferred,  \* parents to collapse once the removal is over (task.defer)
    queue,     \* pendingOps
    disk,      \* the text at each path: a file, or a directory's init file
    echo,      \* the window after a remote apply is open
    live,      \* no comparison has been asked for
    \* observation and bounds
    lost,      \* a structural edit fell into the window
    steps

vars == <<tree, cache, typing, deferred, queue, disk, echo, live, lost, steps>>

Names  == 1..2
Depth  == 0..Cardinality(Scripts)
Ordinals == 0..(2 * Cardinality(Scripts))
Low  == 10      \* the first texts are between these; as numbers they
High == 20      \* are in the order of their hashes

-------------------------------------------------------------------------------
(* Trees.  A path is the service and a fragment for each script below it:  *)
(* a name, an ordinal, and whether it is a directory.                      *)

Kids(t, x) == {j \in DOMAIN t.up : t.up[j] = x}

Subtree(t, i) ==
    LET down[k \in Depth] ==
            IF k = 0 THEN {i} ELSE down[k - 1] \cup {j \in DOMAIN t.up : t.up[j] \in down[k - 1]}
    IN  down[Cardinality(Scripts)]

(* The service and the scripts above one, itself the last.                 *)
Line(t, i) ==
    LET line[x \in Scripts \cup Services \cup {Nil}] ==
            IF x = Nil THEN <<>> ELSE IF x \in Services THEN <<x>>
            ELSE LET up == line[t.up[x]] IN IF up = <<>> THEN <<>> ELSE Append(up, x)
    IN  line[i]

Watched(t, i)   == Line(t, i) # <<>>
Segments(t, i)  == LET line == Line(t, i)
                   IN  [k \in DOMAIN line |-> IF k = 1 THEN line[1] ELSE t.name[line[k]]]
Fragment(n, k, d) == [name |-> n, ordinal |-> k, dir |-> d]
Last(s)           == s[Len(s)]
Above(s)          == SubSeq(s, 1, Len(s) - 1)
Within(p, q)      == Len(p) <= Len(q) /\ SubSeq(q, 1, Len(p)) = p

(* Siblings in the order of their fragments: by their names, those of one  *)
(* name by their texts.                                                    *)
Before(t, i, j) == \/ t.name[i] < t.name[j]
                   \/ t.name[i] = t.name[j] /\ t.text[i] < t.text[j]

(* allocatePhysicalFragment, for the one that comes after `n` others.      *)
Free(taken, name, dir, n) ==
    CHOOSE k \in Ordinals :
        /\ Fragment(name, k, dir) \notin taken
        /\ Cardinality({m \in 0..k : Fragment(name, m, dir) \notin taken}) = n + 1

IsDir(t, i) == Kids(t, i) # {}

ForgetsRoot(t, c, i) == [c EXCEPT ![i] = None]   \* mutant: not what is below
Forgets(t, c, i) == [j \in DOMAIN c |-> IF j \in Subtree(t, i) THEN None ELSE c[j]]

(* buildPhysicalSiblingIndex: a remembered fragment stays, and the others  *)
(* get the free ones in their order.  Of two that claim one fragment the   *)
(* second forgets its own.                                                 *)
Claims(t, c, x, path) ==
    {j \in Kids(t, x) : c[j] # None /\ Len(c[j]) = Len(path) + 1 /\ Within(path, c[j])}
Robbed(t, c, claims) == {j \in claims : \E i \in claims : c[i] = c[j] /\ Before(t, i, j)}

Allotted(t, taken, fresh, j) ==
    Fragment(t.name[j],
             Free(taken, t.name[j], IsDir(t, j),
                  Cardinality({i \in fresh : /\ Before(t, i, j) /\ t.name[i] = t.name[j]
                                             /\ IsDir(t, i) = IsDir(t, j)})),
             IsDir(t, j))
Indexed(t, c, x, kept, robbed) ==
    [fragment |-> [j \in Kids(t, x) |->
                      IF j \in kept THEN Last(c[j])
                      ELSE Allotted(t, {Last(c[k]) : k \in kept}, Kids(t, x) \ kept, j)],
     cache |-> [j \in DOMAIN c |-> IF \E i \in robbed : j \in Subtree(t, i) THEN None ELSE c[j]]]
Settle(t, c, x, claims, robbed) == Indexed(t, c, x, claims \ robbed, robbed)
Sorted(t, c, x, claims) == Settle(t, c, x, claims, Robbed(t, c, claims))
IndexAnew(t, c, x, path) == Sorted(t, c, x, {})   \* mutant: remembers nothing
Index(t, c, x, path) == Sorted(t, c, x, Claims(t, c, x, path))

(* diskPathForInstance.  On the way down every sibling without a path gets *)
(* one.                                                                    *)
Known(x, c) == [path |-> c[x], cache |-> c]
Filled(t, up, x, index) ==
    Known(x, [j \in DOMAIN up.cache |->
                 IF t.up[j] = t.up[x] /\ index.cache[j] = None
                 THEN Append(up.path, index.fragment[j]) ELSE index.cache[j]])
Under(t, up, x) ==
    IF up.cache[x] # None THEN Known(x, up.cache)
    ELSE Filled(t, up, x, Index(t, up.cache, t.up[x], up.path))
DiskPath(t, c, i) ==
    LET walk[x \in Scripts \cup Services] ==
            IF x \in Services THEN [path |-> <<x>>, cache |-> c] ELSE Under(t, walk[t.up[x]], x)
    IN  IF i \in Scripts /\ c[i] # None THEN Known(i, c) ELSE walk[i]

(* diskPathForInstanceShape: its path were it a directory, or a file.      *)
Reshape(t, i, kept, taken) ==
    IF kept \notin taken THEN kept
    ELSE Fragment(t.name[i], Free(taken, t.name[i], kept.dir, 0), kept.dir)
ShapedIn(t, i, dir, path, index) ==
    [path |-> Append(path, Reshape(t, i,
                 [(IF index.cache[i] # None THEN Last(index.cache[i]) ELSE index.fragment[i]) EXCEPT !.dir = dir],
                 {index.fragment[j] : j \in Kids(t, t.up[i]) \ {i}})),
     cache |-> index.cache]
Shaped(t, i, dir, up) == ShapedIn(t, i, dir, up.path, Index(t, up.cache, t.up[i], up.path))
ShapePath(t, c, i, dir) == Shaped(t, i, dir, DiskPath(t, c, t.up[i]))
(* The path it has, or had as `dir`.                                       *)
OldPath(t, c, i, dir) == IF c[i] # None THEN Known(i, c) ELSE ShapePath(t, c, i, dir)

-------------------------------------------------------------------------------
(* The plugin's handlers.  `p` is what they change: the cache and the      *)
(* queue.                                                                  *)

Queued(p, op) == [p EXCEPT !.queue = Append(@, op)]

(* serializeLiveInstance                                                   *)
Node(t, i) == LET s == Subtree(t, i)
              IN  [root |-> i, up |-> [j \in s |-> t.up[j]],
                   name |-> [j \in s |-> t.name[j]], text |-> [j \in s |-> t.text[j]]]

SetOp(t, i, at, from) == [op |-> "set", at |-> at, from |-> from, node |-> Node(t, i)]
DeleteOp(at, segments) == [op |-> "delete", at |-> at, segments |-> segments]
UpdateOp(at, init, c) == [op |-> "update", at |-> at, init |-> init, text |-> c]
RenameOp(at, to, segments, n) ==
    [op |-> "rename", at |-> at, to |-> to, segments |-> segments, toward |-> None, name |-> n]
MoveOp(at, to, segments, toward, n) ==
    [op |-> "move", at |-> at, to |-> to, segments |-> segments, toward |-> toward, name |-> n]

(* queueRepresentationSet                                                  *)
ReshapedUnnoticed(t, p, i, from, to) ==   \* mutant: the new path is not kept
    IF from = to.path THEN [p EXCEPT !.cache = to.cache]
    ELSE Queued([p EXCEPT !.cache = to.cache], SetOp(t, i, to.path, from))
Reshaped(t, p, i, from, to) ==
    IF from = to.path THEN [p EXCEPT !.cache = to.cache]
    ELSE Queued([p EXCEPT !.cache = [to.cache EXCEPT ![i] = to.path]], SetOp(t, i, to.path, from))

(* The file of a script with its first child becomes a directory, before   *)
(* anything is written below it; the directory of one that has lost its    *)
(* last child becomes a file.                                              *)
First(t, x) == x \notin Services /\ Cardinality(Kids(t, x)) = 1
OpensNothing(t, p, i, old) == p   \* mutant: the parent stays a file
OpenedFrom(t, p, i, old) == Reshaped(t, p, i, old.path, ShapePath(t, old.cache, i, TRUE))
Opened(t, p, x) ==
    IF First(t, x) THEN OpenedFrom(t, p, x, OldPath(t, p.cache, x, FALSE)) ELSE p
Closed(t, p, i, old) == Reshaped(t, p, i, old.path, ShapePath(t, old.cache, i, FALSE))

(* onDescendantAdded                                                       *)
SetAt(t, p, i, place) == Queued([p EXCEPT !.cache = place.cache], SetOp(t, i, place.path, None))
AddedTo(t, p, i) == SetAt(t, p, i, DiskPath(t, [p.cache EXCEPT ![i] = None], i))
Added(t, p, i)   == AddedTo(t, Opened(t, p, t.up[i]), i)

(* onDescendantRemoving, before the script has left; the collapse of its   *)
(* parent waits until it has.                                              *)
Removed(p, place) == Queued([p EXCEPT !.cache = place.cache], DeleteOp(place.path, <<>>))
Removing(t, p, i) == Removed(p, DiskPath(t, p.cache, i))
Defers(t, p, i) ==
    IF First(t, t.up[i])
    THEN {[parent |-> t.up[i], path |-> OldPath(t, p.cache, t.up[i], TRUE).path]} ELSE {}

(* onParentChanged, within one service: from the tree `t` to `u`.          *)
Emptied(t, u, p, i) ==
    IF t.up[i] \in Services \/ Kids(u, t.up[i]) # {} THEN p
    ELSE Closed(u, p, t.up[i], OldPath(u, p.cache, t.up[i], TRUE))
MoveTo(t, u, p, i, was, place, opened) ==
    Queued([p EXCEPT !.cache = place.cache],
           IF opened THEN DeleteOp(was, Segments(t, i))
           ELSE IF was = None THEN MoveOp(None, None, Segments(t, i), Segments(u, u.up[i]), u.name[i])
           ELSE MoveOp(was, place.path, <<>>, <<>>, u.name[i]))
MovedFrom(t, u, p, q, i) ==
    MoveTo(t, u, q, i, p.cache[i], DiskPath(u, Forgets(u, q.cache, i), i), Len(q.queue) > Len(p.queue))
ParentChanged(t, u, p, i) == Emptied(t, u, MovedFrom(t, u, p, Opened(u, p, u.up[i]), i), i)

(* onChanged: the name.                                                    *)
RenamedTo(t, u, p, i, place) ==
    Queued([p EXCEPT !.cache = place.cache],
           IF p.cache[i] = None THEN RenameOp(None, None, Segments(t, i), u.name[i])
           ELSE RenameOp(p.cache[i], place.path, <<>>, u.name[i]))
NameChanged(t, u, p, i) == RenamedTo(t, u, p, i, DiskPath(u, Forgets(u, p.cache, i), i))

-------------------------------------------------------------------------------
(* The user.                                                               *)

Edits == live /\ ~lost /\ steps < MaxSteps /\ steps' = steps + 1

(* No two siblings of one name, where there are to be no twins.            *)
Allowed(u) ==
    \/ Twins
    \/ \A i, j \in Scripts : i # j /\ u.up[i] = u.up[j] /\ u.up[i] # Nil => u.name[i] # u.name[j]

(* A handler that runs while the window is open does nothing.              *)
Handled(u, p, defers) ==
    /\ Allowed(u) /\ tree' = u
    /\ IF echo THEN lost' = TRUE /\ UNCHANGED <<cache, queue, deferred>>
       ELSE /\ cache' = p.cache /\ queue' = p.queue
            /\ deferred' = deferred \cup defers /\ UNCHANGED lost
    /\ UNCHANGED <<disk, echo, live>>

Plugin == [cache |-> cache, queue |-> queue]
Put(i, x)  == [tree EXCEPT !.up[i] = x]
Name(i, n) == [tree EXCEPT !.name[i] = n]

Inserts(i, x) ==
    /\ Edits /\ tree.up[i] = Nil /\ (x \in Services \/ Watched(tree, x))
    /\ Grafts \/ Kids(tree, i) = {}
    /\ Handled(Put(i, x), Added(Put(i, x), Plugin, i), {})
    /\ UNCHANGED typing

Removes(i) ==
    /\ Edits /\ Watched(tree, i)
    /\ Handled(Put(i, Nil), Removing(tree, Plugin, i), Defers(tree, Plugin, i))
    /\ typing' = typing \ Subtree(tree, i)

(* Within a service the parent changes; into another one the script is     *)
(* removed and added.                                                      *)
Moves(i, x) ==
    /\ Edits /\ Watched(tree, i) /\ x # tree.up[i] /\ x \notin Subtree(tree, i)
    /\ x \in Services \/ Watched(tree, x)
    /\ \/ /\ Line(tree, i)[1] = Line(Put(i, x), i)[1]
          /\ Handled(Put(i, x), ParentChanged(tree, Put(i, x), Plugin, i), {})
          /\ UNCHANGED typing
       \/ /\ Line(tree, i)[1] # Line(Put(i, x), i)[1]
          /\ Grafts \/ Kids(tree, i) = {}
          /\ Handled(Put(i, x), Added(Put(i, x), Removing(tree, Plugin, i), i), Defers(tree, Plugin, i))
          /\ typing' = typing \ Subtree(tree, i)

Renames(i, n) ==
    /\ Edits /\ Watched(tree, i) /\ n # tree.name[i]
    /\ Handled(Name(i, n), NameChanged(tree, Name(i, n), Plugin, i), {})
    /\ UNCHANGED typing

(* A text no script has had, whose hash comes before or after the others.  *)
Types(i, c) ==
    /\ Edits /\ Watched(tree, i) /\ i \notin typing
    /\ tree' = [tree EXCEPT !.text[i] = c] /\ typing' = typing \cup {i}
    /\ UNCHANGED <<cache, deferred, queue, disk, echo, live, lost>>

-------------------------------------------------------------------------------
(* The plugin's callbacks.                                                 *)

(* queueEditorSourceChanged and sourceDiskPathForInstance                  *)
Commits(i) ==
    /\ live /\ i \in typing
    /\ LET place == DiskPath(tree, cache, i)
       IN  /\ cache' = place.cache
           /\ queue' = Append(queue, UpdateOp(place.path, IsDir(tree, i), tree.text[i]))
    /\ typing' = typing \ {i}
    /\ UNCHANGED <<tree, deferred, disk, echo, live, lost, steps>>

Collapses(d) ==
    /\ live /\ d \in deferred /\ deferred' = deferred \ {d}
    /\ IF echo \/ ~Watched(tree, d.parent) \/ IsDir(tree, d.parent)
       THEN UNCHANGED <<cache, queue>>
       ELSE \E p \in {Closed(tree, Plugin, d.parent, [path |-> d.path, cache |-> cache])} :
                cache' = p.cache /\ queue' = p.queue
    /\ UNCHANGED <<tree, typing, disk, echo, live, lost, steps>>

(* Something of the daemon is applied, and 0.1 s pass.                     *)
EchoOpens ==
    /\ live /\ ~echo /\ ~lost /\ steps < MaxSteps /\ steps' = steps + 1 /\ echo' = TRUE
    /\ UNCHANGED <<tree, cache, typing, deferred, queue, disk, live, lost>>
EchoCloses ==
    /\ live /\ echo /\ ~lost /\ echo' = FALSE
    /\ UNCHANGED <<tree, cache, typing, deferred, queue, disk, live, lost, steps>>

(* requestControlledLiveResync: an operation too large, a text that cannot *)
(* be read, a socket that fails.  The comparison starts from both sides.   *)
Resyncs ==
    /\ live /\ queue # <<>> /\ live' = FALSE /\ queue' = <<>> /\ typing' = {} /\ deferred' = {}
    /\ UNCHANGED <<tree, cache, disk, echo, lost, steps>>

-------------------------------------------------------------------------------
(* The daemon.  `s` is the disk and whether an operation was not applied.  *)

Exists(d, at) == \E q \in DOMAIN d : Within(at, q)
IsScript(d, at) == at \in DOMAIN d
Failed(s) == [s EXCEPT !.bad = TRUE]
Deleted(d, at) == [q \in {q \in DOMAIN d : ~Within(at, q)} |-> d[q]]
Shifted(d, at, to) ==
    LET new(q) == to \o SubSeq(q, Len(at) + 1, Len(q))
        old(q) == at \o SubSeq(q, Len(to) + 1, Len(q))
        gone == {q \in DOMAIN d : Within(at, q)}
    IN  [q \in (DOMAIN d \ gone) \cup {new(q) : q \in gone} |->
            IF Within(to, q) THEN d[old(q)] ELSE d[q]]

(* The paths of a node's scripts: its own, and fresh ones below it.        *)
Placed(node, at) ==
    LET t == [up |-> node.up, name |-> node.name, text |-> node.text]
        place[x \in DOMAIN node.up] ==
            IF x = node.root THEN at
            ELSE Append(place[t.up[x]],
                        Index(t, [j \in DOMAIN t.up |-> None], t.up[x], <<>>).fragment[x])
    IN  place

(* apply_set_in_dir                                                        *)
WriteAt(s, node, place) ==
    LET written == {place[j] : j \in DOMAIN place}
    IN  [s EXCEPT !.disk = [q \in DOMAIN s.disk \cup written |->
                               IF q \in written THEN node.text[CHOOSE j \in DOMAIN place : place[j] = q]
                               ELSE s.disk[q]]]
Write(s, node, at) == WriteAt(s, node, Placed(node, at))

(* apply_exact_set: what it refuses, and what it does.                     *)
Fits(at, op) == Last(at).name = op.node.name[op.node.root]
Dir(op)      == Kids(op.node, op.node.root) # {}
Turns(op)    == op.from # None /\ op.from # op.at
Refused(d, op) ==
    \/ ~Fits(op.at, op) \/ Last(op.at).dir # Dir(op)
    \/ Exists(d, op.at) /\ ~IsScript(d, op.at)
    \/ Turns(op) /\ Above(op.from) # Above(op.at)
    \/ Turns(op) /\ ~Exists(d, op.from) /\ ~Exists(d, op.at)
    \/ /\ Turns(op) /\ Exists(d, op.from)
       /\ \/ Exists(d, op.at) \/ ~IsScript(d, op.from)
          \/ ~Fits(op.from, op) \/ Last(op.from).dir = Dir(op)
ApplySet(s, op) ==
    IF Refused(s.disk, op) THEN Failed(s)
    ELSE IF Turns(op) THEN [Write(s, op.node, op.at) EXCEPT !.disk = Deleted(@, op.from)]
    ELSE Write(s, op.node, op.at)

(* resolve_segments_to_path: under one name a directory script before a    *)
(* file before a directory, and then the first fragment in byte order,     *)
(* where "a [1].luau" comes before "a.luau".                               *)
Resolved(d, segments) ==
    LET below(at, n) == {SubSeq(q, 1, Len(at) + 1) : q \in {q \in DOMAIN d : Within(at, q) /\ Len(q) > Len(at)}}
        named(at, n) == {q \in below(at, n) : Last(q).name = n}
        rank(q) == IF ~IsScript(d, q) THEN 1 ELSE IF Last(q).dir THEN 4 ELSE 3
        place(q) == IF ~Last(q).dir /\ Last(q).ordinal = 0 THEN 2 * Cardinality(Scripts) + 1 ELSE Last(q).ordinal
        first(q, r) == rank(q) > rank(r) \/ (rank(q) = rank(r) /\ place(q) <= place(r))
        best(qs) == CHOOSE q \in qs : \A r \in qs : first(q, r)
        found[k \in 1..Len(segments)] ==
            IF k = 1 THEN <<segments[1]>>
            ELSE IF found[k - 1] = None \/ named(found[k - 1], segments[k]) = {} THEN None
            ELSE best(named(found[k - 1], segments[k]))
    IN  found[Len(segments)]

Named(s, op) == IF op.at # None THEN op.at ELSE Resolved(s.disk, op.segments)

DeleteAt(s, at) ==
    IF at = None \/ ~Exists(s.disk, at) THEN Failed(s) ELSE [s EXCEPT !.disk = Deleted(@, at)]
ApplyDelete(s, op) == DeleteAt(s, Named(s, op))

ApplyUpdate(s, op) ==
    IF IsScript(s.disk, op.at) /\ (op.init => Last(op.at).dir)
    THEN [s EXCEPT !.disk[op.at] = op.text] ELSE Failed(s)

(* apply_rename_target and apply_move_target.  Where there is nothing they *)
(* do nothing, and call it applied.                                        *)
RelocateTo(s, op, at, to) ==
    IF \/ ~IsScript(s.disk, at)
       \/ op.op = "rename" /\ Above(to) # Above(at)
       \/ Last(to).name # op.name \/ Last(to).dir # Last(at).dir
       \/ Exists(s.disk, to) /\ to # at
    THEN Failed(s)
    ELSE [s EXCEPT !.disk = Shifted(@, at, to)]
Entries(d, path) == {q[Len(path) + 1] : q \in {q \in DOMAIN d : Within(path, q) /\ Len(q) > Len(path)}}
Fresh(taken, at, n) == Fragment(n, Free(taken, n, Last(at).dir, 0), Last(at).dir)
RelocateIn(s, op, at, parent, besides) ==
    IF parent = None \/ (Len(parent) > 1 /\ ~Last(parent).dir) THEN Failed(s)
    ELSE RelocateTo(s, op, at, Append(parent, Fresh(Entries(s.disk, parent) \ besides, at, op.name)))
RelocateAt(s, op, at) ==
    IF at = None \/ ~Exists(s.disk, at) THEN s
    ELSE IF op.to # None THEN RelocateTo(s, op, at, op.to)
    ELSE IF op.op = "rename" THEN RelocateIn(s, op, at, Above(at), {Last(at)})
    ELSE RelocateIn(s, op, at, Resolved(s.disk, op.toward), {})
Relocate(s, op) == RelocateAt(s, op, Named(s, op))

Apply(s, op) ==
    CASE op.op = "set"    -> ApplySet(s, op)
      [] op.op = "delete" -> ApplyDelete(s, op)
      [] op.op = "update" -> ApplyUpdate(s, op)
      [] OTHER            -> Relocate(s, op)

(* flushPush and apply_push_ops.  No handler reads the disk, so that a     *)
(* frame is applied as it is sent; one that is not applied as a whole      *)
(* closes the socket, and a comparison follows.                            *)
Flush ==
    /\ live /\ queue # <<>> /\ queue' = <<>>
    /\ LET after[k \in 0..Len(queue)] ==
               IF k = 0 THEN [disk |-> disk, bad |-> FALSE] ELSE Apply(after[k - 1], queue[k])
       IN  \E s \in {after[Len(queue)]} : disk' = s.disk /\ live' = ~s.bad
    /\ UNCHANGED <<tree, cache, typing, deferred, echo, lost, steps>>

Init ==
    /\ \E s \in Start : tree = s.tree /\ cache = s.cache
    /\ disk = [q \in {cache[i] : i \in {i \in Scripts : Watched(tree, i)}} |->
                  tree.text[CHOOSE i \in Scripts : cache[i] = q]]
    /\ typing = {} /\ deferred = {} /\ queue = <<>>
    /\ echo = FALSE /\ live = TRUE /\ lost = FALSE /\ steps = 0

Next ==
    \/ \E i \in Scripts : Removes(i) \/ Commits(i)
    \/ \E i \in Scripts, x \in Scripts \cup Services : Inserts(i, x) \/ Moves(i, x)
    \/ \E i \in Scripts, n \in Names : Renames(i, n)
    \/ \E i \in Scripts, c \in {Low - steps, High + steps} : Types(i, c)
    \/ \E d \in deferred : Collapses(d)
    \/ Flush \/ Resyncs \/ EchoOpens \/ EchoCloses

Spec == Init /\ [][Next]_vars

-------------------------------------------------------------------------------
(* An edit that falls into the window after a remote apply is not seen,    *)
(* and what is not applied as a whole ends in a comparison.                *)
Settled == live /\ ~lost /\ queue = <<>> /\ typing = {} /\ deferred = {}

(* A path as names and texts, in Studio and on the disk.                   *)
InStudio(i) == LET line == Line(tree, i)
               IN  [k \in DOMAIN line |-> IF k = 1 THEN line[1]
                                          ELSE <<tree.name[line[k]], tree.text[line[k]]>>]
OnDisk(q) == [k \in DOMAIN q |-> IF k = 1 THEN q[1]
                 ELSE <<q[k].name, IF IsScript(disk, SubSeq(q, 1, k)) THEN disk[SubSeq(q, 1, k)] ELSE None>>]

(* Once everything is sent, the disk has the scripts that Studio has, each *)
(* below the same scripts and with the same text: no edit is lost, though  *)
(* it was said in paths that the edits before it have changed.             *)
Mirrored ==
    Settled => {OnDisk(q) : q \in DOMAIN disk} = {InStudio(i) : i \in {i \in Scripts : Watched(tree, i)}}

(* And no path the plugin remembers is that of another script: a later     *)
(* edit of a text never lands in another's file.                           *)
PathsAreOwn ==
    Settled => \A i \in Scripts : Watched(tree, i) /\ cache[i] # None /\ cache[i] \in DOMAIN disk =>
                   disk[cache[i]] = tree.text[i]

EditsArrive == Mirrored /\ PathsAreOwn
===============================================================================
