--------------------------- MODULE MCPluginRouting ---------------------------
(* Instances for TLC of the router and of what is asked through it.  A      *)
(* behaviour is one of `part`, and the others stay in an initial state.     *)
(*                                                                          *)
(* The router has two plugins and two requests; at most one connection is   *)
(* refused, and then no route expires.  The clipboard has two copies and a  *)
(* paste, one of each edit, fault and killed command.                       *)
EXTENDS PluginRouting, SharedClipboard, TLC

CONSTANTS p1, p2, c1, r1, r2, y1, y2, z1

VARIABLE part

clipVars == <<clip, held, commands, store, lane, dropped, handling, work, due,
    studio, placed, made, installs, budget>>

OneOrigin == r1 :> c1 @@ r2 :> c1

ASSUME ClipboardIsSane == Clip!ClipboardAssumption

PartsInit ==
    /\ part \in {"router", "clipboard"}
    /\ Init /\ Clip!Init
    /\ part # "clipboard" => made = {}

PartsNext ==
    \/ /\ part = "router" /\ Next
       /\ \A c, d \in Conns :
             rejecting'[c] /\ rejecting'[d] => c = d /\ expired' = {}
       /\ UNCHANGED <<part, clipVars>>
    \/ part = "clipboard" /\ Clip!Next /\ UNCHANGED <<part, vars>>

Parts == PartsInit /\ [][PartsNext]_<<part, vars, clipVars>>

FullSymmetry ==
    Permutations(Plugins) \cup Permutations(Requests) \cup Permutations({y1, y2})
===============================================================================
