------------------------------- MODULE Decision -------------------------------
(* What the first synchronisation promises the user (daemon/src/http.rs,    *)
(* docs/SYNC_INVARIANTS.md): one question is open at a time, it is decided  *)
(* once, and what is done is what was decided, at most once.  A question    *)
(* may be dropped at any time, decided or not.                              *)
EXTENDS Naturals

CONSTANTS Questions, None, Verdicts

VARIABLES open, verdict, done

Init == /\ open = None
        /\ verdict = [q \in Questions |-> None]
        /\ done = [q \in Questions |-> None]

Ask(q) == /\ verdict[q] = None /\ open # q
          /\ open' = q
          /\ UNCHANGED <<verdict, done>>

Decide(d) == /\ open # None /\ verdict[open] = None
             /\ verdict' = [verdict EXCEPT ![open] = d]
             /\ UNCHANGED <<open, done>>

Drop == open' = None /\ UNCHANGED <<verdict, done>>

(* The plugin starts the transfer that was decided.                         *)
Carry(q) == /\ verdict[q] # None /\ done[q] = None
            /\ done' = [done EXCEPT ![q] = verdict[q]]
            /\ UNCHANGED <<open, verdict>>

Next == \/ \E q \in Questions : Ask(q) \/ Carry(q)
        \/ \E d \in Verdicts : Decide(d)
        \/ Drop

Spec == Init /\ [][Next]_<<open, verdict, done>>
===============================================================================
