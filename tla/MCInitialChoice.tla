---------------------------- MODULE MCInitialChoice ----------------------------
(* Two parts of the system in which somebody is asked and somebody waits;   *)
(* they share no state: a behaviour is one of `part`, and the other stays   *)
(* in its initial state.                                                    *)
(*                                                                          *)
(* The choice has eight settings, each with its own share of what can       *)
(* happen: edits while the comparison runs; two windows that answer, lost   *)
(* calls, a question that is replaced, edits under an answer; limits, and a *)
(* daemon that starts again.  Windows are interchangeable, and so are       *)
(* polls.  The playtest has three: a queue that runs over, requests of      *)
(* which nothing is heard, and others that stop the test.                   *)
EXTENDS InitialChoice, OwnedPlaytest, TLC

VARIABLE part

playtestVars == <<keepOpen, cmd, waits, reply, inbox, job, tombstone, studio,
    script, stop, term, cancel, events, dropped, seq, printed, emitted, refused,
    spare>>

Budget(scans, edits, submits, losses, expiries, crashes) ==
    [scans |-> scans, edits |-> edits, submits |-> submits, losses |-> losses,
     expiries |-> expiries, crashes |-> crashes]

Settings == {
    Budget(2, 2, 0, 1, 0, 0),   \* comparisons
    Budget(1, 0, 2, 1, 0, 0),   \* two answers, and a call that is lost
    Budget(2, 0, 2, 0, 0, 0),   \* two answers, and a question that is replaced
    Budget(2, 0, 1, 1, 0, 0),   \* a question that is replaced, and a lost call
    Budget(1, 1, 2, 0, 1, 0),   \* edits and limits under the answers
    Budget(1, 0, 1, 2, 0, 0),   \* one answer, whose calls are lost
    Budget(1, 0, 1, 1, 1, 0),   \* one answer, a lost call and a limit
    Budget(2, 0, 1, 0, 1, 1)}   \* the daemon starts again

Plays == {
    [events |-> 2, losses |-> 1, faults |-> 0, stops |-> 0],   \* a full queue
    [events |-> 0, losses |-> 3, faults |-> 0, stops |-> 0],   \* nothing is heard
    [events |-> 0, losses |-> 1, faults |-> 1, stops |-> 1]}   \* others stop it

ASSUME PlaytestIsSane == Play!PlaytestAssumption

PartsInit ==
    /\ part \in {"choice", "playtest"}
    /\ Init /\ Play!Init
    /\ part # "choice" =>
          /\ disk = [s \in Services |-> <<TRUE>>]
          /\ budget = Budget(2, 2, 0, 1, 0, 0)
    /\ part # "playtest" => ~ keepOpen /\ spare.stops = 1

PartsNext ==
    \/ part = "choice" /\ Next /\ UNCHANGED <<part, playtestVars>>
    \/ part = "playtest" /\ Play!Next /\ UNCHANGED <<part, vars>>

Parts == PartsInit /\ [][PartsNext]_<<part, vars, playtestVars>>

Symmetric == Permutations(Windows) \cup Permutations(Polls)
================================================================================
