---------------------------- MODULE MCSuiteSweep ----------------------------
(* SuiteSweep on a small instance: two scenarios, v1 and v2, listed levels   *)
(* and adaptive ladders.                                                     *)
EXTENDS SuiteSweep

P(scenario, level, cost) ==
    [scenario |-> scenario, level |-> level, cost |-> cost, long |-> FALSE, barred |-> FALSE]
Ladder == <<P("chat", 1, 1), P("rag", 1, 2)>>
Listed ==
    <<P("chat", 1, 1), P("chat", 2, 1), [P("rag", 1, 2) EXCEPT !.long = TRUE],
      [P("batch", 1, 1) EXCEPT !.barred = TRUE], [P("rag", 2, 2) EXCEPT !.long = TRUE]>>

MCProfiles ==
    [modern : BOOLEAN, adaptive : {TRUE}, plan : {Ladder}, top : {4},
     points : {4}, requests : {5}]
    \cup
    [modern : BOOLEAN, adaptive : {FALSE}, plan : {Listed}, top : {4},
     points : {3}, requests : {4}]
MCExperiment == [calls |-> 2, points |-> 7, requests |-> 9]
=============================================================================
