---------------------------- MODULE RunLifecycle ----------------------------
(***************************************************************************)
(* What the Run ledger promises of one Run, seen from outside the Cores: a  *)
(* Run is opened once, by a handler; that handler settles it once at most;  *)
(* and once it has no handler, the only thing that can still happen to it   *)
(* is that a Core that opens the store interrupts it.  An interruption does *)
(* not stop a live handler, whose verdict then replaces it if its           *)
(* finish_run had already looked at the status.                             *)
(***************************************************************************)
CONSTANT Runs                \* the run identifiers a behaviour may use

VARIABLES
    status,                  \* the status column of every Run
    live                     \* the Runs a handler is working on

Verdicts == {"completed", "failed", "cancelled"}   \* what a handler reports
RunStatuses == {"absent", "running", "interrupted"} \cup Verdicts

Init ==
    /\ status = [r \in Runs |-> "absent"]
    /\ live = {}

\* A tool call opens its Run.
Begin(r) ==
    /\ status[r] = "absent"
    /\ status' = [status EXCEPT ![r] = "running"]
    /\ live' = live \cup {r}

\* The handler that opened the Run reports how it ended.
Settle(r, v) ==
    /\ r \in live
    /\ status' = [status EXCEPT ![r] = v]
    /\ live' = live \ {r}

\* The handler ends and leaves the Run as it is.
Abandon(r) ==
    /\ r \in live
    /\ live' = live \ {r}
    /\ UNCHANGED status

\* A Core that opens the ledger interrupts what is still running.
Interrupt ==
    /\ status' = [r \in Runs |-> IF status[r] = "running" THEN "interrupted"
                                                          ELSE status[r]]
    /\ UNCHANGED live

Next ==
    \/ \E r \in Runs : Begin(r) \/ Abandon(r)
    \/ \E r \in Runs, v \in Verdicts : Settle(r, v)
    \/ Interrupt

Spec == Init /\ [][Next]_<<status, live>>
=============================================================================
