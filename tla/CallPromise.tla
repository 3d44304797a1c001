---------------------------- MODULE CallPromise -----------------------------
(***************************************************************************)
(* What the session promises a caller of the Core (the class comment of     *)
(* CoreClient): a call is executed at most once and answered at most once,  *)
(* its Run is not touched after its answer, and the answer is true of the   *)
(* Run.  "core_unavailable" and "core_exited" say nothing of the Run.  The  *)
(* promise has one hole: once the cancel guard has gone off, the answer of  *)
(* one call may be given to another, but no Run is touched any more.        *)
(***************************************************************************)
CONSTANTS
    Calls,   \* requests to the Core: of tools, of checks of the task scope ahead
             \* of them, or of the evidence intake
    None

VARIABLES
    answer,  \* how the promise of a call settled, and whose result it was
    run,     \* the Run of a call, as committed
    broken   \* the cancel guard has gone off

Results == {"ok", "failed", "cancelled", "in_scope", "user_declined",
            "core_busy", "core_unavailable", "core_exited"}
Verdicts == {"completed", "failed", "cancelled"}

\* What a result tells of the status of a Run.  A failure may have struck before
\* the Run was opened, before its verdict, or after it.
TrueOf(result, status) ==
    /\ result = "ok" => status = "completed"
    /\ result = "cancelled" => status = "cancelled"
    /\ result = "failed" => status # "cancelled"
    /\ result \in {"core_busy", "user_declined", "in_scope"} => status = "none"

Init ==
    /\ answer = [c \in Calls |-> None]
    /\ run = [c \in Calls |-> "none"]
    /\ broken = FALSE

\* A handler opens the Run of a call that still waits ...
Open(c) ==
    /\ ~broken /\ answer[c] = None /\ run[c] = "none"
    /\ run' = [run EXCEPT ![c] = "running"]
    /\ UNCHANGED <<answer, broken>>

\* ... and commits a verdict, which is final.
Commit(c) ==
    /\ ~broken /\ answer[c] = None /\ run[c] = "running"
    /\ \E verdict \in Verdicts : run' = [run EXCEPT ![c] = verdict]
    /\ UNCHANGED <<answer, broken>>

Tell(c, result, from) ==
    /\ answer[c] = None
    /\ answer' = [answer EXCEPT ![c] = [result |-> result, from |-> from]]

\* A call is answered by what is true of the call the answer comes from.
Answer(c) ==
    /\ \E result \in Results, from \in Calls :
          /\ broken \/ from = c
          /\ TrueOf(result, run[from])
          /\ Tell(c, result, from)
    /\ UNCHANGED <<run, broken>>

\* The guard gives up on a cancelled call.
Break(c) ==
    /\ broken' = TRUE
    /\ Tell(c, "core_unavailable", c)
    /\ UNCHANGED run

Next == \E c \in Calls : Open(c) \/ Commit(c) \/ Answer(c) \/ Break(c)

Spec == Init /\ [][Next]_<<answer, run, broken>>
=============================================================================
