----------------------------- MODULE RunLedger ------------------------------
(***************************************************************************)
(* The Run ledger of the Python Core (store.py, runs.py): one SQLite file   *)
(* and one artifact directory under $BITTUNE_CORE_HOME, opened by every     *)
(* Core process that a session starts.  Each Core runs one tool handler at  *)
(* a time; the handler opens a Run, stores artifacts for it and commits a   *)
(* terminal status through ManagedRun.  finish_run reads the status and     *)
(* writes it in two SQL statements, so another Core can act in between.     *)
(* A statement or a file operation may raise, and a Core may die between    *)
(* any two steps and be started again.                                      *)
(***************************************************************************)
CONSTANTS
    Cores,      \* the Core processes that may have the store open
    Runs,       \* run identifiers (uuid4 in the code, so never reused)
    Contents,   \* artifact contents, told apart by their sha256
    None        \* no Run, no content

ASSUME NoneAssumption == None \notin Runs \cup Contents

VARIABLES
    status,   \* [Runs -> RunStatuses]      runs.status, committed
    rows,     \* SUBSET (Runs \X Contents)  artifacts table, committed
    file,     \* [Contents -> FileStates]   artifacts/<sha256> on disk
    pc,       \* [Cores -> Steps]           where each Core's handler stands
    cur,      \* [Cores -> Runs \cup {None}]      its ManagedRun
    held,     \* [Cores -> Contents \cup {None}]  the artifact being written
    outcome,  \* [Cores -> Verdicts]        what finish_run was asked to write
    reply,    \* [Runs -> Replies]          what the caller was told of the Run
    left      \* SUBSET Runs: history; Runs whose handler ended without settling
              \* them and that no opening of the store has seen since

ledger == <<status, rows, file>>
vars == <<status, rows, file, pc, cur, held, outcome, reply, left>>

Verdicts == {"completed", "failed", "cancelled"}
Terminal == Verdicts \cup {"interrupted"}
RunStatuses == {"absent", "running"} \cup Terminal
FileStates == {"absent", "partial", "whole"}
Steps == {"closed", "idle", "body", "rename", "row", "select", "update"}
Replies == {"none", "ok", "cancelled", "failed", "state_conflict", "internal"}

\* The Core has a handler that owns a Run and has not answered yet.
Busy(c) == pc[c] \notin {"closed", "idle"}

TypeOK ==
    /\ status \in [Runs -> RunStatuses]
    /\ rows \subseteq Runs \X Contents
    /\ file \in [Contents -> FileStates]
    /\ pc \in [Cores -> Steps]
    /\ cur \in [Cores -> Runs \cup {None}]
    /\ held \in [Cores -> Contents \cup {None}]
    /\ outcome \in [Cores -> Verdicts]
    /\ reply \in [Runs -> Replies]
    /\ left \subseteq Runs

Init ==
    /\ status = [r \in Runs |-> "absent"]
    /\ rows = {}
    /\ file = [d \in Contents |-> "absent"]
    /\ pc = [c \in Cores |-> "closed"]
    /\ cur = [c \in Cores |-> None]
    /\ held = [c \in Cores |-> None]
    /\ outcome = [c \in Cores |-> "completed"]
    /\ reply = [r \in Runs |-> "none"]
    /\ left = {}

-----------------------------------------------------------------------------
\* Variants of the steps below, each with a slip the code could have had; they
\* show that the properties notice it and are no part of the specification.
OpenWithoutSweep(c) ==            \* mark_interrupted_runs is not called
    /\ pc[c] = "closed"
    /\ pc' = [pc EXCEPT ![c] = "idle"]
    /\ left' = {}
    /\ UNCHANGED <<ledger, cur, held, outcome, reply>>

OpenSweepsAll(c) ==               \* the UPDATE has no WHERE status = 'running'
    /\ pc[c] = "closed"
    /\ status' = [r \in Runs |-> IF status[r] = "absent" THEN "absent"
                                                         ELSE "interrupted"]
    /\ pc' = [pc EXCEPT ![c] = "idle"]
    /\ left' = {}
    /\ UNCHANGED <<rows, file, cur, held, outcome, reply>>

WriteArtifactInPlace(c, d) ==     \* the bytes go straight to the final name
    /\ pc[c] = "body"
    /\ held' = [held EXCEPT ![c] = d]
    /\ IF file[d] = "absent"
       THEN /\ file' = [file EXCEPT ![d] = "partial"]
            /\ pc' = [pc EXCEPT ![c] = "rename"]
       ELSE /\ pc' = [pc EXCEPT ![c] = "row"]
            /\ UNCHANGED file
    /\ UNCHANGED <<status, rows, cur, outcome, reply, left>>

-----------------------------------------------------------------------------
\* build_server: CoreStore() and, before the first request is served,
\* mark_interrupted_runs() in one committed UPDATE.
Open(c) ==
    /\ pc[c] = "closed"
    /\ status' = [r \in Runs |-> IF status[r] = "running" THEN "interrupted"
                                                          ELSE status[r]]
    /\ pc' = [pc EXCEPT ![c] = "idle"]
    /\ left' = {}
    /\ UNCHANGED <<rows, file, cur, held, outcome, reply>>

\* ManagedRun.__init__: start_run inserts the row as running and commits.
StartRun(c, r) ==
    /\ pc[c] = "idle"
    /\ status[r] = "absent"
    /\ status' = [status EXCEPT ![r] = "running"]
    /\ pc' = [pc EXCEPT ![c] = "body"]
    /\ cur' = [cur EXCEPT ![c] = r]
    /\ UNCHANGED <<rows, file, held, outcome, reply, left>>

\* write_artifact: an existing content-addressed file is reused, a missing
\* one is written under a private temporary name first.
WriteArtifact(c, d) ==
    /\ pc[c] = "body"
    /\ held' = [held EXCEPT ![c] = d]
    /\ pc' = [pc EXCEPT ![c] = IF file[d] = "absent" THEN "rename" ELSE "row"]
    /\ UNCHANGED <<status, rows, file, cur, outcome, reply, left>>

\* write_artifact: the complete temporary file takes the final name.
RenameArtifact(c) ==
    /\ pc[c] = "rename"
    /\ file' = [file EXCEPT ![held[c]] = "whole"]
    /\ pc' = [pc EXCEPT ![c] = "row"]
    /\ UNCHANGED <<status, rows, cur, held, outcome, reply, left>>

\* write_artifact: the artifacts row is inserted and committed.
InsertArtifact(c) ==
    /\ pc[c] = "row"
    /\ rows' = rows \cup {<<cur[c], held[c]>>}
    /\ held' = [held EXCEPT ![c] = None]
    /\ pc' = [pc EXCEPT ![c] = "body"]
    /\ UNCHANGED <<status, file, cur, outcome, reply, left>>

\* The handler body ends: success() asks for completed, failure() and
\* __exit__ for failed, or cancel_run for cancelled.
BodyEnds(c, v) ==
    /\ pc[c] = "body"
    /\ outcome' = [outcome EXCEPT ![c] = v]
    /\ pc' = [pc EXCEPT ![c] = "select"]
    /\ UNCHANGED <<ledger, cur, held, reply, left>>

\* The handler returns to the server loop with an answer.
Answer(c, what) ==
    /\ reply' = [reply EXCEPT ![cur[c]] = what]
    /\ pc' = [pc EXCEPT ![c] = "idle"]
    /\ cur' = [cur EXCEPT ![c] = None]

\* finish_run, first statement: the Run is still running.
SelectRunning(c) ==
    /\ pc[c] = "select"
    /\ status[cur[c]] = "running"
    /\ pc' = [pc EXCEPT ![c] = "update"]
    /\ UNCHANGED <<ledger, cur, held, outcome, reply, left>>

SelectSettledSilently(c) ==       \* success() swallows the conflict too
    /\ pc[c] = "select"
    /\ status[cur[c]] # "running"
    /\ Answer(c, IF outcome[c] = "completed" THEN "ok" ELSE outcome[c])
    /\ UNCHANGED <<ledger, held, outcome, left>>

\* finish_run, first statement: another Core has settled the Run, and
\* finish_run raises state_conflict.  cancel_run swallows it; out of
\* success() it reaches __exit__, whose failure() calls finish_run again;
\* out of failure() it is what the caller is told.
SelectSettled(c) ==
    /\ pc[c] = "select"
    /\ status[cur[c]] # "running"
    /\ \/ /\ outcome[c] = "completed"
          /\ outcome' = [outcome EXCEPT ![c] = "failed"]
          /\ UNCHANGED <<pc, cur, reply>>
       \/ /\ outcome[c] = "cancelled"
          /\ Answer(c, "cancelled")
          /\ UNCHANGED outcome
       \/ /\ outcome[c] = "failed"
          /\ Answer(c, "state_conflict")
          /\ UNCHANGED outcome
    /\ UNCHANGED <<ledger, held, left>>

UpdateRunUncommitted(c) ==        \* the commit is missing
    /\ pc[c] = "update"
    /\ Answer(c, IF outcome[c] = "completed" THEN "ok" ELSE outcome[c])
    /\ UNCHANGED <<ledger, held, outcome, left>>

UpdateRunMidway(c) ==             \* success() is called before the last artifact
    /\ pc[c] = "update"
    /\ status' = [status EXCEPT ![cur[c]] = outcome[c]]
    /\ pc' = [pc EXCEPT ![c] = "body"]
    /\ UNCHANGED <<rows, file, cur, held, outcome, reply, left>>

\* finish_run, second statement: the UPDATE names only the run_id, and
\* commits.
UpdateRun(c) ==
    /\ pc[c] = "update"
    /\ status' = [status EXCEPT ![cur[c]] = outcome[c]]
    /\ Answer(c, IF outcome[c] = "completed" THEN "ok" ELSE outcome[c])
    /\ UNCHANGED <<rows, file, held, outcome, left>>

\* ManagedRun.__exit__: an exception of the body, of an artifact's file or row,
\* or of the finish_run of success() is recorded as a failed Run.
ExceptionRecorded(c) ==
    /\ Busy(c)
    /\ pc[c] \in {"select", "update"} => outcome[c] = "completed"
    /\ outcome' = [outcome EXCEPT ![c] = "failed"]
    /\ pc' = [pc EXCEPT ![c] = "select"]
    /\ held' = [held EXCEPT ![c] = None]
    /\ UNCHANGED <<ledger, cur, reply, left>>

\* An exception that nobody records, and that the server loop answers as an
\* internal error: out of evidence_ingest, which catches ContractError only,
\* or out of the finish_run that was to record the failure.  The Run stays as
\* it is and the Core lives on.
ExceptionEscapes(c) ==
    /\ Busy(c)
    /\ left' = left \cup {cur[c]}
    /\ Answer(c, "internal")
    /\ held' = [held EXCEPT ![c] = None]
    /\ UNCHANGED <<ledger, outcome>>

\* The Core process ends at any point: killed, crashed, or told to stop while
\* a handler runs.  What SQLite committed and what was renamed stays.
Die(c) ==
    /\ pc[c] # "closed"
    /\ left' = left \cup ({cur[c]} \ {None})
    /\ pc' = [pc EXCEPT ![c] = "closed"]
    /\ cur' = [cur EXCEPT ![c] = None]
    /\ held' = [held EXCEPT ![c] = None]
    /\ UNCHANGED <<ledger, outcome, reply>>

HandlerStep(c) ==
    \/ \E d \in Contents : WriteArtifact(c, d)
    \/ RenameArtifact(c)
    \/ InsertArtifact(c)
    \/ \E v \in Verdicts : BodyEnds(c, v)
    \/ SelectRunning(c)
    \/ SelectSettled(c)
    \/ UpdateRun(c)
    \/ ExceptionRecorded(c)
    \/ ExceptionEscapes(c)

Next ==
    \E c \in Cores :
        \/ Open(c)
        \/ \E r \in Runs : StartRun(c, r)
        \/ HandlerStep(c)
        \/ Die(c)

Spec == Init /\ [][Next]_vars

\* A handler that has reported its outcome takes the next statement of
\* finish_run, or one of the two ways out of a statement that raises.
\* Nothing forces a body to end, a session to start or a Core to die.
Finishing(c) == SelectRunning(c) \/ SelectSettled(c) \/ UpdateRun(c)
FairSpec == Spec /\ \A c \in Cores : WF_vars(Finishing(c))

-----------------------------------------------------------------------------
\* Every artifacts row points to a complete file, whatever Core wrote it and
\* whichever died on the way (write_artifact: temporary name, rename, row).
ArtifactsWhole == \A row \in rows : file[row[2]] = "whole"

\* What the caller was told agrees with the ledger, in this session and every
\* later one: a success is a completed Run, a failure a failed one, a
\* cancellation or a conflict a Run that some Core settled otherwise, and an
\* internal error never a Run with a verdict.
ReplyMatchesLedger ==
    \A r \in Runs :
        /\ reply[r] = "ok" => status[r] = "completed"
        /\ reply[r] = "failed" => status[r] = "failed"
        /\ reply[r] = "cancelled" => status[r] \in {"cancelled", "interrupted"}
        /\ reply[r] = "state_conflict" => status[r] = "interrupted"
        /\ reply[r] = "internal" => status[r] \in {"running", "interrupted"}

\* A Run that its own handler settled is never rewritten, by any Core
\* (finish_run's guard, mark_interrupted_runs' WHERE clause).
VerdictIsFinal ==
    [][\A r \in Runs : status[r] \in Verdicts => status'[r] = status[r]]_vars

\* A Run is running because the handler of some Core owns it, or because its
\* handler died or raised and no Core has opened the store since: whichever
\* Core opens next settles what all the others have left behind, whether they
\* are up or not (mark_interrupted_runs at every start).
NoOrphanRun ==
    \A r \in Runs : status[r] = "running" => r \in left \/ \E c \in Cores : cur[c] = r

\* A handler that has decided its outcome gets its Run out of running, or its
\* Core dies, or the caller hears of an internal error.
OutcomeIsRecorded ==
    \A c \in Cores, r \in Runs :
        (pc[c] \in {"select", "update"} /\ cur[c] = r)
            ~> (status[r] \in Terminal \/ pc[c] = "closed" \/ reply[r] = "internal")

\* However many Cores share it, the ledger implements the life cycle of a Run,
\* where the Runs that have a handler are those some Core owns.
Lifecycle == INSTANCE RunLifecycle WITH
    Runs <- Runs, status <- status, live <- {r \in Runs : \E c \in Cores : cur[c] = r}
ImplementsLifecycle == Lifecycle!Spec
=============================================================================
