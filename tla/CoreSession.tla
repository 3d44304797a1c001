---------------------------- MODULE CoreSession -----------------------------
(***************************************************************************)
(* One Bittune session: the Node client (harness/core-client.ts), the       *)
(* evidence intake that shares it (harness/generic-evidence.ts) and the     *)
(* Python server (protocol.py, evidence.py) at the two ends of a child      *)
(* process' pipes.  The Node side is one event loop: a callback runs to its *)
(* end.  The server is a reader thread, a pump and one handler thread.      *)
(*                                                                          *)
(* A pipe and the queue behind it are one FIFO here.  A call carries its    *)
(* own name as request_id.  Progress lines are left out: the client drops   *)
(* those that are not for the pending request.                              *)
(***************************************************************************)
EXTENDS Naturals, Sequences

CONSTANTS
    Tools,       \* managed tool calls, each with an AbortSignal
    Scoped,      \* those that are made within a task scope
    Evidence,    \* staged evidence files, each one ingest_evidence call
    None,
    MaxCrashes   \* bound: how often the Core dies of its own

\* Within a task scope a tool call sends a request of its own, check_task_scope,
\* ahead of the one for the tool.
Check(c) == <<"check_task_scope", c>>
Checks == {Check(c) : c \in Scoped}
Managed == Tools \cup Checks
Calls == Managed \cup Evidence

ASSUME ScopedAreTools == Scoped \subseteq Tools
ASSUME DisjointCalls ==
    /\ Tools \cap Checks = {}
    /\ Managed \cap Evidence = {}
    /\ None \notin Managed \cup Evidence
ASSUME CrashesAreBounded == MaxCrashes \in Nat

\* The requests that carry the AbortSignal of a tool call.
Requests(c) == {k \in Managed : k = c \/ k = Check(c)}

VARIABLES
    \* callers in the Node process
    phase,       \* [Calls -> Phases]
    answer,      \* [Calls -> Answers]  how its promise settled
    aborted,     \* SUBSET Tools        AbortSignals that have fired
    tail,        \* Seq(Evidence)       ingestTails: intake is serial
    \* CoreClient
    pending,     \* Calls \cup {None}
    cancelled,   \* BOOLEAN             a cancel line was sent for pending
    dead,        \* BOOLEAN
    stopping,    \* {"no", "grace", "kill"}  stop() and its two waits
    guardFired,  \* BOOLEAN             the 15 s cancel guard has gone off
    \* the two pipes
    toCore, toNode,
    \* Core process
    server,      \* {"idle", "serving", "joining", "gone"}
    serving,     \* Calls \cup {None}   the request being served
    cancelFlag,  \* BOOLEAN             its Cancellation event
    handler,     \* Handlers            where the handler thread stands
    outcome,     \* Outcomes            what the handler returns
    crashes,     \* 0..MaxCrashes
    \* the disk
    run,         \* [Calls -> RunValues]  the committed Run of a call
    staged       \* SUBSET Evidence       staging files

callers == <<phase, answer, aborted, tail>>
client == <<pending, cancelled, dead, stopping, guardFired>>
pipes == <<toCore, toNode>>
core == <<server, serving, cancelFlag, handler, outcome, crashes>>
disk == <<run, staged>>
vars == <<callers, client, pipes, core, disk>>

Phases == {"idle", "confirming", "queued", "waiting", "ready", "pending",
           "settled"}
Ends == {"ok", "failed", "cancelled"}          \* of a handler with a Run
Outcomes == Ends \cup {"in_scope"}
Successes == {"ok", "in_scope"}
Results == Outcomes \cup {"core_busy", "core_unavailable", "core_exited",
                          "protocol_busy", "user_declined"}
Answers == [result : Results, from : Calls] \cup {None}
Handlers == {"none", "entered", "running", "committed", "done"}
RunValues == {"none", "running", "completed", "failed", "cancelled"}
Lines == [type : {"request", "cancel", "eof"}, id : Calls \cup {None}]
Replies == [id : Calls, result : Results]

TypeOK ==
    /\ phase \in [Calls -> Phases]
    /\ answer \in [Calls -> Answers]
    /\ aborted \subseteq Tools
    /\ tail \in Seq(Evidence)
    /\ pending \in Calls \cup {None}
    /\ cancelled \in BOOLEAN /\ dead \in BOOLEAN /\ guardFired \in BOOLEAN
    /\ stopping \in {"no", "grace", "kill"}
    /\ toCore \in Seq(Lines) /\ toNode \in Seq(Replies)
    /\ server \in {"idle", "serving", "joining", "gone"}
    /\ serving \in Calls \cup {None}
    /\ cancelFlag \in BOOLEAN
    /\ handler \in Handlers
    /\ outcome \in Outcomes
    /\ crashes \in 0..MaxCrashes
    /\ run \in [Calls -> RunValues]
    /\ staged \subseteq Evidence

Init ==
    /\ phase = [c \in Calls |-> "idle"]
    /\ answer = [c \in Calls |-> None]
    /\ aborted = {}
    /\ tail = <<>>
    /\ pending = None
    /\ cancelled = FALSE /\ dead = FALSE /\ guardFired = FALSE
    /\ stopping = "no"
    /\ toCore = <<>> /\ toNode = <<>>
    /\ server = "idle"
    /\ serving = None
    /\ cancelFlag = FALSE
    /\ handler = "none"
    /\ outcome = "ok"
    /\ crashes = 0
    /\ run = [c \in Calls |-> "none"]
    /\ staged = {}

-----------------------------------------------------------------------------
(* CoreClient *)

\* sendLine: nothing is written once the client is dead or stdin has ended;
\* a line written to a process that is gone is lost.
Send(line) ==
    toCore' = IF dead \/ stopping # "no" \/ server = "gone"
              THEN toCore ELSE Append(toCore, line)

\* flushIdle: every waiter of whenIdle continues.
Woken(ph) == [c \in Calls |-> IF ph[c] = "waiting" THEN "ready" ELSE ph[c]]

\* The promise of a call settles; an evidence call leaves the head of the
\* intake queue, whose next member continues.
Settled(ph, c) == [ph EXCEPT ![c] = "settled"]
AnswerTo(c, result, from) ==
    answer' = [answer EXCEPT ![c] = [result |-> result, from |-> from]]
Dequeue(c) == tail' = IF c \in Evidence THEN Tail(tail) ELSE tail

\* Variant: failPending does not wake the waiters.
FailPendingQuietly(result) ==
    /\ pending' = None
    /\ cancelled' = FALSE
    /\ IF pending = None
       THEN UNCHANGED <<phase, answer, tail>>
       ELSE /\ phase' = Settled(phase, pending)
            /\ AnswerTo(pending, result, pending)
            /\ Dequeue(pending)

\* failPending: pending is cleared, waiters are woken, the promise rejects.
FailPending(result) ==
    /\ pending' = None
    /\ cancelled' = FALSE
    /\ IF pending = None
       THEN /\ phase' = Woken(phase)
            /\ UNCHANGED <<answer, tail>>
       ELSE /\ phase' = Settled(Woken(phase), pending)
            /\ AnswerTo(pending, result, pending)
            /\ Dequeue(pending)

\* The Core process is gone, and its handler thread with it.
Gone ==
    /\ server' = "gone"
    /\ serving' = None
    /\ handler' = "none"

\* request(): refused when the Core is dead or a request is in flight.
Request(c) ==
    \/ /\ dead
       /\ phase' = Settled(phase, c)
       /\ AnswerTo(c, "core_unavailable", c)
       /\ Dequeue(c)
       /\ UNCHANGED <<pending, cancelled, toCore>>
    \/ /\ ~dead /\ pending # None
       /\ IF c \in Evidence        \* isCoreBusy: ingestStagedEvidence loops
          THEN /\ phase' = [phase EXCEPT ![c] = "queued"]
               /\ UNCHANGED <<answer, tail>>
          ELSE /\ phase' = Settled(phase, c)
               /\ AnswerTo(c, "core_busy", c)
               /\ UNCHANGED tail
       /\ UNCHANGED <<pending, cancelled, toCore>>
    \/ /\ ~dead /\ pending = None
       /\ pending' = c
       /\ cancelled' = FALSE
       /\ phase' = [phase EXCEPT ![c] = "pending"]
       /\ Send([type |-> "request", id |-> c])
       /\ UNCHANGED <<answer, tail>>

\* makeExecute, within a task scope: ask the Core first whether the call is
\* allowed.  A check that is not answered with a success ends the tool call.
SendCheck(c) ==
    /\ c \in Scoped /\ phase[Check(c)] = "idle"
    /\ Request(Check(c))
    /\ UNCHANGED <<aborted, dead, stopping, guardFired, toNode, core, disk>>

InScope(c) ==
    c \in Scoped => /\ phase[Check(c)] = "settled"
                    /\ answer[Check(c)].result \in Successes

\* makeExecute: the call may be asked to confirm, in up to two dialogs ...
StartTool(c) ==
    /\ c \in Tools /\ phase[c] = "idle" /\ InScope(c)
    /\ phase' = [phase EXCEPT ![c] = "confirming"]
    /\ UNCHANGED <<answer, aborted, tail, client, pipes, core, disk>>

\* ... the user declines one, and the Core is not called ...
Decline(c) ==
    /\ c \in Tools /\ phase[c] = "confirming"
    /\ phase' = Settled(phase, c)
    /\ AnswerTo(c, "user_declined", c)
    /\ UNCHANGED <<aborted, tail, client, pipes, core, disk>>

\* ... or confirms what there is to confirm, and the request is sent.
SendTool(c) ==
    /\ c \in Tools /\ phase[c] = "confirming"
    /\ Request(c)
    /\ UNCHANGED <<aborted, dead, stopping, guardFired, toNode, core, disk>>

\* Variant: abandoning a call on abort without telling the Core.
AbortSilently(c) ==
    /\ c \in Tools \ aborted
    /\ \E k \in Requests(c) : phase[k] \in {"confirming", "pending"}
    /\ aborted' = aborted \cup {c}
    /\ IF pending \in Requests(c) /\ ~cancelled /\ ~dead
       THEN /\ pending' = None
            /\ phase' = Settled(Woken(phase), pending)
            /\ AnswerTo(pending, "cancelled", pending)
       ELSE UNCHANGED <<pending, phase, answer>>
    /\ UNCHANGED <<tail, cancelled, dead, stopping, guardFired, pipes, core,
                   disk>>

\* The AbortSignal of a call fires.  request() has installed a listener only
\* if a request of the call is pending; it sends one cancel line and starts
\* the guard.  A signal that fired before the request was sent does nothing.
Abort(c) ==
    /\ c \in Tools \ aborted
    /\ \E k \in Requests(c) : phase[k] \in {"confirming", "pending"}
    /\ aborted' = aborted \cup {c}
    /\ IF pending \in Requests(c) /\ ~cancelled /\ ~dead
       THEN /\ cancelled' = TRUE
            /\ Send([type |-> "cancel", id |-> pending])
       ELSE UNCHANGED <<cancelled, toCore>>
    /\ UNCHANGED <<phase, answer, tail, pending, dead, stopping, guardFired,
                   toNode, core, disk>>

\* Variant: the cancel guard spares a handler that is still working.
CancelGuardSparing ==
    /\ cancelled /\ handler # "running"
    /\ guardFired' = TRUE
    /\ Gone
    /\ FailPending("core_unavailable")
    /\ UNCHANGED <<aborted, dead, stopping, pipes, cancelFlag, outcome,
                   crashes, disk>>

\* cancelGuard: fifteen seconds after the cancel line without an answer the
\* child is killed (SIGTERM has its default disposition in the Core) and the
\* call rejected.  dead stays FALSE until the exit event, and lines the Core
\* had written before are still read.
CancelGuard ==
    /\ cancelled
    /\ guardFired' = TRUE
    /\ Gone
    /\ FailPending("core_unavailable")
    /\ UNCHANGED <<aborted, dead, stopping, pipes, cancelFlag, outcome,
                   crashes, disk>>

\* onLine: a result settles whatever request is pending.
OnLine ==
    /\ ~dead /\ toNode # <<>>
    /\ toNode' = Tail(toNode)
    /\ pending' = None
    /\ cancelled' = FALSE
    /\ IF pending = None
       THEN /\ phase' = Woken(phase)
            /\ UNCHANGED <<answer, tail>>
       ELSE /\ phase' = Settled(Woken(phase), pending)
            /\ AnswerTo(pending, Head(toNode).result, Head(toNode).id)
            /\ Dequeue(pending)
    /\ UNCHANGED <<aborted, dead, stopping, guardFired, toCore, core, disk>>

\* onExit: the streams are destroyed, lines not yet read with them.
OnExit ==
    /\ server = "gone" /\ ~dead
    /\ dead' = TRUE
    /\ toNode' = <<>>
    /\ FailPending("core_exited")
    /\ UNCHANGED <<aborted, stopping, guardFired, toCore, core, disk>>

\* stop(): stdin is ended, then the exit is awaited for three seconds.
Stop ==
    /\ stopping = "no" /\ ~dead
    /\ stopping' = "grace"
    /\ Send([type |-> "eof", id |-> None])
    /\ UNCHANGED <<callers, pending, cancelled, dead, guardFired, toNode,
                   core, disk>>

\* stop(): the grace period is over, the child is killed.
StopKill ==
    /\ stopping = "grace" /\ ~dead
    /\ stopping' = "kill"
    /\ Gone
    /\ UNCHANGED <<callers, pending, cancelled, dead, guardFired, pipes,
                   cancelFlag, outcome, crashes, disk>>

-----------------------------------------------------------------------------
(* Evidence intake *)

\* submitEvidence: the file is staged and joins the serial intake.
Stage(e) ==
    /\ e \in Evidence /\ phase[e] = "idle"
    /\ staged' = staged \cup {e}
    /\ tail' = Append(tail, e)
    /\ phase' = [phase EXCEPT ![e] = "queued"]
    /\ UNCHANGED <<answer, aborted, client, pipes, core, run>>

\* ingestStagedEvidence: wait until no request is in flight (whenIdle) ...
AwaitIdle(e) ==
    /\ e \in Evidence /\ phase[e] = "queued"
    /\ tail # <<>> /\ Head(tail) = e
    /\ phase' = [phase EXCEPT ![e] = IF dead \/ pending = None THEN "ready"
                                                               ELSE "waiting"]
    /\ UNCHANGED <<answer, aborted, tail, client, pipes, core, disk>>

\* ... then ask the Core to ingest; core_busy starts over.
Ingest(e) ==
    /\ e \in Evidence /\ phase[e] = "ready"
    /\ Request(e)
    /\ UNCHANGED <<aborted, dead, stopping, guardFired, toNode, core, disk>>

-----------------------------------------------------------------------------
(* Server *)

Receive == server # "gone" /\ toCore # <<>> /\ toCore' = Tail(toCore)
Emit(c, result) == toNode' = Append(toNode, [id |-> c, result |-> result])

\* _handle_queued: end of input ends the process, a cancel is stale.
ReceiveIdle ==
    /\ server = "idle"
    /\ Receive
    /\ Head(toCore).type # "request"
    /\ server' = IF Head(toCore).type = "eof" THEN "gone" ELSE "idle"
    /\ UNCHANGED <<callers, client, toNode, serving, cancelFlag, handler,
                   outcome, crashes, disk>>

\* _serve_request: a fresh Cancellation and a handler thread.
Serve ==
    /\ server = "idle"
    /\ Receive
    /\ Head(toCore).type = "request"
    /\ server' = "serving"
    /\ serving' = Head(toCore).id
    /\ cancelFlag' = FALSE
    /\ handler' = "entered"
    /\ UNCHANGED <<callers, client, toNode, outcome, crashes, disk>>

\* The pump of _serve_request takes a line while the handler is alive.
Pump ==
    /\ server = "serving"
    /\ Receive
    /\ LET line == Head(toCore) IN
       \/ /\ line.type = "cancel"
          /\ cancelFlag' = (cancelFlag \/ line.id = serving)
          /\ UNCHANGED <<toNode, server>>
       \/ /\ line.type = "request"
          /\ Emit(line.id, "protocol_busy")
          /\ UNCHANGED <<cancelFlag, server>>
       \/ /\ line.type = "eof"
          /\ cancelFlag' = TRUE
          /\ server' = "joining"
          /\ UNCHANGED toNode
    /\ UNCHANGED <<callers, client, serving, handler, outcome, crashes, disk>>

\* Variant: the eof seen by the pump is forgotten (no self.ended).
EmitResultForgetsEof ==
    /\ server \in {"serving", "joining"} /\ handler = "done"
    /\ Emit(serving, outcome)
    /\ server' = "idle"
    /\ serving' = None
    /\ handler' = "none"
    /\ UNCHANGED <<callers, client, toCore, cancelFlag, outcome, crashes,
                   disk>>

\* The handler is done: its result is emitted; after end of input the
\* process exits, otherwise it waits for the next line.
EmitResult ==
    /\ server \in {"serving", "joining"} /\ handler = "done"
    /\ Emit(serving, outcome)
    /\ server' = IF server = "joining" THEN "gone" ELSE "idle"
    /\ serving' = None
    /\ handler' = "none"
    /\ UNCHANGED <<callers, client, toCore, cancelFlag, outcome, crashes,
                   disk>>

\* thread.join(timeout=5) after end of input gives up on the handler.
JoinTimeout ==
    /\ server = "joining" /\ handler # "done"
    /\ Emit(serving, "core_unavailable")
    /\ server' = "gone"
    /\ serving' = None
    /\ handler' = "none"
    /\ UNCHANGED <<callers, client, toCore, cancelFlag, outcome, crashes,
                   disk>>

\* The handler refuses its parameters, or the task scope does, before it opens
\* a Run.
Refuse ==
    /\ handler = "entered"
    /\ handler' = "done"
    /\ outcome' = "failed"
    /\ UNCHANGED <<callers, client, pipes, server, serving, cancelFlag,
                   crashes, disk>>

\* check_task_scope: the call is within the scope.  No Run is opened.
Allow ==
    /\ handler = "entered" /\ serving \in Checks
    /\ handler' = "done"
    /\ outcome' = "in_scope"
    /\ UNCHANGED <<callers, client, pipes, server, serving, cancelFlag,
                   crashes, disk>>

\* Variant: the staged file is unlinked as soon as it is read.
OpenRunUnlinks ==
    /\ handler = "entered" /\ serving \notin Checks
    /\ serving \in Evidence => serving \in staged
    /\ run' = [run EXCEPT ![serving] = "running"]
    /\ staged' = staged \ {serving}
    /\ handler' = "running"
    /\ UNCHANGED <<callers, client, pipes, server, serving, cancelFlag,
                   outcome, crashes>>

\* The handler opens its Run; ingest_evidence needs the staged file.
OpenRun ==
    /\ handler = "entered" /\ serving \notin Checks
    /\ serving \in Evidence => serving \in staged
    /\ run' = [run EXCEPT ![serving] = "running"]
    /\ handler' = "running"
    /\ UNCHANGED <<callers, client, pipes, server, serving, cancelFlag,
                   outcome, crashes, staged>>

\* Variant: the result is settled before the Run is committed.
CommitRunAfterwards ==
    /\ handler = "running"
    /\ \E o \in Ends :
          /\ o = "cancelled" => cancelFlag
          /\ outcome' = o
    /\ handler' = "done"
    /\ UNCHANGED <<callers, client, pipes, server, serving, cancelFlag,
                   crashes, disk>>

\* The handler commits the terminal status of its Run.  It may or may not
\* look at the flag before it is through.  Evidence of a tool that failed is
\* committed as that; "completed" here is the status that the file asks for.
CommitRun ==
    /\ handler = "running"
    /\ \E o \in Ends :
          /\ o = "cancelled" => cancelFlag
          /\ outcome' = o
          /\ run' = [run EXCEPT ![serving] = IF o = "ok" THEN "completed" ELSE o]
    /\ handler' = "committed"
    /\ UNCHANGED <<callers, client, pipes, server, serving, cancelFlag,
                   crashes, staged>>

\* The handler raises what it does not foresee (a full disk, a locked
\* database, a file that cannot be unlinked): the server answers for it, and
\* the Run stays as it is.
Raise ==
    /\ \/ handler = "running"
       \/ handler = "committed" /\ outcome = "ok" /\ serving \in Evidence
    /\ handler' = "done"
    /\ outcome' = "failed"
    /\ UNCHANGED <<callers, client, pipes, server, serving, cancelFlag,
                   crashes, disk>>

\* The handler returns; ingest_evidence first unlinks the staged file.
Return ==
    /\ handler = "committed"
    /\ staged' = IF outcome = "ok" THEN staged \ {serving} ELSE staged
    /\ handler' = "done"
    /\ UNCHANGED <<callers, client, pipes, server, serving, cancelFlag,
                   outcome, crashes, run>>

\* The process ends of its own: it crashes or somebody else kills it.
CoreDies ==
    /\ server # "gone" /\ crashes < MaxCrashes
    /\ crashes' = crashes + 1
    /\ Gone
    /\ UNCHANGED <<callers, client, pipes, cancelFlag, outcome, disk>>

-----------------------------------------------------------------------------
ToolStep(c) == SendCheck(c) \/ StartTool(c) \/ Decline(c) \/ SendTool(c) \/ Abort(c)
IntakeStep(e) == AwaitIdle(e) \/ Ingest(e)
ClientStep == OnLine \/ OnExit
ServerStep == ReceiveIdle \/ Serve \/ Pump \/ EmitResult \/ JoinTimeout
HandlerStep == Refuse \/ Allow \/ OpenRun \/ CommitRun \/ Raise \/ Return

\* Nothing is left to do: the Core is gone, and every call has settled or was
\* refused by its check.
Done ==
    /\ dead
    /\ \A c \in Calls : \/ phase[c] = "settled"
                         \/ /\ c \in Scoped /\ phase[Check(c)] = "settled"
                            /\ ~InScope(c)
    /\ UNCHANGED vars

Next ==
    \/ \E c \in Tools : ToolStep(c)
    \/ \E e \in Evidence : Stage(e) \/ IntakeStep(e)
    \/ CancelGuard \/ ClientStep \/ Stop \/ StopKill
    \/ ServerStep \/ HandlerStep \/ CoreDies
    \/ Done

Spec == Init /\ [][Next]_vars

\* The event loop delivers timers, lines and exits; the pump polls its queue.
\* No handler is assumed to end, no user to act, and stop() is not assumed to
\* come to its kill.
Fairness ==
    /\ WF_vars(ClientStep) /\ WF_vars(CancelGuard)
    /\ WF_vars(ServerStep)
    /\ \A e \in Evidence : WF_vars(IntakeStep(e))
FairSpec == Spec /\ Fairness

-----------------------------------------------------------------------------
\* A call is answered by its own result, whatever the order of lines, aborts,
\* exits and refusals.  onLine does not compare request ids: this rests on the
\* client and the server each having one request at a time, and so it is
\* claimed only until the cancel guard has broken that.
OwnAnswer ==
    ~guardFired =>
        \A c \in Calls : answer[c] # None => answer[c].from = c

\* No call is told that it succeeded unless its own Run is committed as
\* completed (the class comment of CoreClient); with or without the guard.
NoFabricatedSuccess ==
    \A c \in Calls \ Checks :
        (answer[c] # None /\ answer[c].result \in Successes) => run[c] = "completed"

\* The same before the guard goes off.
SuccessIsCommitted == guardFired \/ NoFabricatedSuccess

\* With every line, abort, exit and kill the session implements calls that are
\* executed once and answered once, with what is true of their Runs.
Promise == INSTANCE CallPromise WITH broken <- guardFired
ImplementsPromise == Promise!Spec

\* A caller parked in whenIdle waits for a request that is still in flight,
\* so some later callback wakes it.
NoLostWakeup ==
    \A e \in Evidence : phase[e] = "waiting" => pending # None /\ ~dead

\* Staged evidence is on disk until its Run is committed, through every
\* crash, refusal and kill.
EvidenceKept ==
    \A e \in Evidence :
        phase[e] # "idle" => e \in staged \/ run[e] = "completed"

\* A request that was cancelled, of a tool or of its check, settles even if its
\* handler never ends.
AbortedCallSettles ==
    \A c \in Managed :
        (pending = c /\ cancelled) ~> (phase[c] = "settled")

\* Once stop() has ended stdin the Core exits by itself, whatever the handler
\* does, and the client notices and settles the call that was in flight.
SessionEnds == (stopping # "no") ~> (dead /\ pending = None)

\* Every piece of evidence leaves the intake queue, if handlers end (every
\* child process of theirs has a time limit): its receipt is returned or the
\* caller is told that it was not saved.
EvidenceSettles ==
    WF_vars(HandlerStep) =>
        \A e \in Evidence : (phase[e] = "queued") ~> (phase[e] = "settled")
=============================================================================
