---------------------------- MODULE Investigate ----------------------------
(***************************************************************************)
(* The investigate tool of the harness (subagent.ts, child-extension.ts,    *)
(* tui/host-status.ts).  Each call takes one of a few slots, opens a child  *)
(* session, lets the child read and run commands up to a limit of tools and *)
(* turns, and answers.  Calls of one turn run side by side; the user aborts *)
(* the turn, the session shuts down, and children ask for confirmation in   *)
(* the single dialog of the terminal (interactive-mode.ts).  A request of   *)
(* the child may fail, be retried, or leave a context too full to go on     *)
(* with.  A step is what runs between two awaits.                           *)
(***************************************************************************)
EXTENDS Naturals, FiniteSets

CONSTANTS
    Ids,         \* calls of investigate, each made once
    Capacity,    \* COPY.collab.capacity
    TurnLimit,   \* INVESTIGATE_TURN_LIMIT
    ToolLimit,   \* INVESTIGATE_TOOL_LIMIT
    Allowed,     \* calls whose child runs commands the scout policy allows
    Asked,       \* calls whose child runs commands that need a confirmation
    Unchecked,   \* calls whose child.prompt still has to check credentials
    Failing,     \* calls whose model may fail or fill its context
    MaxRetries,  \* settings.retry.maxRetries
    None         \* no dialog

ASSUME ConstantsAssumption ==
    /\ IsFiniteSet(Ids) /\ None \notin Ids
    /\ Allowed \subseteq Ids /\ Asked \subseteq Ids /\ Unchecked \subseteq Ids
    /\ Failing \subseteq Ids /\ MaxRetries \in Nat
    /\ Capacity \in Nat /\ TurnLimit \in Nat \ {0} /\ ToolLimit \in Nat \ {0}

VARIABLES
    pc,        \* [Ids -> Stages]         where execute is
    run,       \* [Ids -> Runs]           where the child's prompt is
    turns,     \* [Ids -> Nat]
    tools,     \* [Ids -> Nat]            tool results of the child
    retries,   \* [Ids -> Nat]            its failed requests in a row
    cancelled, \* [Ids -> BOOLEAN]        execute's flags
    limited,   \* [Ids -> BOOLEAN]
    stopped,   \* [Ids -> BOOLEAN]        the child's run was told to stop
    reply,     \* [Ids -> Replies]        what execute is about to answer
    active,    \* SUBSET Ids              InvestigateScheduler
    aborted,   \* SUBSET Ids
    collab,    \* [Ids -> Phases]         HostStatusStore, "none": no slot
    dialog,    \* Ids \cup {None}         whose question is on the screen
    signal,    \* BOOLEAN                 the parent's turn was aborted
    closing    \* BOOLEAN                 session_shutdown was emitted

child == <<run, turns, tools, retries, limited, stopped>>
scheduler == <<active, aborted>>
parent == <<signal, closing>>
vars == <<pc, child, cancelled, reply, scheduler, collab, dialog, parent>>

Stages == {"new", "creating", "prompting", "closing", "settled"}
Runs == {"none", "preflight", "model", "turn", "asking", "tool", "retry", "full",
         "over"}
Replies == {"none", "cancelled", "limit", "failed", "conclusion"}
Live == {"running", "awaiting_confirm"}
Phases == Live \cup {"none", "done", "failed"}

Working(i) == pc[i] \in {"creating", "prompting", "closing"}
\* What child.abort ends: a run of the agent, or the wait before a retry.
Running(i) == run[i] \in {"model", "turn", "asking", "tool", "retry"}

Init ==
    /\ pc = [i \in Ids |-> "new"]
    /\ run = [i \in Ids |-> "none"]
    /\ turns = [i \in Ids |-> 0]
    /\ tools = [i \in Ids |-> 0]
    /\ retries = [i \in Ids |-> 0]
    /\ cancelled = [i \in Ids |-> FALSE]
    /\ limited = [i \in Ids |-> FALSE]
    /\ stopped = [i \in Ids |-> FALSE]
    /\ reply = [i \in Ids |-> "none"]
    /\ collab = [i \in Ids |-> "none"]
    /\ active = {} /\ aborted = {}
    /\ dialog = None /\ signal = FALSE /\ closing = FALSE

---------------------------------------------------------------------------
\* setCollab with a phase, and with a title only: a slot the hold timer has
\* removed comes back as running.
Show(i, phase) == collab' = [collab EXCEPT ![i] = phase]
Title(i) == IF collab[i] = "none" THEN "running" ELSE collab[i]

Answer(i, stage, text) ==
    /\ pc' = [pc EXCEPT ![i] = stage]
    /\ reply' = [reply EXCEPT ![i] = text]

Cancelled(i) == cancelled[i] \/ signal \/ i \in aborted

\* abortChild of some calls: agent.abort ends a run, and there is none before
\* the child exists or while child.prompt still checks credentials.
AbortChildren(S) ==
    /\ cancelled' = [i \in Ids |-> cancelled[i] \/ i \in S]
    /\ stopped' = [i \in Ids |-> stopped[i] \/ (i \in S /\ Running(i))]

---------------------------------------------------------------------------
(* execute                                                                  *)

\* tryAcquire finds no slot.
Busy(i) ==
    /\ pc[i] = "new" /\ Cardinality(active) >= Capacity
    /\ aborted' = aborted \ {i}
    /\ pc' = [pc EXCEPT ![i] = "settled"]
    /\ UNCHANGED <<child, cancelled, reply, active, collab, dialog, parent>>

BeginKeepsSlot(i) ==              \* the early return forgets the slot
    /\ pc[i] = "new" /\ Cardinality(active) < Capacity
    /\ aborted' = aborted \ {i}
    /\ active' = active \cup {i}
    /\ IF signal
       THEN Answer(i, "settled", "none") /\ Show(i, "failed")
       ELSE Answer(i, "creating", "none") /\ Show(i, "running")
    /\ UNCHANGED <<child, cancelled, dialog, parent>>

\* A slot is taken; a call of a turn already aborted gives it back at once.
Begin(i) ==
    /\ pc[i] = "new" /\ Cardinality(active) < Capacity
    /\ aborted' = aborted \ {i}
    /\ IF signal
       THEN /\ Answer(i, "settled", "none") /\ Show(i, "failed")
            /\ UNCHANGED active
       ELSE /\ Answer(i, "creating", "none") /\ Show(i, "running")
            /\ active' = active \cup {i}
    /\ UNCHANGED <<child, cancelled, dialog, parent>>

SessionCreatedUnheeded(i) ==      \* what came during the await is not looked at
    /\ pc[i] = "creating"
    /\ Answer(i, "prompting", "none")
    /\ run' = [run EXCEPT ![i] = IF i \in Unchecked THEN "preflight" ELSE "model"]
    /\ UNCHANGED <<turns, tools, retries, limited, stopped, cancelled, collab, scheduler,
                   dialog, parent>>

\* createSession resolves; setAbort fires if abortAll has come meanwhile.
SessionCreated(i) ==
    /\ pc[i] = "creating"
    /\ cancelled' = [cancelled EXCEPT ![i] = @ \/ i \in aborted \/ i \notin active]
    /\ IF cancelled'[i] \/ signal
       THEN /\ Answer(i, "closing", "cancelled") /\ Show(i, "failed")
            /\ UNCHANGED child
       ELSE /\ Answer(i, "prompting", "none")
            /\ run' = [run EXCEPT ![i] = IF i \in Unchecked THEN "preflight" ELSE "model"]
            /\ UNCHANGED <<turns, tools, retries, limited, stopped, collab>>
    /\ UNCHANGED <<scheduler, dialog, parent>>

\* createSession or child.prompt throws before the child has run.
SessionFails(i) ==
    /\ pc[i] = "creating" \/ run[i] = "preflight"
    /\ Answer(i, "closing", IF Cancelled(i) THEN "cancelled" ELSE "failed")
    /\ Show(i, "failed")
    /\ run' = [run EXCEPT ![i] = "over"]
    /\ UNCHANGED <<turns, tools, retries, limited, stopped, cancelled, scheduler,
                   dialog, parent>>

ResumeUnlimited(i) ==             \* the limit is not looked at
    /\ pc[i] = "prompting" /\ run[i] = "over"
    /\ LET text == IF Cancelled(i) THEN "cancelled" ELSE "conclusion"
       IN /\ Answer(i, "closing", text)
          /\ Show(i, IF text = "conclusion" THEN "done" ELSE "failed")
    /\ UNCHANGED <<child, cancelled, scheduler, dialog, parent>>

\* child.prompt has resolved.
Resume(i) ==
    /\ pc[i] = "prompting" /\ run[i] = "over"
    /\ LET text == IF limited[i] THEN "limit"
                   ELSE IF Cancelled(i) THEN "cancelled" ELSE "conclusion"
       IN /\ Answer(i, "closing", text)
          /\ Show(i, IF text = "conclusion" THEN "done" ELSE "failed")
    /\ UNCHANGED <<child, cancelled, scheduler, dialog, parent>>

\* finally: the staged evidence was handed over, the child is disposed of with
\* its counters and execute's flags, the slot is released.
Release(i) ==
    /\ pc[i] = "closing"
    /\ pc' = [pc EXCEPT ![i] = "settled"]
    /\ run' = [run EXCEPT ![i] = "none"]
    /\ turns' = [turns EXCEPT ![i] = 0]
    /\ tools' = [tools EXCEPT ![i] = 0]
    /\ retries' = [retries EXCEPT ![i] = 0]
    /\ cancelled' = [cancelled EXCEPT ![i] = FALSE]
    /\ limited' = [limited EXCEPT ![i] = FALSE]
    /\ stopped' = [stopped EXCEPT ![i] = FALSE]
    /\ active' = active \ {i}
    /\ aborted' = aborted \ {i}
    /\ reply' = [reply EXCEPT ![i] = "none"]
    /\ UNCHANGED <<collab, dialog, parent>>

---------------------------------------------------------------------------
(* The child session: prompt, turns, tool calls, confirmations, limits.     *)

Checked(i) ==
    /\ run[i] = "preflight"
    /\ run' = [run EXCEPT ![i] = "model"]
    /\ UNCHANGED <<pc, turns, tools, retries, limited, stopped, cancelled, reply,
                   scheduler, collab, dialog, parent>>

\* onLimit and handle.abort, when a turn or a tool result was one too many.
Limit(i, reached) ==
    /\ limited' = [limited EXCEPT ![i] = @ \/ reached]
    /\ stopped' = [stopped EXCEPT ![i] = @ \/ reached]

TurnEnds(i) ==
    /\ turns' = [turns EXCEPT ![i] = @ + 1]
    /\ Limit(i, turns[i] + 1 >= TurnLimit)

\* The model concludes, or was told to stop; a conclusion may leave the context
\* over the threshold.
RunEnds(i) ==
    /\ run[i] = "model"
    /\ \E next \in {"over"} \cup (IF i \in Failing /\ ~stopped[i] THEN {"full"} ELSE {}) :
           run' = [run EXCEPT ![i] = next]
    /\ TurnEnds(i)
    /\ UNCHANGED <<pc, tools, retries, cancelled, reply, scheduler, collab, dialog, parent>>

\* The request fails: its turn counts, but there is no run left for onLimit to
\* stop, and a retry is a new one.  An error that is not retried, the last one
\* and an overflow end the prompt, which resolves all the same.
RequestFails(i) ==
    /\ i \in Failing
    /\ run[i] = "model" /\ ~stopped[i]
    /\ turns' = [turns EXCEPT ![i] = @ + 1]
    /\ limited' = [limited EXCEPT ![i] = @ \/ turns[i] + 1 >= TurnLimit]
    /\ \/ /\ retries[i] < MaxRetries
          /\ retries' = [retries EXCEPT ![i] = @ + 1]
          /\ run' = [run EXCEPT ![i] = "retry"]
       \/ /\ \E next \in {"over", "full"} : run' = [run EXCEPT ![i] = next]
          /\ UNCHANGED retries
    /\ UNCHANGED <<pc, tools, stopped, cancelled, reply, scheduler, collab, dialog, parent>>

\* The wait before the retry is over, or was cancelled by child.abort.
RetryBegins(i) ==
    /\ run[i] = "retry"
    /\ run' = [run EXCEPT ![i] = IF stopped[i] THEN "over" ELSE "model"]
    /\ UNCHANGED <<pc, turns, tools, retries, limited, stopped, cancelled, reply,
                   scheduler, collab, dialog, parent>>

\* compaction_start: child.abort finds neither a run nor a retry to end, and the
\* child's extension cancels the compaction; child.prompt resolves.
CompactionRefused(i) ==
    /\ run[i] = "full"
    /\ run' = [run EXCEPT ![i] = "over"]
    /\ UNCHANGED <<pc, turns, tools, retries, limited, stopped, cancelled, reply,
                   scheduler, collab, dialog, parent>>

\* The model calls a tool (one per turn): the scout policy allows it or refuses,
CallTool(i) ==
    /\ i \in Allowed
    /\ run[i] = "model" /\ ~stopped[i]
    /\ \E next \in {"tool", "turn"} : run' = [run EXCEPT ![i] = next]
    /\ Show(i, Title(i))
    /\ retries' = [retries EXCEPT ![i] = 0]
    /\ UNCHANGED <<pc, turns, tools, limited, stopped, cancelled, reply,
                   scheduler, dialog, parent>>

\* or asks: showExtensionSelector replaces the dialog that is there, and the
\* question it replaces is never answered.
AskUser(i) ==
    /\ i \in Asked
    /\ run[i] = "model" /\ ~stopped[i]
    /\ run' = [run EXCEPT ![i] = "asking"]
    /\ Show(i, "awaiting_confirm")
    /\ dialog' = i
    /\ retries' = [retries EXCEPT ![i] = 0]
    /\ UNCHANGED <<pc, turns, tools, limited, stopped, cancelled, reply,
                   scheduler, parent>>

\* The hook returns to the child's loop, which goes on unless it was stopped.
UserAnswers(i) ==
    /\ dialog = i
    /\ dialog' = None
    /\ \E approved \in BOOLEAN :
        /\ Show(i, IF approved THEN "running" ELSE "failed")
        /\ run' = [run EXCEPT ![i] =
                     IF approved /\ ~stopped[i] THEN "tool" ELSE "turn"]
    /\ UNCHANGED <<pc, turns, tools, retries, limited, stopped, cancelled, reply,
                   scheduler, parent>>

\* tool_result: counted, also when the command was killed by an abort.
ToolEnds(i) ==
    /\ run[i] = "tool"
    /\ tools' = [tools EXCEPT ![i] = @ + 1]
    /\ Limit(i, tools[i] + 1 >= ToolLimit)
    /\ run' = [run EXCEPT ![i] = "turn"]
    /\ Show(i, Title(i))
    /\ UNCHANGED <<pc, turns, retries, cancelled, reply, scheduler, dialog, parent>>

EndTurn(i) ==
    /\ run[i] = "turn"
    /\ run' = [run EXCEPT ![i] = "model"]
    /\ TurnEnds(i)
    /\ UNCHANGED <<pc, tools, retries, cancelled, reply, scheduler, collab, dialog, parent>>

---------------------------------------------------------------------------
(* The parent session                                                       *)

\* Escape in the editor, which has the focus only while no dialog is shown.
AbortTurn ==
    /\ ~closing /\ dialog = None /\ ~signal
    /\ signal' = TRUE
    /\ AbortChildren({i \in Ids : pc[i] \in {"creating", "prompting"}})
    /\ UNCHANGED <<pc, run, turns, tools, retries, limited, reply, scheduler,
                   collab, dialog, closing>>

\* The next prompt: its turn has a signal of its own (before_agent_start).
NextTurn ==
    /\ ~closing
    /\ \A i \in Ids : ~Working(i)
    /\ signal \/ \E i \in Ids : collab[i] # "none"
    /\ signal' = FALSE
    /\ collab' = [i \in Ids |-> IF collab[i] \in Live THEN collab[i] ELSE "none"]
    /\ UNCHANGED <<pc, child, cancelled, reply, scheduler, dialog, closing>>

\* session_shutdown: abortAll.
Shutdown ==
    /\ ~closing
    /\ closing' = TRUE
    /\ AbortChildren(active)
    /\ aborted' = aborted \cup active
    /\ active' = {}
    /\ UNCHANGED <<pc, run, turns, tools, retries, limited, reply, collab, dialog,
                   signal>>

\* The hold timer, armed by setCollab while nothing live is shown.
HoldExpires ==
    /\ \A i \in Ids : collab[i] \notin Live
    /\ \E i \in Ids : collab[i] # "none"
    /\ collab' = [i \in Ids |-> "none"]
    /\ UNCHANGED <<pc, child, cancelled, reply, scheduler, dialog, parent>>

---------------------------------------------------------------------------
Execute(i) ==
    \/ Busy(i) \/ Begin(i) \/ SessionCreated(i) \/ SessionFails(i)
    \/ Resume(i) \/ Release(i)

Child(i) ==
    \/ Checked(i) \/ RunEnds(i) \/ RequestFails(i) \/ RetryBegins(i)
    \/ CompactionRefused(i) \/ CallTool(i) \/ AskUser(i)
    \/ UserAnswers(i) \/ ToolEnds(i) \/ EndTurn(i)

Next ==
    \/ \E i \in Ids : Execute(i) \/ Child(i)
    \/ AbortTurn \/ NextTurn \/ Shutdown \/ HoldExpires

Spec == Init /\ [][Next]_vars

(***************************************************************************)
(* What is promised to happen to a call: the event loop resumes it when it  *)
(* can go on; the user answers its question if that is on the screen; a     *)
(* request and a command that were aborted end.  Left alone, a model or a   *)
(* command may hang.                                                        *)
(***************************************************************************)
Promised(i) ==
    \/ SessionCreated(i) \/ SessionFails(i) \/ Checked(i) \/ Resume(i)
    \/ Release(i) \/ UserAnswers(i) \/ EndTurn(i)
    \/ RetryBegins(i) \/ CompactionRefused(i)
    \/ stopped[i] /\ (RunEnds(i) \/ ToolEnds(i))

FairSpec == Spec /\ \A i \in Ids : WF_vars(Promised(i))

---------------------------------------------------------------------------
(* Properties                                                               *)

\* Types; a call that leaves execute's body has a text to answer.
TypeOK ==
    /\ pc \in [Ids -> Stages] /\ run \in [Ids -> Runs]
    /\ turns \in [Ids -> Nat] /\ tools \in [Ids -> Nat]
    /\ retries \in [Ids -> Nat]
    /\ cancelled \in [Ids -> BOOLEAN] /\ limited \in [Ids -> BOOLEAN]
    /\ stopped \in [Ids -> BOOLEAN] /\ reply \in [Ids -> Replies]
    /\ active \in SUBSET Ids /\ aborted \in SUBSET Ids
    /\ collab \in [Ids -> Phases] /\ dialog \in Ids \cup {None}
    /\ signal \in BOOLEAN /\ closing \in BOOLEAN
    /\ \A i \in Ids : pc[i] = "closing" <=> reply[i] # "none"

\* InvestigateScheduler: until the session shuts down a slot is taken exactly
\* by the calls at work, so no path through execute leaks or shares one, and
\* no more than Capacity children exist at a time.
SlotPerInvestigation ==
    ~closing => /\ active = {i \in Ids : Working(i)}
                /\ Cardinality(active) <= Capacity

\* A conclusion is only given for a run that nobody stopped and that stayed
\* below both limits; "limit reached" only when one was; "cancelled" after
\* the child has run only if the call was cancelled (subagent.ts:512-531).
\* A conclusion does not mean that the model answered: a run whose last request
\* failed, or whose context overflowed, ends the prompt as an answer does.
ReplyIsTrue ==
    \A i \in Ids :
        /\ reply[i] = "conclusion" =>
              ~stopped[i] /\ turns[i] < TurnLimit /\ tools[i] < ToolLimit
        /\ reply[i] = "limit" =>
              turns[i] >= TurnLimit \/ tools[i] >= ToolLimit
        /\ reply[i] = "cancelled" /\ turns[i] > 0 => cancelled[i]

\* The header never counts a call that is over as running or waiting for an
\* answer, whatever confirmations, timers and cancellations came in between.
SettledIsShown == \A i \in Ids : collab[i] \in Live => pc[i] \in {"creating", "prompting"}

\* A call that is cancelled while its session is created, and one whose child
\* was told to stop by the user, a shutdown or a limit, settles, even if the
\* model or the command would have hung (test "abort during
\* createChildSession never prompts" has the first half for abortAll).
StoppedSettles ==
    \A i \in Ids :
        (stopped[i] \/ (pc[i] = "creating" /\ cancelled[i])) ~> pc[i] = "settled"
=============================================================================
