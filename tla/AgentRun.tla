------------------------------ MODULE AgentRun ------------------------------
(***************************************************************************)
(* How a prompt becomes a run of the agent (agent-session.ts) and what the   *)
(* user may do meanwhile (interactive-mode.ts): texts typed into a run or    *)
(* into a compaction, retries, compaction before a prompt, after a run and   *)
(* by command, and Escape, whose handler the events of the session           *)
(* exchange.  The prompts are processes: the main loop is one, the   *)
(* others send what was queued during a compaction.  A step is what runs     *)
(* between two awaits; queues are sets.                                      *)
(***************************************************************************)
EXTENDS Naturals, FiniteSets

CONSTANTS
    Messages,     \* the texts of the user
    Main,         \* the main loop
    Flushers,     \* bound: calls of flushCompactionQueue that prompt at once
    MaxRetries,   \* settings.maxRetries
    MaxCalls,     \* bound: replies that call tools
    None

ASSUME ConstantsAssumption ==
    /\ MaxRetries \in Nat /\ MaxCalls \in Nat
    /\ Main \notin Flushers /\ None \notin Messages \cup Flushers \cup {Main}

VARIABLES
    pc,        \* where each prompt is
    msg,       \* the text it has yet to give to the agent
    batch,     \* what its call of flushCompactionQueue took from the queue
    active,    \* _isAgentRunActive
    agent,     \* the agent library: "idle", "model" or "tools"
    last,      \* _lastAssistantMessage: how the last reply ended
    full,      \* the last usage known is over the threshold of compaction
    calls,     \* what MaxCalls bounds
    retries,   \* _retryAttempt
    recovered, \* _overflowRecoveryAttempted
    manual,    \* compact(): "none", "waiting" in abort(), or "summary"
    auto,      \* the prompt whose _autoCompactionAbortController is set
    signals,   \* what was told to abort
    editor,    \* texts in the user's hands
    steer, follow,  \* the queues of the session, which are the agent's
    held,      \* compactionQueuedMessages
    said,      \* texts that are in the conversation
    ui         \* what Escape does, and the handlers saved to be restored

prompts == <<pc, msg, batch, active>>
core == <<agent, last, full, calls, retries, recovered>>
texts == <<editor, steer, follow, held, said>>
vars == <<prompts, core, manual, auto, signals, texts, ui>>

Threads == {Main} \cup Flushers
Modes == {"steer", "followUp"}
Handlers == {"main", "retry", "compact"}
Saved == Handlers \cup {"none"}

Init ==
    /\ pc = [t \in Threads |-> "idle"] /\ msg = [t \in Threads |-> None]
    /\ batch = [t \in Threads |-> {}] /\ active = FALSE /\ agent = "idle"
    /\ last \in {"stop", "length"} /\ full = FALSE   \* of a session that is resumed
    /\ calls = 0 /\ retries = 0 /\ recovered = FALSE
    /\ manual = "none" /\ auto = None /\ signals = {}
    /\ editor = Messages /\ steer = {} /\ follow = {} /\ held = {} /\ said = {}
    /\ ui = [esc |-> "main", retry |-> "none", compact |-> "none"]

---------------------------------------------------------------------------
(* What the events of the session do to the Escape key                      *)

Escape(now, retry, compact) == [esc |-> now, retry |-> retry, compact |-> compact]
CompactionStart(u) == Escape("compact", u.retry, u.esc)
CompactionEnd(u) ==
    IF u.compact = "none" THEN u ELSE Escape(u.compact, u.retry, "none")
RetryStart(u) == Escape("retry", u.esc, u.compact)
NoAgentStart(u) == u               \* agent_start leaves Escape to the retry
AgentStart(u) ==
    IF u.retry = "none" THEN u ELSE Escape(u.retry, "none", u.compact)
RetryEnd(u) == AgentStart(u)

---------------------------------------------------------------------------
(* Helpers                                                                  *)

At(t, stage) == [pc EXCEPT ![t] = stage]
\* What a prompt awaits between the compaction and the agent (credentials, the
\* handlers of extensions) is there before the next input.
Quiet == \A t \in Threads : pc[t] # "ready"
Compacting == auto # None \/ manual = "summary"          \* isCompacting
HeldAs(mode) == {m \in Messages : <<m, mode>> \in held}
\* The compaction before a prompt: by the threshold, and of a reply cut short.
Preparing == {"before", "recover"}
Calm == \A t \in Threads : pc[t] \notin Preparing
WillRetry == last \in {"overflow", "length"}
Recover == WillRetry /\ ~recovered

\* The agent takes one steering message, or else, if the conversation ends with
\* a reply, a follow-up; a user's message ends the recovery from an overflow,
\* which is r until then.
Take(S, F, replied, r) ==
    \/ \E m \in S : /\ steer' = S \ {m} /\ follow' = F
                    /\ said' = said \cup {m} /\ recovered' = FALSE
    \/ \E m \in F : /\ S = {} /\ replied /\ follow' = F \ {m} /\ steer' = S
                    /\ said' = said \cup {m} /\ recovered' = FALSE
    \/ /\ S = {} /\ (F = {} \/ ~replied)
       /\ steer' = S /\ follow' = F /\ said' = said /\ recovered' = r

\* The run is over: the finally block of _runAgentPrompt.
Finish(t) ==
    /\ pc' = At(t, "idle") /\ active' = FALSE /\ UNCHANGED agent
Continue(t) ==
    /\ pc' = At(t, "agent") /\ agent' = "model" /\ UNCHANGED active
\* hasQueuedMessages: with S and F in the queues, the run goes on or is over.
GoOn(t, S, F, replied, r, u) ==
    IF S \cup F # {}
    THEN Continue(t) /\ Take(S, F, replied, r) /\ ui' = AgentStart(u)
    ELSE /\ Finish(t) /\ ui' = u
         /\ steer' = S /\ follow' = F /\ said' = said /\ recovered' = r

\* prompt() after it has seen that no run is active; P is where the others are,
\* again: the last reply was cut short and has not been recovered from.
BeginPrompt(P, t, m, tight, again, u) ==
    /\ P[t] = "idle" /\ msg' = [msg EXCEPT ![t] = m] /\ recovered' = (recovered \/ again)
    /\ \/ /\ tight \/ again
          /\ pc' = [P EXCEPT ![t] = IF again THEN "recover" ELSE "before"]
          /\ auto' = t /\ ui' = CompactionStart(u)
       \/ pc' = [P EXCEPT ![t] = "ready"] /\ auto' = None /\ ui' = u

\* flushCompactionQueue while a run is active, and while none is.
QueueHeld == steer \cup HeldAs("steer")
QueueHeldLater == follow \cup HeldAs("followUp")
PromptHeldTwice(P, tight, again, u) ==    \* what follows the first begins with the first
    \E h \in held, f \in Flushers :
        /\ BeginPrompt(P, f, h[1], tight, again, u)
        /\ steer' = QueueHeld /\ follow' = QueueHeldLater
        /\ batch' = [batch EXCEPT ![f] = held] /\ held' = {}
PromptHeld(P, tight, again, u) ==
    \E h \in held, f \in Flushers :
        /\ BeginPrompt(P, f, h[1], tight, again, u)
        /\ steer' = QueueHeld \ {h[1]} /\ follow' = QueueHeldLater \ {h[1]}
        /\ batch' = [batch EXCEPT ![f] = held] /\ held' = {}
FlushHeld(P, tight, again, u) ==
    IF held = {}
    THEN /\ pc' = P /\ auto' = None /\ ui' = u
         /\ UNCHANGED <<msg, batch, recovered, steer, follow, held>>
    ELSE PromptHeld(P, tight, again, u)
\* flushCompactionQueue before a retry: a run will take what is held.
QueueAllHeld(P, u) ==
    /\ pc' = P /\ auto' = None /\ ui' = u
    /\ steer' = QueueHeld /\ follow' = QueueHeldLater /\ held' = {}
    /\ UNCHANGED <<msg, batch, recovered>>

---------------------------------------------------------------------------
(* The user                                                                 *)

SubmitPrompt(m) ==
    /\ Quiet /\ m \in editor /\ ~Compacting /\ ~active /\ manual = "none"
    /\ BeginPrompt(pc, Main, m, full, Recover, ui)
    /\ editor' = editor \ {m}
    /\ UNCHANGED <<batch, active, agent, last, full, calls, retries, manual, signals, steer, follow, held, said>>
SubmitQueued(m, mode) ==
    /\ Quiet /\ m \in editor /\ ~Compacting /\ active
    /\ editor' = editor \ {m}
    /\ steer' = steer \cup (IF mode = "steer" THEN {m} ELSE {})
    /\ follow' = follow \cup (IF mode = "steer" THEN {} ELSE {m})
    /\ UNCHANGED <<prompts, core, manual, auto, signals, held, said, ui>>
SubmitHeld(m, mode) ==
    /\ Quiet /\ m \in editor /\ Compacting
    /\ editor' = editor \ {m} /\ held' = held \cup {<<m, mode>>}
    /\ UNCHANGED <<prompts, core, manual, auto, signals, steer, follow, said, ui>>

\* restoreQueuedMessagesToEditor: all queues go back to the editor.
EscapeRun ==
    /\ Quiet /\ ui.esc = "main" /\ active
    /\ editor' = editor \cup steer \cup follow \cup HeldAs("steer") \cup HeldAs("followUp")
    /\ steer' = {} /\ follow' = {} /\ held' = {}
    /\ signals' = signals \cup (IF agent = "idle" THEN {} ELSE {"agent"})
    /\ UNCHANGED <<prompts, core, manual, auto, said, ui>>
EscapeRetry ==
    /\ Quiet /\ ui.esc = "retry" /\ \E t \in Threads : pc[t] = "retry"
    /\ signals' = signals \cup {"retry"}
    /\ UNCHANGED <<prompts, core, manual, auto, texts, ui>>
EscapeCompaction ==
    /\ Quiet /\ ui.esc = "compact" /\ Compacting
    /\ signals' = signals \cup (IF auto = None THEN {} ELSE {"auto"})
                          \cup (IF manual = "summary" THEN {"manual"} ELSE {})
    /\ UNCHANGED <<prompts, core, manual, auto, texts, ui>>

---------------------------------------------------------------------------
(* compact(): it aborts, waits for the session to be idle and summarises     *)

Compact ==
    /\ Quiet /\ manual = "none" /\ manual' = "waiting"
    /\ signals' = signals \cup (IF agent = "idle" THEN {} ELSE {"agent"})
                    \cup {s \in {"retry"} : \E t \in Threads : pc[t] = "retry"}
    /\ UNCHANGED <<prompts, core, auto, texts, ui>>
CompactStarts ==
    /\ Quiet /\ manual = "waiting" /\ ~active
    /\ manual' = "summary" /\ ui' = CompactionStart(ui)
    /\ UNCHANGED <<prompts, core, auto, signals, texts>>
\* The controller is cleared before compaction_end, whose listener prompts.
CompactEnds(saved) ==
    /\ Quiet /\ manual = "summary" /\ auto = None /\ ~active
    /\ "manual" \in signals => ~saved
    /\ manual' = "none" /\ signals' = signals \ {"manual"}
    /\ full' = (full /\ ~saved)
    /\ last' = IF saved THEN "none" ELSE last     \* the reply is from before it
    /\ FlushHeld(pc, full', Recover /\ ~saved, CompactionEnd(ui))
    /\ UNCHANGED <<active, agent, calls, retries, editor, said>>

---------------------------------------------------------------------------
(* A prompt and its run                                                     *)

\* _runAgentPrompt.  The agent takes the text and polls the steering queue.
Start(t) ==
    /\ pc[t] = "ready" /\ agent = "idle"
    /\ pc' = At(t, "agent") /\ active' = TRUE /\ agent' = "model" /\ last' = "none"
    /\ msg' = [msg EXCEPT ![t] = None] /\ batch' = [batch EXCEPT ![t] = {}]
    /\ recovered' = FALSE
    /\ signals' = signals \ {"agent"} /\ ui' = AgentStart(ui)
    /\ \/ \E m \in steer : steer' = steer \ {m} /\ said' = said \cup {msg[t], m}
       \/ steer = {} /\ steer' = steer /\ said' = said \cup {msg[t]}
    /\ UNCHANGED <<full, calls, retries, manual, auto, editor, follow, held>>

\* The agent is running already and refuses: the finally block is executed all
\* the same, and the text is in an error message or (restoreQueue) the whole
\* batch back in the queue, of which others of it may have been said.
Refused(t) ==
    /\ pc[t] = "ready" /\ agent # "idle"
    /\ pc' = At(t, "idle") /\ active' = FALSE
    /\ msg' = [msg EXCEPT ![t] = None] /\ batch' = [batch EXCEPT ![t] = {}]
    /\ IF t = Main THEN UNCHANGED <<steer, follow, held>>
       ELSE steer' = {} /\ follow' = {} /\ held' = batch[t]
    /\ UNCHANGED <<core, manual, auto, signals, editor, said, ui>>

\* The end of a reply; the counters are those of _handleAgentEvent.
Replied(kind) ==
    /\ last' = kind
    /\ retries' = IF kind \in {"error", "overflow"} THEN retries ELSE 0
\* The agent stops, at the end of its answer or at the limit of its length, when
\* nothing is queued.
Reply(t, kind, tight) ==
    /\ Quiet /\ pc[t] = "agent" /\ agent = "model"
    /\ full' = tight /\ Replied(kind) /\ UNCHANGED calls
    /\ Take(steer, follow, TRUE, recovered /\ kind = "length")
    /\ IF steer \cup follow # {}
       THEN UNCHANGED <<pc, agent, signals>>
       ELSE agent' = "idle" /\ pc' = At(t, "post") /\ signals' = signals \ {"agent"}
    /\ UNCHANGED <<msg, batch, active, manual, auto, editor, held, ui>>
ReplyCalls(t, tight) ==
    /\ Quiet /\ pc[t] = "agent" /\ agent = "model" /\ calls < MaxCalls
    /\ full' = tight /\ Replied("call") /\ calls' = calls + 1 /\ recovered' = FALSE
    /\ agent' = "tools"
    /\ UNCHANGED <<prompts, manual, auto, signals, texts, ui>>
ToolsEnd(t) ==
    /\ Quiet /\ pc[t] = "agent" /\ agent = "tools"
    /\ agent' = "model" /\ Take(steer, follow, FALSE, recovered)
    /\ UNCHANGED <<prompts, last, full, calls, retries, manual, auto, signals,
                   editor, held, ui>>
ReplyFails(t, kind) ==
    /\ Quiet /\ pc[t] = "agent" /\ agent = "model"
    /\ kind = "aborted" => "agent" \in signals
    /\ Replied(kind) /\ recovered' = (recovered /\ kind # "aborted")
    /\ full' \in (IF kind = "aborted" THEN BOOLEAN ELSE {full})
    /\ agent' = "idle" /\ pc' = At(t, "post") /\ signals' = signals \ {"agent"}
    /\ UNCHANGED <<msg, batch, active, calls, manual, auto, texts, ui>>

---------------------------------------------------------------------------
(* _handlePostAgentRun                                                      *)

PostRetryUncounted(t) ==           \* the attempt is not counted
    /\ Quiet /\ pc[t] = "post" /\ last = "error" /\ retries < MaxRetries
    /\ pc' = At(t, "retry") /\ ui' = RetryStart(ui)
    /\ UNCHANGED <<msg, batch, active, agent, last, full, calls, retries, recovered, manual,
                   auto, signals, texts>>
PostRetry(t) ==
    /\ Quiet /\ pc[t] = "post" /\ last = "error" /\ retries < MaxRetries
    /\ retries' = retries + 1 /\ pc' = At(t, "retry") /\ ui' = RetryStart(ui)
    /\ UNCHANGED <<msg, batch, active, agent, last, full, calls, recovered, manual, auto,
                   signals, texts>>
RetryEnds(t) ==
    /\ Quiet /\ pc[t] = "retry" /\ "retry" \notin signals
    /\ Continue(t) /\ Take(steer, follow, FALSE, recovered) /\ ui' = AgentStart(ui)
    /\ UNCHANGED <<msg, batch, last, full, calls, retries, manual, auto, signals, editor, held>>
RetryAborted(t) ==
    /\ Quiet /\ pc[t] = "retry" /\ "retry" \in signals
    /\ pc' = At(t, "post") /\ last' = "failed" /\ retries' = 0
    /\ signals' = signals \ {"retry"} /\ ui' = RetryEnd(ui)
    /\ UNCHANGED <<msg, batch, active, agent, full, calls, recovered, manual, auto, texts>>

\* Whether the reply is not to be retried (again).
GivenUp == \/ last \in {"stop", "failed", "aborted"}
           \/ last = "error" /\ retries >= MaxRetries
           \/ WillRetry
\* Whether the failed reply was taken out of the agent's conversation: a saved
\* compaction brings it back.
Removed == WillRetry \/ last = "failed"
Threshold == full /\ last \notin {"aborted", "overflow", "length"}
PostCompacts(t) ==
    /\ Quiet /\ pc[t] = "post" /\ GivenUp /\ (Recover \/ Threshold)
    /\ recovered' = (recovered \/ Recover) /\ retries' = 0
    /\ pc' = At(t, "summary") /\ auto' = t
    /\ ui' = CompactionStart(IF retries > 0 THEN RetryEnd(ui) ELSE ui)
    /\ UNCHANGED <<msg, batch, active, agent, last, full, calls, manual, signals, texts>>
\* Also when there is nothing to compact, or the summary cannot be asked for.
PostEnds(t) ==
    /\ Quiet /\ pc[t] = "post" /\ GivenUp
    /\ retries' = 0 /\ held' = {}
    /\ GoOn(t, QueueHeld, QueueHeldLater, ~Recover /\ last # "failed",
            recovered \/ Recover, RetryEnd(ui))
    /\ UNCHANGED <<msg, batch, last, full, calls, manual, auto, signals, editor>>

\* _runAutoCompaction
SummaryEndsLate(t, saved) ==       \* what was queued meanwhile is not looked at
    /\ Quiet /\ pc[t] = "summary" /\ auto = t /\ active
    /\ "auto" \in signals => ~saved
    /\ auto' = None /\ signals' = signals \ {"auto"} /\ full' = (full /\ ~saved)
    /\ steer' = QueueHeld /\ follow' = QueueHeldLater /\ held' = {}
    /\ IF saved /\ WillRetry THEN Continue(t) ELSE Finish(t)
    /\ ui' = CompactionEnd(ui)
    /\ UNCHANGED <<msg, batch, last, calls, retries, recovered, manual, editor, said>>
SummaryEnds(t, saved) ==
    /\ Quiet /\ pc[t] = "summary" /\ auto = t /\ active
    /\ "auto" \in signals => ~saved
    /\ auto' = None /\ signals' = signals \ {"auto"} /\ full' = (full /\ ~saved)
    /\ IF saved /\ WillRetry
       THEN /\ Continue(t) /\ Take(QueueHeld, QueueHeldLater, FALSE, recovered)
            /\ ui' = AgentStart(CompactionEnd(ui))
       ELSE GoOn(t, QueueHeld, QueueHeldLater, saved \/ ~Removed, recovered,
                 CompactionEnd(ui))
    /\ held' = {}
    /\ UNCHANGED <<msg, batch, last, calls, retries, manual, editor>>
\* The compaction that comes before a prompt.
BeforeEnds(t, saved) ==
    /\ Quiet /\ pc[t] \in Preparing /\ auto = t /\ ~active /\ manual # "summary"
    /\ "auto" \in signals => ~saved
    /\ signals' = signals \ {"auto"} /\ full' = (full /\ ~saved)
    /\ IF saved /\ pc[t] = "recover"
       THEN QueueAllHeld(At(t, "ready"), CompactionEnd(ui))
       ELSE FlushHeld(At(t, "ready"), full', Recover /\ ~saved, CompactionEnd(ui))
    /\ UNCHANGED <<active, agent, last, calls, retries, manual, editor, said>>

---------------------------------------------------------------------------
User == \/ \E m \in Messages : SubmitPrompt(m)
        \/ \E m \in Messages, mode \in Modes : SubmitQueued(m, mode)
        \/ EscapeRun \/ EscapeRetry \/ EscapeCompaction
\* What the user may do while the session compacts.
Interrupt == Compact \/ \E m \in Messages, mode \in Modes : SubmitHeld(m, mode)
Model(t) == \/ \E tight \in BOOLEAN : ReplyCalls(t, tight)
            \/ \E tight \in BOOLEAN, kind \in {"stop", "length"} : Reply(t, kind, tight)
            \/ \E kind \in {"error", "overflow", "aborted"} : ReplyFails(t, kind)
            \/ ToolsEnd(t)
Session(t) == \/ Start(t)
              \/ PostRetry(t) \/ RetryEnds(t) \/ RetryAborted(t)
              \/ PostCompacts(t) \/ PostEnds(t)
              \/ \E saved \in BOOLEAN : SummaryEnds(t, saved) \/ BeforeEnds(t, saved)
Command == CompactStarts \/ \E saved \in BOOLEAN : CompactEnds(saved)
Others == \/ User \/ Command
          \/ \E t \in Threads : Model(t) \/ Session(t)

\* The user neither types nor compacts during the compaction before a prompt.
Next == \/ Others
        \/ Calm /\ Interrupt
Spec == Init /\ [][Next]_vars
\* The user types; the guards on active and auto at the ends of the compactions
\* only keep what happens after the first overlap out of these behaviours.
EarlyNext ==
    \/ Others
    \/ Calm /\ Compact
    \/ \E m \in Messages, mode \in Modes : SubmitHeld(m, mode)
    \/ \E t \in Threads : Refused(t)
EarlySpec == Init /\ [][EarlyNext]_vars

\* Requests have time limits and the event loop resumes what it can resume; the
\* user need not do anything.
Fairness ==
    /\ WF_vars(Command)
    /\ \A t \in Threads : WF_vars(Model(t)) /\ WF_vars(Session(t))
FairSpec == Spec /\ Fairness

---------------------------------------------------------------------------
Stages == {"idle", "ready", "agent", "post", "retry", "summary"} \cup Preparing
Endings == {"none", "call", "stop", "error", "overflow", "length", "aborted", "failed"}
TypeOK ==
    /\ pc \in [Threads -> Stages] /\ msg \in [Threads -> Messages \cup {None}]
    /\ batch \in [Threads -> SUBSET (Messages \X Modes)]
    /\ active \in BOOLEAN /\ full \in BOOLEAN /\ recovered \in BOOLEAN
    /\ agent \in {"idle", "model", "tools"} /\ last \in Endings
    /\ calls \in Nat /\ retries \in 0..MaxRetries
    /\ manual \in {"none", "waiting", "summary"}
    /\ signals \subseteq {"agent", "retry", "auto", "manual"} /\ auto \in Threads \cup {None}
    /\ editor \subseteq Messages /\ steer \subseteq Messages /\ follow \subseteq Messages
    /\ held \subseteq Messages \X Modes /\ said \subseteq Messages
    /\ ui \in [esc : Handlers, retry : Saved, compact : Saved]

Queued == steer \cup follow \cup HeldAs("steer") \cup HeldAs("followUp")
Carried == {msg[t] : t \in Threads} \ {None}

\* While isIdle is true no run is at work, no retry waits, no compaction of a run
\* is under way, and no text is queued once no prompt is prepared.  The comment on
\* isIdle says more, "no active agent run, retry, auto-compaction, or queued
\* continuation": the compaction before a prompt runs while isIdle is true.
IdleHasNoRun ==
    ~active =>
        /\ agent = "idle"
        /\ \A t \in Threads : pc[t] \in {"idle", "ready"} \cup Preparing
        /\ (\A t \in Threads : pc[t] = "idle") => steer \cup follow = {}

\* A text is in the user's hands, in one queue, with one prompt or said; none is
\* lost on the way, and none is said twice.
KeptOnce ==
    /\ editor \cup Queued \cup Carried \cup said = Messages
    /\ editor \cap (Queued \cup Carried \cup said) = {}
    /\ Queued \cap (Carried \cup said) = {} /\ Carried \cap said = {}
    /\ steer \cap follow = {} /\ HeldAs("steer") \cap HeldAs("followUp") = {}
    /\ (steer \cup follow) \cap (HeldAs("steer") \cup HeldAs("followUp")) = {}

Doing == IF Compacting THEN "compact"
         ELSE IF \E t \in Threads : pc[t] = "retry" THEN "retry" ELSE "main"

\* Escape stops what is going on: the retry that waits, the compaction, or else
\* the run (setupKeyHandlers and the handlers put in its place).
EscapeFits == ui.esc = Doing

\* A run ends whatever the replies are, for retries and recoveries are bounded
\* (_prepareRetry, _checkCompaction), unless the user cancels retries for ever:
\* with a follow-up in the queue each cancelled retry asks the model again.
RunEnds == active ~> (~active \/ "retry" \in signals)
\* A text that is queued anywhere is said, or goes back to the user, with the same
\* exception.
QueuedIsSaid ==
    \A m \in Messages : m \in Queued ~> (m \in said \cup editor \/ "retry" \in signals)
=============================================================================
