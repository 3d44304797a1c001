--------------------------- MODULE AgentRunProofs ---------------------------
(* What holds of AgentRun for any texts, any number of retries and any number
   of prompts sent by the queue of the compaction. *)
EXTENDS AgentRun, TLAPS

USE DEF Preparing

---------------------------------------------------------------------------
(* The helpers                                                              *)

\* A text that is taken leaves a queue for the conversation.
LEMMA TakeMoves ==
    ASSUME NEW S \in SUBSET Messages, NEW F \in SUBSET Messages, NEW replied, NEW r \in BOOLEAN,
           said \subseteq Messages, Take(S, F, replied, r)
    PROVE  /\ steer' \subseteq S /\ follow' \subseteq F /\ said \subseteq said'
           /\ steer' \cup follow' \cup said' = S \cup F \cup said
           /\ said' \subseteq Messages /\ recovered' \in BOOLEAN
  BY DEF Take

\* The handlers that the events put in place are handlers.
LEMMA EscapeTypes ==
    ASSUME NEW u \in [esc : Handlers, retry : Saved, compact : Saved]
    PROVE  /\ CompactionStart(u) \in [esc : Handlers, retry : Saved, compact : Saved]
           /\ CompactionEnd(u) \in [esc : Handlers, retry : Saved, compact : Saved]
           /\ RetryStart(u) \in [esc : Handlers, retry : Saved, compact : Saved]
           /\ AgentStart(u) \in [esc : Handlers, retry : Saved, compact : Saved]
           /\ RetryEnd(u) \in [esc : Handlers, retry : Saved, compact : Saved]
  BY DEF CompactionStart, CompactionEnd, RetryStart, AgentStart, RetryEnd, Escape, Handlers, Saved

---------------------------------------------------------------------------
(* Types                                                                    *)

Escapes == [esc : Handlers, retry : Saved, compact : Saved]
\* A prompt that has not come to the agent has its text, and no other has one.
Carries == \A t \in Threads : pc[t] \in {"ready"} \cup Preparing <=> msg[t] # None

\* What flushCompactionQueue leaves in the queues are texts.
LEMMA QueueTypes ==
    ASSUME TypeOK
    PROVE  /\ QueueHeld \in SUBSET Messages /\ QueueHeldLater \in SUBSET Messages
           /\ \A mode \in Modes : HeldAs(mode) \in SUBSET Messages
  BY DEF TypeOK, QueueHeld, QueueHeldLater, HeldAs, Modes

\* A prompt, and what is sent when a compaction ends, keep the types.
LEMMA BeginTypes ==
    ASSUME TypeOK, NEW P \in [Threads -> Stages], NEW t \in Threads, NEW m \in Messages,
           NEW tight \in BOOLEAN, NEW again \in BOOLEAN, NEW u \in Escapes,
           BeginPrompt(P, t, m, tight, again, u)
    PROVE  /\ pc' \in [Threads -> Stages] /\ msg' \in [Threads -> Messages \cup {None}]
           /\ auto' \in Threads \cup {None} /\ ui' \in Escapes /\ recovered' \in BOOLEAN
  <1>1. recovered' \in BOOLEAN
    BY DEF BeginPrompt
  <1>2. msg' \in [Threads -> Messages \cup {None}]
    BY DEF TypeOK, BeginPrompt
  <1>3. pc' \in [Threads -> Stages] /\ auto' \in Threads \cup {None}
    BY DEF BeginPrompt, Stages
  <1>4. ui' \in Escapes
    BY EscapeTypes DEF BeginPrompt, Escapes
  <1> QED BY <1>1, <1>2, <1>3, <1>4

LEMMA FlushTypes ==
    ASSUME TypeOK, NEW P \in [Threads -> Stages], NEW tight \in BOOLEAN,
           NEW again \in BOOLEAN, NEW u \in Escapes, FlushHeld(P, tight, again, u)
    PROVE  /\ pc' \in [Threads -> Stages] /\ msg' \in [Threads -> Messages \cup {None}]
           /\ auto' \in Threads \cup {None} /\ ui' \in Escapes /\ recovered' \in BOOLEAN
           /\ batch' \in [Threads -> SUBSET (Messages \X Modes)]
           /\ steer' \subseteq Messages /\ follow' \subseteq Messages
           /\ held' \subseteq Messages \X Modes
  <1>1. CASE held = {}
    BY <1>1 DEF TypeOK, FlushHeld
  <1>2. CASE held # {}
    <2>1. PICK h \in held, f \in Flushers :
            /\ BeginPrompt(P, f, h[1], tight, again, u)
            /\ steer' = QueueHeld \ {h[1]} /\ follow' = QueueHeldLater \ {h[1]}
            /\ batch' = [batch EXCEPT ![f] = held] /\ held' = {}
      BY <1>2 DEF FlushHeld, PromptHeld
    <2>2. h[1] \in Messages /\ f \in Threads
      BY DEF TypeOK, Threads
    <2>3. batch' \in [Threads -> SUBSET (Messages \X Modes)]
      BY <2>1, <2>2 DEF TypeOK
    <2> QED BY <2>1, <2>2, <2>3, BeginTypes, QueueTypes
  <1> QED BY <1>1, <1>2

\* So does going on, or not, after a run of the agent.
LEMMA GoOnTypes ==
    ASSUME TypeOK, NEW t \in Threads, NEW S \in SUBSET Messages, NEW F \in SUBSET Messages,
           NEW replied \in BOOLEAN, NEW r \in BOOLEAN, NEW u \in Escapes,
           GoOn(t, S, F, replied, r, u)
    PROVE  /\ pc' \in [Threads -> Stages] /\ active' \in BOOLEAN /\ recovered' \in BOOLEAN
           /\ agent' \in {"idle", "model", "tools"} /\ ui' \in Escapes
           /\ steer' \subseteq Messages /\ follow' \subseteq Messages /\ said' \subseteq Messages
  <1>0. said \subseteq Messages
    BY DEF TypeOK
  <1>1. CASE S \cup F # {}
    <2>1. Continue(t) /\ Take(S, F, replied, r) /\ ui' = AgentStart(u)
      BY <1>1 DEF GoOn
    <2>2. pc' \in [Threads -> Stages] /\ agent' \in {"idle", "model", "tools"}
      BY <2>1 DEF TypeOK, Continue, At, Stages
    <2>3. active' \in BOOLEAN
      BY <2>1 DEF TypeOK, Continue
    <2>4. ui' \in Escapes
      BY <2>1, EscapeTypes DEF Escapes
    <2>5. /\ steer' \subseteq S /\ follow' \subseteq F
          /\ said' \subseteq Messages /\ recovered' \in BOOLEAN
      <3>1. Take(S, F, replied, r)
        BY <2>1
      <3> QED BY <1>0, <3>1, TakeMoves
    <2> QED BY <2>2, <2>3, <2>4, <2>5
  <1>2. CASE S \cup F = {}
    <2>1. /\ Finish(t) /\ ui' = u
          /\ steer' = S /\ follow' = F /\ said' = said /\ recovered' = r
      BY <1>2 DEF GoOn
    <2>2. pc' \in [Threads -> Stages] /\ agent' \in {"idle", "model", "tools"}
      BY <2>1 DEF TypeOK, Finish, At, Stages
    <2>3. active' \in BOOLEAN
      BY <2>1 DEF Finish
    <2> QED BY <1>0, <2>1, <2>2, <2>3
  <1> QED BY <1>1, <1>2

\* Every step keeps the types.
LEMMA TypeStep == TypeOK /\ Carries /\ [Next]_vars => TypeOK'
  <1> SUFFICES ASSUME TypeOK, Carries, [Next]_vars PROVE TypeOK'
    OBVIOUS
  <1>0. /\ ui \in Escapes /\ pc \in [Threads -> Stages] /\ said \subseteq Messages
        /\ steer \in SUBSET Messages /\ follow \in SUBSET Messages
        /\ recovered \in BOOLEAN /\ FALSE \in BOOLEAN
    BY DEF TypeOK, Escapes
  <1>1. ASSUME NEW m \in Messages, SubmitPrompt(m) PROVE TypeOK'
    <2>1. BeginPrompt(pc, Main, m, full, Recover, ui) /\ Main \in Threads /\ full \in BOOLEAN
      BY <1>1 DEF SubmitPrompt, Threads, TypeOK
    <2>2. /\ pc' \in [Threads -> Stages] /\ msg' \in [Threads -> Messages \cup {None}]
          /\ auto' \in Threads \cup {None} /\ ui' \in Escapes /\ recovered' \in BOOLEAN
      <3>1. Recover \in BOOLEAN
        BY DEF Recover
      <3> QED BY <1>0, <2>1, <3>1, BeginTypes
    <2> QED BY <1>1, <2>2 DEF SubmitPrompt, TypeOK, Escapes
  <1>2. ASSUME NEW m \in Messages, NEW mode \in Modes, SubmitQueued(m, mode) PROVE TypeOK'
    BY <1>2 DEF SubmitQueued, TypeOK, prompts, core
  <1>3. ASSUME NEW m \in Messages, NEW mode \in Modes, SubmitHeld(m, mode) PROVE TypeOK'
    BY <1>3 DEF SubmitHeld, TypeOK, prompts, core
  <1>4. CASE EscapeRun
    BY <1>4 DEF EscapeRun, TypeOK, prompts, core, HeldAs
  <1>5. CASE EscapeRetry
    BY <1>5 DEF EscapeRetry, TypeOK, prompts, core, texts
  <1>6. CASE EscapeCompaction
    BY <1>6 DEF EscapeCompaction, TypeOK, prompts, core, texts
  <1>7. CASE Compact
    BY <1>7 DEF Compact, TypeOK, prompts, core, texts
  <1>8. CASE CompactStarts
    BY <1>8, <1>0, EscapeTypes DEF CompactStarts, TypeOK, prompts, core, texts, Escapes
  <1>9. ASSUME NEW saved \in BOOLEAN, CompactEnds(saved) PROVE TypeOK'
    <2> DEFINE again == Recover /\ ~saved
    <2>1. /\ full' \in BOOLEAN /\ CompactionEnd(ui) \in Escapes
          /\ FlushHeld(pc, full', again, CompactionEnd(ui)) /\ again \in BOOLEAN
      BY <1>0, <1>9, EscapeTypes DEF CompactEnds, Escapes
    <2>0. last' \in Endings
      BY <1>9 DEF CompactEnds, TypeOK, Endings
    <2> HIDE DEF again
    <2>2. /\ pc' \in [Threads -> Stages] /\ msg' \in [Threads -> Messages \cup {None}]
          /\ auto' \in Threads \cup {None} /\ ui' \in Escapes /\ recovered' \in BOOLEAN
          /\ batch' \in [Threads -> SUBSET (Messages \X Modes)]
          /\ steer' \subseteq Messages /\ follow' \subseteq Messages
          /\ held' \subseteq Messages \X Modes
      BY <1>0, <2>1, FlushTypes
    <2> QED BY <1>9, <2>0, <2>1, <2>2 DEF CompactEnds, TypeOK, Escapes
  <1>11. ASSUME NEW t \in Threads, Start(t) PROVE TypeOK'
    <2>1. ui' \in Escapes
      BY <1>0, <1>11, EscapeTypes DEF Start, Escapes
    <2>2. steer' \subseteq Messages
      BY <1>11 DEF Start, TypeOK
    <2>3. msg[t] \in Messages
      BY <1>11 DEF Start, TypeOK, Carries
    <2>4. said' \subseteq Messages
      BY <1>11, <2>3 DEF Start, TypeOK
    <2>5. pc' \in [Threads -> Stages] /\ msg' \in [Threads -> Messages \cup {None}]
      BY <1>11 DEF Start, TypeOK, At, Stages
    <2>6. batch' \in [Threads -> SUBSET (Messages \X Modes)]
      BY <1>11 DEF Start, TypeOK
    <2> QED BY <1>11, <2>1, <2>2, <2>4, <2>5, <2>6 DEF Start, TypeOK, Endings, Escapes
  <1>12. ASSUME NEW t \in Threads, NEW kind \in {"stop", "length"}, NEW tight \in BOOLEAN,
                Reply(t, kind, tight)
         PROVE  TypeOK'
    <2> DEFINE r == recovered /\ kind = "length"
    <2>1. Take(steer, follow, TRUE, r) /\ r \in BOOLEAN
      BY <1>12 DEF Reply
    <2> HIDE DEF r
    <2>2. /\ steer' \subseteq Messages /\ follow' \subseteq Messages
          /\ said' \subseteq Messages /\ recovered' \in BOOLEAN
      BY <1>0, <2>1 DEF Take
    <2>3. last' \in Endings /\ retries' \in 0..MaxRetries
      BY <1>12, ConstantsAssumption DEF Reply, Replied, Endings, TypeOK
    <2>4. pc' \in [Threads -> Stages] /\ agent' \in {"idle", "model", "tools"}
      BY <1>12 DEF Reply, At, Stages, TypeOK
    <2> QED BY <1>12, <2>2, <2>3, <2>4 DEF Reply, TypeOK
  <1>13. ASSUME NEW t \in Threads, NEW tight \in BOOLEAN, ReplyCalls(t, tight) PROVE TypeOK'
    <2>1. last' \in Endings /\ retries' \in 0..MaxRetries
      BY <1>13, ConstantsAssumption DEF ReplyCalls, Replied, Endings, TypeOK
    <2>2. full' \in BOOLEAN /\ recovered' \in BOOLEAN
      BY <1>13 DEF ReplyCalls
    <2>3. calls' \in Nat /\ agent' \in {"idle", "model", "tools"}
      BY <1>13 DEF ReplyCalls, TypeOK
    <2> QED BY <1>13, <2>1, <2>2, <2>3 DEF ReplyCalls, TypeOK, prompts, texts
  <1>14. ASSUME NEW t \in Threads, ToolsEnd(t) PROVE TypeOK'
    <2>1. Take(steer, follow, FALSE, recovered)
      BY <1>14 DEF ToolsEnd
    <2>2. /\ steer' \subseteq Messages /\ follow' \subseteq Messages
          /\ said' \subseteq Messages /\ recovered' \in BOOLEAN
      BY <1>0, <2>1 DEF Take
    <2> QED BY <1>14, <2>2 DEF ToolsEnd, TypeOK, prompts
  <1>15. ASSUME NEW t \in Threads, NEW kind \in {"error", "overflow", "aborted"}, ReplyFails(t, kind)
         PROVE  TypeOK'
    <2>1. last' \in Endings /\ retries' \in 0..MaxRetries
      BY <1>15, ConstantsAssumption DEF ReplyFails, Replied, Endings, TypeOK
    <2>2. full' \in BOOLEAN /\ recovered' \in BOOLEAN
      BY <1>15 DEF ReplyFails, TypeOK
    <2>3. pc' \in [Threads -> Stages]
      BY <1>15 DEF ReplyFails, TypeOK, At, Stages
    <2> QED BY <1>15, <2>1, <2>2, <2>3 DEF ReplyFails, TypeOK, texts
  <1>16. ASSUME NEW t \in Threads, PostRetry(t) \/ RetryAborted(t) PROVE TypeOK'
    <2>1. ui' \in Escapes
      BY <1>0, <1>16, EscapeTypes DEF PostRetry, RetryAborted, Escapes
    <2>2. retries' \in 0..MaxRetries /\ last' \in Endings
      BY <1>16, ConstantsAssumption DEF PostRetry, RetryAborted, TypeOK, Endings
    <2>3. pc' \in [Threads -> Stages]
      BY <1>16 DEF PostRetry, RetryAborted, TypeOK, At, Stages
    <2>4. CASE PostRetry(t)
      BY <2>1, <2>2, <2>3, <2>4 DEF PostRetry, TypeOK, texts, Escapes
    <2>5. CASE RetryAborted(t)
      BY <2>1, <2>2, <2>3, <2>5 DEF RetryAborted, TypeOK, texts, Escapes
    <2> QED BY <1>16, <2>4, <2>5
  <1>17. ASSUME NEW t \in Threads, RetryEnds(t) PROVE TypeOK'
    <2>1. Take(steer, follow, FALSE, recovered) /\ Continue(t)
      BY <1>17 DEF RetryEnds
    <2>2. /\ steer' \subseteq Messages /\ follow' \subseteq Messages
          /\ said' \subseteq Messages /\ recovered' \in BOOLEAN
      BY <1>0, <2>1 DEF Take
    <2>3. ui' \in Escapes
      BY <1>0, <1>17, EscapeTypes DEF RetryEnds, Escapes
    <2>4. pc' \in [Threads -> Stages]
      BY <2>1 DEF Continue, TypeOK, At, Stages
    <2> QED BY <1>17, <2>1, <2>2, <2>3, <2>4 DEF RetryEnds, Continue, TypeOK, Escapes
  <1>18. ASSUME NEW t \in Threads, PostCompacts(t) PROVE TypeOK'
    <2>1. ui' \in Escapes
      BY <1>0, <1>18, EscapeTypes DEF PostCompacts, Escapes
    <2>2. retries' \in 0..MaxRetries /\ recovered' \in BOOLEAN
      BY <1>18, ConstantsAssumption DEF PostCompacts, TypeOK
    <2>3. pc' \in [Threads -> Stages]
      BY <1>18 DEF PostCompacts, TypeOK, At, Stages
    <2> QED BY <1>18, <2>1, <2>2, <2>3 DEF PostCompacts, TypeOK, texts, Escapes
  <1>19. ASSUME NEW t \in Threads, PostEnds(t) PROVE TypeOK'
    <2> DEFINE replied == ~Recover /\ last # "failed"
               r == recovered \/ Recover
    <2>1. GoOn(t, QueueHeld, QueueHeldLater, replied, r, RetryEnd(ui))
      BY <1>19 DEF PostEnds
    <2>2. replied \in BOOLEAN /\ r \in BOOLEAN /\ RetryEnd(ui) \in Escapes
      BY <1>0, EscapeTypes DEF Escapes
    <2> HIDE DEF replied, r
    <2>3. /\ pc' \in [Threads -> Stages] /\ active' \in BOOLEAN /\ recovered' \in BOOLEAN
          /\ agent' \in {"idle", "model", "tools"} /\ ui' \in Escapes
          /\ steer' \subseteq Messages /\ follow' \subseteq Messages /\ said' \subseteq Messages
      BY <2>1, <2>2, QueueTypes, GoOnTypes
    <2> QED BY <1>19, <2>3, ConstantsAssumption DEF PostEnds, TypeOK, Escapes
  <1>20. ASSUME NEW t \in Threads, NEW saved \in BOOLEAN, SummaryEnds(t, saved) PROVE TypeOK'
    <2>1. /\ pc' \in [Threads -> Stages] /\ active' \in BOOLEAN /\ recovered' \in BOOLEAN
          /\ agent' \in {"idle", "model", "tools"} /\ ui' \in Escapes
          /\ steer' \subseteq Messages /\ follow' \subseteq Messages /\ said' \subseteq Messages
      <3>0. CompactionEnd(ui) \in Escapes /\ AgentStart(CompactionEnd(ui)) \in Escapes
        BY <1>0, EscapeTypes DEF Escapes
      <3>1. CASE saved /\ WillRetry
        <4>1. /\ Continue(t) /\ Take(QueueHeld, QueueHeldLater, FALSE, recovered)
              /\ ui' = AgentStart(CompactionEnd(ui))
          BY <1>20, <3>1 DEF SummaryEnds
        <4>2. /\ steer' \subseteq Messages /\ follow' \subseteq Messages
              /\ said' \subseteq Messages /\ recovered' \in BOOLEAN
          BY <1>0, <4>1, QueueTypes DEF Take
        <4>3. pc' \in [Threads -> Stages]
          BY <4>1 DEF Continue, TypeOK, At, Stages
        <4>4. active' \in BOOLEAN
          BY <4>1 DEF Continue, TypeOK
        <4>5. agent' \in {"idle", "model", "tools"}
          BY <4>1 DEF Continue
        <4> QED BY <3>0, <4>1, <4>2, <4>3, <4>4, <4>5
      <3>2. CASE ~(saved /\ WillRetry)
        <4> DEFINE replied == saved \/ ~Removed
        <4>1. GoOn(t, QueueHeld, QueueHeldLater, replied, recovered, CompactionEnd(ui))
          BY <1>20, <3>2 DEF SummaryEnds
        <4>2. replied \in BOOLEAN /\ recovered \in BOOLEAN
          BY DEF TypeOK
        <4> HIDE DEF replied
        <4> QED BY <3>0, <4>1, <4>2, QueueTypes, GoOnTypes
      <3> QED BY <3>1, <3>2
    <2> QED BY <1>20, <2>1 DEF SummaryEnds, TypeOK, Escapes
  <1>21. ASSUME NEW t \in Threads, NEW saved \in BOOLEAN, BeforeEnds(t, saved) PROVE TypeOK'
    <2> DEFINE again == Recover /\ ~saved
    <2>1. /\ full' \in BOOLEAN /\ CompactionEnd(ui) \in Escapes
          /\ At(t, "ready") \in [Threads -> Stages] /\ again \in BOOLEAN
      BY <1>0, <1>21, EscapeTypes DEF BeforeEnds, Escapes, At, Stages
    <2>2. /\ pc' \in [Threads -> Stages] /\ msg' \in [Threads -> Messages \cup {None}]
          /\ auto' \in Threads \cup {None} /\ ui' \in Escapes /\ recovered' \in BOOLEAN
          /\ batch' \in [Threads -> SUBSET (Messages \X Modes)]
          /\ steer' \subseteq Messages /\ follow' \subseteq Messages
          /\ held' \subseteq Messages \X Modes
      <3>1. CASE saved /\ pc[t] = "recover"
        <4>1. QueueAllHeld(At(t, "ready"), CompactionEnd(ui))
          BY <1>21, <3>1 DEF BeforeEnds
        <4> QED BY <2>1, <4>1, QueueTypes DEF QueueAllHeld, TypeOK
      <3>2. CASE ~(saved /\ pc[t] = "recover")
        <4>1. FlushHeld(At(t, "ready"), full', again, CompactionEnd(ui))
          BY <1>21, <3>2 DEF BeforeEnds
        <4> HIDE DEF again
        <4> QED BY <2>1, <4>1, FlushTypes
      <3> QED BY <3>1, <3>2
    <2> QED BY <1>21, <2>1, <2>2 DEF BeforeEnds, TypeOK, Escapes
  <1>22. CASE UNCHANGED vars
    BY <1>22 DEF TypeOK, vars, prompts, core, texts
  <1> QED
    BY <1>1, <1>2, <1>3, <1>4, <1>5, <1>6, <1>7, <1>8, <1>9, <1>11, <1>12, <1>13, <1>14,
       <1>15, <1>16, <1>17, <1>18, <1>19, <1>20, <1>21, <1>22
    DEF Next, Others, User, Interrupt, Model, Session, Command

---------------------------------------------------------------------------
(* Where the prompts are                                                     *)

Busy == {"agent", "post", "retry", "summary"}
Alone == \A t, u \in Threads : pc[t] # "idle" /\ pc[u] # "idle" => t = u
BusyIsActive == \A t \in Threads : pc[t] \in Busy => active
AgentIsRun == agent # "idle" => \E t \in Threads : pc[t] = "agent"
AutoIsStage == \A t \in Threads : pc[t] \in {"summary"} \cup Preparing <=> auto = t
CommandWaits ==
    /\ manual # "none" => \A t \in Threads : pc[t] \notin {"ready"} \cup Preparing
    /\ manual = "summary" => ~active
HeldWaits ==
    /\ held # {} => Compacting
    /\ \A t \in Threads : pc[t] \in Preparing => held = {}
QueueWaits == ~active /\ (\A t \in Threads : pc[t] = "idle") => steer \cup follow = {}
\* One prompt at a time is on its way, and each flag of the session and each
\* queue says where it is.
Places ==
    /\ Carries /\ Alone /\ BusyIsActive /\ AgentIsRun /\ AutoIsStage
    /\ CommandWaits /\ HeldWaits /\ QueueWaits

LEMMA PlacesInit == Init => Places
  BY ConstantsAssumption
  DEF Init, Places, Carries, Alone, BusyIsActive, AgentIsRun, AutoIsStage, CommandWaits,
      HeldWaits, QueueWaits, Threads, Busy

\* A session that is not active and does not compact has no prompt on its way.
LEMMA NobodyThere ==
    ASSUME TypeOK, Places, Quiet, ~active, auto = None
    PROVE  \A t \in Threads : pc[t] = "idle"
  BY ConstantsAssumption DEF TypeOK, Places, Quiet, BusyIsActive, AutoIsStage, Stages, Busy, Threads

\* The compaction before a prompt ends and finds nothing held back.
LEMMA BeforeIs ==
    ASSUME TypeOK, Places, NEW t \in Threads, NEW saved \in BOOLEAN, BeforeEnds(t, saved)
    PROVE  /\ pc[t] \in Preparing /\ auto = t /\ ~active /\ held = {} /\ manual = "none"
           /\ pc' = At(t, "ready") /\ auto' = None /\ ui' = CompactionEnd(ui)
           /\ active' = active
           /\ UNCHANGED <<msg, agent, manual, editor, steer, follow, held, said>>
  <1>1. pc[t] \in Preparing /\ auto = t /\ ~active /\ manual # "summary"
    BY DEF BeforeEnds
  <1>2. held = {} /\ manual = "none"
    BY <1>1 DEF Places, HeldWaits, CommandWaits, TypeOK
  <1>3. QueueHeld = steer /\ QueueHeldLater = follow
    BY <1>2 DEF QueueHeld, QueueHeldLater, HeldAs
  <1>4. /\ pc' = At(t, "ready") /\ auto' = None /\ ui' = CompactionEnd(ui)
        /\ UNCHANGED <<msg, steer, follow, held>>
    BY <1>2, <1>3 DEF BeforeEnds, FlushHeld, QueueAllHeld
  <1>5. active' = active /\ UNCHANGED <<agent, manual, editor, said>>
    BY DEF BeforeEnds
  <1> QED BY <1>1, <1>2, <1>4, <1>5

\* A prompt begins when all others are idle, in the place P.
LEMMA BeginPlaces ==
    ASSUME TypeOK, Places, NEW P \in [Threads -> Stages], NEW t \in Threads, NEW m \in Messages,
           NEW tight \in BOOLEAN, NEW again \in BOOLEAN, NEW u, BeginPrompt(P, t, m, tight, again, u),
           \A v \in Threads : P[v] = "idle" /\ msg[v] = None,
           ~active, active' = active, agent = "idle", agent' = agent,
           manual' = "none", held' = {}
    PROVE  Places'
  <1>1. /\ msg' = [msg EXCEPT ![t] = m]
        /\ \/ \E stage \in Preparing : pc' = [P EXCEPT ![t] = stage] /\ auto' = t
           \/ pc' = [P EXCEPT ![t] = "ready"] /\ auto' = None
    BY DEF BeginPrompt
  <1>3. \A v \in Threads : v # t => pc'[v] = "idle" /\ msg'[v] = None
    BY <1>1 DEF TypeOK
  <1>4. msg'[t] # None /\ pc'[t] \in {"ready"} \cup Preparing
    BY <1>1, ConstantsAssumption DEF TypeOK
  <1>5. Carries' /\ Alone' /\ QueueWaits'
    BY <1>3, <1>4 DEF Carries, Alone, QueueWaits
  <1>6. BusyIsActive'
    BY <1>3, <1>4 DEF BusyIsActive, Busy
  <1>7. AgentIsRun' /\ CommandWaits' /\ HeldWaits'
    BY DEF AgentIsRun, CommandWaits, HeldWaits
  <1>8. AutoIsStage'
    <2>1. CASE pc'[t] \in Preparing /\ auto' = t
      BY <1>3, <2>1 DEF AutoIsStage
    <2>2. CASE pc'[t] = "ready" /\ auto' = None
      BY <1>3, <2>2, ConstantsAssumption DEF AutoIsStage, Threads
    <2> QED BY <1>1, <2>1, <2>2
  <1> QED BY <1>5, <1>6, <1>7, <1>8 DEF Places

\* A run moves on within its loop.
LEMMA MovePlaces ==
    ASSUME TypeOK, Places, NEW t \in Threads, NEW stage \in Busy, pc[t] \in Busy,
           pc' = At(t, stage), msg' = msg, active', manual' = manual,
           agent' # "idle" => stage = "agent",
           stage = "summary" => auto' = t, stage # "summary" => auto' = None,
           held' = {}
    PROVE  Places'
  <1>1. active
    BY DEF Places, BusyIsActive
  <1>2. \A v \in Threads : v # t => pc[v] = "idle" /\ pc'[v] = "idle"
    BY DEF Places, Alone, TypeOK, At, Busy
  <1>3. pc'[t] = stage /\ msg[t] = None
    BY DEF Places, Carries, TypeOK, At, Busy
  <1>4. Carries' /\ Alone'
    BY <1>2, <1>3 DEF Places, Carries, Alone, Busy
  <1>5. BusyIsActive' /\ QueueWaits'
    BY <1>1 DEF BusyIsActive, QueueWaits
  <1>6. AgentIsRun'
    BY <1>3 DEF AgentIsRun
  <1>7. AutoIsStage'
    BY <1>2, <1>3, ConstantsAssumption DEF AutoIsStage, Busy, Threads
  <1>8. CommandWaits'
    BY <1>1, <1>2, <1>3 DEF Places, CommandWaits, Busy
  <1>9. HeldWaits'
    BY DEF HeldWaits
  <1> QED BY <1>4, <1>5, <1>6, <1>7, <1>8, <1>9 DEF Places

\* What is queued during a compaction is not there while the run does anything else.
LEMMA NothingHeld ==
    ASSUME TypeOK, Places, NEW t \in Threads, pc[t] \in {"agent", "post", "retry"}
    PROVE  held = {} /\ auto = None /\ active
  <1>1. active
    BY DEF Places, BusyIsActive, Busy
  <1>2. auto = None
    BY ConstantsAssumption DEF Places, Alone, AutoIsStage, TypeOK, Threads
  <1> QED BY <1>1, <1>2 DEF Places, HeldWaits, Compacting, CommandWaits

\* A run is over and leaves nothing behind.
LEMMA EndPlaces ==
    ASSUME TypeOK, Places, NEW t \in Threads, pc[t] \in Busy,
           pc' = At(t, "idle"), msg' = msg, manual' = manual, active' = FALSE,
           agent' = "idle", auto' = None, held' = {}, steer' = {}, follow' = {}
    PROVE  Places'
  <1>1. \A v \in Threads : pc'[v] = "idle" /\ msg'[v] = None
    BY DEF Places, Alone, Carries, TypeOK, At, Busy
  <1>2. Carries' /\ Alone' /\ BusyIsActive' /\ AgentIsRun'
    BY <1>1 DEF Carries, Alone, BusyIsActive, AgentIsRun, Busy
  <1>3. AutoIsStage' /\ HeldWaits' /\ QueueWaits'
    BY <1>1, ConstantsAssumption DEF AutoIsStage, HeldWaits, QueueWaits, Threads
  <1>4. CommandWaits'
    BY <1>1 DEF CommandWaits
  <1> QED BY <1>2, <1>3, <1>4 DEF Places

\* Either of the two.
LEMMA GoOnPlaces ==
    ASSUME TypeOK, Places, NEW t \in Threads, pc[t] \in {"post", "summary"},
           NEW S, NEW F, NEW replied, NEW r, NEW u, GoOn(t, S, F, replied, r, u),
           msg' = msg, manual' = manual, auto' = None, held' = {}
    PROVE  Places'
  <1>0. pc[t] \in Busy /\ "agent" \in Busy /\ "agent" # "summary"
    BY DEF Busy
  <1>1. CASE S \cup F # {}
    <2>1. pc' = At(t, "agent") /\ agent' = "model"
      BY <1>1 DEF GoOn, Continue
    <2>4. active'
      BY <1>0, <1>1 DEF GoOn, Continue, Places, BusyIsActive
    <2> DEFINE stage == "agent"
    <2>2. stage \in Busy /\ pc' = At(t, stage) /\ (agent' # "idle" => stage = "agent")
      BY <1>0, <2>1
    <2>3. stage # "summary"
      OBVIOUS
    <2> HIDE DEF stage
    <2> QED BY <1>0, <2>1, <2>2, <2>3, <2>4, MovePlaces
  <1>2. CASE S \cup F = {}
    <2>1. agent = "idle"
      BY DEF Places, AgentIsRun, Alone
    <2>2. /\ pc' = At(t, "idle") /\ active' = FALSE /\ agent' = "idle"
          /\ steer' = {} /\ follow' = {}
      BY <1>2, <2>1 DEF GoOn, Finish
    <2> QED BY <1>0, <2>2, EndPlaces
  <1> QED BY <1>1, <1>2

\* Every step keeps the places.
LEMMA PlacesStep == TypeOK /\ TypeOK' /\ Places /\ [Next]_vars => Places'
  <1> SUFFICES ASSUME TypeOK, TypeOK', Places, [Next]_vars PROVE Places'
    OBVIOUS
  <1> USE DEF prompts, core, texts
  <1>1. ASSUME NEW m \in Messages, SubmitPrompt(m) PROVE Places'
    <2>1. ~active /\ Quiet /\ auto = None /\ manual = "none"
      BY <1>1 DEF SubmitPrompt, Compacting
    <2>2. \A t \in Threads : pc[t] = "idle" /\ msg[t] = None
      BY <2>1, NobodyThere DEF Places, Carries
    <2>3. agent = "idle" /\ held = {}
      BY <2>1, <2>2 DEF Places, AgentIsRun, HeldWaits, Compacting
    <2>4. /\ BeginPrompt(pc, Main, m, full, Recover, ui) /\ pc \in [Threads -> Stages]
          /\ Main \in Threads /\ full \in BOOLEAN /\ Recover \in BOOLEAN
      BY <1>1 DEF SubmitPrompt, TypeOK, Threads, Recover
    <2>5. agent' = agent /\ manual' = "none" /\ held' = {}
      BY <1>1, <2>1, <2>3 DEF SubmitPrompt
    <2>6. active' = active
      BY <1>1 DEF SubmitPrompt
    <2> QED BY <2>1, <2>2, <2>3, <2>4, <2>5, <2>6, BeginPlaces
  \* Steps of the user that leave every prompt where it is.
  <1>2. ASSUME UNCHANGED <<pc, msg, agent, manual, auto>>, UNCHANGED active,
               \/ UNCHANGED <<steer, follow, held>>
               \/ active /\ held' = {}
               \/ active /\ UNCHANGED held
        PROVE  Places'
    <2>1. Carries' /\ Alone' /\ AutoIsStage'
      BY <1>2 DEF Places, Carries, Alone, AutoIsStage
    <2>2. BusyIsActive'
      BY <1>2 DEF Places, BusyIsActive
    <2>3. CommandWaits' /\ AgentIsRun'
      BY <1>2 DEF Places, CommandWaits, AgentIsRun
    <2>4. HeldWaits'
      BY <1>2 DEF Places, HeldWaits, Compacting
    <2>5. QueueWaits'
      BY <1>2 DEF Places, QueueWaits
    <2> QED BY <2>1, <2>2, <2>3, <2>4, <2>5 DEF Places
  <1>3. ASSUME NEW m \in Messages, NEW mode \in Modes, SubmitQueued(m, mode) PROVE Places'
    BY <1>2, <1>3 DEF SubmitQueued
  <1>4. CASE EscapeRun
    BY <1>2, <1>4 DEF EscapeRun
  <1>5. CASE EscapeRetry \/ EscapeCompaction
    BY <1>2, <1>5 DEF EscapeRetry, EscapeCompaction
  <1>6. CASE UNCHANGED vars
    BY <1>2, <1>6 DEF vars
  <1>8. ASSUME Calm, NEW m \in Messages, NEW mode \in Modes, SubmitHeld(m, mode) PROVE Places'
    <2>1. UNCHANGED <<pc, msg, agent, manual, auto, steer, follow>> /\ Compacting
      BY <1>8 DEF SubmitHeld
    <2>2. UNCHANGED active
      BY <1>8 DEF SubmitHeld
    <2>3. Carries' /\ Alone' /\ AutoIsStage' /\ CommandWaits' /\ AgentIsRun'
      BY <2>1, <2>2 DEF Places, Carries, Alone, AutoIsStage, CommandWaits, AgentIsRun
    <2>4. BusyIsActive' /\ QueueWaits'
      BY <2>1, <2>2 DEF Places, BusyIsActive, QueueWaits
    <2>5. HeldWaits'
      BY <1>8, <2>1 DEF HeldWaits, Compacting, Calm
    <2> QED BY <2>3, <2>4, <2>5 DEF Places
  <1>9. ASSUME Calm, Compact PROVE Places'
    <2>1. UNCHANGED <<pc, msg, agent, auto, steer, follow, held>> /\ manual = "none" /\ manual' = "waiting"
      BY <1>9 DEF Compact
    <2>2. UNCHANGED active
      BY <1>9 DEF Compact
    <2>3. CommandWaits'
      BY <1>9, <2>1 DEF Compact, CommandWaits, Calm, Quiet
    <2>4. Carries' /\ Alone' /\ AutoIsStage' /\ AgentIsRun' /\ HeldWaits'
      BY <2>1 DEF Places, Carries, Alone, AutoIsStage, AgentIsRun, HeldWaits, Compacting
    <2>5. BusyIsActive' /\ QueueWaits'
      BY <2>1, <2>2 DEF Places, BusyIsActive, QueueWaits
    <2> QED BY <2>3, <2>4, <2>5 DEF Places
  <1>10. CASE CompactStarts
    <2>1. /\ UNCHANGED <<pc, msg, agent, auto, steer, follow, held>>
          /\ manual = "waiting" /\ manual' = "summary"
      BY <1>10 DEF CompactStarts
    <2>2. UNCHANGED active /\ ~active
      BY <1>10 DEF CompactStarts
    <2>3. CommandWaits' /\ BusyIsActive' /\ QueueWaits'
      BY <2>1, <2>2 DEF Places, CommandWaits, BusyIsActive, QueueWaits
    <2>4. Carries' /\ Alone' /\ AutoIsStage' /\ AgentIsRun' /\ HeldWaits'
      BY <2>1 DEF Places, Carries, Alone, AutoIsStage, AgentIsRun, HeldWaits, Compacting
    <2> QED BY <2>3, <2>4 DEF Places
  <1>11. ASSUME NEW saved \in BOOLEAN, CompactEnds(saved) PROVE Places'
    <2>1. Quiet /\ ~active /\ auto = None
      BY <1>11 DEF CompactEnds
    <2>2. \A t \in Threads : pc[t] = "idle" /\ msg[t] = None
      BY <2>1, NobodyThere DEF Places, Carries
    <2>3. agent = "idle" /\ agent' = agent /\ manual' = "none"
      BY <1>11, <2>2 DEF CompactEnds, Places, AgentIsRun
    <2>4. active' = active
      BY <1>11 DEF CompactEnds
    <2> DEFINE again == Recover /\ ~saved
    <2>5. /\ FlushHeld(pc, full', again, CompactionEnd(ui))
          /\ full' \in BOOLEAN /\ again \in BOOLEAN
      BY <1>11 DEF CompactEnds
    <2> HIDE DEF again
    <2>6. CASE held = {}
      <3>1. UNCHANGED <<pc, msg, steer, follow, held>> /\ auto' = None
        BY <2>5, <2>6 DEF FlushHeld
      <3>2. Carries' /\ Alone' /\ AgentIsRun' /\ AutoIsStage'
        BY <2>1, <2>2, <2>3, <3>1 DEF Places, Carries, Alone, AgentIsRun, AutoIsStage
      <3>3. BusyIsActive' /\ QueueWaits'
        BY <2>4, <3>1 DEF Places, BusyIsActive, QueueWaits
      <3>4. CommandWaits' /\ HeldWaits'
        BY <2>3, <2>6, <3>1 DEF CommandWaits, HeldWaits
      <3> QED BY <3>2, <3>3, <3>4 DEF Places
    <2>7. CASE held # {}
      <3>1. PICK h \in held, f \in Flushers : BeginPrompt(pc, f, h[1], full', again, CompactionEnd(ui)) /\ held' = {}
        BY <2>5, <2>7 DEF FlushHeld, PromptHeld
      <3>2. h[1] \in Messages /\ f \in Threads /\ pc \in [Threads -> Stages]
        BY DEF TypeOK, Threads
      <3> QED BY <2>1, <2>2, <2>3, <2>4, <2>5, <3>1, <3>2, BeginPlaces
    <2> QED BY <2>6, <2>7
  <1>12. ASSUME NEW t \in Threads, Start(t) PROVE Places'
    <2>1. /\ pc[t] = "ready" /\ pc' = At(t, "agent") /\ msg' = [msg EXCEPT ![t] = None]
          /\ UNCHANGED <<manual, auto, held>>
      BY <1>12 DEF Start
    <2>2. \A v \in Threads : v # t => pc[v] = "idle" /\ pc'[v] = "idle" /\ msg'[v] = msg[v]
      BY <2>1 DEF Places, Alone, TypeOK, At
    <2>3. pc'[t] = "agent" /\ msg'[t] = None
      BY <2>1 DEF TypeOK, At
    <2>4. active'
      BY <1>12 DEF Start
    <2>5. Carries' /\ Alone' /\ AgentIsRun' /\ BusyIsActive' /\ QueueWaits'
      BY <2>2, <2>3, <2>4 DEF Places, Carries, Alone, AgentIsRun, BusyIsActive, QueueWaits
    <2>6. AutoIsStage' /\ HeldWaits'
      BY <2>1, <2>2, <2>3 DEF Places, AutoIsStage, HeldWaits, Compacting
    <2>7. CommandWaits'
      BY <2>1, <2>2, <2>3 DEF Places, CommandWaits
    <2> QED BY <2>5, <2>6, <2>7 DEF Places
  <1>13. ASSUME NEW t \in Threads, pc[t] = "agent", pc' = pc, msg' = msg, active' = active,
                UNCHANGED <<manual, auto, held>>
         PROVE  Places'
    <2>1. active
      BY <1>13 DEF Places, BusyIsActive, Busy
    <2>2. active'
      BY <1>13, <2>1
    <2>3. Carries' /\ Alone' /\ AgentIsRun' /\ BusyIsActive' /\ QueueWaits'
      BY <1>13, <2>2 DEF Places, Carries, Alone, AgentIsRun, BusyIsActive, QueueWaits
    <2>4. AutoIsStage' /\ HeldWaits'
      BY <1>13 DEF Places, AutoIsStage, HeldWaits, Compacting
    <2>5. CommandWaits'
      BY <1>13, <2>1 DEF Places, CommandWaits
    <2> QED BY <2>3, <2>4, <2>5 DEF Places
  <1>14. ASSUME NEW t \in Threads, NEW kind, NEW tight, Reply(t, kind, tight) PROVE Places'
    <2>0. /\ pc[t] = "agent" /\ msg' = msg /\ UNCHANGED <<manual, auto, held>>
      BY <1>14 DEF Reply
    <2>1. held = {} /\ auto = None /\ active
      BY <2>0, NothingHeld
    <2>2. active' = active
      BY <1>14 DEF Reply
    <2>3. CASE steer \cup follow # {}
      BY <1>13, <1>14, <2>0, <2>2, <2>3 DEF Reply
    <2>4. CASE steer \cup follow = {}
      <3> DEFINE stage == "post"
      <3>1. pc' = At(t, stage) /\ agent' = "idle"
        BY <1>14, <2>4 DEF Reply
      <3>2. stage \in Busy /\ pc[t] \in Busy /\ stage # "summary"
        BY <2>0 DEF Busy
      <3>3. active'
        BY <2>1, <2>2
      <3> HIDE DEF stage
      <3> QED BY <2>0, <2>1, <3>1, <3>2, <3>3, MovePlaces
    <2> QED BY <2>3, <2>4
  <1>15. ASSUME NEW t \in Threads, NEW tight, ReplyCalls(t, tight) \/ ToolsEnd(t) PROVE Places'
    BY <1>13, <1>15 DEF ReplyCalls, ToolsEnd
  \* Steps of the loop.
  <1>16. ASSUME NEW t \in Threads, pc[t] \in {"agent", "post", "retry"}, NEW stage \in Busy,
                pc' = At(t, stage), msg' = msg, UNCHANGED active, manual' = manual, held' = held,
                agent' # "idle" => stage = "agent",
                stage = "summary" => auto' = t, stage # "summary" => auto' = auto
         PROVE  Places'
    <2>1. held = {} /\ auto = None /\ active
      BY <1>16, NothingHeld
    <2>2. active'
      BY <1>16, <2>1
    <2>3. pc[t] \in Busy
      BY <1>16 DEF Busy
    <2> QED BY <1>16, <2>1, <2>2, <2>3, MovePlaces
  <1>17. ASSUME NEW t \in Threads, NEW kind, ReplyFails(t, kind) PROVE Places'
    <2> DEFINE stage == "post"
    <2>1. /\ pc[t] \in {"agent", "post", "retry"} /\ pc' = At(t, stage) /\ msg' = msg
          /\ manual' = manual /\ held' = held /\ agent' = "idle" /\ auto' = auto
      BY <1>17 DEF ReplyFails
    <2>2. UNCHANGED active
      BY <1>17 DEF ReplyFails
    <2>3. stage \in Busy /\ stage # "summary"
      BY DEF Busy
    <2> HIDE DEF stage
    <2> QED BY <1>16, <2>1, <2>2, <2>3
  <1>18. ASSUME NEW t \in Threads, PostRetry(t) PROVE Places'
    <2> DEFINE stage == "retry"
    <2>1. /\ pc[t] = "post" /\ pc' = At(t, stage) /\ msg' = msg
          /\ manual' = manual /\ held' = held /\ agent' = agent /\ auto' = auto
      BY <1>18 DEF PostRetry
    <2>2. UNCHANGED active
      BY <1>18 DEF PostRetry
    <2>3. stage \in Busy /\ stage # "summary" /\ agent = "idle"
      BY <2>1 DEF Busy, Places, AgentIsRun, Alone
    <2> HIDE DEF stage
    <2> QED BY <1>16, <2>1, <2>2, <2>3
  <1>19. ASSUME NEW t \in Threads, RetryEnds(t) PROVE Places'
    <2> DEFINE stage == "agent"
    <2>1. /\ pc[t] = "retry" /\ pc' = At(t, stage) /\ msg' = msg
          /\ manual' = manual /\ held' = held /\ auto' = auto
      BY <1>19 DEF RetryEnds, Continue
    <2>2. UNCHANGED active
      BY <1>19 DEF RetryEnds, Continue
    <2>3. stage \in Busy /\ stage # "summary" /\ stage = "agent"
      BY DEF Busy
    <2> HIDE DEF stage
    <2> QED BY <1>16, <2>1, <2>2, <2>3
  <1>20. ASSUME NEW t \in Threads, RetryAborted(t) PROVE Places'
    <2> DEFINE stage == "post"
    <2>1. /\ pc[t] = "retry" /\ pc' = At(t, stage) /\ msg' = msg
          /\ manual' = manual /\ held' = held /\ agent' = agent /\ auto' = auto
      BY <1>20 DEF RetryAborted
    <2>2. UNCHANGED active
      BY <1>20 DEF RetryAborted
    <2>3. stage \in Busy /\ stage # "summary" /\ agent = "idle"
      BY <2>1 DEF Busy, Places, AgentIsRun, Alone
    <2> HIDE DEF stage
    <2> QED BY <1>16, <2>1, <2>2, <2>3
  <1>21. ASSUME NEW t \in Threads, PostCompacts(t) PROVE Places'
    <2> DEFINE stage == "summary"
    <2>1. /\ pc[t] = "post" /\ pc' = At(t, stage) /\ msg' = msg
          /\ manual' = manual /\ held' = held /\ agent' = agent /\ auto' = t
      BY <1>21 DEF PostCompacts
    <2>2. UNCHANGED active
      BY <1>21 DEF PostCompacts
    <2>3. stage \in Busy /\ stage = "summary" /\ agent = "idle"
      BY <2>1 DEF Busy, Places, AgentIsRun, Alone
    <2> HIDE DEF stage
    <2> QED BY <1>16, <2>1, <2>2, <2>3
  <1>22. ASSUME NEW t \in Threads, PostEnds(t) PROVE Places'
    <2>1. /\ pc[t] = "post" /\ msg' = msg /\ manual' = manual /\ auto' = auto /\ held' = {}
      BY <1>22 DEF PostEnds
    <2>2. auto' = None
      BY <2>1, NothingHeld
    <2>3. PICK replied, r, u : GoOn(t, QueueHeld, QueueHeldLater, replied, r, u)
      BY <1>22 DEF PostEnds
    <2> QED BY <2>1, <2>2, <2>3, GoOnPlaces
  <1>23. ASSUME NEW t \in Threads, NEW saved \in BOOLEAN, SummaryEnds(t, saved) PROVE Places'
    <2>1. /\ pc[t] = "summary" /\ msg' = msg /\ manual' = manual /\ auto' = None /\ held' = {}
      BY <1>23 DEF SummaryEnds
    <2>2. CASE saved /\ WillRetry
      <3> DEFINE stage == "agent"
      <3>1. pc' = At(t, stage)
        BY <1>23, <2>2 DEF SummaryEnds, Continue
      <3>2. active'
        BY <1>23, <2>2 DEF SummaryEnds, Continue
      <3>3. stage \in Busy /\ pc[t] \in Busy /\ stage = "agent" /\ stage # "summary"
        BY <2>1 DEF Busy
      <3> HIDE DEF stage
      <3> QED BY <2>1, <3>1, <3>2, <3>3, MovePlaces
    <2>3. CASE ~(saved /\ WillRetry)
      <3>1. PICK replied, r, u : GoOn(t, QueueHeld, QueueHeldLater, replied, r, u)
        BY <1>23, <2>3 DEF SummaryEnds
      <3> QED BY <2>1, <3>1, GoOnPlaces
    <2> QED BY <2>2, <2>3
  <1>24. ASSUME NEW t \in Threads, NEW saved \in BOOLEAN, BeforeEnds(t, saved) PROVE Places'
    <2>1. /\ pc[t] \in Preparing /\ auto = t /\ held = {} /\ manual = "none" /\ ~active
          /\ pc' = At(t, "ready") /\ auto' = None
          /\ UNCHANGED <<msg, agent, manual, steer, follow, held>>
      BY <1>24, BeforeIs
    <2>6. active' = active
      BY <1>24, BeforeIs
    <2>4. \A v \in Threads : v # t => pc[v] = "idle" /\ pc'[v] = "idle"
      BY <2>1 DEF Places, Alone, TypeOK, At
    <2>5. pc'[t] = "ready"
      BY <2>1 DEF TypeOK, At
    <2>7. Carries' /\ Alone' /\ AgentIsRun' /\ QueueWaits'
      BY <2>1, <2>4, <2>5, <2>6 DEF Places, Carries, Alone, AgentIsRun, QueueWaits
    <2>8. BusyIsActive'
      BY <2>4, <2>5 DEF BusyIsActive, Busy
    <2>9. AutoIsStage' /\ HeldWaits' /\ CommandWaits'
      BY <2>1, <2>4, <2>5, ConstantsAssumption
      DEF AutoIsStage, HeldWaits, CommandWaits, Threads
    <2> QED BY <2>7, <2>8, <2>9 DEF Places
  <1> QED
    BY <1>1, <1>3, <1>4, <1>5, <1>6, <1>8, <1>9, <1>10, <1>11, <1>12, <1>14,
       <1>15, <1>17, <1>18, <1>19, <1>20, <1>21, <1>22, <1>23, <1>24
    DEF Next, Others, User, Interrupt, Model, Session, Command

---------------------------------------------------------------------------
(* The Escape key                                                           *)

\* The handler in place and the ones that were put by.
Fits(u, what) ==
    /\ u.esc = what
    /\ u.retry = IF what = "retry" THEN "main" ELSE "none"
    /\ u.compact = IF what = "compact" THEN "main" ELSE "none"
UiFits == Fits(ui, Doing)

LEMMA FitsMoves ==
    ASSUME NEW u \in Escapes
    PROVE  /\ Fits(u, "main") => /\ Fits(CompactionStart(u), "compact")
                                 /\ Fits(RetryStart(u), "retry")
                                 /\ Fits(AgentStart(u), "main") /\ Fits(RetryEnd(u), "main")
           /\ Fits(u, "compact") => Fits(CompactionEnd(u), "main")
           /\ Fits(u, "retry") => Fits(AgentStart(u), "main") /\ Fits(RetryEnd(u), "main")
  BY DEF Fits, Escapes, CompactionStart, CompactionEnd, RetryStart, AgentStart, RetryEnd,
         Escape, Handlers, Saved

\* What goes on, told from the place of a prompt.
DoingSays ==
    /\ \A t \in Threads :
         /\ pc[t] \in {"ready", "agent", "post"} => Doing = "main"
         /\ pc[t] = "retry" => Doing = "retry"
         /\ pc[t] \in {"summary"} \cup Preparing => Doing = "compact"
    /\ (\A t \in Threads : pc[t] = "idle") =>
         Doing = IF manual = "summary" THEN "compact" ELSE "main"

LEMMA DoingIs == TypeOK /\ Places => DoingSays
  <1> SUFFICES ASSUME TypeOK, Places PROVE DoingSays
    OBVIOUS
  <1>1. ASSUME NEW t \in Threads, pc[t] \in {"ready", "agent", "post", "retry"}
        PROVE  /\ ~Compacting
               /\ \A v \in Threads : pc[v] = "retry" => v = t
    <2>1. auto = None
      BY <1>1, ConstantsAssumption DEF Places, Alone, AutoIsStage, TypeOK, Threads
    <2>2. manual # "summary"
      BY <1>1 DEF Places, CommandWaits, BusyIsActive, Busy
    <2> QED BY <1>1, <2>1, <2>2 DEF Compacting, Places, Alone
  <1>2. ASSUME NEW t \in Threads, pc[t] \in {"summary"} \cup Preparing PROVE Doing = "compact"
    BY <1>2, ConstantsAssumption DEF Doing, Compacting, Places, AutoIsStage, Threads
  <1>3. ASSUME \A t \in Threads : pc[t] = "idle"
        PROVE  Doing = IF manual = "summary" THEN "compact" ELSE "main"
    <2>1. auto = None
      BY <1>3 DEF Places, AutoIsStage, TypeOK
    <2> QED BY <1>3, <2>1 DEF Doing, Compacting
  <1>4. ASSUME NEW t \in Threads, pc[t] \in {"ready", "agent", "post"} PROVE Doing = "main"
    BY <1>1, <1>4 DEF Doing
  <1>5. ASSUME NEW t \in Threads, pc[t] = "retry" PROVE Doing = "retry"
    BY <1>1, <1>5 DEF Doing
  <1> QED BY <1>2, <1>3, <1>4, <1>5 DEF DoingSays

LEMMA DoingIsNext == TypeOK' /\ Places' => DoingSays'
  BY DoingIs, PTL

\* Every step keeps Escape in accord with what goes on.
LEMMA UiStep ==
    TypeOK /\ TypeOK' /\ Places /\ Places' /\ UiFits /\ [Next]_vars => UiFits'
  <1> SUFFICES ASSUME TypeOK, TypeOK', Places, Places', UiFits, [Next]_vars PROVE UiFits'
    OBVIOUS
  <1> USE DEF prompts, core, texts
  <1>0. /\ DoingSays /\ DoingSays' /\ Fits(ui, Doing) /\ ui \in Escapes
        /\ "main" # "retry" /\ "main" # "compact"
    BY DoingIs, DoingIsNext DEF UiFits, TypeOK, Escapes
  \* A prompt begins while nothing goes on.
  <1>1. ASSUME NEW P \in [Threads -> Stages], NEW t \in Threads, NEW m, NEW tight, NEW again, NEW u \in Escapes,
               Fits(u, "main"), BeginPrompt(P, t, m, tight, again, u)
        PROVE  UiFits'
    <2>1. CASE pc'[t] \in Preparing /\ ui' = CompactionStart(u)
      <3>1. Doing' = "compact"
        BY <1>0, <2>1 DEF DoingSays
      <3> QED BY <1>1, <2>1, <3>1, FitsMoves DEF UiFits
    <2>2. CASE pc'[t] = "ready" /\ ui' = u
      <3>1. Doing' = "main"
        BY <1>0, <2>2 DEF DoingSays
      <3> QED BY <1>1, <2>2, <3>1 DEF UiFits
    <2> QED BY <1>1, <2>1, <2>2 DEF BeginPrompt
  <1>2. ASSUME NEW m \in Messages, SubmitPrompt(m) PROVE UiFits'
    <2>1. \A t \in Threads : pc[t] = "idle"
      BY <1>2, NobodyThere DEF SubmitPrompt, Compacting
    <2>2. Doing = "main"
      BY <1>0, <1>2, <2>1 DEF DoingSays, SubmitPrompt
    <2>3. BeginPrompt(pc, Main, m, full, Recover, ui) /\ pc \in [Threads -> Stages] /\ Main \in Threads
      BY <1>2 DEF SubmitPrompt, TypeOK, Threads
    <2> QED BY <1>0, <1>1, <2>2, <2>3
  \* What leaves the prompts and the compactions alone.
  <1>3. ASSUME UNCHANGED <<pc, auto, ui>>, (manual' = "summary") = (manual = "summary")
        PROVE  UiFits'
    <2>1. Doing' = Doing
      BY <1>3 DEF Doing, Compacting
    <2> QED BY <1>0, <1>3, <2>1 DEF UiFits
  <1>4. ASSUME NEW m \in Messages, NEW mode \in Modes, SubmitQueued(m, mode) \/ SubmitHeld(m, mode)
        PROVE  UiFits'
    BY <1>3, <1>4 DEF SubmitQueued, SubmitHeld
  <1>5. CASE EscapeRun \/ EscapeRetry \/ EscapeCompaction
    BY <1>3, <1>5 DEF EscapeRun, EscapeRetry, EscapeCompaction
  <1>6. CASE Compact
    BY <1>3, <1>6 DEF Compact
  <1>7. CASE UNCHANGED vars
    BY <1>3, <1>7 DEF vars
  <1>8. ASSUME NEW t \in Threads, NEW tight, ReplyCalls(t, tight) \/ ToolsEnd(t) PROVE UiFits'
    BY <1>3, <1>8 DEF ReplyCalls, ToolsEnd
  <1>9. CASE CompactStarts
    <2>1. /\ ~active /\ Quiet /\ manual = "waiting" /\ manual' = "summary"
          /\ pc' = pc /\ ui' = CompactionStart(ui)
      BY <1>9 DEF CompactStarts
    <2>2. \A t \in Threads : pc[t] = "idle"
      BY <2>1 DEF Places, CommandWaits, BusyIsActive, Busy, TypeOK, Stages
    <2>3. Doing = "main" /\ Doing' = "compact"
      BY <1>0, <2>1, <2>2 DEF DoingSays
    <2> QED BY <1>0, <2>1, <2>3, FitsMoves DEF UiFits
  <1>10. ASSUME NEW saved \in BOOLEAN, CompactEnds(saved) PROVE UiFits'
    <2>1. ~active /\ Quiet /\ manual = "summary" /\ manual' = "none" /\ auto = None
      BY <1>10 DEF CompactEnds
    <2>2. \A t \in Threads : pc[t] = "idle"
      BY <2>1, NobodyThere
    <2>3. Fits(CompactionEnd(ui), "main") /\ CompactionEnd(ui) \in Escapes
      BY <1>0, <2>1, <2>2, FitsMoves, EscapeTypes DEF DoingSays, Escapes
    <2>4. FlushHeld(pc, full', Recover /\ ~saved, CompactionEnd(ui)) /\ pc \in [Threads -> Stages]
      BY <1>10 DEF CompactEnds, TypeOK
    <2>5. CASE held = {}
      <3>1. pc' = pc /\ ui' = CompactionEnd(ui)
        BY <2>4, <2>5 DEF FlushHeld
      <3>2. Doing' = "main"
        BY <1>0, <2>1, <2>2, <3>1 DEF DoingSays
      <3> QED BY <2>3, <3>1, <3>2 DEF UiFits
    <2>6. CASE held # {}
      <3>1. PICK h \in held, f \in Flushers : BeginPrompt(pc, f, h[1], full', Recover /\ ~saved, CompactionEnd(ui))
        BY <2>4, <2>6 DEF FlushHeld, PromptHeld
      <3>2. f \in Threads
        BY DEF Threads
      <3> QED BY <1>1, <2>3, <2>4, <3>1, <3>2
    <2> QED BY <2>5, <2>6
  \* The loop: from one stage to the next, or to its end.
  <1>11. ASSUME NEW t \in Threads, pc[t] # "idle", NEW stage, pc' = At(t, stage)
         PROVE  /\ pc'[t] = stage
                /\ stage = "idle" => \A v \in Threads : pc'[v] = "idle"
    BY <1>11 DEF TypeOK, At, Places, Alone
  <1>12. ASSUME NEW t \in Threads, NEW kind, NEW tight, Reply(t, kind, tight) \/ ReplyFails(t, kind)
         PROVE  UiFits'
    <2>1. pc[t] = "agent" /\ (pc' = pc \/ pc' = At(t, "post")) /\ ui' = ui
      BY <1>12 DEF Reply, ReplyFails
    <2>2. pc'[t] \in {"agent", "post"}
      BY <1>11, <2>1
    <2>3. Doing = "main" /\ Doing' = "main"
      BY <1>0, <2>1, <2>2 DEF DoingSays
    <2> QED BY <1>0, <2>1, <2>3 DEF UiFits
  <1>13. ASSUME NEW t \in Threads, Start(t) PROVE UiFits'
    <2>1. pc[t] = "ready" /\ pc' = At(t, "agent") /\ ui' = AgentStart(ui)
      BY <1>13 DEF Start
    <2>2. Doing = "main" /\ Doing' = "main"
      BY <1>0, <1>11, <2>1 DEF DoingSays
    <2> QED BY <1>0, <2>1, <2>2, FitsMoves DEF UiFits
  <1>14. ASSUME NEW t \in Threads, PostRetry(t) PROVE UiFits'
    <2>1. pc[t] = "post" /\ pc' = At(t, "retry") /\ ui' = RetryStart(ui)
      BY <1>14 DEF PostRetry
    <2>2. Doing = "main" /\ Doing' = "retry"
      BY <1>0, <1>11, <2>1 DEF DoingSays
    <2> QED BY <1>0, <2>1, <2>2, FitsMoves DEF UiFits
  <1>15. ASSUME NEW t \in Threads, RetryEnds(t) PROVE UiFits'
    <2>1. pc[t] = "retry" /\ pc' = At(t, "agent") /\ ui' = AgentStart(ui)
      BY <1>15 DEF RetryEnds, Continue
    <2>2. Doing = "retry" /\ Doing' = "main"
      BY <1>0, <1>11, <2>1 DEF DoingSays
    <2> QED BY <1>0, <2>1, <2>2, FitsMoves DEF UiFits
  <1>16. ASSUME NEW t \in Threads, RetryAborted(t) PROVE UiFits'
    <2>1. pc[t] = "retry" /\ pc' = At(t, "post") /\ ui' = RetryEnd(ui)
      BY <1>16 DEF RetryAborted
    <2>2. Doing = "retry" /\ Doing' = "main"
      BY <1>0, <1>11, <2>1 DEF DoingSays
    <2> QED BY <1>0, <2>1, <2>2, FitsMoves DEF UiFits
  <1>17. ASSUME NEW t \in Threads, PostCompacts(t) PROVE UiFits'
    <2> DEFINE u == IF retries > 0 THEN RetryEnd(ui) ELSE ui
    <2>1. pc[t] = "post" /\ pc' = At(t, "summary") /\ ui' = CompactionStart(u)
      BY <1>17 DEF PostCompacts
    <2>2. Doing = "main" /\ Doing' = "compact"
      BY <1>0, <1>11, <2>1 DEF DoingSays
    <2>3. Fits(u, "main") /\ u \in Escapes
      BY <1>0, <2>2, FitsMoves, EscapeTypes DEF Escapes
    <2> HIDE DEF u
    <2> QED BY <2>1, <2>2, <2>3, FitsMoves DEF UiFits
  <1>18. ASSUME NEW t \in Threads, pc[t] \in {"post", "summary"}, NEW S, NEW F, NEW replied, NEW r,
                NEW u \in Escapes, Fits(u, "main"), GoOn(t, S, F, replied, r, u),
                manual' # "summary"
         PROVE  UiFits'
    <2>1. CASE pc' = At(t, "agent") /\ ui' = AgentStart(u)
      <3>1. Doing' = "main"
        BY <1>0, <1>11, <1>18, <2>1 DEF DoingSays
      <3> QED BY <1>18, <2>1, <3>1, FitsMoves DEF UiFits
    <2>2. CASE pc' = At(t, "idle") /\ ui' = u
      <3>1. \A v \in Threads : pc'[v] = "idle"
        BY <1>11, <1>18, <2>2
      <3>2. Doing' = "main"
        BY <1>0, <1>18, <3>1 DEF DoingSays
      <3> QED BY <1>18, <2>2, <3>2 DEF UiFits
    <2> QED BY <1>18, <2>1, <2>2 DEF GoOn, Continue, Finish
  <1>19. ASSUME NEW t \in Threads, PostEnds(t) PROVE UiFits'
    <2>1. pc[t] = "post" /\ manual' = manual
      BY <1>19 DEF PostEnds
    <2>2. Doing = "main" /\ manual' # "summary"
      BY <1>0, <2>1, NothingHeld DEF DoingSays, Places, CommandWaits
    <2>3. Fits(RetryEnd(ui), "main") /\ RetryEnd(ui) \in Escapes
      BY <1>0, <2>2, FitsMoves, EscapeTypes DEF Escapes
    <2>4. PICK replied, r : GoOn(t, QueueHeld, QueueHeldLater, replied, r, RetryEnd(ui))
      BY <1>19 DEF PostEnds
    <2> QED BY <1>18, <2>1, <2>2, <2>3, <2>4
  <1>20. ASSUME NEW t \in Threads, NEW saved \in BOOLEAN, SummaryEnds(t, saved) PROVE UiFits'
    <2>1. pc[t] = "summary" /\ manual' = manual /\ active
      BY <1>20 DEF SummaryEnds
    <2>2. Doing = "compact" /\ manual' # "summary"
      BY <1>0, <2>1 DEF DoingSays, Places, CommandWaits
    <2>3. Fits(CompactionEnd(ui), "main") /\ CompactionEnd(ui) \in Escapes
      BY <1>0, <2>2, FitsMoves, EscapeTypes DEF Escapes
    <2>4. CASE saved /\ WillRetry
      <3>1. pc' = At(t, "agent") /\ ui' = AgentStart(CompactionEnd(ui))
        BY <1>20, <2>4 DEF SummaryEnds, Continue
      <3>2. Doing' = "main"
        BY <1>0, <1>11, <2>1, <3>1 DEF DoingSays
      <3> QED BY <2>3, <3>1, <3>2, FitsMoves DEF UiFits
    <2>5. CASE ~(saved /\ WillRetry)
      <3>1. PICK replied, r : GoOn(t, QueueHeld, QueueHeldLater, replied, r, CompactionEnd(ui))
        BY <1>20, <2>5 DEF SummaryEnds
      <3> QED BY <1>18, <2>1, <2>2, <2>3, <3>1
    <2> QED BY <2>4, <2>5
  <1>21. ASSUME NEW t \in Threads, NEW saved \in BOOLEAN, BeforeEnds(t, saved) PROVE UiFits'
    <2>1. pc[t] \in Preparing
      BY <1>21, BeforeIs
    <2>2. pc' = At(t, "ready") /\ ui' = CompactionEnd(ui)
      BY <1>21, BeforeIs
    <2>3. Doing = "compact" /\ Doing' = "main"
      BY <1>0, <1>11, <2>1, <2>2 DEF DoingSays
    <2> QED BY <1>0, <2>2, <2>3, FitsMoves DEF UiFits
  <1> QED
    BY <1>2, <1>4, <1>5, <1>6, <1>7, <1>8, <1>9, <1>10, <1>12, <1>13, <1>14, <1>15,
       <1>16, <1>17, <1>19, <1>20, <1>21
    DEF Next, Others, User, Interrupt, Model, Session, Command

---------------------------------------------------------------------------
(* Where the texts are                                                      *)

\* KeptOnce of any editor, queues, prompts and conversation.
Kept(E, S, F, X, Y, C, D) ==
    /\ E \cup S \cup F \cup X \cup Y \cup C \cup D = Messages
    /\ E \cap S = {} /\ E \cap F = {} /\ E \cap X = {} /\ E \cap Y = {}
    /\ E \cap C = {} /\ E \cap D = {}
    /\ S \cap F = {} /\ S \cap X = {} /\ S \cap Y = {} /\ S \cap C = {} /\ S \cap D = {}
    /\ F \cap X = {} /\ F \cap Y = {} /\ F \cap C = {} /\ F \cap D = {}
    /\ X \cap Y = {} /\ X \cap C = {} /\ X \cap D = {}
    /\ Y \cap C = {} /\ Y \cap D = {} /\ C \cap D = {}
Texts == Kept(editor, steer, follow, HeldAs("steer"), HeldAs("followUp"), Carried, said)

LEMMA TextsAreKept == Texts => KeptOnce
  BY DEF Texts, Kept, KeptOnce, Queued

LEMMA TextsInit == Init => Texts
  <1> SUFFICES ASSUME Init PROVE Texts
    OBVIOUS
  <1>1. Carried = {} /\ HeldAs("steer") = {} /\ HeldAs("followUp") = {}
    BY DEF Init, Carried, HeldAs
  <1> QED BY <1>1 DEF Init, Texts, Kept

\* The texts of the prompts, when none is on its way and when one is.
LEMMA CarriedIs ==
    ASSUME TypeOK, Places, NEW t \in Threads
    PROVE  /\ pc[t] \in {"ready"} \cup Preparing => Carried = {msg[t]} /\ msg[t] \in Messages
           /\ pc[t] \in Busy => Carried = {}
  BY ConstantsAssumption DEF TypeOK, Places, Carries, Alone, Carried, Busy

\* The texts of a prompt that begins, from the queue of the compaction or not.
LEMMA CarriedBegins ==
    ASSUME TypeOK, NEW P, NEW t \in Threads, NEW m \in Messages, NEW tight, NEW again, NEW u,
           BeginPrompt(P, t, m, tight, again, u), \A v \in Threads : msg[v] = None
    PROVE  Carried = {} /\ Carried' = {m}
  <1>1. msg' = [msg EXCEPT ![t] = m] /\ msg \in [Threads -> Messages \cup {None}] /\ m # None
    BY ConstantsAssumption DEF BeginPrompt, TypeOK
  <1>2. Carried = {}
    BY DEF Carried
  <1>3. Carried' = {msg'[v] : v \in Threads} \ {None}
    BY DEF Carried
  <1> QED BY <1>1, <1>2, <1>3

\* What is taken moves from one place to another.
LEMMA TakeKeeps ==
    ASSUME NEW S \in SUBSET Messages, NEW F \in SUBSET Messages, NEW replied, NEW r,
           Take(S, F, replied, r), Kept(editor, S, F, {}, {}, {}, said)
    PROVE  Kept(editor, steer', follow', {}, {}, {}, said')
  <1>1. ASSUME NEW m \in S, steer' = S \ {m}, follow' = F, said' = said \cup {m}
        PROVE  Kept(editor, steer', follow', {}, {}, {}, said')
    BY <1>1 DEF Kept
  <1>2. ASSUME NEW m \in F, steer' = S, follow' = F \ {m}, said' = said \cup {m}
        PROVE  Kept(editor, steer', follow', {}, {}, {}, said')
    BY <1>2 DEF Kept
  <1>3. ASSUME steer' = S, follow' = F, said' = said
        PROVE  Kept(editor, steer', follow', {}, {}, {}, said')
    BY <1>3
  <1> QED BY <1>1, <1>2, <1>3 DEF Take

LEMMA GoOnKeeps ==
    ASSUME NEW t, NEW S \in SUBSET Messages, NEW F \in SUBSET Messages, NEW replied, NEW r, NEW u,
           GoOn(t, S, F, replied, r, u), Kept(editor, S, F, {}, {}, {}, said)
    PROVE  Kept(editor, steer', follow', {}, {}, {}, said')
  <1>1. CASE Take(S, F, replied, r)
    BY <1>1, TakeKeeps
  <1>2. CASE steer' = S /\ follow' = F /\ said' = said
    BY <1>2
  <1> QED BY <1>1, <1>2 DEF GoOn

\* Every step keeps every text.
LEMMA TextsStep ==
    TypeOK /\ TypeOK' /\ Places /\ Places' /\ Texts /\ [Next]_vars => Texts'
  <1> SUFFICES ASSUME TypeOK, TypeOK', Places, Places', Texts, [Next]_vars PROVE Texts'
    OBVIOUS
  <1> USE DEF prompts, core, texts
  <1>0. /\ steer \in SUBSET Messages /\ follow \in SUBSET Messages
        /\ HeldAs("steer") \in SUBSET Messages /\ HeldAs("followUp") \in SUBSET Messages
    BY DEF TypeOK, HeldAs
  <1>1. held' = held => HeldAs("steer")' = HeldAs("steer") /\ HeldAs("followUp")' = HeldAs("followUp")
    BY DEF HeldAs
  <1>2. held' = {} => HeldAs("steer")' = {} /\ HeldAs("followUp")' = {}
    BY DEF HeldAs
  <1>3. msg' = msg => Carried' = Carried
    BY DEF Carried
  <1>4. ASSUME UNCHANGED <<msg, editor, steer, follow, held, said>> PROVE Texts'
    BY <1>1, <1>3, <1>4 DEF Texts
  <1>5. ASSUME NEW m \in Messages, SubmitPrompt(m) PROVE Texts'
    <2>1. \A t \in Threads : msg[t] = None
      BY <1>5, NobodyThere DEF SubmitPrompt, Compacting, Places, Carries
    <2>2. BeginPrompt(pc, Main, m, full, Recover, ui) /\ Main \in Threads
      BY <1>5 DEF SubmitPrompt, Threads
    <2>3. Carried = {} /\ Carried' = {m}
      BY <2>1, <2>2, CarriedBegins
    <2>4. m \in editor /\ editor' = editor \ {m} /\ UNCHANGED <<steer, follow, held, said>>
      BY <1>5 DEF SubmitPrompt
    <2> QED BY <1>1, <2>3, <2>4 DEF Texts, Kept
  <1>6. ASSUME NEW m \in Messages, NEW mode \in Modes, SubmitQueued(m, mode) PROVE Texts'
    <2>1. /\ m \in editor /\ editor' = editor \ {m} /\ UNCHANGED <<held, said, msg>>
          /\ \/ steer' = steer \cup {m} /\ follow' = follow
             \/ steer' = steer /\ follow' = follow \cup {m}
      BY <1>6 DEF SubmitQueued
    <2> QED BY <1>1, <1>3, <2>1 DEF Texts, Kept
  <1>7. ASSUME NEW m \in Messages, NEW mode \in Modes, SubmitHeld(m, mode) PROVE Texts'
    <2>1. /\ m \in editor /\ editor' = editor \ {m} /\ UNCHANGED <<steer, follow, said, msg>>
          /\ held' = held \cup {<<m, mode>>}
      BY <1>7 DEF SubmitHeld
    <2>2. CASE mode = "steer"
      <3>1. HeldAs("steer")' = HeldAs("steer") \cup {m} /\ HeldAs("followUp")' = HeldAs("followUp")
        BY <2>1, <2>2 DEF HeldAs
      <3> QED BY <1>3, <2>1, <3>1 DEF Texts, Kept
    <2>3. CASE mode = "followUp"
      <3>1. HeldAs("followUp")' = HeldAs("followUp") \cup {m} /\ HeldAs("steer")' = HeldAs("steer")
        BY <2>1, <2>3 DEF HeldAs
      <3> QED BY <1>3, <2>1, <3>1 DEF Texts, Kept
    <2> QED BY <2>2, <2>3 DEF Modes
  <1>8. CASE EscapeRun
    <2>1. /\ editor' = editor \cup steer \cup follow \cup HeldAs("steer") \cup HeldAs("followUp")
          /\ steer' = {} /\ follow' = {} /\ held' = {} /\ UNCHANGED <<msg, said>>
      BY <1>8 DEF EscapeRun
    <2> QED BY <1>2, <1>3, <2>1 DEF Texts, Kept
  <1>9. CASE EscapeRetry \/ EscapeCompaction \/ Compact \/ CompactStarts
    BY <1>4, <1>9 DEF EscapeRetry, EscapeCompaction, Compact, CompactStarts
  <1>10. CASE UNCHANGED vars
    BY <1>4, <1>10 DEF vars
  <1>11. ASSUME NEW saved \in BOOLEAN, CompactEnds(saved) PROVE Texts'
    <2>1. FlushHeld(pc, full', Recover /\ ~saved, CompactionEnd(ui)) /\ UNCHANGED <<editor, said>>
      BY <1>11 DEF CompactEnds
    <2>2. \A t \in Threads : msg[t] = None
      BY <1>11, NobodyThere DEF CompactEnds, Places, Carries
    <2>3. CASE held = {}
      BY <1>4, <2>1, <2>3 DEF FlushHeld
    <2>4. CASE held # {}
      <3>1. PICK h \in held, f \in Flushers :
              /\ BeginPrompt(pc, f, h[1], full', Recover /\ ~saved, CompactionEnd(ui))
              /\ steer' = QueueHeld \ {h[1]} /\ follow' = QueueHeldLater \ {h[1]} /\ held' = {}
        BY <2>1, <2>4 DEF FlushHeld, PromptHeld
      <3>2. h[1] \in Messages /\ f \in Threads
        BY DEF TypeOK, Threads
      <3>3. h[1] \in HeldAs("steer") \cup HeldAs("followUp")
        BY <3>2 DEF TypeOK, HeldAs, Modes
      <3>4. Carried = {} /\ Carried' = {h[1]}
        BY <2>2, <3>1, <3>2, CarriedBegins
      <3> QED BY <1>2, <2>1, <3>1, <3>3, <3>4 DEF Texts, Kept, QueueHeld, QueueHeldLater
    <2> QED BY <2>3, <2>4
  <1>12. ASSUME NEW t \in Threads, Start(t) PROVE Texts'
    <2>1. Carried = {msg[t]} /\ msg[t] \in Messages
      BY <1>12, CarriedIs DEF Start
    <2>2. Carried' = {}
      <3>1. \A v \in Threads : msg'[v] = None
        BY <1>12 DEF Start, TypeOK, Places, Alone, Carries
      <3>2. Carried' = {msg'[v] : v \in Threads} \ {None}
        BY DEF Carried
      <3> QED BY <3>1, <3>2
    <2>3. UNCHANGED <<editor, follow, held>>
      BY <1>12 DEF Start
    <2>4. \/ \E m \in steer : steer' = steer \ {m} /\ said' = said \cup {msg[t], m}
          \/ steer' = steer /\ said' = said \cup {msg[t]}
      BY <1>12 DEF Start
    <2> QED BY <1>1, <2>1, <2>2, <2>3, <2>4 DEF Texts, Kept
  \* In the loop, what was typed during a compaction is in the queues first.
  <1>13. ASSUME NEW t \in Threads, pc[t] \in Busy, msg' = msg, editor' = editor, held' = {},
                Kept(editor, QueueHeld, QueueHeldLater, {}, {}, {}, said) =>
                  Kept(editor, steer', follow', {}, {}, {}, said')
         PROVE  Texts'
    <2>1. Carried = {} /\ Carried' = {}
      BY <1>3, <1>13, CarriedIs
    <2>2. Kept(editor, QueueHeld, QueueHeldLater, {}, {}, {}, said)
      BY <2>1 DEF Texts, Kept, QueueHeld, QueueHeldLater
    <2> QED BY <1>2, <1>13, <2>1, <2>2 DEF Texts
  <1>14. ASSUME NEW t \in Threads, pc[t] \in {"agent", "retry"}, msg' = msg, editor' = editor, held' = held,
                NEW replied, NEW r, Take(steer, follow, replied, r)
         PROVE  Texts'
    <2>1. held = {} /\ pc[t] \in Busy
      BY <1>14, NothingHeld DEF Busy
    <2>2. QueueHeld = steer /\ QueueHeldLater = follow
      BY <2>1 DEF QueueHeld, QueueHeldLater, HeldAs
    <2>3. Kept(editor, steer, follow, {}, {}, {}, said) => Kept(editor, steer', follow', {}, {}, {}, said')
      BY <1>0, <1>14, TakeKeeps
    <2> QED BY <1>13, <1>14, <2>1, <2>2, <2>3
  <1>15. ASSUME NEW t \in Threads, NEW kind, NEW tight, Reply(t, kind, tight) PROVE Texts'
    <2>1. pc[t] = "agent" /\ UNCHANGED <<msg, editor, held>>
      BY <1>15 DEF Reply
    <2>2. PICK replied, r : Take(steer, follow, replied, r)
      BY <1>15 DEF Reply
    <2> QED BY <1>14, <2>1, <2>2
  <1>16. ASSUME NEW t \in Threads, ToolsEnd(t) \/ RetryEnds(t) PROVE Texts'
    <2>1. pc[t] \in {"agent", "retry"} /\ UNCHANGED <<msg, editor, held>>
      BY <1>16 DEF ToolsEnd, RetryEnds
    <2>2. PICK replied, r : Take(steer, follow, replied, r)
      BY <1>16 DEF ToolsEnd, RetryEnds
    <2> QED BY <1>14, <2>1, <2>2
  <1>17. ASSUME NEW t \in Threads, NEW tight, ReplyCalls(t, tight) PROVE Texts'
    BY <1>4, <1>17 DEF ReplyCalls
  <1>18. ASSUME NEW t \in Threads, NEW kind, ReplyFails(t, kind) PROVE Texts'
    BY <1>4, <1>18 DEF ReplyFails
  <1>19. ASSUME NEW t \in Threads, PostRetry(t) \/ RetryAborted(t) \/ PostCompacts(t) PROVE Texts'
    BY <1>4, <1>19 DEF PostRetry, RetryAborted, PostCompacts
  <1>20. ASSUME NEW t \in Threads, PostEnds(t) PROVE Texts'
    <2>1. pc[t] = "post" /\ held' = {} /\ UNCHANGED <<msg, editor>>
      BY <1>20 DEF PostEnds
    <2>2. PICK replied, r, u : GoOn(t, QueueHeld, QueueHeldLater, replied, r, u)
      BY <1>20 DEF PostEnds
    <2>3. Kept(editor, QueueHeld, QueueHeldLater, {}, {}, {}, said) =>
            Kept(editor, steer', follow', {}, {}, {}, said')
      BY <2>2, GoOnKeeps, QueueTypes
    <2> QED BY <1>13, <2>1, <2>3 DEF Busy
  <1>21. ASSUME NEW t \in Threads, NEW saved \in BOOLEAN, SummaryEnds(t, saved) PROVE Texts'
    <2>1. pc[t] = "summary" /\ held' = {} /\ UNCHANGED <<msg, editor>>
      BY <1>21 DEF SummaryEnds
    <2>2. CASE saved /\ WillRetry
      <3>1. PICK replied, r : Take(QueueHeld, QueueHeldLater, replied, r)
        BY <1>21, <2>2 DEF SummaryEnds
      <3>2. Kept(editor, QueueHeld, QueueHeldLater, {}, {}, {}, said) =>
              Kept(editor, steer', follow', {}, {}, {}, said')
        BY <3>1, TakeKeeps, QueueTypes
      <3> QED BY <1>13, <2>1, <3>2 DEF Busy
    <2>3. CASE ~(saved /\ WillRetry)
      <3>1. PICK replied, r, u : GoOn(t, QueueHeld, QueueHeldLater, replied, r, u)
        BY <1>21, <2>3 DEF SummaryEnds
      <3>2. Kept(editor, QueueHeld, QueueHeldLater, {}, {}, {}, said) =>
              Kept(editor, steer', follow', {}, {}, {}, said')
        BY <3>1, GoOnKeeps, QueueTypes
      <3> QED BY <1>13, <2>1, <3>2 DEF Busy
    <2> QED BY <2>2, <2>3
  <1>22. ASSUME NEW t \in Threads, NEW saved \in BOOLEAN, BeforeEnds(t, saved) PROVE Texts'
    BY <1>4, <1>22, BeforeIs
  <1> QED
    BY <1>5, <1>6, <1>7, <1>8, <1>9, <1>10, <1>11, <1>12, <1>15, <1>16, <1>17, <1>18,
       <1>19, <1>20, <1>21, <1>22
    DEF Next, Others, User, Interrupt, Model, Session, Command

---------------------------------------------------------------------------
(* The theorems                                                             *)

Invariant == TypeOK /\ Places /\ UiFits /\ Texts

LEMMA TypeInit == Init => TypeOK /\ UiFits
  <1> SUFFICES ASSUME Init PROVE TypeOK /\ UiFits
    OBVIOUS
  <1>1. TypeOK
    <2>1. pc \in [Threads -> Stages] /\ msg \in [Threads -> Messages \cup {None}]
      BY DEF Init, Stages
    <2>2. batch \in [Threads -> SUBSET (Messages \X Modes)] /\ held \subseteq Messages \X Modes
      BY DEF Init
    <2>3. ui \in [esc : Handlers, retry : Saved, compact : Saved]
      BY DEF Init, Handlers, Saved
    <2>4. calls \in Nat /\ retries \in 0..MaxRetries
      BY ConstantsAssumption DEF Init
    <2> QED BY <2>1, <2>2, <2>3, <2>4 DEF Init, TypeOK, Endings
  <1>2. UiFits
    BY ConstantsAssumption DEF Init, UiFits, Fits, Doing, Compacting
  <1> QED BY <1>1, <1>2

LEMMA InvariantHolds == Spec => []Invariant
  <1>1. Init => Invariant
    BY TypeInit, PlacesInit, TextsInit DEF Invariant
  <1>2. Invariant /\ [Next]_vars => Invariant'
    <2> SUFFICES ASSUME Invariant, [Next]_vars PROVE Invariant'
      OBVIOUS
    <2>1. TypeOK'
      BY TypeStep DEF Invariant, Places
    <2>2. Places'
      BY <2>1, PlacesStep DEF Invariant
    <2>3. UiFits' /\ Texts'
      BY <2>1, <2>2, UiStep, TextsStep DEF Invariant
    <2> QED BY <2>1, <2>2, <2>3 DEF Invariant
  <1> QED BY <1>1, <1>2, PTL DEF Spec

\* The flag, the stages, the queues and the handlers have their types.
THEOREM TypeCorrect == Spec => []TypeOK
  <1>1. Invariant => TypeOK
    BY DEF Invariant
  <1>2. Spec => []Invariant
    BY InvariantHolds
  <1> QED BY <1>1, <1>2, PTL

\* While isIdle is true no run is at work, no retry waits and no text is left in a
\* queue, as long as the user does not type during the compaction before a prompt.
THEOREM IdleCorrect == Spec => []IdleHasNoRun
  <1>1. Invariant => IdleHasNoRun
    BY DEF Invariant, TypeOK, Stages, Busy, Places, BusyIsActive, AgentIsRun, QueueWaits, IdleHasNoRun
  <1>2. Spec => []Invariant
    BY InvariantHolds
  <1> QED BY <1>1, <1>2, PTL

\* Whatever compactions, retries and runs follow each other, Escape stops the one
\* that is going on.
THEOREM EscapeCorrect == Spec => []EscapeFits
  <1>1. Invariant => EscapeFits
    BY DEF Invariant, UiFits, Fits, EscapeFits
  <1>2. Spec => []Invariant
    BY InvariantHolds
  <1> QED BY <1>1, <1>2, PTL

\* No text of the user is lost between the editor, the three queues, the prompts
\* and the conversation, and none is there twice.
THEOREM TextsCorrect == Spec => []KeptOnce
  <1>1. Invariant => KeptOnce
    BY TextsAreKept DEF Invariant
  <1>2. Spec => []Invariant
    BY InvariantHolds
  <1> QED BY <1>1, <1>2, PTL

=============================================================================
