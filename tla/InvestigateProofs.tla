------------------------- MODULE InvestigateProofs -------------------------
(***************************************************************************)
(* For every number of calls and slots and all limits: types, the slots of  *)
(* the scheduler, and what the header shows, in every reachable state.      *)
(***************************************************************************)
EXTENDS Investigate, FiniteSetTheorems, TLAPS

\* A child's run is under way only while execute awaits child.prompt, and the
\* question on the screen is one its child still waits for.
RunsWhilePrompting ==
    \A i \in Ids : run[i] \notin {"none", "over"} => pc[i] = "prompting"
QuestionIsWaitedFor == dialog # None => run[dialog] = "asking"

ShownInv ==
    /\ TypeOK
    /\ RunsWhilePrompting
    /\ QuestionIsWaitedFor
    /\ SettledIsShown

\* Every variable starts in its type, nothing runs, nothing is shown.
LEMMA InitShown == Init => ShownInv
<1> SUFFICES ASSUME Init PROVE ShownInv
  OBVIOUS
<1>1. TypeOK
  <2>1. /\ pc \in [Ids -> Stages] /\ run \in [Ids -> Runs]
        /\ turns \in [Ids -> Nat] /\ tools \in [Ids -> Nat]
        /\ retries \in [Ids -> Nat]
        /\ reply \in [Ids -> Replies] /\ collab \in [Ids -> Phases]
    BY DEF Init, Stages, Runs, Replies, Phases
  <2>2. /\ cancelled \in [Ids -> BOOLEAN] /\ limited \in [Ids -> BOOLEAN]
        /\ stopped \in [Ids -> BOOLEAN]
    BY DEF Init
  <2>3. \A i \in Ids : pc[i] = "closing" <=> reply[i] # "none"
    BY DEF Init
  <2>4. QED
    BY <2>1, <2>2, <2>3 DEF Init, TypeOK
<1>2. RunsWhilePrompting /\ QuestionIsWaitedFor /\ SettledIsShown
  BY DEF Init, RunsWhilePrompting, QuestionIsWaitedFor, SettledIsShown, Live
<1>3. QED
  BY <1>1, <1>2 DEF ShownInv

\* The steps of execute.
LEMMA ExecuteShown ==
  ASSUME ShownInv, NEW i \in Ids, Execute(i)
  PROVE  ShownInv'
<1> USE ConstantsAssumption
    DEF ShownInv, TypeOK, RunsWhilePrompting, QuestionIsWaitedFor, SettledIsShown,
        Stages, Runs, Replies, Phases, Live, child, scheduler, parent, Show,
        Answer, Cancelled
<1>1. CASE Busy(i)
  BY <1>1 DEF Busy
<1>2. CASE Begin(i)
  BY <1>2 DEF Begin
<1>3. CASE SessionCreated(i)
  BY <1>3 DEF SessionCreated
<1>4. CASE SessionFails(i)
  BY <1>4 DEF SessionFails
<1>5. CASE Resume(i)
  BY <1>5 DEF Resume
<1>6. CASE Release(i)
  BY <1>6 DEF Release
<1>7. QED
  BY <1>1, <1>2, <1>3, <1>4, <1>5, <1>6 DEF Execute

\* The steps of the child session.
LEMMA ChildShown ==
  ASSUME ShownInv, NEW i \in Ids, Child(i)
  PROVE  ShownInv'
<1> USE ConstantsAssumption
    DEF ShownInv, TypeOK, RunsWhilePrompting, QuestionIsWaitedFor, SettledIsShown,
        Stages, Runs, Replies, Phases, Live, child, scheduler, parent, Show,
        Title, Limit, TurnEnds
<1>1. CASE Checked(i)
  BY <1>1 DEF Checked
<1>2. CASE RunEnds(i)
  BY <1>2 DEF RunEnds
<1>3. CASE CallTool(i)
  BY <1>3 DEF CallTool
<1>4. CASE AskUser(i)
  BY <1>4 DEF AskUser
<1>5. CASE UserAnswers(i)
  BY <1>5 DEF UserAnswers
<1>6. CASE ToolEnds(i)
  BY <1>6 DEF ToolEnds
<1>7. CASE EndTurn(i)
  BY <1>7 DEF EndTurn
<1>8. CASE RequestFails(i)
  BY <1>8 DEF RequestFails
<1>9. CASE RetryBegins(i) \/ CompactionRefused(i)
  BY <1>9 DEF RetryBegins, CompactionRefused
<1>10. QED
  BY <1>1, <1>2, <1>3, <1>4, <1>5, <1>6, <1>7, <1>8, <1>9 DEF Child

\* The steps of the parent session: the flags, the scheduler and the header
\* change, no call and no run.
LEMMA ParentShown ==
  ASSUME ShownInv, AbortTurn \/ NextTurn \/ Shutdown \/ HoldExpires
  PROVE  ShownInv'
<1> USE ConstantsAssumption
    DEF ShownInv, TypeOK, RunsWhilePrompting, QuestionIsWaitedFor, SettledIsShown,
        Stages, Runs, Replies, Phases, Live, child, scheduler, parent, Working
<1>1. CASE AbortTurn
  BY <1>1 DEF AbortTurn, AbortChildren
<1>2. CASE NextTurn
  BY <1>2 DEF NextTurn
<1>3. CASE Shutdown
  BY <1>3 DEF Shutdown, AbortChildren
<1>4. CASE HoldExpires
  BY <1>4 DEF HoldExpires
<1>5. QED
  BY <1>1, <1>2, <1>3, <1>4

LEMMA NextShown == ShownInv /\ [Next]_vars => ShownInv'
<1> SUFFICES ASSUME ShownInv, [Next]_vars PROVE ShownInv'
  OBVIOUS
<1>1. CASE \E i \in Ids : Execute(i) \/ Child(i)
  BY <1>1, ExecuteShown, ChildShown
<1>2. CASE AbortTurn \/ NextTurn \/ Shutdown \/ HoldExpires
  BY <1>2, ParentShown
<1>3. CASE UNCHANGED vars
  BY <1>3 DEF vars, child, scheduler, parent, ShownInv, TypeOK,
              RunsWhilePrompting, QuestionIsWaitedFor, SettledIsShown
<1>4. QED
  BY <1>1, <1>2, <1>3 DEF Next

LEMMA ShownAlways == Spec => []ShownInv
  BY InitShown, NextShown, PTL DEF Spec

\* Types, and a call that leaves execute's body has a text to answer.
THEOREM TypeCorrect == Spec => []TypeOK
  BY ShownAlways, PTL DEF ShownInv

\* The header counts no call that is over (host-status.ts setCollab, the hold
\* timer, the confirmation callback): a confirmation is answered only while
\* its child waits, so it cannot light up the slot of a call that has settled.
THEOREM HeaderIsTrue == Spec => []SettledIsShown
  BY ShownAlways, PTL DEF ShownInv

---------------------------------------------------------------------------
(* The slots: the strengthening is the statement itself with the types.     *)

\* Only tryAcquire adds a slot, below the capacity; every other step removes
\* slots or leaves them.
LEMMA FewerSlots ==
  ASSUME active \subseteq Ids, Cardinality(active) <= Capacity,
         active' \subseteq active
  PROVE  Cardinality(active') <= Capacity
<1>1. IsFiniteSet(active)
  BY FS_Subset, ConstantsAssumption
<1>2. /\ IsFiniteSet(active')
      /\ Cardinality(active') <= Cardinality(active)
  BY <1>1, FS_Subset
<1>3. Cardinality(active) \in Nat /\ Cardinality(active') \in Nat
  BY <1>1, <1>2, FS_CardinalityType
<1>4. QED
  BY <1>2, <1>3, ConstantsAssumption

LEMMA OneMoreSlot ==
  ASSUME active \subseteq Ids, Cardinality(active) < Capacity, NEW i \in Ids
  PROVE  Cardinality(active \cup {i}) <= Capacity
<1>1. IsFiniteSet(active)
  BY FS_Subset, ConstantsAssumption
<1>2. Cardinality(active \cup {i}) \in {Cardinality(active), Cardinality(active) + 1}
  BY <1>1, FS_AddElement
<1>3. Cardinality(active) \in Nat
  BY <1>1, FS_CardinalityType
<1>4. QED
  BY <1>2, <1>3, ConstantsAssumption

\* Each step of execute and of a child keeps the slots equal to the calls at
\* work; a run's steps and a failed prompt need RunsWhilePrompting.
LEMMA ExecuteSlots ==
  ASSUME ShownInv, SlotPerInvestigation, NEW i \in Ids, Execute(i)
  PROVE  SlotPerInvestigation'
<1> SUFFICES ASSUME ~closing'
             PROVE  /\ active' = {k \in Ids : Working(k)'}
                    /\ Cardinality(active') <= Capacity
  BY DEF SlotPerInvestigation, Working
<1>1. ~closing
  BY DEF Execute, Busy, Begin, SessionCreated, SessionFails, Resume, Release, parent
<1>2. /\ active = {k \in Ids : Working(k)} /\ Cardinality(active) <= Capacity
      /\ active \subseteq Ids
  BY <1>1 DEF SlotPerInvestigation
<1> USE DEF ShownInv, TypeOK, Working, Answer, scheduler
<1>3. CASE Busy(i)
  BY <1>2, <1>3 DEF Busy
<1>4. CASE Begin(i)
  <2>1. active' = active \/ active' = active \cup {i}
    BY <1>4 DEF Begin
  <2>2. Cardinality(active') <= Capacity
    BY <1>2, <1>4, <2>1, OneMoreSlot DEF Begin
  <2>3. active' = {k \in Ids : Working(k)'}
    BY <1>2, <1>4 DEF Begin
  <2>4. QED
    BY <2>2, <2>3
<1>5. CASE SessionCreated(i)
  BY <1>2, <1>5 DEF SessionCreated
<1>6. CASE SessionFails(i)
  BY <1>2, <1>6 DEF SessionFails, RunsWhilePrompting
<1>7. CASE Resume(i)
  BY <1>2, <1>7 DEF Resume
<1>8. CASE Release(i)
  <2>1. active' \subseteq active
    BY <1>8 DEF Release
  <2>2. active' = {k \in Ids : Working(k)'}
    BY <1>2, <1>8 DEF Release
  <2>3. QED
    BY <1>2, <2>1, <2>2, FewerSlots
<1>9. QED
  BY <1>3, <1>4, <1>5, <1>6, <1>7, <1>8 DEF Execute

\* No other step changes the stage of a call or, short of a shutdown, a slot.
LEMMA NextSlots ==
  ShownInv /\ SlotPerInvestigation /\ [Next]_vars => SlotPerInvestigation'
<1> SUFFICES ASSUME ShownInv, SlotPerInvestigation, [Next]_vars
             PROVE  SlotPerInvestigation'
  OBVIOUS
<1>1. CASE \E i \in Ids : Execute(i)
  BY <1>1, ExecuteSlots
<1>2. CASE \E i \in Ids : Child(i)
  <2>1. UNCHANGED <<pc, active, closing>>
    BY <1>2 DEF Child, Checked, RunEnds, RequestFails, RetryBegins,
                CompactionRefused, CallTool, AskUser, UserAnswers, ToolEnds,
                EndTurn, scheduler, parent
  <2>2. QED
    BY <2>1 DEF SlotPerInvestigation, Working
<1>3. CASE AbortTurn \/ NextTurn \/ HoldExpires
  <2>1. UNCHANGED <<pc, active, closing>>
    BY <1>3 DEF AbortTurn, NextTurn, HoldExpires, scheduler, parent
  <2>2. QED
    BY <2>1 DEF SlotPerInvestigation, Working
<1>4. CASE Shutdown
  BY <1>4 DEF Shutdown, SlotPerInvestigation
<1>5. CASE UNCHANGED vars
  BY <1>5 DEF vars, scheduler, parent, SlotPerInvestigation, Working
<1>6. QED
  BY <1>1, <1>2, <1>3, <1>4, <1>5 DEF Next

LEMMA InitSlots == Init => SlotPerInvestigation
<1> SUFFICES ASSUME Init PROVE SlotPerInvestigation
  OBVIOUS
<1>1. active = {i \in Ids : Working(i)}
  BY DEF Init, Working
<1>2. Cardinality(active) = 0
  BY FS_EmptySet DEF Init
<1>3. QED
  BY <1>1, <1>2, ConstantsAssumption DEF SlotPerInvestigation

\* tryAcquire and the finally of execute: a slot is held exactly by the calls
\* at work, never more than the capacity, through every early return, failure
\* and cancellation, until the session shuts down.
THEOREM SlotsAreHeld == Spec => []SlotPerInvestigation
<1>1. Spec => []ShownInv
  BY ShownAlways
<1>2. QED
  BY <1>1, InitSlots, NextSlots, PTL DEF Spec

---------------------------------------------------------------------------
(* The answers                                                              *)

\* The limits are reached exactly when limited says so, a child is stopped only
\* by a limit or a cancellation, and whoever aborts a child cancels its call.
LimitIsReached(i) ==
    limited[i] <=> turns[i] >= TurnLimit \/ tools[i] >= ToolLimit
StopHasReason(i) == stopped[i] => limited[i] \/ cancelled[i]
AbortIsKept(i) == pc[i] = "prompting" /\ (signal \/ i \in aborted) => cancelled[i]
NothingYet(i) ==
    pc[i] \in {"new", "creating", "settled"} => turns[i] = 0 /\ tools[i] = 0 /\ ~stopped[i]
AnswerInv ==
    /\ \A i \in Ids : LimitIsReached(i) /\ StopHasReason(i) /\ AbortIsKept(i) /\ NothingYet(i)
    /\ ReplyIsTrue

LEMMA InitAnswers == Init => AnswerInv
  BY ConstantsAssumption
  DEF Init, AnswerInv, LimitIsReached, StopHasReason, AbortIsKept, NothingYet, ReplyIsTrue

\* execute: its flags and counters are fixed once it answers.
LEMMA ExecuteAnswers ==
  ASSUME ShownInv, AnswerInv, NEW i \in Ids, Execute(i)
  PROVE  AnswerInv'
<1> USE ConstantsAssumption
    DEF ShownInv, TypeOK, RunsWhilePrompting, AnswerInv, LimitIsReached, StopHasReason,
        AbortIsKept, NothingYet, ReplyIsTrue, Answer, Cancelled, child, scheduler, parent
<1>1. CASE Busy(i)
  BY <1>1 DEF Busy
<1>2. CASE Begin(i)
  BY <1>2 DEF Begin
<1>3. CASE SessionCreated(i)
  <2>1. \A k \in Ids : k # i => /\ UNCHANGED <<pc[k], reply[k], cancelled[k]>>
    BY <1>3 DEF SessionCreated
  <2>2. UNCHANGED <<turns, tools, limited, stopped, aborted, signal>>
    BY <1>3 DEF SessionCreated
  <2>3. pc[i] = "creating" /\ turns[i] = 0 /\ tools[i] = 0 /\ ~stopped[i]
    BY <1>3 DEF SessionCreated
  <2>4. /\ pc'[i] \in {"closing", "prompting"}
        /\ pc'[i] = "prompting" => ~signal /\ i \notin aborted
        /\ reply'[i] \in {"none", "cancelled"}
    <3>1. CASE cancelled'[i] \/ signal
      BY <1>3, <3>1 DEF SessionCreated
    <3>2. CASE ~(cancelled'[i] \/ signal)
      <4>1. cancelled'[i] = (cancelled[i] \/ i \in aborted \/ i \notin active)
        BY <1>3 DEF SessionCreated
      <4>2. pc' = [pc EXCEPT ![i] = "prompting"] /\ reply' = [reply EXCEPT ![i] = "none"]
        BY <1>3, <3>2 DEF SessionCreated
      <4> QED BY <3>2, <4>1, <4>2
    <3> QED BY <3>1, <3>2
  <2> QED BY <2>1, <2>2, <2>3, <2>4
<1>4. CASE SessionFails(i)
  BY <1>4 DEF SessionFails
<1>5. CASE Resume(i)
  BY <1>5 DEF Resume
<1>6. CASE Release(i)
  BY <1>6 DEF Release
<1>7. QED
  BY <1>1, <1>2, <1>3, <1>4, <1>5, <1>6 DEF Execute

\* A turn or a tool result is counted and compared in the same step (onLimit).
LEMMA CountAnswers ==
  ASSUME ShownInv, AnswerInv, NEW i \in Ids, pc[i] = "prompting",
         \A k \in Ids : k # i => UNCHANGED <<turns[k], tools[k], limited[k], stopped[k]>>,
         LimitIsReached(i)', limited[i] => limited'[i],
         stopped'[i] => stopped[i] \/ limited'[i],
         UNCHANGED <<pc, cancelled, reply, aborted, signal>>
  PROVE  AnswerInv'
<1>1. StopHasReason(i)'
  BY DEF AnswerInv, StopHasReason
<1>2. \A k \in Ids : AbortIsKept(k)'
  BY DEF AnswerInv, AbortIsKept
<1>3. \A k \in Ids \ {i} : LimitIsReached(k)' /\ StopHasReason(k)' /\ NothingYet(k)'
  BY DEF AnswerInv, LimitIsReached, StopHasReason, NothingYet
<1>4. NothingYet(i)' /\ reply[i] = "none"
  BY DEF NothingYet, ShownInv, TypeOK
<1>5. ReplyIsTrue'
  BY <1>4 DEF AnswerInv, ReplyIsTrue
<1> QED BY <1>1, <1>2, <1>3, <1>4, <1>5 DEF AnswerInv

LEMMA TurnAnswers ==
  ASSUME ShownInv, AnswerInv, NEW i \in Ids, pc[i] = "prompting", TurnEnds(i),
         UNCHANGED <<pc, tools, cancelled, reply, aborted, signal>>
  PROVE  AnswerInv'
<1>1. \A k \in Ids : k # i => UNCHANGED <<turns[k], tools[k], limited[k], stopped[k]>>
  BY DEF TurnEnds, Limit, ShownInv, TypeOK
<1>2. /\ turns[i] \in Nat /\ turns'[i] = turns[i] + 1
      /\ limited'[i] <=> limited[i] \/ turns[i] + 1 >= TurnLimit
      /\ stopped'[i] <=> stopped[i] \/ turns[i] + 1 >= TurnLimit
  BY DEF TurnEnds, Limit, ShownInv, TypeOK
<1>3. LimitIsReached(i)'
  BY <1>2, ConstantsAssumption DEF AnswerInv, LimitIsReached
<1>4. limited[i] => limited'[i]
  BY <1>2, Zenon
<1>5. stopped'[i] => stopped[i] \/ limited'[i]
  BY <1>2, Zenon
<1> QED BY <1>1, <1>3, <1>4, <1>5, CountAnswers

LEMMA ToolAnswers ==
  ASSUME ShownInv, AnswerInv, NEW i \in Ids, pc[i] = "prompting",
         tools' = [tools EXCEPT ![i] = @ + 1], Limit(i, tools[i] + 1 >= ToolLimit),
         UNCHANGED <<pc, turns, cancelled, reply, aborted, signal>>
  PROVE  AnswerInv'
<1>1. \A k \in Ids : k # i => UNCHANGED <<turns[k], tools[k], limited[k], stopped[k]>>
  BY DEF Limit, ShownInv, TypeOK
<1>2. /\ tools[i] \in Nat /\ tools'[i] = tools[i] + 1
      /\ limited'[i] <=> limited[i] \/ tools[i] + 1 >= ToolLimit
      /\ stopped'[i] <=> stopped[i] \/ tools[i] + 1 >= ToolLimit
  BY DEF Limit, ShownInv, TypeOK
<1>3. LimitIsReached(i)'
  BY <1>2, ConstantsAssumption DEF AnswerInv, LimitIsReached
<1>4. limited[i] => limited'[i]
  BY <1>2, Zenon
<1>5. stopped'[i] => stopped[i] \/ limited'[i]
  BY <1>2, Zenon
<1> QED BY <1>1, <1>3, <1>4, <1>5, CountAnswers

\* A failed request counts as a turn and stops nothing.
LEMMA FailureAnswers ==
  ASSUME ShownInv, AnswerInv, NEW i \in Ids, pc[i] = "prompting", RequestFails(i)
  PROVE  AnswerInv'
<1>1. \A k \in Ids : k # i => UNCHANGED <<turns[k], tools[k], limited[k], stopped[k]>>
  BY DEF RequestFails, ShownInv, TypeOK
<1>2. /\ turns[i] \in Nat /\ turns'[i] = turns[i] + 1
      /\ limited'[i] <=> limited[i] \/ turns[i] + 1 >= TurnLimit
      /\ UNCHANGED <<tools, stopped, pc, cancelled, reply, aborted, signal>>
  BY DEF RequestFails, ShownInv, TypeOK, scheduler, parent
<1>3. LimitIsReached(i)'
  BY <1>2, ConstantsAssumption DEF AnswerInv, LimitIsReached
<1>4. limited[i] => limited'[i]
  BY <1>2, Zenon
<1> QED BY <1>1, <1>2, <1>3, <1>4, CountAnswers

\* The child: only a turn and a tool result count, and both look at the limits.
LEMMA ChildAnswers ==
  ASSUME ShownInv, AnswerInv, NEW i \in Ids, Child(i)
  PROVE  AnswerInv'
<1> USE ConstantsAssumption
    DEF ShownInv, TypeOK, RunsWhilePrompting, AnswerInv, LimitIsReached, StopHasReason,
        AbortIsKept, NothingYet, ReplyIsTrue, TurnEnds, Limit, scheduler, parent
<1>1. CASE Checked(i)
  BY <1>1 DEF Checked
<1>2. CASE RunEnds(i)
  <2>1. pc[i] = "prompting"
    BY <1>2 DEF RunEnds
  <2> QED BY <1>2, <2>1, TurnAnswers DEF RunEnds
<1>3. CASE CallTool(i)
  BY <1>3 DEF CallTool
<1>4. CASE AskUser(i)
  BY <1>4 DEF AskUser
<1>5. CASE UserAnswers(i)
  BY <1>5 DEF UserAnswers
<1>6. CASE ToolEnds(i)
  <2>1. pc[i] = "prompting"
    BY <1>6 DEF ToolEnds
  <2> HIDE DEF ShownInv, AnswerInv, Limit
  <2>2. /\ tools' = [tools EXCEPT ![i] = @ + 1] /\ UNCHANGED <<pc, turns, cancelled, reply, aborted, signal>>
        /\ Limit(i, tools[i] + 1 >= ToolLimit)
    BY <1>6 DEF ToolEnds
  <2> QED BY <2>1, <2>2, ToolAnswers
<1>7. CASE EndTurn(i)
  <2>1. pc[i] = "prompting"
    BY <1>7 DEF EndTurn
  <2> QED BY <1>7, <2>1, TurnAnswers DEF EndTurn
<1>8. CASE RequestFails(i)
  <2>1. pc[i] = "prompting"
    BY <1>8 DEF RequestFails
  <2> QED BY <1>8, <2>1, FailureAnswers
<1>9. CASE RetryBegins(i) \/ CompactionRefused(i)
  BY <1>9 DEF RetryBegins, CompactionRefused
<1>10. QED
  BY <1>1, <1>2, <1>3, <1>4, <1>5, <1>6, <1>7, <1>8, <1>9 DEF Child

\* The parent: a child that is stopped has its call cancelled in the same step.
LEMMA ParentAnswers ==
  ASSUME ShownInv, SlotPerInvestigation, AnswerInv,
         AbortTurn \/ NextTurn \/ Shutdown \/ HoldExpires
  PROVE  AnswerInv'
<1> USE ConstantsAssumption
    DEF ShownInv, TypeOK, RunsWhilePrompting, AnswerInv, LimitIsReached, StopHasReason,
        AbortIsKept, NothingYet, ReplyIsTrue, Running, Working, child, scheduler, parent
<1>1. CASE AbortTurn
  BY <1>1 DEF AbortTurn, AbortChildren
<1>2. CASE NextTurn
  BY <1>2 DEF NextTurn
<1>3. CASE Shutdown
  BY <1>3 DEF Shutdown, AbortChildren
<1>4. CASE HoldExpires
  BY <1>4 DEF HoldExpires
<1>5. QED
  BY <1>1, <1>2, <1>3, <1>4

\* The order of the tests after child.prompt (subagent.ts:512-531): a conclusion
\* is of a run that nobody cut short, a limit was reached, and a child that has
\* worked is called cancelled only if its call was.
THEOREM AnswersAreTrue == Spec => []ReplyIsTrue
<1>1. ShownInv /\ SlotPerInvestigation /\ AnswerInv /\ [Next]_vars => AnswerInv'
  <2> SUFFICES ASSUME ShownInv, SlotPerInvestigation, AnswerInv, [Next]_vars PROVE AnswerInv'
    OBVIOUS
  <2>1. CASE \E i \in Ids : Execute(i) \/ Child(i)
    BY <2>1, ExecuteAnswers, ChildAnswers
  <2>2. CASE AbortTurn \/ NextTurn \/ Shutdown \/ HoldExpires
    BY <2>2, ParentAnswers
  <2>3. CASE UNCHANGED vars
    BY <2>3 DEF vars, child, scheduler, parent, AnswerInv, LimitIsReached, StopHasReason,
                AbortIsKept, NothingYet, ReplyIsTrue
  <2> QED BY <2>1, <2>2, <2>3 DEF Next
<1>2. Spec => []ShownInv /\ []SlotPerInvestigation
  BY ShownAlways, SlotsAreHeld, PTL
<1>3. AnswerInv => ReplyIsTrue
  BY DEF AnswerInv
<1> QED BY <1>1, <1>2, <1>3, InitAnswers, PTL DEF Spec
=============================================================================
