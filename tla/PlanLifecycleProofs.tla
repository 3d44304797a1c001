------------------------ MODULE PlanLifecycleProofs -------------------------
(***************************************************************************)
(* Machine-checked theorems about PlanLifecycle, for every set of Cores and *)
(* plans.  The invariant PlanInv adds to the properties what a handler      *)
(* knows in each of its steps: what it evaluates was a draft when it read   *)
(* it, a frozen payload it is about to write was found valid, and a frozen  *)
(* plan it replays is still the stored one.                                 *)
(***************************************************************************)
EXTENDS PlanLifecycle, TLAPS

\* A handler that is at work has read a stored payload of a plan.
ReadSomething ==
    \A c \in Cores : pc[c] # "idle" => cur[c] \in Plans /\ base[c] \in Payloads

\* validate and freeze read a draft.
EvaluatesDraft ==
    \A c \in Cores :
        pc[c] \in {"validate", "freeze", "select", "update"} => base[c].status = "draft"

\* What is about to be written is a draft with a verdict or a valid frozen plan.
WritesJudged ==
    \A c \in Cores :
        pc[c] \in {"select", "update"} =>
            /\ copy[c] \in Payloads
            /\ copy[c].validation \in Verdicts
            /\ copy[c].status = "frozen" => copy[c].validation = "valid"

\* A start replays the stored frozen plan.
ReplaysFrozen ==
    \A c \in Cores :
        pc[c] = "replay" => base[c].status = "frozen" /\ plan[cur[c]] = base[c]

\* What a freeze returned is frozen.
ToldFrozen == \A p \in Plans : told[p] # NoPlan => told[p].status = "frozen"

PlanInv ==
    /\ TypeOK
    /\ ReadSomething
    /\ EvaluatesDraft
    /\ WritesJudged
    /\ ReplaysFrozen
    /\ ToldFrozen
    /\ ToldIsStored
    /\ LaunchedAsFrozen

\* The parts of PlanInv about what handlers know, and about what is stored.
HandlersKnow == ReadSomething /\ EvaluatesDraft /\ WritesJudged /\ ReplaysFrozen
StoreKeeps == ToldFrozen /\ ToldIsStored /\ LaunchedAsFrozen

-----------------------------------------------------------------------------
\* At first nothing is stored and every Core is idle.
LEMMA InitEstablishes == Init => PlanInv
<1> SUFFICES ASSUME Init PROVE PlanInv
    OBVIOUS
<1>1. TypeOK
    BY ClockAssumption DEF Init, TypeOK, Stored, Steps
<1>2. HandlersKnow
    BY DEF Init, HandlersKnow, ReadSomething, EvaluatesDraft, WritesJudged,
           ReplaysFrozen
<1>3. StoreKeeps
    BY DEF Init, StoreKeeps, ToldFrozen, ToldIsStored, LaunchedAsFrozen
<1>4. QED
    BY <1>1, <1>2, <1>3 DEF PlanInv, HandlersKnow, StoreKeeps

\* A new draft has a fresh identifier: no handler, reply or service knows it.
LEMMA CreatePreserves ==
    ASSUME PlanInv, NEW c \in Cores, NEW p \in Plans, Create(c, p)
    PROVE  PlanInv'
<1> USE DEF PlanInv, TypeOK, Create, Tick, handler
<1>1. clock' \in 0..MaxClock
    BY ClockAssumption
<1>2. plan'[p] \in Payloads /\ plan'[p].status = "draft"
    BY <1>1 DEF Payloads, Statuses
<1>3. TypeOK'
    BY <1>1, <1>2 DEF Stored
<1>4. \A e \in Cores : pc[e] = "replay" => cur[e] # p
    BY NoPlanAssumption DEF ReplaysFrozen, ReadSomething
<1>5. HandlersKnow'
    BY <1>4 DEF HandlersKnow, ReadSomething, EvaluatesDraft, WritesJudged,
                ReplaysFrozen
<1>6. told[p] = NoPlan /\ launched[p] = NoPlan
    BY NoPlanAssumption DEF ToldIsStored, LaunchedAsFrozen
<1>7. StoreKeeps'
    BY <1>2, <1>6 DEF StoreKeeps, ToldFrozen, ToldIsStored, LaunchedAsFrozen
<1>8. QED
    BY <1>3, <1>5, <1>7 DEF HandlersKnow, StoreKeeps

\* Reading a plan changes the reader's position only.
LEMMA ReadPreserves ==
    ASSUME PlanInv, NEW c \in Cores, NEW p \in Plans,
           ReadDraft(c, p) \/ ReadFrozen(c, p)
    PROVE  PlanInv'
<1> USE DEF PlanInv, TypeOK
<1>1. ASSUME NEW step \in {"validate", "freeze", "replay"}, Read(c, p, step),
             step \in {"validate", "freeze"} => plan[p].status = "draft",
             step = "replay" => plan[p].status = "frozen"
      PROVE  PlanInv'
  <2> USE <1>1 DEF Read
  <2>1. plan[p] \in Payloads
      BY DEF Stored
  <2>2. TypeOK'
      BY DEF Steps
  <2>3. HandlersKnow'
      BY <2>1 DEF HandlersKnow, ReadSomething, EvaluatesDraft, WritesJudged,
                  ReplaysFrozen
  <2>4. StoreKeeps'
      BY DEF StoreKeeps, ToldFrozen, ToldIsStored, LaunchedAsFrozen
  <2>5. QED
      BY <2>2, <2>3, <2>4 DEF HandlersKnow, StoreKeeps
<1>2. CASE ReadDraft(c, p)
    BY <1>1, <1>2 DEF ReadDraft
<1>3. CASE ReadFrozen(c, p)
    BY <1>1, <1>3 DEF ReadFrozen
<1>4. QED
    BY <1>2, <1>3

\* An evaluation prepares a payload; it stores nothing.
LEMMA EvaluatePreserves ==
    ASSUME PlanInv, NEW c \in Cores, EvaluateDraft(c) \/ EvaluateFreeze(c)
    PROVE  PlanInv'
<1> USE DEF PlanInv, TypeOK
<1>1. base[c] \in Payloads /\ base[c].status = "draft"
    BY DEF EvaluateDraft, EvaluateFreeze, ReadSomething, EvaluatesDraft
<1>2. clock' \in 0..MaxClock
    BY ClockAssumption DEF EvaluateDraft, EvaluateFreeze, Tick
<1>3. \E x \in Payloads :
          /\ copy' = [copy EXCEPT ![c] = x]
          /\ x.validation \in Verdicts
          /\ x.status = "frozen" => x.validation = "valid"
  <2>1. CASE EvaluateDraft(c)
    <3>1. PICK verdict \in Verdicts :
              copy' = [copy EXCEPT ![c] =
                  [status |-> base[c].status, validation |-> verdict, at |-> clock']]
        BY <2>1 DEF EvaluateDraft
    <3> DEFINE x == [status |-> "draft", validation |-> verdict, at |-> clock']
    <3>2. x \in Payloads /\ x.status = "draft" /\ x.validation \in Verdicts
        BY <1>2 DEF Payloads, Statuses, Verdicts
    <3>3. copy' = [copy EXCEPT ![c] = x]
        BY <1>1, <3>1
    <3> HIDE DEF x
    <3>4. QED
        BY <3>2, <3>3
  <2>2. CASE EvaluateFreeze(c)
    <3> DEFINE x == [status |-> "frozen", validation |-> "valid", at |-> clock']
    <3>1. x \in Payloads /\ x.validation = "valid"
        BY <1>1, <1>2 DEF Payloads, Statuses, Verdicts
    <3>2. copy' = [copy EXCEPT ![c] = x]
        BY <2>2 DEF EvaluateFreeze
    <3> HIDE DEF x
    <3>3. QED
        BY <3>1, <3>2 DEF Verdicts
  <2>3. QED
      BY <2>1, <2>2
<1>4. /\ pc[c] \in {"validate", "freeze"}
      /\ pc' = [pc EXCEPT ![c] = "select"]
      /\ UNCHANGED <<plan, cur, base, told, launched>>
    BY DEF EvaluateDraft, EvaluateFreeze
<1>5. TypeOK'
    BY <1>2, <1>3, <1>4 DEF Steps, Stored
<1>6. HandlersKnow'
    BY <1>1, <1>3, <1>4 DEF HandlersKnow, ReadSomething, EvaluatesDraft,
                            WritesJudged, ReplaysFrozen
<1>7. StoreKeeps'
    BY <1>4 DEF StoreKeeps, ToldFrozen, ToldIsStored, LaunchedAsFrozen
<1>8. QED
    BY <1>5, <1>6, <1>7 DEF HandlersKnow, StoreKeeps

\* The first look at the hash only moves the handler on.
LEMMA SelectPreserves ==
    ASSUME PlanInv, NEW c \in Cores, SelectRow(c)
    PROVE  PlanInv'
<1> USE DEF PlanInv, TypeOK, SelectRow
<1>1. TypeOK'
    BY DEF Steps
<1>2. HandlersKnow'
    BY DEF HandlersKnow, ReadSomething, EvaluatesDraft, WritesJudged,
           ReplaysFrozen
<1>3. StoreKeeps'
    BY DEF StoreKeeps, ToldFrozen, ToldIsStored, LaunchedAsFrozen
<1>4. QED
    BY <1>1, <1>2, <1>3 DEF HandlersKnow, StoreKeeps

\* The UPDATE replaces the draft that was read and nothing else: no frozen
\* plan, so nothing a caller was handed and nothing a start is replaying.
LEMMA UpdatePreserves ==
    ASSUME PlanInv, NEW c \in Cores, UpdateRow(c)
    PROVE  PlanInv'
<1> USE DEF PlanInv, TypeOK, UpdateRow, Return
<1> DEFINE p == cur[c]
<1>1. /\ p \in Plans /\ copy[c] \in Payloads
      /\ plan[p] = base[c] /\ plan[p] \in Payloads /\ plan[p].status = "draft"
      /\ copy[c].status = "frozen" => copy[c].validation = "valid"
    BY DEF ReadSomething, EvaluatesDraft, WritesJudged
<1>2. TypeOK'
    BY <1>1 DEF Steps, Stored, Tell
<1>3. \A e \in Cores : pc[e] = "replay" => cur[e] # p
    BY <1>1 DEF ReplaysFrozen
<1>4. HandlersKnow'
    BY <1>3 DEF HandlersKnow, ReadSomething, EvaluatesDraft, WritesJudged,
                ReplaysFrozen
<1>5. told[p] = NoPlan /\ launched[p] = NoPlan
    BY <1>1 DEF ToldFrozen, ToldIsStored, LaunchedAsFrozen
<1>6. StoreKeeps'
    BY <1>1, <1>5 DEF StoreKeeps, ToldFrozen, ToldIsStored, LaunchedAsFrozen, Tell
<1>7. QED
    BY <1>2, <1>4, <1>6 DEF HandlersKnow, StoreKeeps

\* A start uses the frozen payload it replayed, and a handler may give up.
LEMMA LeavePreserves ==
    ASSUME PlanInv, NEW c \in Cores, Launch(c) \/ Abandon(c)
    PROVE  PlanInv'
<1> USE DEF PlanInv, TypeOK, Return
<1>1. /\ pc' = [pc EXCEPT ![c] = "idle"]
      /\ cur' = [cur EXCEPT ![c] = NoPlan]
      /\ base' = [base EXCEPT ![c] = NoPlan]
      /\ copy' = [copy EXCEPT ![c] = NoPlan]
      /\ UNCHANGED <<plan, clock, told>>
    BY DEF Launch, Abandon
<1>2. \/ UNCHANGED launched
      \/ /\ cur[c] \in Plans /\ plan[cur[c]] \in Payloads
         /\ plan[cur[c]].status = "frozen"
         /\ launched' = [launched EXCEPT ![cur[c]] = plan[cur[c]]]
    BY DEF Launch, Abandon, ReplaysFrozen, ReadSomething
<1>3. TypeOK'
    BY <1>1, <1>2 DEF Steps, Stored
<1>4. HandlersKnow'
    BY <1>1 DEF HandlersKnow, ReadSomething, EvaluatesDraft, WritesJudged,
                ReplaysFrozen
<1>5. StoreKeeps'
    BY <1>1, <1>2 DEF StoreKeeps, ToldFrozen, ToldIsStored, LaunchedAsFrozen
<1>6. QED
    BY <1>3, <1>4, <1>5 DEF HandlersKnow, StoreKeeps

LEMMA StepPreserves == PlanInv /\ [Next]_vars => PlanInv'
<1> SUFFICES ASSUME PlanInv, [Next]_vars PROVE PlanInv'
    OBVIOUS
<1>1. CASE Next
  <2>1. PICK c \in Cores :
            \/ \E p \in Plans : Create(c, p) \/ ReadDraft(c, p) \/ ReadFrozen(c, p)
            \/ EvaluateDraft(c) \/ EvaluateFreeze(c)
            \/ SelectRow(c) \/ UpdateRow(c)
            \/ Launch(c) \/ Abandon(c)
      BY <1>1 DEF Next
  <2>2. QED
      BY <2>1, CreatePreserves, ReadPreserves, EvaluatePreserves,
         SelectPreserves, UpdatePreserves, LeavePreserves
<1>2. CASE UNCHANGED vars
    BY <1>2 DEF vars, handler, PlanInv, TypeOK, ReadSomething, EvaluatesDraft,
                WritesJudged, ReplaysFrozen, ToldFrozen, ToldIsStored, LaunchedAsFrozen
<1>3. QED
    BY <1>1, <1>2

\* PlanInv holds whatever the Cores do and wherever their handlers end.
THEOREM PlanInvariant == Spec => []PlanInv
    BY InitEstablishes, StepPreserves, PTL DEF Spec

\* Every variable of PlanLifecycle keeps its type.
THEOREM TypeCorrect == Spec => []TypeOK
<1>1. PlanInv => TypeOK
    BY DEF PlanInv
<1>2. QED
    BY <1>1, PlanInvariant, PTL

\* put_deployment_plan: what a freeze returned stays the stored payload.
THEOREM FreezesAreKept == Spec => []ToldIsStored
<1>1. PlanInv => ToldIsStored
    BY DEF PlanInv
<1>2. QED
    BY <1>1, PlanInvariant, PTL

\* deploy_service start: what a service was started from stays what the
\* frozen plan says.
THEOREM LaunchesAreFrozen == Spec => []LaunchedAsFrozen
<1>1. PlanInv => LaunchedAsFrozen
    BY DEF PlanInv
<1>2. QED
    BY <1>1, PlanInvariant, PTL

-----------------------------------------------------------------------------
\* Only three steps change a plan, and each is one the promise allows.
LEMMA StepKeepsPromise ==
    PlanInv /\ [Next]_vars => [Promise!Next]_plan
<1> SUFFICES ASSUME PlanInv, [Next]_vars PROVE Promise!Next \/ UNCHANGED plan
    OBVIOUS
<1> USE DEF PlanInv, TypeOK
<1>1. Payloads = Promise!Payloads /\ Verdicts = Promise!Verdicts
    BY DEF Payloads, Statuses, Verdicts, Promise!Payloads, Promise!Statuses,
           Promise!Verdicts
<1>2. ASSUME NEW c \in Cores, NEW p \in Plans, Create(c, p)
      PROVE  Promise!Next
  <2>1. clock' \in 0..MaxClock
      BY <1>2, ClockAssumption DEF Create, Tick
  <2> DEFINE x == [status |-> "draft", validation |-> "not_validated",
                   at |-> clock']
  <2>2. x \in Payloads
      BY <2>1 DEF Payloads, Statuses
  <2>3. Promise!Draft(p)
      BY <1>1, <1>2, <2>2 DEF Create, Promise!Draft
  <2>4. QED
      BY <2>3 DEF Promise!Next
<1>3. ASSUME NEW c \in Cores, UpdateRow(c)
      PROVE  Promise!Next
  <2> DEFINE p == cur[c]
  <2>1. /\ p \in Plans /\ copy[c] \in Payloads
        /\ plan[p] \in Payloads /\ plan[p].status = "draft"
        /\ copy[c].validation \in Verdicts
        /\ copy[c].status = "frozen" => copy[c].validation = "valid"
        /\ plan' = [plan EXCEPT ![p] = copy[c]]
      BY <1>3 DEF UpdateRow, ReadSomething, EvaluatesDraft, WritesJudged
  <2>2. Promise!IsDraft(p)
      BY <2>1, NoPlanAssumption DEF Promise!IsDraft
  <2>3. CASE copy[c].status = "draft"
      BY <1>1, <2>1, <2>2, <2>3 DEF Promise!Judge, Promise!Next
  <2>4. CASE copy[c].status = "frozen"
      BY <1>1, <2>1, <2>2, <2>4 DEF Promise!Freeze, Promise!Next
  <2>5. QED
      BY <2>1, <2>3, <2>4 DEF Payloads, Statuses
<1>4. ASSUME NEW c \in Cores,
             \/ \E p \in Plans : ReadDraft(c, p) \/ ReadFrozen(c, p)
             \/ EvaluateDraft(c) \/ EvaluateFreeze(c)
             \/ SelectRow(c) \/ Launch(c) \/ Abandon(c)
      PROVE  UNCHANGED plan
    BY <1>4 DEF ReadDraft, ReadFrozen, Read, EvaluateDraft, EvaluateFreeze,
                SelectRow, Launch, Abandon
<1>5. CASE UNCHANGED vars
    BY <1>5 DEF vars
<1>6. QED
    BY <1>2, <1>3, <1>4, <1>5 DEF Next

\* Read, evaluate, check and write on any number of Cores implement a store
\* that drafts, judges and freezes plans in single steps.
THEOREM PlansKeepPromise == Spec => ImplementsPromise
<1>1. Init => Promise!Init
    BY DEF Init, Promise!Init
<1>2. QED
    BY <1>1, StepKeepsPromise, PlanInvariant, PTL
    DEF Spec, Promise!Spec, ImplementsPromise
=============================================================================
