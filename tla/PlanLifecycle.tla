--------------------------- MODULE PlanLifecycle ----------------------------
(***************************************************************************)
(* Deployment plans (plans.py, store.put_deployment_plan, and the start of  *)
(* services.py): draft, validate, freeze, deploy.  A handler reads a plan,  *)
(* evaluates it for a while and writes it back on the condition that the    *)
(* content hash it read is still the stored one.  The condition is looked   *)
(* at twice: in a SELECT, and in the WHERE clause of the UPDATE.  Handlers  *)
(* of other Cores act in between.                                           *)
(***************************************************************************)
EXTENDS Naturals

CONSTANTS
    Cores,      \* Core processes on one store, one handler each at a time
    Plans,      \* plan identifiers (uuid4, never reused)
    MaxClock,   \* bound on the number of payloads that are written
    NoPlan      \* no plan, no payload

\* A payload carries checked_at and frozen_at to the microsecond, so no two
\* evaluations hash alike; here it is its own hash.
Statuses == {"draft", "frozen"}
Verdicts == {"valid", "invalid"}
Payloads == [status : Statuses, validation : Verdicts \cup {"not_validated"},
             at : 0..MaxClock]

ASSUME ClockAssumption == MaxClock \in Nat
ASSUME NoPlanAssumption == NoPlan \notin Payloads \cup Plans

VARIABLES
    plan,      \* [Plans -> Payloads \cup {NoPlan}]  deployment_plans, committed
    clock,     \* 0..MaxClock
    pc,        \* [Cores -> Steps]
    cur,       \* [Cores -> Plans \cup {NoPlan}]     the handler's plan
    base,      \* [Cores -> Payloads \cup {NoPlan}]  what it read
    copy,      \* [Cores -> Payloads \cup {NoPlan}]  what it means to write
    told,      \* [Plans -> Payloads \cup {NoPlan}]  payload a freeze returned
    launched   \* [Plans -> Payloads \cup {NoPlan}]  payload a start used

handler == <<pc, cur, base, copy>>
vars == <<plan, clock, handler, told, launched>>

Steps == {"idle", "validate", "freeze", "select", "update", "replay"}
Stored == Payloads \cup {NoPlan}

TypeOK ==
    /\ plan \in [Plans -> Stored]
    /\ clock \in 0..MaxClock
    /\ pc \in [Cores -> Steps]
    /\ cur \in [Cores -> Plans \cup {NoPlan}]
    /\ base \in [Cores -> Stored]
    /\ copy \in [Cores -> Stored]
    /\ told \in [Plans -> Stored]
    /\ launched \in [Plans -> Stored]

Init ==
    /\ plan = [p \in Plans |-> NoPlan]
    /\ clock = 0
    /\ pc = [c \in Cores |-> "idle"]
    /\ cur = [c \in Cores |-> NoPlan]
    /\ base = [c \in Cores |-> NoPlan]
    /\ copy = [c \in Cores |-> NoPlan]
    /\ told = [p \in Plans |-> NoPlan]
    /\ launched = [p \in Plans |-> NoPlan]

-----------------------------------------------------------------------------
Return(c) ==
    /\ pc' = [pc EXCEPT ![c] = "idle"]
    /\ cur' = [cur EXCEPT ![c] = NoPlan]
    /\ base' = [base EXCEPT ![c] = NoPlan]
    /\ copy' = [copy EXCEPT ![c] = NoPlan]

Tick == clock < MaxClock /\ clock' = clock + 1

\* _create: a new draft under a new id, written without a condition.
Create(c, p) ==
    /\ pc[c] = "idle"
    /\ plan[p] = NoPlan
    /\ Tick
    /\ plan' = [plan EXCEPT ![p] =
           [status |-> "draft", validation |-> "not_validated", at |-> clock']]
    /\ UNCHANGED <<handler, told, launched>>

\* The handler reads the stored payload and with it its hash.
Read(c, p, step) ==
    /\ pc[c] = "idle"
    /\ plan[p] # NoPlan
    /\ pc' = [pc EXCEPT ![c] = step]
    /\ cur' = [cur EXCEPT ![c] = p]
    /\ base' = [base EXCEPT ![c] = plan[p]]
    /\ UNCHANGED <<plan, clock, copy, told, launched>>

\* plan_deployment: validate and freeze refuse a frozen plan.
ReadDraft(c, p) ==
    /\ plan[p] # NoPlan /\ plan[p].status = "draft"
    /\ \E action \in {"validate", "freeze"} : Read(c, p, action)

\* validate: whatever the verdict, the draft is to be written back with it.
EvaluateDraft(c) ==
    /\ pc[c] = "validate"
    /\ Tick
    /\ \E verdict \in Verdicts :
           copy' = [copy EXCEPT ![c] =
               [status |-> base[c].status, validation |-> verdict, at |-> clock']]
    /\ pc' = [pc EXCEPT ![c] = "select"]
    /\ UNCHANGED <<plan, cur, base, told, launched>>

\* freeze: evaluated once more and valid; an invalid verdict is not stored
\* (plan_not_attemptable, see Abandon).
EvaluateFreeze(c) ==
    /\ pc[c] = "freeze"
    /\ Tick
    /\ copy' = [copy EXCEPT ![c] =
           [status |-> "frozen", validation |-> "valid", at |-> clock']]
    /\ pc' = [pc EXCEPT ![c] = "select"]
    /\ UNCHANGED <<plan, cur, base, told, launched>>

\* put_deployment_plan: the SELECT still finds the hash that was read.
SelectRow(c) ==
    /\ pc[c] = "select"
    /\ plan[cur[c]] = base[c]
    /\ pc' = [pc EXCEPT ![c] = "update"]
    /\ UNCHANGED <<plan, clock, cur, base, copy, told, launched>>

\* What a successful handler returns to its caller.
Tell(c) == told' = IF copy[c].status = "frozen"
                   THEN [told EXCEPT ![cur[c]] = copy[c]] ELSE told

UpdateRowById(c) ==               \* no content_hash in the WHERE clause
    /\ pc[c] = "update"
    /\ plan' = [plan EXCEPT ![cur[c]] = copy[c]]
    /\ Tell(c)
    /\ Return(c)
    /\ UNCHANGED <<clock, launched>>

UpdateRowUncounted(c) ==          \* rowcount is not looked at
    /\ pc[c] = "update"
    /\ plan' = IF plan[cur[c]] = base[c] THEN [plan EXCEPT ![cur[c]] = copy[c]] ELSE plan
    /\ Tell(c)
    /\ Return(c)
    /\ UNCHANGED <<clock, launched>>

\* put_deployment_plan: UPDATE ... WHERE plan_id AND content_hash, commit.
UpdateRow(c) ==
    /\ pc[c] = "update"
    /\ plan[cur[c]] = base[c]
    /\ plan' = [plan EXCEPT ![cur[c]] = copy[c]]
    /\ Tell(c)
    /\ Return(c)
    /\ UNCHANGED <<clock, launched>>

ReadAnyStatus(c, p) ==            \* start does not look at the status
    Read(c, p, "replay")

\* deploy_service start: only a frozen plan is accepted.
ReadFrozen(c, p) ==
    /\ plan[p] # NoPlan /\ plan[p].status = "frozen"
    /\ Read(c, p, "replay")

\* deploy_service start: the plan is replayed through validate_plan, found
\* valid, and the container is created from the payload that was read.
Launch(c) ==
    /\ pc[c] = "replay"
    /\ launched' = [launched EXCEPT ![cur[c]] = base[c]]
    /\ Return(c)
    /\ UNCHANGED <<plan, clock, told>>

\* The handler raises and nothing is written: the evaluation fails, the
\* SELECT or the UPDATE finds another hash (state_conflict), the request is
\* cancelled, or the Core dies.
Abandon(c) ==
    /\ pc[c] # "idle"
    /\ Return(c)
    /\ UNCHANGED <<plan, clock, told, launched>>

Next ==
    \E c \in Cores :
        \/ \E p \in Plans : Create(c, p) \/ ReadDraft(c, p) \/ ReadFrozen(c, p)
        \/ EvaluateDraft(c) \/ EvaluateFreeze(c)
        \/ SelectRow(c) \/ UpdateRow(c)
        \/ Launch(c) \/ Abandon(c)

Spec == Init /\ [][Next]_vars

-----------------------------------------------------------------------------
\* The frozen payload a caller was handed is the stored one for ever, whoever
\* validates or freezes the same plan at the same time.
ToldIsStored == \A p \in Plans : told[p] # NoPlan => plan[p] = told[p]

\* What a service was started from is still exactly what the plan says, and
\* it is frozen: no evaluation under way at the time can change it afterwards.
LaunchedAsFrozen ==
    \A p \in Plans :
        launched[p] # NoPlan => launched[p] = plan[p] /\ plan[p].status = "frozen"

\* Handlers that read, evaluate and write in several steps on any number of
\* Cores keep the promise whose changes are single steps.
Promise == INSTANCE PlanPromise
ImplementsPromise == Promise!Spec
=============================================================================
