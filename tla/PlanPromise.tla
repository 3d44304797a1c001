---------------------------- MODULE PlanPromise -----------------------------
(***************************************************************************)
(* What the store promises of a deployment plan (the docstring of           *)
(* put_deployment_plan): a draft may be evaluated again and again, a frozen *)
(* plan was found valid, and is never changed.  Every change is one step.   *)
(***************************************************************************)
EXTENDS Naturals

CONSTANTS
    Plans,      \* plan identifiers
    MaxClock,   \* bound on the time stamps, see PlanLifecycle
    NoPlan      \* no payload stored

VARIABLE plan   \* the stored payload of every plan

Statuses == {"draft", "frozen"}
Verdicts == {"valid", "invalid"}
Payloads == [status : Statuses, validation : Verdicts \cup {"not_validated"},
             at : 0..MaxClock]

Init == plan = [p \in Plans |-> NoPlan]

Draft(p) ==
    /\ plan[p] = NoPlan
    /\ \E x \in Payloads : /\ x.status = "draft" /\ x.validation = "not_validated"
                           /\ plan' = [plan EXCEPT ![p] = x]

IsDraft(p) == plan[p] # NoPlan /\ plan[p].status = "draft"

Judge(p) ==
    /\ IsDraft(p)
    /\ \E x \in Payloads : /\ x.status = "draft" /\ x.validation \in Verdicts
                           /\ plan' = [plan EXCEPT ![p] = x]

Freeze(p) ==
    /\ IsDraft(p)
    /\ \E x \in Payloads : /\ x.status = "frozen" /\ x.validation = "valid"
                           /\ plan' = [plan EXCEPT ![p] = x]

Next == \E p \in Plans : Draft(p) \/ Judge(p) \/ Freeze(p)

Spec == Init /\ [][Next]_plan
=============================================================================
