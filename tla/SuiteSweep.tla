----------------------------- MODULE SuiteSweep -----------------------------
(***************************************************************************)
(* benchmark_suite performance_sweep (suite.py, suite_policy.py) under the  *)
(* host's experiment budget (task_scope.py): a suite reserves the whole     *)
(* budget of its profile in its Run, then walks the list of points, which   *)
(* grows as it goes: a failed objective is confirmed on the spot, a good    *)
(* rung of an adaptive ladder adds the next one.  A suite that is cancelled *)
(* or killed gives nothing back.                                            *)
(***************************************************************************)
EXTENDS Integers, Sequences, SequencesExt

CONSTANTS
    Profiles,       \* the profiles a host may freeze, see ProfilesAssumption
    Experiment,     \* [calls, points, requests]: the host's experiment_budget
    NoRow           \* no earlier measured row

\* A point of a plan: long says that input plus output exceed the context of
\* the service, barred that it is destructive and not authorised.
ProfilesAssumption ==
    /\ \A p \in Profiles :
        /\ p.modern \in BOOLEAN /\ p.adaptive \in BOOLEAN
        /\ p.points \in Nat /\ p.requests \in Nat /\ p.top \in Nat
        /\ p.plan \in Seq([scenario : STRING, level : Nat, cost : Nat,
                           long : BOOLEAN, barred : BOOLEAN])
    /\ Experiment \in [calls : Nat, points : Nat, requests : Nat]

ASSUME ProfilesAssumption

VARIABLES
    profile,    \* the profile of this experiment, frozen by its hash
    sweeping,   \* BOOLEAN                         a suite is being swept
    points,     \* Seq of points                   planned and added since
    rows,       \* Seq of rows                     one per point done
    halted,     \* [Scenarios -> Halts]            the three stop sets
    used,       \* [points, requests]              of this suite
    dry,        \* BOOLEAN                         out of time or artifact bytes
    usage,      \* [calls, points, requests]       reserved in the ledger
    sent        \* [points, requests]              sent in all suites so far

sweep == <<sweeping, points, rows, halted, used, dry>>
vars == <<profile, sweep, usage, sent>>

Scenarios == {profile.plan[i].scenario : i \in DOMAIN profile.plan}
Halts == {"none", "early", "safety", "context"}
States == {"measured", "healthy", "invalid_measurement", "not_selected", "not_run_budget",
           "not_run_safety_stop", "not_run_early_stop", "not_run_context_limit",
           "unsupported_context_length"}
Objectives == {"none", "passed", "failed", "unavailable"}
Decisions == {"none", "continue", "confirm", "stop"}
Rows == [scenario : Scenarios, level : Nat, state : States,
         slo : Objectives, decision : Decisions]
Counts == [points : Nat, requests : Nat]

ASSUME NoRowAssumption ==
    NoRow \notin [scenario : STRING, level : Nat, state : States,
                  slo : Objectives, decision : Decisions]

TypeOK ==
    /\ profile \in Profiles
    /\ sweeping \in BOOLEAN
    /\ points \in Seq([scenario : Scenarios, level : Nat, cost : Nat,
                       long : BOOLEAN, barred : BOOLEAN])
    /\ rows \in Seq(Rows) /\ Len(rows) <= Len(points)
    /\ halted \in [Scenarios -> Halts]
    /\ used \in Counts
    /\ dry \in BOOLEAN
    /\ usage \in [calls : Nat, points : Nat, requests : Nat]
    /\ sent \in Counts

Nothing == [points |-> 0, requests |-> 0]

\* A measured point adds one to the points and its requests to the requests.
Plus(count, p) ==
    [points |-> count.points + 1, requests |-> count.requests + p.cost]

Idle ==
    /\ sweeping' = FALSE
    /\ points' = <<>>
    /\ rows' = <<>>
    /\ halted' = [s \in Scenarios |-> "none"]
    /\ used' = Nothing
    /\ dry' = FALSE

Init ==
    /\ profile \in Profiles
    /\ sweeping = FALSE
    /\ points = <<>>
    /\ rows = <<>>
    /\ halted = [s \in Scenarios |-> "none"]
    /\ used = Nothing
    /\ dry = FALSE
    /\ usage = [calls |-> 0, points |-> 0, requests |-> 0]
    /\ sent = Nothing

-----------------------------------------------------------------------------
\* suite_reservation: the Runs of this scope have reserved so much, a suite
\* reserves its profile's whole budget, and start_run writes it into its Run.
\* A v1 profile has no budget; its calls are counted to bound the model.
Reserve ==
    /\ usage.calls < Experiment.calls
    /\ IF profile.modern
       THEN /\ usage.points + profile.points <= Experiment.points
            /\ usage.requests + profile.requests <= Experiment.requests
            /\ usage' = [calls |-> usage.calls + 1,
                         points |-> usage.points + profile.points,
                         requests |-> usage.requests + profile.requests]
       ELSE usage' = [calls |-> usage.calls + 1, points |-> usage.points,
                      requests |-> usage.requests]

\* The Run starts, the service is ready and the smoke test passes.
Start ==
    /\ ~sweeping
    /\ Reserve
    /\ sweeping' = TRUE
    /\ points' = profile.plan
    /\ UNCHANGED <<profile, rows, halted, used, dry, sent>>

\* The service is not ready, EvalScope is missing, the smoke test or the
\* memory floor blocks the suite: a Run with a reservation and no request.
StartBlocked ==
    /\ ~sweeping
    /\ Reserve
    /\ UNCHANGED <<profile, sweep, sent>>

AtPoint == sweeping /\ Len(rows) < Len(points)
Point == points[Len(rows) + 1]

ExhaustedLate(p) ==               \* the requests of the point are not counted
    profile.modern /\ (used.points >= profile.points \/ used.requests > profile.requests \/ dry)

\* The frozen budget does not cover the point, or has run out of time or bytes.
Exhausted(p) ==
    /\ profile.modern
    /\ \/ used.points >= profile.points
       \/ used.requests + p.cost > profile.requests
       \/ dry

\* Nothing speaks against sending the point, so far.
Open(p) == ~Exhausted(p) /\ ~p.barred /\ halted[p.scenario] = "none"
Sendable(p) == Open(p) /\ ~p.long

Row(p, state, slo, decision) ==
    [scenario |-> p.scenario, level |-> p.level, state |-> state,
     slo |-> slo, decision |-> decision]

Note(p, state) ==
    /\ rows' = Append(rows, Row(p, state, "none", "none"))
    /\ UNCHANGED <<profile, sweeping, dry, usage>>

Halt(p, why) == halted' = [halted EXCEPT ![p.scenario] = why]

Spend(p) ==
    /\ used' = Plus(used, p)
    /\ sent' = Plus(sent, p)

\* One pass of the loop of _sweep that sends nothing.
Skip ==
    /\ AtPoint
    /\ UNCHANGED <<points, halted, used, sent>>
    /\ \/ Exhausted(Point) /\ Note(Point, "not_run_budget")
       \/ ~Exhausted(Point) /\ Point.barred /\ Note(Point, "not_selected")
       \/ /\ ~Exhausted(Point) /\ ~Point.barred
          /\ \/ halted[Point.scenario] = "safety" /\ Note(Point, "not_run_safety_stop")
             \/ halted[Point.scenario] = "early" /\ Note(Point, "not_run_early_stop")
             \/ halted[Point.scenario] = "context" /\ Note(Point, "not_run_context_limit")

ContextTooLong ==
    /\ AtPoint /\ Open(Point) /\ Point.long
    /\ Note(Point, "unsupported_context_length")
    /\ Halt(Point, "context")
    /\ UNCHANGED <<points, used, sent>>

SafetyUnheeded ==                 \* only this point is left out
    /\ AtPoint /\ Sendable(Point)
    /\ Note(Point, "not_run_safety_stop")
    /\ UNCHANGED <<points, halted, used, sent>>

\* _safety_block: the endpoint does not answer or a GPU is gone.
SafetyBlock ==
    /\ AtPoint /\ Sendable(Point)
    /\ Note(Point, "not_run_safety_stop")
    /\ Halt(Point, "safety")
    /\ UNCHANGED <<points, used, sent>>

\* execute_workload is not ok: killed by a signal, or no complete measurement.
\* (A killed v2 point is in two stop sets; safety is looked at first.)
MeasureFails ==
    /\ AtPoint /\ Sendable(Point)
    /\ Spend(Point)
    /\ \/ Note(Point, "not_run_safety_stop") /\ Halt(Point, "safety")
       \/ /\ Note(Point, "invalid_measurement")
          /\ IF profile.modern THEN Halt(Point, "early") ELSE UNCHANGED halted
    /\ UNCHANGED points

\* The last measured row of a scenario (healthy_by_scenario[...][-1]).
Previous(s) ==
    LET last == SelectLastInSeq(rows, LAMBDA r : r.scenario = s
                                                 /\ r.state \in {"measured", "healthy"})
    IN  IF last = 0 THEN NoRow ELSE rows[last]

DecideAgain(p, slo, drop) ==      \* a failed confirmation is confirmed again
    CASE slo = "unavailable" -> "stop"
      [] slo = "passed" -> "continue"
      [] OTHER -> IF Previous(p.scenario) # NoRow /\ drop THEN "stop" ELSE "confirm"

\* suite_policy.decide; drop says that the success rate is under its floor
\* and the throughput fell by the frozen ratio since the previous row.
Decide(p, slo, drop) ==
    LET last == Previous(p.scenario)
    IN  CASE slo = "unavailable" -> "stop"
          [] slo = "passed" -> "continue"
          [] slo = "failed" /\ last # NoRow ->
                IF drop \/ (last.level = p.level /\ last.slo = "failed")
                THEN "stop" ELSE "confirm"
          [] OTHER -> "confirm"

\* The next rung of an adaptive ladder goes to the end of the list.
Climb(p) ==
    IF profile.adaptive /\ 2 * p.level <= profile.top
    THEN points' = Append(points, [p EXCEPT !.level = 2 * @])
    ELSE UNCHANGED points

\* The same point once more, at once.
Confirm(p) == points' = InsertAt(points, Len(rows) + 2, p)

\* v2: a complete measurement, its objective and the decision it leads to.
MeasureModern ==
    /\ AtPoint /\ Sendable(Point) /\ profile.modern
    /\ \E slo \in Objectives \ {"none"}, drop \in BOOLEAN :
        LET decision == Decide(Point, slo, drop)
        IN  /\ rows' = Append(rows, Row(Point, "measured", slo, decision))
            /\ CASE decision = "confirm" -> Confirm(Point) /\ UNCHANGED halted
                 [] decision = "stop" -> Halt(Point, "early") /\ UNCHANGED points
                 [] OTHER -> Climb(Point) /\ UNCHANGED halted
    /\ Spend(Point)
    /\ UNCHANGED <<profile, sweeping, dry, usage>>

\* v1: _should_stop looks at the last two healthy rows; drop says that the
\* throughput fell between them.
MeasureLegacy ==
    /\ AtPoint /\ Sendable(Point) /\ ~profile.modern
    /\ \E slo \in {"passed", "failed"}, drop \in BOOLEAN :
        LET last == Previous(Point.scenario)
            stop == last # NoRow /\ slo = "failed" /\ last.slo = "failed" /\ drop
        IN  /\ rows' = Append(rows, Row(Point, "healthy", slo, "none"))
            /\ IF stop THEN Halt(Point, "early") /\ UNCHANGED points
               ELSE Climb(Point) /\ UNCHANGED halted
    /\ Spend(Point)
    /\ UNCHANGED <<profile, sweeping, dry, usage>>

\* The time or the artifact bytes of the suite run out.
RunDry ==
    /\ sweeping /\ profile.modern /\ ~dry
    /\ dry' = TRUE
    /\ UNCHANGED <<profile, sweeping, points, rows, halted, used, usage, sent>>

\* Every point has its row: the suite result is stored.
Finish ==
    /\ sweeping /\ Len(rows) = Len(points)
    /\ Idle
    /\ UNCHANGED <<profile, usage, sent>>

RefundOnInterrupt ==              \* only finished suites count
    /\ sweeping
    /\ Idle
    /\ \/ UNCHANGED sent
       \/ AtPoint /\ Sendable(Point) /\ sent' = Plus(sent, Point)
    /\ usage' = IF profile.modern
                THEN [calls |-> usage.calls - 1, points |-> usage.points - profile.points,
                      requests |-> usage.requests - profile.requests]
                ELSE usage
    /\ UNCHANGED profile

\* The suite is cancelled or the Core dies, between two points or within one.
Interrupt ==
    /\ sweeping
    /\ Idle
    /\ \/ UNCHANGED sent
       \/ AtPoint /\ Sendable(Point) /\ sent' = Plus(sent, Point)
    /\ UNCHANGED <<profile, usage>>

Next ==
    \/ Start \/ StartBlocked \/ Skip \/ ContextTooLong \/ SafetyBlock
    \/ MeasureFails \/ MeasureModern \/ MeasureLegacy
    \/ RunDry \/ Finish \/ Interrupt

Spec == Init /\ [][Next]_vars

-----------------------------------------------------------------------------
\* What is sent in all suites of an experiment, finished, cancelled or killed,
\* stays within the host's experiment budget (task_scope.py).
ExperimentIsKept ==
    profile.modern => /\ sent.points <= Experiment.points
                      /\ sent.requests <= Experiment.requests

\* No suite sends more than its profile's budget (benchmark-contract.md: the
\* budget includes the confirmations).
SuiteIsKept ==
    profile.modern => /\ used.points <= profile.points
                      /\ used.requests <= profile.requests

\* A row that stops its scenario: by decision, for safety, for its context.
Stops(row) ==
    \/ row.decision = "stop"
    \/ row.state \in {"not_run_safety_stop", "unsupported_context_length"}
    \/ profile.modern /\ row.state = "invalid_measurement"

\* After such a row no later row of the scenario is of a point that was sent.
StopIsKept ==
    \A i, j \in DOMAIN rows :
        i < j /\ Stops(rows[i]) /\ rows[j].scenario = rows[i].scenario
            => rows[j].state \notin {"measured", "healthy", "invalid_measurement"}

\* A failed objective is confirmed by the very next point, at the same level,
\* and a confirmation that fails is not confirmed again but stops.
FailureIsConfirmed ==
    \A i \in DOMAIN rows :
        rows[i].decision = "confirm" =>
            /\ points[i + 1].scenario = rows[i].scenario
            /\ points[i + 1].level = rows[i].level
            /\ i + 1 \in DOMAIN rows => rows[i + 1].decision # "confirm"

=============================================================================
