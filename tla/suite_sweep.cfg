\* v1 and v2, listed and adaptive; the experiment has budget for one or two suites.
CONSTANTS
    Profiles <- MCProfiles
    Experiment <- MCExperiment
    NoRow = NoRow
SPECIFICATION Spec
INVARIANTS ExperimentIsKept SuiteIsKept StopIsKept FailureIsConfirmed
\* The experiment budget runs out.
CHECK_DEADLOCK FALSE
