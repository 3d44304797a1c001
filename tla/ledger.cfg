\* Two Cores share one store.
CONSTANTS
    Cores = {c1, c2}
    Runs = {r1, r2}
    Contents = {d1, d2}
    None = None
SPECIFICATION FairSpec
INVARIANTS ArtifactsWhole ReplyMatchesLedger NoOrphanRun
PROPERTIES VerdictIsFinal ImplementsLifecycle OutcomeIsRecorded
