\* Handlers may hang; one tool call and two evidence files, one crash.
CONSTANTS
    Tools = {m1}
    Scoped = {m1}
    Evidence = {e1, e2}
    None = None
    MaxCrashes = 1
SPECIFICATION FairSpec
INVARIANTS OwnAnswer NoLostWakeup EvidenceKept
PROPERTIES ImplementsPromise AbortedCallSettles SessionEnds EvidenceSettles
