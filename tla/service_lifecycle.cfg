\* Two Cores work on one service and may interrupt each other anywhere.
CONSTANTS
    Cores = {c1, c2}
    Services = {s1}
    Ports = {p1}
    MaxPolls = 1
    None = None
SPECIFICATION FairSpec
INVARIANTS RunningIsRecorded ConfirmedStopHolds ReadyIsEarned
PROPERTIES StopsAreUndoneByOldCopies HandlersReturn
\* Service identifiers run out.
CHECK_DEADLOCK FALSE
