\* Three texts, one retry, one tool call; nobody types during the compaction
\* that comes before a prompt.
CONSTANTS
    Messages = {m1, m2, m3}
    Main = main
    Flushers = {f1}
    MaxRetries = 1
    MaxCalls = 1
    None = None
SPECIFICATION FairSpec
INVARIANTS IdleHasNoRun KeptOnce EscapeFits
PROPERTIES RunEnds QueuedIsSaid
\* The user may have nothing more to say.
CHECK_DEADLOCK FALSE
