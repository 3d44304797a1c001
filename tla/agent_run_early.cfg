\* A text is typed during the compaction that comes before a prompt.
CONSTANTS
    Messages = {m1, m2, m3}
    Main = main
    Flushers = {f1}
    MaxRetries = 1
    MaxCalls = 1
    None = None
SPECIFICATION EarlySpec
SYMMETRY Symmetry
INVARIANTS IdleHasNoRun
\* The user may have nothing more to say.
CHECK_DEADLOCK FALSE
