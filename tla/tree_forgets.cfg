\* One branch, two compactions, nothing that fails.
CONSTANTS
    MaxEntries = 5
    MaxMoves = 0
    MaxFaults = 0
    Occurring = {"answer"}
SPECIFICATION Spec
INVARIANTS NothingForgotten
\* A session may be at its last entry.
CHECK_DEADLOCK FALSE
