\* Five entries, of which labels and replies with and without tool calls; one
\* navigation, fork or restart, and one write that fails.
CONSTANTS
    MaxEntries = 5
    MaxMoves = 1
    MaxFaults = 1
    Occurring = {"call", "answer", "label"}
SPECIFICATION Spec
INVARIANTS DroppedWasSummarised ToolResultsFollowCalls SavedExceptFailed
PROPERTIES ForkKeeps
\* A session may be at its last entry.
CHECK_DEADLOCK FALSE
