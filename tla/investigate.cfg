\* Three calls for two slots: the child of one runs commands, asks, and has a
\* model that fails; another has its credentials checked.
CONSTANTS
    Ids = {i1, i2, i3}
    Capacity = 2
    TurnLimit = 3
    ToolLimit = 2
    Allowed = {i1}
    Asked = {i1}
    Unchecked = {i3}
    Failing = {i1}
    MaxRetries = 1
    None = None
SPECIFICATION FairSpec
INVARIANTS SlotPerInvestigation ReplyIsTrue
PROPERTIES StoppedSettles
\* Each call is made once; a command or the model may hang.
CHECK_DEADLOCK FALSE
