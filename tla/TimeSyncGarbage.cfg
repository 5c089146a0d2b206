CONSTANTS
    MaxRetries = 3
    Timeout = 2
    MaxDelay = 3
    MaxReplies = 2
    Offset = 5
    Wrap = 16
    StartTimes = {4}
SPECIFICATION Spec
INVARIANT TimeFromServer
CHECK_DEADLOCK FALSE
