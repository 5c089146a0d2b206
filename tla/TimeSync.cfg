CONSTANTS
    MaxRetries = 3
    Timeout = 2
    MaxDelay = 3
    MaxReplies = 2
    Offset = 5
    Wrap = 16
    StartTimes = {4, 9, 12}
SPECIFICATION FairSpec
INVARIANTS IInv CloseToServer UnansweredOnlyByGarbage GivesUpUntouched
PROPERTY Terminates
CHECK_DEADLOCK FALSE
