CONSTANTS
    MaxPackets = 3
    MaxPeers = 2
    MaxFds = 3
    StateAnswer <- SerializedState
SPECIFICATION FairSpec
INVARIANTS IInv AnswersFollowCommands NoneSkippedUnlessMerged DescriptorsAccounted
PROPERTIES AcceptsAgain ListensOrLeaks
CHECK_DEADLOCK FALSE
