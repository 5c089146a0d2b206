CONSTANTS
    MaxPackets = 3
    MaxPeers = 2
    MaxFds = 3
    StateAnswer <- SerializedState
SPECIFICATION Spec
INVARIANT LengthIsWholePackage
CHECK_DEADLOCK FALSE
