CONSTANTS
    SocketMax = 3
    MaxAccepts = 7
SPECIFICATION FairSpec
INVARIANTS OnceUnlessHungUp CountersInStep LossWedges QueueInv
PROPERTIES WedgeIsPermanent ServedInOrder ImplementsQueue EventuallyClosed
CHECK_DEADLOCK FALSE
