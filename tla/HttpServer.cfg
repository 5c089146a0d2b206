CONSTANTS
    Clients = {c1, c2, c3}
    NumFds = 4
    Capacity = 2
    BufSize = 10
    Requests <- FewRequests
    Pieces <- FewPieces
    PictureExists = TRUE
SYMMETRY Alike
SPECIFICATION QueueSpec
PROPERTY QueueUntilEarlyClose
INVARIANTS QueueInv EverySocketDue QueueMatchesTable OwnUnlessHangUp
           RightWhenLongEnough
CHECK_DEADLOCK FALSE
