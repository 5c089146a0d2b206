CONSTANTS
    Clients = {c1, c2, c3}
    NumFds = 4
    Capacity = 1
    BufSize = 10
    Requests <- FewRequests
    Pieces <- FewPieces
    PictureExists = TRUE
SYMMETRY Alike
SPECIFICATION QueueSpec
INVARIANT NotImplementedIsOwn
CHECK_DEADLOCK FALSE
