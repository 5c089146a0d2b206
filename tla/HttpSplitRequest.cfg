CONSTANTS
    Clients = {c1}
    NumFds = 3
    Capacity = 1
    BufSize = 12
    Requests <- AllRequests
    Pieces <- AnyPiece
    PictureExists = TRUE
SPECIFICATION QueueSpec
INVARIANT RequestLineParsed
CHECK_DEADLOCK FALSE
