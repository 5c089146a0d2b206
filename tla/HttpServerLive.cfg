CONSTANTS
    m1 = m1
    m2 = m2
    s1 = s1
    Clients <- TheClients
    Mine <- TheProgram
    NumFds = 4
    Capacity = 1
    BufSize = 12
    Wishes <- SomeWishes
    Requests <- SomeRequests
    Pieces = {}
    PictureExists = TRUE
SPECIFICATION FairProgramSpec
INVARIANTS HarmlessIfPatient PatientIsAnswered
PROPERTIES  ComesBack
CHECK_DEADLOCK FALSE
