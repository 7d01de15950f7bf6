SPECIFICATION FairSpec
CONSTANTS
    Clients = {c1, c2, c3}
    KB = 2
    Messages = 3
    SndBuf = 2
    RcvBuf = 1
    RcvDefault = 2
    Backlog = 0
INVARIANTS
    TypeOK
    AheadByTheBuffers
    FewFalseReports
    ClosedAfterAll
PROPERTIES
    EveryoneIsServed
    ClientsEnd
CHECK_DEADLOCK FALSE
