SPECIFICATION Spec
CONSTANTS
    w1 = w1
    w2 = w2
    w3 = w3
    w4 = w4
    w5 = w5
    w6 = w6
    b1 = b1
    b2 = b2
    b3 = b3
    NoSocket = NoSocket
    Sockets = {w1, w2, w3, w4, w5, w6}
    Boards = {w1, w2, w3, w4, w5, w6}
    BoardOf <- OwnBoards
    RoomFor <- CPythonRoom
    Ads = {a1}
INVARIANTS BroadcastReachesAllActive
SYMMETRY SocketSymmetry
CHECK_DEADLOCK FALSE
