SPECIFICATION Spec
CONSTANTS
    w1 = w1
    w2 = w2
    w3 = w3
    b1 = b1
    b2 = b2
    c1 = c1
    c2 = c2
    NoSocket = NoSocket
    NoCategory = NoCategory
    NoAd = NoAd
    TheCategory = c1
    Sockets = {w1, w2, w3}
    Boards = {w1, w2, w3}
    BoardOf <- OwnBoards
    RoomFor <- TightRoom
    Categories = {c1}
    Ads = {a1}
    Refused = {}
    Texts = {}
    MaxCrashes = 0
INVARIANTS BroadcastServesAllClients

CHECK_DEADLOCK FALSE
