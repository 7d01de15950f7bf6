SPECIFICATION FairSpec
CONSTANTS
    w1 = w1
    w2 = w2
    w3 = w3
    b1 = b1
    b2 = b2
    c1 = c1
    c2 = c2
    NoSocket = NoSocket
    NoCategory = NoCategory
    NoAd = NoAd
    TheCategory = c1
    Sockets = {w1, w2, w3}
    Boards = {b1, b2}
    BoardOf <- ReconnectingBoards
    RoomFor <- TightRoom
    Categories = {c1}
    Ads = {a1, a2}
    Refused = {a2}
    Texts = {}
    MaxCrashes = 0
INVARIANTS TypeOK NothingFallsBetween CopiesBounded RegisteredBoardIsListed CacheMatchesStore
PROPERTIES ClosedConnectionIsRemoved
CHECK_DEADLOCK FALSE
