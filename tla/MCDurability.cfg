SPECIFICATION Spec
CONSTANTS
    w1 = w1
    w2 = w2
    w3 = w3
    b1 = b1
    b2 = b2
    c1 = c1
    c2 = c2
    NoSocket = NoSocket
    NoCategory = NoCategory
    NoAd = NoAd
    TheCategory = c1
    Sockets = {w1, w2}
    Boards = {w1, w2}
    BoardOf <- OwnBoards
    RoomFor <- TightRoom
    Categories = {c1, c2}
    Ads = {a1, a2}
    Refused = {}
    Texts = {x1}
    MaxCrashes = 1
INVARIANTS CacheMatchesStore NoDuplicateCategory ShownIsDurable
PROPERTIES StoreOnlyGrows RegistrySpec FeedSpec
CHECK_DEADLOCK FALSE
