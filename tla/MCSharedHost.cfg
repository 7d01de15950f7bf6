SPECIFICATION FairSpec
CONSTANTS
    Nobody = Nobody
    Clients = {c1, c2}
    Hosts = {h1, h2}
    MaxThreads = 1
    MaxResenders = 2
PROPERTIES EveryClientIsAnswered
CHECK_DEADLOCK FALSE
