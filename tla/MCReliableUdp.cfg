SPECIFICATION FairSpec
CONSTANTS
    Nobody = Nobody
    Clients = {c1, c2}
    Hosts = {h1, h2}
    MaxThreads = 1
    MaxResenders = 2
INVARIANTS
    TypeOK
    OpenSlotIsResent
    CompletedWasAccepted
    OverrunTakesHosts
PROPERTIES
    EndIsConfirmed
    ClientAloneIsAnswered
    EndedSlotFallsSilent
CHECK_DEADLOCK FALSE
