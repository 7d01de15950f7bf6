SPECIFICATION FairSpec
CONSTANTS
    Base = 6
    Garbled <- NotUtf8
    Clients = {c1, c2}
    Readers = {c1}
    Families = {"IPV4", "IPV6"}
    NodeCount = 2
INVARIANTS
    TypeOK
    UnpackInvertsPack
    OnlyTheLastNodeLeaks
    PrintedWhole
    DiesOnlyOfACut
PROPERTIES
    WrittenIsPrinted
    ClientsEnd
CHECK_DEADLOCK FALSE
