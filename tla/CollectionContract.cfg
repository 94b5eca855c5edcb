SPECIFICATION FairSpec
CONSTANTS
    Clients = {c1, c2}
    NoClient = NoClient
    Tools = {t1}
    MaxChanges = 2
INVARIANTS
    TypeOK
    NoStreamLeaks
    NeverUnproved
PROPERTIES
    Recovers
    ObserverEnds
CHECK_DEADLOCK FALSE
