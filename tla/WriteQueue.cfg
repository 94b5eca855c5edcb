SPECIFICATION FairSpec
CONSTANTS
    Threads = {w, u}
    Clients = {c1}
    NoClient = NoClient
    Fingerprints = {f1}
    Worker = w
    MaxEvents = 3
    QueueSize = 2
    Overlap = FALSE
    LedgerFaults = TRUE
    MaxSessions = 2
INVARIANTS
    TypeOK
    FlushMeansDone
    Ordered
    Accounted
    InItsSession
PROPERTIES
    Drains
CHECK_DEADLOCK FALSE
