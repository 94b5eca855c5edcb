SPECIFICATION Spec
CONSTANTS
    Threads = {w}
    Clients = {c1, c2}
    NoClient = NoClient
    Fingerprints = {f1}
    Worker = w
    MaxEvents = 2
    QueueSize = 2
    Overlap = FALSE
    LedgerFaults = FALSE
    MaxSessions = 1
INVARIANTS
    LedgerOutlivesWorker
CHECK_DEADLOCK FALSE
