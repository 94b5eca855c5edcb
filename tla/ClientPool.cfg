SPECIFICATION FairSpec
CONSTANTS
    Threads = {t1, t2}
    Clients = {c1, c2, c3}
    NoClient = NoClient
    Fingerprints = {f1, f2}
INVARIANTS
    TypeOK
    NeverClosedInUse
    ClosedExactlyOnce
    PoolInvariant
PROPERTIES
    RetiredGetClosed
