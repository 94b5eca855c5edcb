SPECIFICATION Spec
CONSTANTS
    worker = worker
    caller = caller
    d1 = d1
    d2 = d2
    NoDigest = NoDigest
    Digests = {d1, d2}
    Threads = {worker}
    KindsOf <- SerialKinds
    Needles <- AnyNeedle
    MaxId = 5
    Initial <- Empty
    Probes = 2
    Stride = 1
    VerifyAttempts = 2
    Environment = {"crash", "foreign_write"}
    MaxOps = 5
    MaxFaults = 3
SYMMETRY Interchangeable
INVARIANTS
    NoOrphan
    RemovedIsGone
    IntentInvariant
    PlaceInvariant
PROPERTIES
    DeleteHasIntent
    ImplementsStore
CHECK_DEADLOCK FALSE
