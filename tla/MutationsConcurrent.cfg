SPECIFICATION FairSpec
CONSTANTS
    worker = worker
    caller = caller
    d1 = d1
    d2 = d2
    NoDigest = NoDigest
    Digests = {d1, d2}
    Threads = {worker, caller}
    KindsOf <- TwoKinds
    Needles <- EachNeedle
    MaxId = 6
    Initial <- WithForeign
    Probes = 2
    Stride = 1
    VerifyAttempts = 2
    Environment = {"crash", "late_insert", "late_delete"}
    MaxOps = 3
    MaxFaults = 1
INVARIANTS
    TypeOK
    IdsNotShared
    IdsInvariant
    WriteAheadAccepted
PROPERTIES
    ForeignUntouched
    Terminates
CHECK_DEADLOCK FALSE
