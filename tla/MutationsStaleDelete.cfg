SPECIFICATION Spec
CONSTANTS
    worker = worker
    caller = caller
    d1 = d1
    d2 = d2
    NoDigest = NoDigest
    Digests = {d1, d2}
    Threads = {worker, caller}
    KindsOf <- StaleDeleteKinds
    Needles <- EachNeedle
    MaxId = 4
    Initial <- Empty
    Probes = 2
    Stride = 1
    VerifyAttempts = 2
    Environment = {}
    MaxOps = 4
    MaxFaults = 1
INVARIANTS
    ActiveIsStored
CHECK_DEADLOCK FALSE
