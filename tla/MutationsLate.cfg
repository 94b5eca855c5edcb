SPECIFICATION FairSpec
CONSTANTS
    worker = worker
    caller = caller
    d1 = d1
    d2 = d2
    NoDigest = NoDigest
    Digests = {d1, d2}
    Threads = {worker}
    KindsOf <- NoReplaceKinds
    Needles <- AnyNeedle
    MaxId = 8
    Initial <- TwoLegacy
    Probes = 2
    Stride = 1
    VerifyAttempts = 2
    Environment = {"crash", "late_insert"}
    MaxOps = 4
    MaxFaults = 2
INVARIANTS
    ActiveIsStored
    IntentInvariant
PROPERTIES
    DeleteHasIntent
    ForeignUntouched
    Terminates
CHECK_DEADLOCK FALSE
