\* Two threads, two points of one collection, room for two handles, one switch
\* of the session.
SPECIFICATION CapSpec
CONSTANTS
    p = p
    q = q
    k = k
    Callers = {c1, c2}
    Slots = {p, q}
    Collections = {k}
    CollectionOf <- OneCollection
    Scopes = {"s1"}
    MaxEntries = 2
    TTL = 2
    MaxSessions = 2
    MaxHandles = 3
    MaxTime = 2
SYMMETRY Same
INVARIANTS CapTypeOK OneHandle Bounded OldHandlesDie
PROPERTIES KeptForCause
CHECK_DEADLOCK FALSE
