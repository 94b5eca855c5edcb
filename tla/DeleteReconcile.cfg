SPECIFICATION FairSpec
CONSTANTS
    Digests = {d1, d2}
    Nobody = Nobody
    Starters = {s1}
    Operators = {o1}
    Limit = 2
    Asked = {1}
    MaxAttempts = 2
    MaxEvents = 3
INVARIANTS
    TypeOK
PROPERTIES
    Served
