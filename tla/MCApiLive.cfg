SPECIFICATION PartSpec
CONSTANTS
    None = None
    i1 = i1
    o1 = o1
    u1 = u1
    c1 = c1
    k1 = k1
    w1 = w1
    r1 = r1
    v1 = v1
    Instances = {i1}
    Sessions = {s1}
    ACCESS_TOKEN_TTL = 2
    MaxTime = 3
    MaxFaults = 2
    Orders = {o1}
    Users = {u1}
    Owner <- OneOwner
    Changers = {c1}
    Streams = {k1}
    Sockets = {w1}
    UserOf <- OneUser
    BUFFER_SIZE = 2
    MAX_ORDERS = 1
    MaxChanges = 2
    MaxCrashes = 1
    Readers = {r1}
    Workers = {v1}
    MAX_POLLS = 1
    ATTEMPTS = 2
    MaxVersion = 1
    MaxCardFaults = 1
INVARIANTS
    DenylistHolds
PROPERTIES
    DenylistComesBack
    PendingWorkEnds
CHECK_DEADLOCK FALSE
