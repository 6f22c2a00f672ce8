SPECIFICATION FocusSpec
CONSTANTS
    o1 = o1
    o2 = o2
    o3 = o3
    u1 = u1
    u2 = u2
    c1 = c1
    c2 = c2
    Orders = {o1, o2, o3}
    Users = {u1, u2}
    Owner <- MCOwner
    Changers = {c1, c2}
    Streams = {k1}
    Sockets = {w1}
    UserOf <- Buyer
    BUFFER_SIZE = 2
    MAX_ORDERS = 1
    None = None
    MaxChanges = 4
    MaxCrashes = 1
    Instances = {i1, i2}
    Sessions = {s1}
    Readers = {r1, r2}
    Workers = {v1}
    ACCESS_TOKEN_TTL = 1
    MaxTime = 1
    MaxFaults = 1
    MAX_POLLS = 1
    ATTEMPTS = 2
    MaxVersion = 2
    MaxCardFaults = 1
SYMMETRY Symmetry
INVARIANTS
    EventsFollowCommits
    EventsInOrder
    NoLateEvent
    DenylistHolds
    CardsAreSafe
CHECK_DEADLOCK FALSE
