SPECIFICATION ChosenSpec
CONSTANTS
    Requests = {r1, r2, r3, r4}
    RATE_LIMIT = 2
    WINDOW = 3
    SECOND = 2
    MaxTime = 5
    i1 = i1
    k1 = k1
    Instances = {i1, i2}
    Keys = {k1, k2}
    None = None
    Posts = {r1, r2, r3, r4}
    cheap = cheap
    dear = dear
    other = other
    lamp = lamp
    chair = chair
    Contents = {cheap, dear, other}
    Spellings <- BothOrders
    NameOf <- TwoNames
    MaxRestarts = 1
SYMMETRY Symmetry
INVARIANTS
    LimitHolds
    CreatesAreExact
PROPERTIES
    RefusalsAreFair
    LaterRetryIsReplayed
CHECK_DEADLOCK FALSE
