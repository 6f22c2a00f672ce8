SPECIFICATION PairSpec
CONSTANTS
    Requests = {1, 2}
    Inputs <- MCInputs
    Users <- MCUsers
    Products <- MCProducts
    Price <- MCPrice
    Number <- MCNumber
    BigintText <- MCBigintText
    InitialStock <- MCInitialStock
    InitialBalance <- MCInitialBalance
    NoKey = NoKey
    EmptyKey = EmptyKey
    None = None
    Relays = {w1}
    Consumers = {c1}
    RELAY_MAX_ATTEMPTS = 1
    RELAY_BATCH_SIZE = 1
    OUTBOX_CLEANUP_BATCH = 1
    PREFETCH = 1
    DELIVERY_LIMIT = 1
    MaxCrashes = 1
INVARIANTS
    ReceiptsArePaid
PROPERTIES
    PaidMeansReceipted
CHECK_DEADLOCK FALSE
