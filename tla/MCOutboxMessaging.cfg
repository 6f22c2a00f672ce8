SPECIFICATION FocusSpec
CONSTANTS
    Orders = {1, 2}
    Foreign <- BothForeign
    Relays = {w1, w2}
    Consumers = {c1, c2}
    RELAY_MAX_ATTEMPTS = 2
    RELAY_BATCH_SIZE = 1
    OUTBOX_CLEANUP_BATCH = 1
    PREFETCH = 2
    DELIVERY_LIMIT = 1
    MaxCrashes = 1
    None = None
SYMMETRY Symmetry
INVARIANTS
    TypeOK
    NoEventLost
    RepeatsAreBounded
    OneReceiptPerOrder
    InboxMatchesReceipts
PROPERTIES
    ImplementsReceiptLedger
