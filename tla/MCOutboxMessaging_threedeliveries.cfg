SPECIFICATION FocusSpec
CONSTANTS
    Orders = {1}
    Foreign <- NoForeign
    Relays = {w1}
    Consumers = {c1}
    RELAY_MAX_ATTEMPTS = 1
    RELAY_BATCH_SIZE = 1
    OUTBOX_CLEANUP_BATCH = 1
    PREFETCH = 1
    DELIVERY_LIMIT = 3
    MaxCrashes = 0
    None = None
INVARIANT DeadLetteredAfterThirdDelivery
