SPECIFICATION ChosenSpec
CONSTANTS
    w1 = w1
    w2 = w2
    w3 = w3
    main = main
    other = other
    None = None
    Jobs = {1, 2, 3, 4}
    Workers = {w1, w2, w3}
    Queues = {main, other}
    JobQueue <- TwoQueues
    WorkerQueue <- TwoQueuesWorkers
    Poison = {2}
    MaxAttempts = 2
    MaxThrows = 1
    MaxCrashes = 1
    Debits = {d1, d2, d3, d4}
    AMOUNT = 2
    INITIAL_BALANCE = 7
    maxAttempts = 3
    MaxFaults = 1
    Runs = {s1, s2, s3}
    Accounts = 2
    Orders = 2
    ItemsOf <- MCItemsOf
    MaxDeaths = 1
INVARIANTS
    JobsAreSafe
    StatsAccountForAttempts
    DebitsAreExact
    EveryRetryHasAWinner
    SeedIsRepeatable
PROPERTIES
    ProgramsEnd
