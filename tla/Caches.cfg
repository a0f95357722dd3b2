SPECIFICATION MCSpec
CONSTANTS
    Hashes = {h1, h2, h3, h4}
    Infos = {i1, i2}
    MaxSizes <- Sizes
    Tickets = {t1}
    MaxTip = 2
    Addrs = {"x", "y"}
    ProjectAddress = "none"
    Cap = 2
    CapAddr = 2
    MaxUTXOsPerAddr = 1
    Parts = {"balance", "rows", "utxos", "history"}
    Readers = {"r1", "r2"}
    Wants <- AddressWants
    Blocks <- AddressBlocks
INVARIANTS
    Evictable AnswersAreCurrent CacheIsQueue  BooksAreCurrent
PROPERTIES
    OldestFirst PoolCallsEnd WaitsEnd GateServesWaiters  
CHECK_DEADLOCK FALSE
