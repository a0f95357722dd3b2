SPECIFICATION Spec
CONSTANTS
    Parent <- Forks
    Regular <- RegularTxs
    Stake <- StakeTxs
    Funding <- Funds
    OldOutput = "a1"
    Start = 2
    Scenarios <- CrashInStore
    None = None
    MaxAncestorChainLength = 8
INVARIANT PurgesBack
CHECK_DEADLOCK FALSE
