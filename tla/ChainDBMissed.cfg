SPECIFICATION Spec
CONSTANTS
    Parent <- Forks
    Regular <- RegularTxs
    Stake <- StakeTxs
    Funding <- Funds
    OldOutput = "a1"
    Start = 2
    Scenarios <- Missed
    None = None
    MaxAncestorChainLength = 8
PROPERTY RewindsAsNeeded
CHECK_DEADLOCK FALSE
