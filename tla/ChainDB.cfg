SPECIFICATION Spec
CONSTANTS
    Parent <- Forks
    Regular <- RegularTxs
    Stake <- StakeTxs
    Funding <- Funds
    OldOutput = "a1"
    Start = 2
    Scenarios <- All
    None = None
    MaxAncestorChainLength = 8
INVARIANTS TablesFollowChain
PROPERTIES MetaIsComplete EndsAtBestBlock
CHECK_DEADLOCK FALSE
