SPECIFICATION Spec
CONSTANTS
    Parent <- Forked
    BlockGroups <- MainBlockGroups
    ReorgGroups <- MainReorgGroups
    TxGroups <- MainTxGroups
    RpcHandlers <- MainRpcHandlers
    Scenarios <- Late
    MaxAncestorChainLength = 8
PROPERTY KeptUpToDate
CHECK_DEADLOCK FALSE
