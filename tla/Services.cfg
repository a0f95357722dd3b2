SPECIFICATION MCSpec
CONSTANTS
    Parent <- Forked
    BlockGroups <- MainBlockGroups
    ReorgGroups <- MainReorgGroups
    TxGroups <- MainTxGroups
    RpcHandlers <- MainRpcHandlers
    Scenarios <- Normal
    MaxAncestorChainLength = 8
    Txs <- MempoolTxs
    NumLatestMempoolTxns = 2
    MaxHeight = 2
INVARIANTS WalksInOrder MempoolIsTracked BlockNewsIsCurrent
PROPERTIES NotifierCatchesUp  ClientsAreReleased CallsAreAnswered 
CHECK_DEADLOCK FALSE
