SPECIFICATION ExplorerSpec
CONSTANTS
    Visitors = {"c1", "c2"}
    SpokeSize = 1
    XcSize = 1
    XcChanSize = 2
    newTxBufferSize = 2
    clientSignalSize = 1
    Visits <- FullChannel
PROPERTY StopClosesConnections
CHECK_DEADLOCK FALSE
