SPECIFICATION Spec
CONSTANTS
    Parent <- TwoBranches
    Bought <- TicketsBought
    Lucky <- Draws
    TicketMaturity = 3
    TicketExpiry = 3
    RecoverDepth = 288
    Start = 4
    Scenarios <- All
    MaxAncestorChainLength = 8
INVARIANTS SameAsFreshSync 
PROPERTY EndsAtBestBlock
CHECK_DEADLOCK FALSE
