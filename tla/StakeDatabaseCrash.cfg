SPECIFICATION Spec
CONSTANTS
    Parent <- TwoBranches
    Bought <- TicketsBought
    Lucky <- Draws
    TicketMaturity = 3
    TicketExpiry = 3
    RecoverDepth = 288
    Start = 4
    Scenarios <- CrashInReorg
    MaxAncestorChainLength = 8
INVARIANT KeptAccurate
CHECK_DEADLOCK FALSE
