SPECIFICATION MCSpec
CONSTANTS
    Tickets = {t1, t2}
    MaxTip = 3
    DiskFaults = FALSE
    NodeTickets = {n1, n2, n3, n4}
    VotesPerBlock = 1
    StakeEnableHeight = 1
    StakeValidationHeight = 3
    TicketExpiry = 2
    MaxHeight = 5
INVARIANTS
    PoolIsLiveSet  NodeIsExact
PROPERTIES
    AnswersAreExact
SYMMETRY TicketSymmetry
