SPECIFICATION MCSpec
CONSTANTS
  NoEntry = NoEntry
  BaseSubsidy = 20
  MulSubsidy = 4
  DivSubsidy = 5
  SubsidyReductionInterval = 5
  WorkProportion = 6
  StakeProportion = 3
  TreasuryProportion = 1
  TicketsPerBlock = 1
  StakeValidationHeight = 5
  Blocks <- MCBlocks
  Prefix <- MCPrefix
  CoinbaseMaturity = 2
  TicketMaturity = 1
  SStxChangeMaturity = 1
  MinimumStakeDiff = 3
  MaxFreshStakePerBlock = 4
  MaxRevocationsPerBlock = 2
  TreasuryInitValue = 60
  Winners <- MCWinners
  Missed <- MCMissed
  MaxLength = 6
  InPlay = {1, 2, 3, 4, 6, 7, 8, 9, 10, 11, 12, 13}
INVARIANTS   SearchesAreExact   RecordsRoundTrip 
CHECK_DEADLOCK FALSE
