SPECIFICATION FundingSpec
CONSTANTS
  MaxFundingRateBps = 700
  FundingInterval = 8
  Marks = {17, 20, 21}
  Oracles = {0, 20}
  Timestamps = {1, 3, 17}
  PositionSizes = {5, 23}
  MaxUpdates = 4
  MaxCrashes = 1
CHECK_DEADLOCK FALSE
INVARIANTS
  IndexWithinRate
  PaymentsBalance
