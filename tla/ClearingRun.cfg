SPECIFICATION Spec
CONSTANTS
  InitialMarginBps = 1500
  MaintenanceMarginBps = 500
  LiquidationFeeBps = 1000
  LiquidatorBps = 5000
  MaxLeverage = 10
  TickSize = 2
  MinOrderSize = 4
  MaxOrderSize = 20
  Traders = {t1, t2}
  Liquidators = {keeper}
  InitialBalance = 40
  Sizes = {4, 10}
  Prices = {0, 20}
  Marks = {0, 17, 20, 22}
  Requests = {80}
  MaxBatch = 2
  MaxOrders = 3
  MaxLiquidations = 2
  MaxEntries = 2
  MaxAdl = 1
  MaxCommits = 1
  MaxCrashes = 1
  Idle = Idle
  NoResult = NoResult
CHECK_DEADLOCK FALSE
INVARIANTS
  TypeOK
  FundAccounted
  RiskEnginesAgree
  PositionsListed
  AdlWithinRequest
PROPERTIES
  OnlyUnderwater
  PayoutBounded
