SPECIFICATION Spec
CONSTANTS
  Signals = {1, 2, 3}
  Tokens = {"a", "b"}
  TokenOf <- MCTokenOf
  CreatedAt <- MCCreatedAt
  Prices = {2}
  Proceeds <- MCProceeds
  MinLiquidPrice = 1
  Size = 4
  StartBalance = 8
  Latency = 1
  BatchSize = 2
  MaxTokenAge = 3
  MaxPosition = 4
  MaxOpen = 2
  MaxPerToken = 1
  MaxDailyLoss = 10
  MaxDrawdownPct = 90
  MaxDataAge = 2
  TakeProfitPct = 30
  StopLossPct = 20
  TrailPct = 15
  ArmPct = 15
  MaxHold = 0
  Day = 10
  CommitLag = 0
  MaxTime = 4
  MaxCrashes = 1
INVARIANTS PositionCaps Solvent TradeIffApproved
CONSTRAINT Small
