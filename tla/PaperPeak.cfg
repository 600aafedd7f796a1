SPECIFICATION Spec
CONSTANTS
  Signals = {1, 2}
  Tokens = {1, 2}
  TokenOf <- OwnToken
  CreatedAt <- MCCreatedAt
  Prices = {2, 4}
  Proceeds <- MCProceeds
  MinLiquidPrice = 2
  Size = 4
  StartBalance = 10
  Latency = 0
  BatchSize = 1
  MaxTokenAge = 3
  MaxPosition = 4
  MaxOpen = 2
  MaxPerToken = 1
  MaxDailyLoss = 1
  MaxDrawdownPct = 40
  MaxDataAge = 2
  TakeProfitPct = 30
  StopLossPct = 20
  TrailPct = 15
  ArmPct = 15
  MaxHold = 1
  Day = 10
  CommitLag = 0
  MaxTime = 3
  MaxCrashes = 0
PROPERTIES PeakNeverFalls
