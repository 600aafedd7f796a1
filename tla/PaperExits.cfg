SPECIFICATION FairSpec
CONSTANTS
  Signals = {1, 2}
  Tokens = {"a"}
  TokenOf <- MCTokenOf
  CreatedAt <- MCCreatedAt
  Prices = {1, 2, 3}
  Proceeds <- MCProceeds
  MinLiquidPrice = 1
  Size = 4
  StartBalance = 10
  Latency = 0
  BatchSize = 1
  MaxTokenAge = 3
  MaxPosition = 4
  MaxOpen = 1
  MaxPerToken = 1
  MaxDailyLoss = 1
  MaxDrawdownPct = 40
  MaxDataAge = 2
  TakeProfitPct = 150
  StopLossPct = 20
  TrailPct = 15
  ArmPct = 15
  MaxHold = 2
  Day = 10
  CommitLag = 1
  MaxTime = 3
  MaxCrashes = 1
INVARIANTS NoLookAhead DailyLossBounded
PROPERTIES BookMovesForward EverySignalDecided TradesSettle LastingBreachLiquidates
