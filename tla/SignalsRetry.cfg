SPECIFICATION PartsSpec
CONSTANTS
  Parts = {"signals"}
  Tokens = {t1}
  Fires <- MCFires
  BatchSize = 1
  MinInterval = 0
  Lookback = 2
  MaxTime = 2
  Curves <- MCCurves
  RealSol <- MCRealSol
  Supply = 24
  PoolBase = 2
  PoolQuote = 2
  DefaultBase = 8
  DefaultQuote = 4
  Gaps <- MCGaps
  MarketLookback = 4
  WindowSeconds = 3
  MinAge = 2
  MaxAge = 3
  MinVelocity = 1
  MaxSinceTrade = 1
  MinLiquidity = 1
  Stakes = {2}
  FeeRate <- MCFeeRate
  MarketTime = 3
  MaxGaps = 1
  MaxErrors = 1
  MaxCrashes = 0
PROPERTIES FailureRetried
