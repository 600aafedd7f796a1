SPECIFICATION FairSpec
CONSTANTS
  Tokens = {t1}
  Prices = {0, 2, 3}
  Barriers <- MCBarriers
  BarrierOrder <- MCOrder
  Horizon = 2
  BatchSize = 1
  CommitLag = 1
  MaxTime = 3
  MaxObservations = 2
  MaxCrashes = 1
INVARIANTS TypeOK RowsRight
PROPERTIES LabellingSettles
