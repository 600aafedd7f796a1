SPECIFICATION FairSpec
CONSTANTS
  Tokens = {t1}
  Prices = {0, 3}
  Barriers <- MCBarriers
  BarrierOrder <- MCOrder
  Horizon = 2
  BatchSize = 1
  CommitLag = 0
  MaxTime = 3
  MaxObservations = 2
  MaxCrashes = 0
PROPERTIES EveryObservationLabelled
