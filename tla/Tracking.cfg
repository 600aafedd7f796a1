SPECIFICATION FairSpec
CONSTANTS
  Tokens = {t1, t2, t3}
  MaxConcurrent = 2
  BatchSize = 1
  MaxFailures = 2
  RetryAfter = 1
  EarlyUntil = 1
  EarlyEvery = 1
  MediumUntil = 2
  MediumEvery = 2
  NormalUntil = 3
  NormalEvery = 1
  LongEvery = 2
  RetireAfter = 4
  LastCreation = 0
  MaxTime = 4
  MaxCrashes = 1
INVARIANTS SlotsAccounted SpacingHeld NobodyStarves DeadAfterStreak
PROPERTIES Lifecycle SlotsReleased
