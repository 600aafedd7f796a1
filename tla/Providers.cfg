SPECIFICATION PartsSpec
CONSTANTS
  Tokens = {t1, t2}
  PollLimit = 2
  BackfillLimit = 1
  MaxAttempts = 2
  MaxTime = 1
  MaxErrors = 1
  HttpAttempts = 3
  BackoffBase = 1
  HttpTime = 6
  BaseDelay = 1
  MaxDelay = 3
  MaxCreated = 3
  MaxFailures = 3
  MaxCrashes = 1
INVARIANTS Typed OneDecision
PROPERTIES HistoryKept BackfillSettles EveryListedStored ReconnectPaced
