SPECIFICATION Spec
CONSTANTS
  MaxAttempts = 3
  BackoffBase = 1
  MaxTime = 6
INVARIANT ReceivedWhenGot
