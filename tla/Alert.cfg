SPECIFICATION FairSpec
CONSTANTS
  Interval = 1
  RestartDelay = 1
  Threshold = 1
  MaxTime = 1
  MaxRows = 1
  MaxFailures = 1
PROPERTY AlertDelivered
