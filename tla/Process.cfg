SPECIFICATION PartsSpec
CONSTANTS
  BaseDelay = 1
  MaxDelay = 6
  HealthyAfter = 3
  MaxStreak = 6
  Enabled = {"discovery", "tracking", "signals", "paper", "outcomes", "heartbeat"}
  MaxOutages = 1
  MaxDeaths = 2
  Interval = 1
  RestartDelay = 1
  Threshold = 1
  MaxTime = 5
  MaxRows = 1
  MaxFailures = 1
INVARIANTS Typed StateHonest BackoffSchedule BodiesUseOpenResources NumbersDated
PROPERTIES ComesBack StopReturns ShutdownCompletes DutyHeld
