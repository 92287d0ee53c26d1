SPECIFICATION Spec
CONSTANTS
  BaseDelay = 1
  MaxDelay = 2
  MaxAttempts = 2
  Window = 3
  Stable = 2
  MaxAbort = 0
  MaxExit = 0
PROPERTY SettledIsStable
