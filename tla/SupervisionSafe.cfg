SPECIFICATION FairSpec
CONSTANTS
  BaseDelay = 1
  MaxDelay = 2
  MaxAttempts = 2
  Window = 3
  Stable = 2
  MaxAbort = 1
  MaxExit = 1
INVARIANTS
  TypeOK
  SpawnsAreCounted
PROPERTIES
  BackoffIsKept
  SignalsOrphans
  StopEnds
  TriesAgain
