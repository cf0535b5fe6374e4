CONSTANTS
  MaxRequests = 3
  Source <- MCSource
SPECIFICATION FairSpec
CHECK_DEADLOCK FALSE
INVARIANTS
  TypeOK
  OneSteerPending
  FreshRuntime
PROPERTIES
  SteerThenFifo
  PausedUntilContinued
  QueueMovesOn
