CONSTANTS
  T1 = T1
  U = U
  L = L
  SomeKey = SomeKey
  NoKey = NoKey
  Tasks = {T1, U, L}
  Legacy = {L}
  Key <- MCKey
  MaxRunning = 1
SPECIFICATION FairSpec
CHECK_DEADLOCK FALSE
PROPERTIES
  ExpiredOwnerIsFenced
  ImplementsOneShotJob
  EveryTaskEnds
