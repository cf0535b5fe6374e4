CONSTANTS
  T1 = T1
  T2 = T2
  D = D
  Datasets = {D}
  Total = 2
  NoTask = NoTask
  NoKey = NoKey
  Tasks = {T1, T2}
  Legacy = {}
  Key <- MCKey
  MaxRunning = 2
SPECIFICATION DatasetSpec
CHECK_DEADLOCK FALSE
INVARIANTS
  DedupeKeyHeldWhileActive
  CursorIsExact
  CompletedIsFull
PROPERTIES
  SettledWithTask
