CONSTANTS
  T1 = T1
  T2 = T2
  F = F
  Files = {F}
  NoFile = NoFile
  NoOwner = NoOwner
  NoKey = NoKey
  Tasks = {T1, T2}
  Legacy = {}
  Key <- MCKey
  Ops <- MCOps
  FilesOf <- MCFilesOf
  MaxRunning = 1
SPECIFICATION FileSpec
CHECK_DEADLOCK FALSE
INVARIANTS
  ProcessingIsOwned
  IndexedHasItsChunks
PROPERTIES
  ResultOfItsClaim
