CONSTANTS
  A = A
  R = R
  S = S
  NoRun = NoRun
  Runs = {A, R, S}
  MaxTries = 2
  Kind <- MCKind
  Creator <- MCCreator
SPECIFICATION FairSpec
CONSTRAINT RetriesOrTwo
INVARIANTS
  OwnershipMatchesAttempts
  NoReplay
  CompletedByItsExecution
  ThreadExclusive
  TreeClosed
PROPERTIES
  EndsAreFinal
  CancellationWins
  RuntimeKeptWhileUsed
  EveryRunEnds
