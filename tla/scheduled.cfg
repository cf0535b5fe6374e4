CONSTANTS
  J = J
  W1 = W1
  W2 = W2
  Jobs = {J}
  Workers = {W1, W2}
  MaxOccurrences = 2
SPECIFICATION FairSpec
CHECK_DEADLOCK FALSE
INVARIANTS
  FailedNeverExecuted
  NoOverlap
PROPERTIES
  SettledStaysSettled
  EveryOccurrenceSettles
