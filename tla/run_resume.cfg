CONSTANTS
  A = A
  R = R
  S = S
  NoRun = NoRun
  Runs = {A, R}
  MaxTries = 1
  Kind <- MCKind
  Creator <- MCCreator
SPECIFICATION Spec
PROPERTIES
  ResumeCancelledByUser
