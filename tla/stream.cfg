CONSTANTS
  MaxEvents = 3
  MaxLate = 2
  Limit = 2
SPECIFICATION FairSpec
CONSTRAINT ThreeOfTopLevel
CHECK_DEADLOCK FALSE
PROPERTY PageSettles
INVARIANTS
  EndMeansOver
  OutputBeforeEnd
  PageIsExact
  SettledMeansOver
