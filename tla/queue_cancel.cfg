CONSTANTS
  MaxRequests = 2
  Source <- MCSource
SPECIFICATION Spec
CHECK_DEADLOCK FALSE
PROPERTIES
  DispatchedStays
