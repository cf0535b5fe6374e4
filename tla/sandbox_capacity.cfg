CONSTANTS
  S1 = S1
  S2 = S2
  C1 = C1
  C2 = C2
  Reaper = Reaper
  NoSandbox = NoSandbox
  Sandboxes = {S1, S2}
  Callers = {C1, C2}
  UidOf <- MCUidOf
  MaxInstances = 1
  MaxPerUser = 1
  Workers = 1
  MaxGen = 1
SPECIFICATION Spec
CHECK_DEADLOCK FALSE
INVARIANT
  CapacityKept
