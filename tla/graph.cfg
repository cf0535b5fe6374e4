CONSTANTS
  B = B
  C = C
  F = F
  G = G
  E = E
  Jobs = {B, C}
  Leftover = {}
  Slots = 1
  Mode <- MCMode
  Files = {F, G}
  Records = {E}
  RecordsOf <- MCRecordsOf
  NoJob = NoJob
  Workers = 1
  QueueSize = 1
  MaxRemovals = 1
SPECIFICATION GraphFairSpec
CHECK_DEADLOCK FALSE
CONSTRAINT FewDeaths
PROPERTY BuildEnds
INVARIANTS
  IndexedIsSearchable
