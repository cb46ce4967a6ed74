SPECIFICATION Spec
CONSTANTS
  PoolBlockNumber = 7
  BlockSize = 2
  Requests <- MCRequests
INVARIANTS
  TypeOK
  RegionsDisjoint
  StatsExact
PROPERTIES
  ImplementsPool
