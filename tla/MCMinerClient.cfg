SPECIFICATION FairSpec
CONSTANTS
  MaxCalls = 4
  MaxConnections = 3
INVARIANTS OwnAnswer TakenInOrder BehindByTimeouts Blameless
PROPERTIES CallReturns
CHECK_DEADLOCK FALSE
