CONSTANTS
  MaxResizes = 3
  Tiny = {2}
SPECIFICATION FairSpec
INVARIANTS TypeOK FreshAtRest
PROPERTIES NeverBackwards StopEndsMonitoring
