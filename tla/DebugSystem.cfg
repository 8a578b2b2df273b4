CONSTANTS
  MaxSignals = 1
  Scenarios <- NoFork
SPECIFICATION FairSystemSpec
INVARIANT SystemTypeOK
PROPERTIES AgentOutlivesSession EndReachesUser DaemonFinishes
