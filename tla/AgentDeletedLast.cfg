CONSTANTS
  MaxSignals = 1
  Scenarios <- NoFork
SPECIFICATION SystemSpec
INVARIANT AgentDeletedLast
