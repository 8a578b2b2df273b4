CONSTANT MaxSignals = 2
SPECIFICATION FairSpec
INVARIANTS TypeOK StopClosedOnce ReturnCleansUp AgentAccounted CancelCleansUp
PROPERTIES DeletesInOrder LaunchSettles Ends
