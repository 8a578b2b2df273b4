SPECIFICATION FairSpec
INVARIANTS TypeOK OutputDrained FifoOutlivesContainer
PROPERTIES KeepsPromise ExitEndsSession ProgressGivesWay GoroutinesEnd
