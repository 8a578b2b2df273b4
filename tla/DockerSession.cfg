SPECIFICATION FairSpec
INVARIANTS TypeOK OutputDrained
PROPERTIES KeepsPromise ClosingEndsSession GoroutinesEnd
