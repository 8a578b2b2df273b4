SPECIFICATION FairSpec
PROPERTY ClosedKillsContainer
