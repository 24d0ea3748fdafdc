SPECIFICATION FairSpec
CONSTANTS
    MaxEvents = 2
    MaxTime = 2
    MaxSkew = 1
    MaxFolds = 1
    MaxDelay = 3
INVARIANTS
    CountedAtMostOnce
    NothingMissed
PROPERTIES
    StoredTotalGrows
    EventuallyStored
