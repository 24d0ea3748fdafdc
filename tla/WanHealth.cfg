SPECIFICATION Spec
CONSTANTS
    Wan = {1, 2}
    Reports <- MCReports
    Second = 1
    BootGrace = 1
    PublishStep = 2
    MaxStep = 2
    MaxTime = 3
INVARIANTS
    TypeOK
    ExactAccounting
    OutageExplained
    PublishedExact
    FailoverCounted
CHECK_DEADLOCK FALSE
