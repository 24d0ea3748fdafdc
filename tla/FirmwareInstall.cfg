SPECIFICATION FairSpec
CONSTANTS
    Router = router
    Node = {extender}
    Ports = 2
    Polls = 2
    Percent <- MCPercent
    MaxSessions = 2
INVARIANTS
    AcceptedOnce
    NeverReoffered
    ConfirmedIsReal
PROPERTY
    InstallEnds
