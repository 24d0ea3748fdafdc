SPECIFICATION FairSpec
CONSTANTS
    Mac = {phone, laptop}
    Router = router
    MaxSecret = 2
    MaxDisabled = 1
    MaxSaves = 1
    MaxRestarts = 1
INVARIANTS
    TypeOK
    NothingLeftBehind
    ChoiceKept
PROPERTIES
    DecisionKept
    OutdatedRunEnds
CHECK_DEADLOCK FALSE
