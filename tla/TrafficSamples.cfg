SPECIFICATION Spec
CONSTANTS
    Top = 1
    Band = 2
    Longest = 1
    MaxTime = 6
INVARIANTS
    RateExplained
    RateBounded
    TotalHeld
CHECK_DEADLOCK FALSE
