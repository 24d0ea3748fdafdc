SPECIFICATION FairSpec
CONSTANTS
    Options <- MCOptions
    Limits <- MCLimits
    Reported = TRUE
    PendingPolls = 2
    MaxWrites = 2
    MaxOthers = 1
INVARIANTS
    TypeOK
    ReportedIsDurable
    HiddenWhenStale
    SettingsExplained
PROPERTY
    SwitchFollows
