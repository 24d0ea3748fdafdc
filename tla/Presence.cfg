SPECIFICATION FairPresenceSpec
CONSTANTS
    phone = phone
    Mac = {phone}
    Registered = {phone}
    Grace = 2
    MaxUptime = 3
INVARIANTS
    BeliefInSync
    AnnouncedOnce
PROPERTY
    RuntimeRegained
